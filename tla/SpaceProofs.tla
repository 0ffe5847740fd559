----------------------------- MODULE SpaceProofs ------------------------------
(***************************************************************************)
(* The search keeps every assignment valid, and the exhaustive walk scores *)
(* every assignment there is, as many as were announced, for any base,     *)
(* pool and set of locked slots.                                           *)
(***************************************************************************)
EXTENDS Exhaustive, SequenceTheorems, FiniteSetTheorems, WellFoundedInduction, TLAPS

-----------------------------------------------------------------------------
(* What the mutators of Assignment do to an assignment without duplicates. *)

\* Assignment::swap exchanges two occupants: neither of its places is ever
\* refused, so that it never stops half way with an operator lost.
LEMMA SwapExchanges ==
  ASSUME NEW a \in Assignments, NoDuplicates(a), NEW s \in Slots, NEW t \in Slots
  PROVE  Swapped(a, s, t) = [a EXCEPT ![s] = a[t], ![t] = a[s]]
<1> DEFINE both == Removed(Removed(a, s), t)
           one  == Seated(both, s, a[t])
<1>1. CASE s = t
  BY <1>1 DEF Swapped, Assignments
<1>2. CASE s # t
  <2>1. both = [a EXCEPT ![s] = Nobody, ![t] = Nobody]
    BY <1>2 DEF Removed, Assignments
  <2>2. one = [a EXCEPT ![s] = a[t], ![t] = Nobody]
    <3>1. CASE a[t] = Nobody
      BY <2>1, <3>1, <1>2 DEF Seated, Assignments
    <3>2. CASE a[t] # Nobody
      <4>1. At(both, a[t]) = {}
        BY <2>1, <3>2, <1>2 DEF At, NoDuplicates, Assignments
      <4>2. CanPlace(both, s, a[t])
        BY <4>1 DEF CanPlace
      <4> QED  BY <4>2, <2>1, <3>2, <1>2 DEF Seated, Placed, Assignments
    <3> QED  BY <3>1, <3>2
  <2>3. Seated(one, t, a[s]) = [a EXCEPT ![s] = a[t], ![t] = a[s]]
    <3>1. CASE a[s] = Nobody
      BY <2>2, <3>1, <1>2 DEF Seated, Assignments
    <3>2. CASE a[s] # Nobody
      <4>1. At(one, a[s]) = {}
        BY <2>2, <3>2, <1>2 DEF At, NoDuplicates, Assignments
      <4>2. CanPlace(one, t, a[s])
        BY <4>1 DEF CanPlace
      <4> QED  BY <4>2, <2>2, <3>2, <1>2 DEF Seated, Placed, Assignments
    <3> QED  BY <3>1, <3>2
  <2> QED  BY <2>3, <1>2 DEF Swapped, CanSwap
<1> QED  BY <1>1, <1>2

\* Assignment::move_to takes the operator from wherever they are and puts
\* them at the slot: its place is never refused.
LEMMA MoveMoves ==
  ASSUME NEW a \in Assignments, NEW op \in Operators, NEW s \in Slots
  PROVE  Moved(a, op, s)
           = [x \in Slots |-> IF x = s THEN op
                              ELSE IF a[x] = op THEN Nobody ELSE a[x]]
<1>1. At(Lifted(a, op), op) = {}
  BY NobodyAssumption DEF At, Lifted
<1>2. CanPlace(Lifted(a, op), s, op)
  BY <1>1 DEF CanPlace
<1> QED  BY <1>2 DEF Moved, CanMove, Placed, Lifted

-----------------------------------------------------------------------------
(* The two listings of the swaps.                                          *)

\* A swap of two slots, one of them occupied, is among those drawn.
LEMMA SwapForm ==
  ASSUME NEW a, NEW s \in Free, NEW t \in Free, s # t, ~Interchangeable(s, t),
         Occupied(a, s) \/ Occupied(a, t)
  PROVE  Swapped(a, s, t) \in SwapMoves(a)
<1> DEFINE p == <<s, t>>
<1>1. p \in Free \X Free /\ p[1] = s /\ p[2] = t
  OBVIOUS
<1> HIDE DEF p
<1>2. p \in {q \in Free \X Free :
               /\ q[1] # q[2]
               /\ ~Interchangeable(q[1], q[2])
               /\ Occupied(a, q[1]) \/ Occupied(a, q[2])}
  BY <1>1
<1>3. Swapped(a, p[1], p[2]) \in SwapMoves(a)
  BY <1>2, Zenon DEF SwapMoves
<1> QED  BY <1>1, <1>3

\* A swap of the pair in the order of the list is among those listed.
LEMMA SwapListed ==
  ASSUME NEW a, NEW s \in Free, NEW t \in Free, s \in Preceding[t],
         RoomOf[s] # RoomOf[t] \/ RoomOf[s] \in Training,
         Occupied(a, s) \/ Occupied(a, t)
  PROVE  Swapped(a, s, t) \in SwapsListed(a)
<1> DEFINE later(x) == {u \in Free :
                          /\ x \in Preceding[u]
                          /\ RoomOf[x] # RoomOf[u] \/ RoomOf[x] \in Training
                          /\ Occupied(a, x) \/ Occupied(a, u)}
           listed(x) == {Swapped(a, x, u) : u \in later(x)}
<1>1. t \in later(s)
  OBVIOUS
<1>2. SwapsListed(a) = UNION {listed(x) : x \in Free}
  BY DEF SwapsListed
<1> HIDE DEF later
<1>3. Swapped(a, s, t) \in listed(s)
  BY <1>1
<1> HIDE DEF listed
<1> QED  BY <1>2, <1>3

\* The fallback's listing of the swaps, each pair once, has those the draws
\* can make, which take the two slots in either order: a swap of two slots is
\* the swap of the other and the one (Space::neighbours, Space::swap).
LEMMA SwapsAgree ==
  ASSUME NEW a \in Assignments, NoDuplicates(a)
  PROVE  SwapsListed(a) = SwapMoves(a)
<1>1. ASSUME NEW b \in SwapsListed(a) PROVE b \in SwapMoves(a)
  <2>1. PICK s \in Free, t \in Free :
          /\ b = Swapped(a, s, t)
          /\ s \in Preceding[t]
          /\ RoomOf[s] # RoomOf[t] \/ RoomOf[s] \in Training
          /\ Occupied(a, s) \/ Occupied(a, t)
    BY <1>1 DEF SwapsListed
  <2>2. s # t
    BY <2>1, SpaceAssumption DEF Free
  <2>3. ~Interchangeable(s, t)
    BY <2>1 DEF Interchangeable
  <2> QED  BY <2>1, <2>2, <2>3, SwapForm
<1>2. ASSUME NEW b \in SwapMoves(a) PROVE b \in SwapsListed(a)
  <2>1. PICK s \in Free, t \in Free :
          /\ b = Swapped(a, s, t)
          /\ s # t /\ ~Interchangeable(s, t)
          /\ Occupied(a, s) \/ Occupied(a, t)
    BY <1>2 DEF SwapMoves
  <2>2. s \in Slots /\ t \in Slots
    BY DEF Free
  <2>3. RoomOf[s] # RoomOf[t] \/ (RoomOf[s] \in Training /\ RoomOf[t] \in Training)
    BY <2>1 DEF Interchangeable
  <2>4. CASE s \in Preceding[t]
    BY <2>1, <2>3, <2>4, SwapListed
  <2>5. CASE t \in Preceding[s]
    <3>1. Swapped(a, s, t) = [a EXCEPT ![s] = a[t], ![t] = a[s]]
      BY <2>2, SwapExchanges
    <3>2. Swapped(a, t, s) = [a EXCEPT ![t] = a[s], ![s] = a[t]]
      BY <2>2, SwapExchanges
    <3>3. b = Swapped(a, t, s)
      BY <2>1, <2>2, <3>1, <3>2 DEF Assignments
    <3>4. RoomOf[t] # RoomOf[s] \/ RoomOf[t] \in Training
      BY <2>3
    <3> QED  BY <2>1, <2>5, <3>3, <3>4, SwapListed
  <2> QED  BY <2>1, <2>2, <2>4, <2>5, SpaceAssumption
<1> QED  BY <1>1, <1>2

-----------------------------------------------------------------------------
\* Valid and the types are inductive once the initial assignment, which every
\* restart goes back to, is known to be valid itself.
IInv ==
  /\ TypeOK
  /\ Valid
  /\ NoDuplicates(initial)
  /\ \A s \in Free : initial[s] \in pool \cup {Nobody}

LEMMA InitIInv == Init => IInv
<1> SUFFICES ASSUME Init PROVE IInv
  OBVIOUS
<1>1. TypeOK
  BY SpaceAssumption DEF Init, TypeOK, PoolOf, Assignments, Free
<1>2. NoDuplicates(initial) /\ current = initial
  BY DEF Init
<1>3. \A s \in Free : initial[s] \in pool \cup {Nobody}
  BY DEF Init, PoolOf
<1>4. ASSUME NEW s \in Locked PROVE initial[s] \notin pool
  <2>1. s \in Slots /\ s \notin Free
    BY SpaceAssumption DEF Free
  <2>2. initial[s] \notin Candidates \ FixedOps(initial)
    BY SpaceAssumption, NobodyAssumption DEF FixedOps
  <2>3. initial[s] \notin {initial[t] : t \in Free} \ {Nobody}
    BY <2>1 DEF Init, NoDuplicates, Free
  <2>. QED BY <2>2, <2>3 DEF Init, PoolOf
<1> QED  BY <1>1, <1>2, <1>3, <1>4 DEF IInv, Valid

\* One slot is given an operator of the bench, or nobody, and the operator
\* leaves no other: the assignment stays valid.
LEMMA OneSlot ==
  ASSUME IInv, NEW s \in Free, NEW w \in pool \cup {Nobody},
         At(current, w) = {} \/ w = Nobody,
         NEW b, b = [current EXCEPT ![s] = w]
  PROVE  /\ b \in Assignments
         /\ NoDuplicates(b)
         /\ \A x \in Locked : b[x] = initial[x]
         /\ \A x \in Free : b[x] \in pool \cup {Nobody}
<1>1. s \in Slots /\ s \notin Locked
  BY DEF Free
<1>2. pool \subseteq Operators /\ current \in Assignments
  BY DEF IInv, TypeOK
<1>3. NoDuplicates(b)
  BY <1>1, <1>2 DEF IInv, Valid, NoDuplicates, Assignments, At
<1> QED  BY <1>1, <1>2, <1>3, SpaceAssumption DEF IInv, Valid, Assignments, Free

\* Moving an operator of the bench leaves every other slot alone: nobody is
\* lifted.
LEMMA MoveFromBench ==
  ASSUME IInv, NEW op \in Unassigned(current), NEW s \in Free
  PROVE  /\ op \in pool /\ At(current, op) = {}
         /\ Moved(current, op, s) = [current EXCEPT ![s] = op]
         /\ CanPlace(current, s, op)
<1>1. op \in pool /\ At(current, op) = {}
  BY DEF Unassigned
<1>2. op \in Operators /\ s \in Slots /\ current \in Assignments
  BY <1>1 DEF IInv, TypeOK, Free
<1>3. Moved(current, op, s)
        = [x \in Slots |-> IF x = s THEN op
                           ELSE IF current[x] = op THEN Nobody ELSE current[x]]
  BY <1>2, MoveMoves
<1>4. \A x \in Slots : current[x] # op
  BY <1>1 DEF At
<1>5. Moved(current, op, s) = [current EXCEPT ![s] = op]
  BY <1>2, <1>3, <1>4 DEF Assignments
<1> QED  BY <1>1, <1>2, <1>5 DEF CanPlace

\* What every move of the search preserves.
Good(b) ==
  /\ b \in Assignments
  /\ NoDuplicates(b)
  /\ \A x \in Locked : b[x] = initial[x]
  /\ \A x \in Free : b[x] \in pool \cup {Nobody}

LEMMA SwapGood ==
  ASSUME IInv, NEW b \in SwapMoves(current)
  PROVE  Good(b)
<1>1. PICK s \in Free, t \in Free : b = Swapped(current, s, t)
  BY DEF SwapMoves
<1>2. s \in Slots /\ t \in Slots /\ current \in Assignments
      /\ NoDuplicates(current) /\ s \notin Locked /\ t \notin Locked
  BY DEF IInv, TypeOK, Valid, Free
<1>3. b = [current EXCEPT ![s] = current[t], ![t] = current[s]]
  BY <1>1, <1>2, SwapExchanges
<1>4. b \in Assignments
  BY <1>2, <1>3 DEF Assignments
<1>5. NoDuplicates(b)
  BY <1>2, <1>3 DEF NoDuplicates, Assignments
<1>6. \A x \in Locked : b[x] = initial[x]
  BY <1>2, <1>3, SpaceAssumption DEF IInv, Valid, Assignments
<1>7. \A x \in Free : b[x] \in pool \cup {Nobody}
  BY <1>1, <1>2, <1>3 DEF IInv, Valid, Assignments, Free
<1> QED  BY <1>4, <1>5, <1>6, <1>7 DEF Good

LEMMA ReplaceGood ==
  ASSUME IInv, NEW b \in ReplaceMoves(current)
  PROVE  Good(b)
<1>1. PICK op \in Unassigned(current), s \in Free : b = Moved(current, op, s)
  BY DEF ReplaceMoves
<1> QED  BY <1>1, MoveFromBench, OneSlot DEF Good

LEMMA FillGood ==
  ASSUME IInv, NEW b \in FillMoves(current)
  PROVE  Good(b)
<1>1. PICK op \in Unassigned(current), s \in Free : b = Placed(current, s, op)
  BY DEF FillMoves
<1>2. b = [current EXCEPT ![s] = op]
  BY <1>1, MoveFromBench DEF Placed
<1> QED  BY <1>1, <1>2, MoveFromBench, OneSlot DEF Good

LEMMA RemoveGood ==
  ASSUME IInv, NEW s \in Free
  PROVE  Good(Removed(current, s))
<1>1. Removed(current, s) = [current EXCEPT ![s] = Nobody]
  BY DEF Removed, Free
<1> QED  BY <1>1, OneSlot DEF Good

LEMMA ClearGood ==
  ASSUME IInv, NEW b \in ClearMoves(current)
  PROVE  Good(b)
BY RemoveGood DEF ClearMoves

LEMMA NeighbourGood ==
  ASSUME IInv, NEW b \in Neighbours(current)
  PROVE  Good(b)
<1>1. CASE b \in SwapsListed(current)
  <2>1. current \in Assignments /\ NoDuplicates(current)
    BY DEF IInv, TypeOK, Valid
  <2> QED  BY <1>1, <2>1, SwapsAgree, SwapGood
<1>2. CASE \E s \in Free : b = Removed(current, s)
  BY <1>2, RemoveGood
<1>3. CASE \E s \in Free : \E op \in Unassigned(current) : b = Moved(current, op, s)
  BY <1>3, MoveFromBench, OneSlot DEF Good
<1>4. CASE \E s \in Free : \E op \in Unassigned(current) : b = Placed(current, s, op)
  <2>1. PICK s \in Free, op \in Unassigned(current) : b = Placed(current, s, op)
    BY <1>4
  <2>2. b = [current EXCEPT ![s] = op]
    BY <2>1, MoveFromBench DEF Placed
  <2> QED  BY <2>1, <2>2, MoveFromBench, OneSlot DEF Good
<1> QED  BY <1>1, <1>2, <1>3, <1>4 DEF Neighbours

\* Every step of the search preserves the invariant.
LEMMA NextIInv == IInv /\ [Next]_vars => IInv'
<1> SUFFICES ASSUME IInv, [Next]_vars PROVE IInv'
  OBVIOUS
<1>1. ASSUME Stay, Good(current') PROVE IInv'
  <2>1. initial' = initial /\ pool' = pool
    BY <1>1 DEF Stay
  <2>2. TypeOK'
    BY <1>1, <2>1 DEF IInv, TypeOK, Good
  <2>3. Valid'
    BY <1>1, <2>1 DEF IInv, Valid, Good, NoDuplicates
  <2> QED  BY <2>1, <2>2, <2>3 DEF IInv, NoDuplicates
<1>2. CASE Swap
  BY <1>1, <1>2, SwapGood DEF Swap
<1>3. CASE Replace
  BY <1>1, <1>3, ReplaceGood DEF Replace
<1>4. CASE Fill
  BY <1>1, <1>4, FillGood DEF Fill
<1>5. CASE Clear
  BY <1>1, <1>5, ClearGood DEF Clear
<1>6. CASE Fallback
  BY <1>1, <1>6, NeighbourGood DEF Fallback
<1>7. CASE Restart
  <2>1. Good(initial)
    BY DEF IInv, TypeOK, Good
  <2> QED  BY <1>1, <1>7, <2>1 DEF Restart
<1>8. CASE ClearAll
  <2> DEFINE b == [s \in Slots |-> IF s \in Free THEN Nobody ELSE initial[s]]
  <2>1. b \in Assignments
    BY DEF IInv, TypeOK, Assignments
  <2>2. NoDuplicates(b)
    BY DEF IInv, NoDuplicates
  <2>3. \A x \in Locked : b[x] = initial[x]
    BY SpaceAssumption DEF Free
  <2>4. \A x \in Free : b[x] \in pool \cup {Nobody}
    BY DEF Free
  <2>5. Good(b)
    BY <2>1, <2>2, <2>3, <2>4 DEF Good
  <2> QED  BY <1>1, <1>8, <2>5 DEF ClearAll
<1>9. CASE UNCHANGED vars
  BY <1>9 DEF vars, IInv, TypeOK, Valid, NoDuplicates
<1> QED  BY <1>2, <1>3, <1>4, <1>5, <1>6, <1>7, <1>8, <1>9 DEF Next

\* The invariant holds throughout the search.
THEOREM SpaceInvariance == Spec => []IInv
<1>1. Init => IInv
  BY InitIInv
<1>2. IInv /\ [Next]_vars => IInv'
  BY NextIInv
<1> QED  BY <1>1, <1>2, PTL DEF Spec

\* No candidate of the search, whatever it accepts, has an operator in two
\* places, changes a locked slot or uses an operator from outside the pool.
THEOREM AlwaysValid == Spec => []Valid
<1>1. IInv => Valid
  BY DEF IInv
<1> QED  BY <1>1, SpaceInvariance, PTL

\* No swap, of any two slots of any candidate, stops half way.
THEOREM AlwaysExchanges == Spec => []SwapsExchange
<1>1. IInv => SwapsExchange
  BY SwapExchanges DEF IInv, TypeOK, Valid, SwapsExchange
<1> QED  BY <1>1, SpaceInvariance, PTL

-----------------------------------------------------------------------------
(* A way back from every move.                                             *)

\* The moves a given slot, or pair of slots, has among the neighbours.
LEMMA NeighbourForms ==
  ASSUME NEW a, NEW s \in Free
  PROVE  /\ Occupied(a, s) => Removed(a, s) \in Neighbours(a)
         /\ \A op \in Unassigned(a) :
              /\ Occupied(a, s) => Moved(a, op, s) \in Neighbours(a)
              /\ ~Occupied(a, s) => Placed(a, s, op) \in Neighbours(a)
<1> DEFINE takes(x) ==
             IF Occupied(a, x)
             THEN {Moved(a, op, x) : op \in Unassigned(a)} \cup {Removed(a, x)}
             ELSE {Placed(a, x, op) : op \in Unassigned(a)}
<1>1. takes(s) \subseteq Neighbours(a)
  <2>1. takes(s) \in {takes(x) : x \in Free}
    OBVIOUS
  <2>2. Neighbours(a) = SwapsListed(a) \cup UNION {takes(x) : x \in Free}
    BY DEF Neighbours
  <2> HIDE DEF takes
  <2> QED  BY <2>1, <2>2
<1>2. Occupied(a, s) => Removed(a, s) \in takes(s)
  OBVIOUS
<1>3. ASSUME NEW op \in Unassigned(a)
      PROVE  /\ Occupied(a, s) => Moved(a, op, s) \in takes(s)
             /\ ~Occupied(a, s) => Placed(a, s, op) \in takes(s)
  OBVIOUS
<1> HIDE DEF takes
<1> QED  BY <1>1, <1>2, <1>3

\* Between two assignments that differ in one slot there is a move: place or
\* move_to if the second has somebody there, remove if it has not.
LEMMA OneSlotBack ==
  ASSUME pool \subseteq Operators, NEW s \in Free,
         NEW a \in Assignments, NoDuplicates(a), a[s] \in pool \cup {Nobody},
         NEW w \in pool \cup {Nobody}, w # a[s],
         NEW b \in Assignments,
         b[s] = w, \A x \in Slots \ {s} : b[x] = a[x]
  PROVE  a \in Neighbours(b)
<1>1. s \in Slots
  BY DEF Free
<1>2. a = [b EXCEPT ![s] = a[s]] /\ b[s] = w
  BY <1>1 DEF Assignments
<1>3. CASE a[s] = Nobody
  <2>1. Occupied(b, s)
    BY <1>1, <1>2, <1>3 DEF Occupied
  <2>2. Removed(b, s) = a
    BY <1>1, <1>2, <1>3 DEF Removed, Assignments
  <2> QED  BY <2>1, <2>2, NeighbourForms
<1>4. CASE a[s] # Nobody
  <2>1. \A x \in Slots : b[x] # a[s]
    BY <1>1, <1>2, <1>4 DEF NoDuplicates, Assignments
  <2>2. At(b, a[s]) = {} /\ a[s] \in Operators
    BY <2>1, <1>4 DEF At
  <2>3. a[s] \in Unassigned(b)
    BY <2>2, <1>4 DEF Unassigned
  <2>4. CASE Occupied(b, s)
    <3>1. PICK who \in Operators : who = a[s]
      BY <2>2
    <3>2. Moved(b, who, s)
            = [x \in Slots |-> IF x = s THEN who
                               ELSE IF b[x] = who THEN Nobody ELSE b[x]]
      BY <1>1, <3>1, MoveMoves
    <3>3. Moved(b, a[s], s) = a
      BY <3>1, <3>2, <2>1, <1>1, <1>2 DEF Assignments
    <3> QED  BY <2>3, <2>4, <3>3, NeighbourForms
  <2>5. CASE ~Occupied(b, s)
    <3>1. Placed(b, s, a[s]) = a
      BY <1>1, <1>2, <2>2 DEF Placed, CanPlace
    <3> QED  BY <2>3, <2>5, <3>1, NeighbourForms
  <2> QED  BY <2>4, <2>5
<1> QED  BY <1>3, <1>4

LEMMA SwapBack ==
  ASSUME IInv, NEW b \in SwapMoves(current)
  PROVE  current \in SwapMoves(b)
<1>1. PICK s \in Free, t \in Free :
        /\ b = Swapped(current, s, t)
        /\ s # t /\ ~Interchangeable(s, t)
        /\ Occupied(current, s) \/ Occupied(current, t)
  BY DEF SwapMoves
<1>2. s \in Slots /\ t \in Slots /\ current \in Assignments /\ NoDuplicates(current)
  BY DEF IInv, TypeOK, Valid, Free
<1>3. b = [current EXCEPT ![s] = current[t], ![t] = current[s]]
  BY <1>1, <1>2, SwapExchanges
<1>4. b \in Assignments /\ NoDuplicates(b)
  BY SwapGood DEF Good
<1>5. Swapped(b, s, t) = [b EXCEPT ![s] = b[t], ![t] = b[s]]
  BY <1>2, <1>4, SwapExchanges
<1>6. Swapped(b, s, t) = current
  BY <1>2, <1>3, <1>5 DEF Assignments
<1>7. Occupied(b, s) \/ Occupied(b, t)
  BY <1>1, <1>2, <1>3 DEF Occupied, Assignments
<1> QED  BY <1>1, <1>6, <1>7, SwapForm

\* Every move has a move back, in every base with every pool.
THEOREM AlwaysReversible == Spec => []MovesAreReversible
<1>1. IInv => MovesAreReversible
  <2> SUFFICES ASSUME IInv, NEW b \in Neighbours(current)
               PROVE  current \in Neighbours(b)
    BY DEF MovesAreReversible
  <2>1. /\ pool \subseteq Operators /\ current \in Assignments
        /\ NoDuplicates(current) /\ b \in Assignments
        /\ \A s \in Free : s \in Slots /\ current[s] \in pool \cup {Nobody}
    BY NeighbourGood DEF IInv, TypeOK, Valid, Good, Free
  <2>2. CASE b \in SwapsListed(current)
    <3>1. b \in SwapMoves(current)
      BY <2>1, <2>2, SwapsAgree
    <3>2. current \in SwapMoves(b) /\ NoDuplicates(b)
      BY <3>1, SwapBack, SwapGood DEF Good
    <3>3. SwapsListed(b) = SwapMoves(b)
      BY <2>1, <3>2, SwapsAgree
    <3> QED  BY <3>2, <3>3 DEF Neighbours
  <2>3. CASE \E s \in Free : b = Removed(current, s) /\ Occupied(current, s)
    <3>1. PICK s \in Free : b = Removed(current, s) /\ Occupied(current, s)
      BY <2>3
    <3>2. /\ b[s] = Nobody /\ current[s] # Nobody
          /\ \A x \in Slots \ {s} : b[x] = current[x]
      BY <2>1, <3>1 DEF Removed, Occupied, Assignments
    <3> QED  BY <2>1, <3>2, OneSlotBack
  <2>4. ASSUME NEW s \in Free, NEW op \in Unassigned(current),
               b = [current EXCEPT ![s] = op]
        PROVE  current \in Neighbours(b)
    <3>1. /\ op \in pool /\ current[s] # op /\ b[s] = op
          /\ \A x \in Slots \ {s} : b[x] = current[x]
      BY <2>1, <2>4, MoveFromBench DEF At, Assignments
    <3> QED  BY <2>1, <3>1, OneSlotBack
  <2>5. CASE \E s \in Free : \E op \in Unassigned(current) : b = Moved(current, op, s)
    BY <2>4, <2>5, MoveFromBench
  <2>6. CASE \E s \in Free : \E op \in Unassigned(current) : b = Placed(current, s, op)
    BY <2>4, <2>6, MoveFromBench DEF Placed
  <2> QED  BY <2>2, <2>3, <2>5, <2>6 DEF Neighbours
<1> QED  BY <1>1, SpaceInvariance, PTL

\* What two assignments of one key have in common.
LEMMA KeySays ==
  ASSUME NEW a, NEW b, Canonical(a) = Canonical(b), NEW s \in Slots
  PROVE  /\ RoomOf[s] \in Training => a[s] = b[s]
         /\ RoomOf[s] \notin Training /\ a[s] # Nobody =>
              \E t \in Slots : RoomOf[t] = RoomOf[s] /\ b[t] = a[s]
<1> DEFINE r == RoomOf[s]
           here == {t \in Slots : RoomOf[t] = r}
<1>1. r \in Rooms /\ s \in here
  BY SpaceAssumption
<1>2. Canonical(a)[r] = Canonical(b)[r]
  OBVIOUS
<1>3. CASE r \in Training
  <2>1. [t \in here |-> a[t]] = [t \in here |-> b[t]]
    BY <1>1, <1>2, <1>3 DEF Canonical
  <2>2. [t \in here |-> a[t]][s] = a[s] /\ [t \in here |-> b[t]][s] = b[s]
    BY <1>1
  <2> QED  BY <1>3, <2>1, <2>2
<1>4. CASE r \notin Training
  <2>1. {a[t] : t \in here} \ {Nobody} = {b[t] : t \in here} \ {Nobody}
    BY <1>1, <1>2, <1>4 DEF Canonical
  <2>2. ASSUME a[s] # Nobody PROVE \E t \in here : b[t] = a[s]
    BY <1>1, <2>1, <2>2
  <2> QED  BY <1>4, <2>2
<1> QED  BY <1>3, <1>4

\* Who came into the base, or left it, shows in the key.
LEMMA NewcomerShows ==
  ASSUME NEW a, NEW b, Canonical(a) = Canonical(b),
         NEW s \in Slots, a[s] # Nobody, At(b, a[s]) = {}
  PROVE  FALSE
<1>1. \A t \in Slots : b[t] # a[s]
  BY DEF At
<1> QED  BY <1>1, KeySays

\* Two who changed places show in the key, unless the places are alike.
LEMMA ExchangeShows ==
  ASSUME NEW a \in Assignments, NoDuplicates(a), NEW s \in Slots, NEW t \in Slots,
         s # t, ~Interchangeable(s, t), a[s] # Nobody,
         NEW b, b = [a EXCEPT ![s] = a[t], ![t] = a[s]],
         NoDuplicates(b), Canonical(a) = Canonical(b)
  PROVE  FALSE
<1>1. b[t] = a[s] /\ b[s] = a[t]
  BY DEF Assignments
<1>2. Canonical(a) = Canonical(b)
  OBVIOUS
<1>3. /\ RoomOf[s] \in Training => a[s] = b[s]
      /\ RoomOf[s] \notin Training /\ a[s] # Nobody =>
           \E u \in Slots : RoomOf[u] = RoomOf[s] /\ b[u] = a[s]
  <2>1. s \in Slots
    OBVIOUS
  <2> QED  BY ONLY <1>2, <2>1, KeySays
<1>4. CASE RoomOf[s] \in Training
  <2>1. a[s] = b[s]
    BY <1>4, <1>3
  <2> QED  BY <1>1, <2>1 DEF NoDuplicates
<1>5. CASE RoomOf[s] \notin Training
  <2>1. PICK u \in Slots : RoomOf[u] = RoomOf[s] /\ b[u] = a[s]
    BY <1>5, <1>3
  <2>2. u = t
    BY <1>1, <2>1 DEF NoDuplicates
  <2> QED  BY <1>5, <2>1, <2>2 DEF Interchangeable
<1> QED  BY <1>4, <1>5

\* No move of the search leads to an assignment that the list of finalists and
\* the walk would take for the one it left, in every base with every pool:
\* what Interchangeable leaves out of propose is all that canonical ignores
\* (Space::interchangeable, Space::canonical).
THEOREM MovesAlwaysChangeTheKey == Spec => []MovesChangeTheKey
<1>1. IInv => MovesChangeTheKey
  <2> SUFFICES ASSUME IInv, NEW b \in Neighbours(current), Canonical(b) = Canonical(current)
               PROVE  FALSE
    BY DEF MovesChangeTheKey
  <2>1. /\ current \in Assignments /\ NoDuplicates(current) /\ NoDuplicates(b)
        /\ pool \subseteq Operators /\ \A s \in Free : s \in Slots
    BY NeighbourGood DEF IInv, TypeOK, Valid, Good, Free
  <2>2. CASE b \in SwapsListed(current)
    <3>0. b \in SwapMoves(current)
      BY <2>1, <2>2, SwapsAgree
    <3>1. PICK s \in Free, t \in Free :
            /\ b = Swapped(current, s, t)
            /\ s # t /\ ~Interchangeable(s, t)
            /\ Occupied(current, s) \/ Occupied(current, t)
      BY <3>0 DEF SwapMoves
    <3>2. s \in Slots /\ t \in Slots
      BY <2>1
    <3>3. b = [current EXCEPT ![s] = current[t], ![t] = current[s]]
      BY <2>1, <3>1, <3>2, SwapExchanges
    <3>4. b = [current EXCEPT ![t] = current[s], ![s] = current[t]] /\ ~Interchangeable(t, s)
      BY <2>1, <3>1, <3>3 DEF Interchangeable, Assignments
    <3>5. CASE current[s] # Nobody
      BY <2>1, <3>1, <3>2, <3>3, <3>5, ExchangeShows
    <3>6. CASE current[t] # Nobody
      BY <2>1, <3>1, <3>2, <3>4, <3>6, ExchangeShows
    <3> QED  BY <3>1, <3>5, <3>6 DEF Occupied
  <2>3. CASE \E s \in Free : b = Removed(current, s) /\ Occupied(current, s)
    <3>1. PICK s \in Free : b = Removed(current, s) /\ Occupied(current, s)
      BY <2>3
    <3>2. /\ s \in Slots /\ current[s] # Nobody /\ b[s] = Nobody
          /\ \A x \in Slots \ {s} : b[x] = current[x]
      BY <2>1, <3>1 DEF Removed, Occupied, Assignments
    <3>3. At(b, current[s]) = {}
      BY <2>1, <3>2 DEF At, NoDuplicates
    <3> QED  BY <3>2, <3>3, NewcomerShows
  <2>4. ASSUME NEW s \in Free, NEW op \in Unassigned(current),
               b = [current EXCEPT ![s] = op]
        PROVE  FALSE
    <3>1. s \in Slots /\ b[s] = op /\ op # Nobody /\ At(current, op) = {}
      BY <2>1, <2>4, MoveFromBench, NobodyAssumption DEF Assignments
    <3> QED  BY <3>1, NewcomerShows
  <2>5. CASE \E s \in Free : \E op \in Unassigned(current) : b = Moved(current, op, s)
    BY <2>4, <2>5, MoveFromBench
  <2>6. CASE \E s \in Free : \E op \in Unassigned(current) : b = Placed(current, s, op)
    BY <2>4, <2>6, MoveFromBench DEF Placed
  <2> QED  BY <2>2, <2>3, <2>5, <2>6 DEF Neighbours
<1> QED  BY <1>1, SpaceInvariance, PTL

\* The moves that put an operator of the bench in a slot.
LEMMA ReplaceForm ==
  ASSUME NEW a, NEW op \in Unassigned(a), NEW s \in Free, Occupied(a, s)
  PROVE  Moved(a, op, s) \in ReplaceMoves(a)
<1>1. <<op, s>> \in Unassigned(a) \X {t \in Free : Occupied(a, t)}
  OBVIOUS
<1>2. Moved(a, <<op, s>>[1], <<op, s>>[2]) \in ReplaceMoves(a)
  BY <1>1, Zenon DEF ReplaceMoves
<1> QED  BY <1>2

LEMMA FillForm ==
  ASSUME NEW a, NEW op \in Unassigned(a), NEW s \in Free, ~Occupied(a, s),
         CanPlace(a, s, op)
  PROVE  Placed(a, s, op) \in FillMoves(a)
<1>1. <<op, s>> \in {q \in Unassigned(a) \X {t \in Free : ~Occupied(a, t)} :
                       CanPlace(a, q[2], q[1])}
  OBVIOUS
<1>2. Placed(a, <<op, s>>[2], <<op, s>>[1]) \in FillMoves(a)
  BY <1>1, Zenon DEF FillMoves
<1> QED  BY <1>2

\* The fallback of propose has every move the draws can make and no other, in
\* every base with every pool.
THEOREM FallbackAlwaysComplete == Spec => []FallbackIsComplete
<1> DEFINE Drawn == SwapMoves(current) \cup ReplaceMoves(current)
                      \cup FillMoves(current) \cup ClearMoves(current)
<1>0. ASSUME IInv PROVE SwapsListed(current) = SwapMoves(current)
  BY <1>0, SwapsAgree DEF IInv, TypeOK, Valid
<1>1. ASSUME IInv, NEW b \in Drawn PROVE b \in Neighbours(current)
  <2>1. CASE b \in SwapMoves(current)
    BY <1>0, <1>1, <2>1 DEF Neighbours
  <2>2. CASE b \in ReplaceMoves(current)
    <3>1. PICK op \in Unassigned(current), s \in {t \in Free : Occupied(current, t)} :
            b = Moved(current, op, s)
      BY <2>2 DEF ReplaceMoves
    <3> QED  BY <3>1, NeighbourForms
  <2>3. CASE b \in FillMoves(current)
    <3>1. PICK op \in Unassigned(current), s \in {t \in Free : ~Occupied(current, t)} :
            b = Placed(current, s, op)
      BY <2>3 DEF FillMoves
    <3> QED  BY <3>1, NeighbourForms
  <2>4. CASE b \in ClearMoves(current)
    BY <2>4, NeighbourForms DEF ClearMoves
  <2> QED  BY <1>1, <2>1, <2>2, <2>3, <2>4
<1>2. ASSUME IInv, NEW b \in Neighbours(current) PROVE b \in Drawn
  <2>1. CASE b \in SwapsListed(current)
    BY <1>0, <1>2, <2>1
  <2>2. CASE \E s \in Free : Occupied(current, s) /\ b = Removed(current, s)
    BY <2>2 DEF ClearMoves
  <2>3. CASE \E s \in Free : \E op \in Unassigned(current) :
               Occupied(current, s) /\ b = Moved(current, op, s)
    <3>1. PICK s \in Free, op \in Unassigned(current) :
            Occupied(current, s) /\ b = Moved(current, op, s)
      BY <2>3
    <3>2. Moved(current, op, s) \in ReplaceMoves(current)
      BY <3>1, ReplaceForm
    <3> QED  BY <3>1, <3>2
  <2>4. CASE \E s \in Free : \E op \in Unassigned(current) :
               ~Occupied(current, s) /\ b = Placed(current, s, op)
    <3>1. PICK s \in Free, op \in Unassigned(current) :
            ~Occupied(current, s) /\ b = Placed(current, s, op)
      BY <2>4
    <3>2. Placed(current, s, op) \in FillMoves(current)
      BY <1>2, <3>1, MoveFromBench, FillForm
    <3> QED  BY <3>1, <3>2
  <2> QED  BY <1>2, <2>1, <2>2, <2>3, <2>4 DEF Neighbours
<1>3. IInv => FallbackIsComplete
  <2> SUFFICES ASSUME IInv PROVE Neighbours(current) = Drawn
    BY DEF FallbackIsComplete
  <2> HIDE DEF Drawn
  <2> QED  BY <1>1, <1>2
<1> QED  BY <1>3, SpaceInvariance, PTL

-----------------------------------------------------------------------------
(* The exhaustive walk is a search of the same space.                      *)

Frames ==
  [g : Nat \ {0}, i : Nat \ {0}, next : Nat \ {0}, left : BOOLEAN, placing : BOOLEAN]

\* The types of the walk: what a step of it may place, and where.
WalkTyped ==
  /\ stack \in Seq(Frames)
  /\ phase = "walking" => stack # <<>>
  /\ DOMAIN order \subseteq Nat \ {0}
  /\ \A p \in DOMAIN order : order[p] \in pool

LEMMA Calls ==
  ASSUME NEW g \in Nat \ {0}, NEW i \in Nat \ {0}, NEW min \in Nat \ {0}
  PROVE  Call(g, i, min) \in Frames
BY DEF Call, Frames

LEMMA NextCalls ==
  ASSUME NEW f \in Frames
  PROVE  /\ Call(f.g + 1, 1, 1) \in Frames
         /\ \A n \in Nat \ {0} : Call(f.g, f.i + 1, n) \in Frames
BY DEF Call, Frames

LEMMA Updates ==
  ASSUME NEW f \in Frames
  PROVE  /\ [f EXCEPT !.left = TRUE] \in Frames
         /\ \A n \in Nat \ {0} : /\ [f EXCEPT !.next = n] \in Frames
                                /\ [f EXCEPT !.next = n, !.placing = TRUE] \in Frames
         /\ [f EXCEPT !.next = f.next + 1, !.placing = FALSE] \in Frames
<1>1. [f EXCEPT !.left = TRUE] \in Frames
  BY DEF Frames
<1>2. \A n \in Nat \ {0} : [f EXCEPT !.next = n] \in Frames
  BY DEF Frames
<1>3. \A n \in Nat \ {0} : [f EXCEPT !.next = n, !.placing = TRUE] \in Frames
  BY DEF Frames
<1>4. f.next + 1 \in Nat \ {0}
  BY DEF Frames
<1>5. [f EXCEPT !.next = f.next + 1, !.placing = FALSE] \in Frames
  BY <1>4 DEF Frames
<1> QED  BY <1>1, <1>2, <1>3, <1>5

\* The top of the stack, and the stack with a call more or less.
LEMMA Stacks ==
  ASSUME WalkTyped, stack # <<>>
  PROVE  /\ Top \in Frames
         /\ Front(stack) \in Seq(Frames)
         /\ Len(stack) # 1 => Front(stack) # <<>>
         /\ \A f \in Frames : /\ Append(Front(stack), f) \in Seq(Frames)
                              /\ Append(Front(stack), f) # <<>>
<1>1. stack \in Seq(Frames) /\ Len(stack) \in Nat \ {0}
  BY DEF WalkTyped
<1>2. Top \in Frames
  BY <1>1 DEF Top, Last
<1>3. /\ Front(stack) \in Seq(Frames)
      /\ Len(Front(stack)) = Len(stack) - 1
  <2>1. Len(stack) - 1 \in Nat /\ \A k \in 1..(Len(stack) - 1) : stack[k] \in Frames
    BY <1>1
  <2> DEFINE rest == SubSeq(stack, 1, Len(stack) - 1)
  <2>2. /\ rest \in Seq(Frames)
        /\ Len(rest) = IF 1 <= Len(stack) - 1 THEN (Len(stack) - 1) - 1 + 1 ELSE 0
    BY <2>1, SubSeqProperties
  <2>3. Front(stack) = rest
    BY DEF Front
  <2> HIDE DEF rest
  <2> QED  BY <1>1, <2>2, <2>3
<1>4. Len(stack) # 1 => Front(stack) # <<>>
  BY <1>1, <1>3
<1>5. ASSUME NEW f \in Frames
      PROVE  Append(Front(stack), f) \in Seq(Frames) /\ Append(Front(stack), f) # <<>>
  <2>1. Append(Front(stack), f) \in Seq(Frames)
    BY <1>3
  <2>2. Len(Append(Front(stack), f)) = Len(Front(stack)) + 1
    BY <1>3
  <2> QED  BY <1>1, <1>3, <2>1, <2>2
<1> QED  BY <1>2, <1>3, <1>4, <1>5

\* What Return leaves of the stack.
LEMMA Returns ==
  ASSUME WalkTyped, stack # <<>>, Return
  PROVE  /\ stack' \in Seq(Frames)
         /\ phase' = "walking" => stack' # <<>>
BY Stacks DEF Return

\* The slot a call fills is one the solver may change.
LEMMA SlotsAreFree ==
  ASSUME WalkTyped, stack # <<>>, ~AtLeaf, ~RoomDone
  PROVE  SlotOf(Top) \in Free
<1>1. Top.g \in Nat \ {0} /\ Top.i \in Nat \ {0}
  BY Stacks DEF Frames
<1>2. Groups \in Seq(Seq(Free))
  BY WalkAssumption
<1>3. Top.g \in 1..Len(Groups)
  BY <1>1, <1>2 DEF AtLeaf
<1>4. Groups[Top.g] \in Seq(Free)
  BY <1>2, <1>3
<1>5. Top.i \in 1..Len(Groups[Top.g])
  BY <1>1, <1>4 DEF RoomDone
<1> QED  BY <1>4, <1>5 DEF SlotOf

\* A place of the walk is a move of Space, or changes nothing.
LEMMA PlacesAreMoves ==
  ASSUME IInv, NEW s \in Free, NEW op \in pool
  PROVE  \/ Placed(current, s, op) = current
         \/ Placed(current, s, op) \in FillMoves(current)
         \/ Placed(current, s, op) \in ReplaceMoves(current)
<1>1. s \in Slots /\ current \in Assignments
  BY DEF Free, IInv, TypeOK
<1>2. CASE ~CanPlace(current, s, op)
  BY <1>2 DEF Placed
<1>3. CASE CanPlace(current, s, op) /\ At(current, op) # {}
  <2>1. current[s] = op
    BY <1>3 DEF CanPlace, At
  <2> QED  BY <1>1, <1>3, <2>1 DEF Placed, Assignments
<1>4. CASE CanPlace(current, s, op) /\ At(current, op) = {}
  <2>1. op \in Unassigned(current)
    BY <1>4 DEF Unassigned
  <2>2. Moved(current, op, s) = Placed(current, s, op)
    BY <1>4, <2>1, MoveFromBench DEF Placed
  <2>3. CASE Occupied(current, s)
    BY <2>1, <2>2, <2>3, ReplaceForm
  <2>4. CASE ~Occupied(current, s)
    BY <1>4, <2>1, <2>4, FillForm
  <2> QED  BY <2>3, <2>4
<1> QED  BY <1>2, <1>3, <1>4

\* So is taking an operator back.
LEMMA RemovesAreMoves ==
  ASSUME IInv, NEW s \in Free
  PROVE  \/ Removed(current, s) = current
         \/ Removed(current, s) \in ClearMoves(current)
<1>1. CASE Occupied(current, s)
  BY <1>1 DEF ClearMoves
<1>2. CASE ~Occupied(current, s)
  <2>1. s \in Slots /\ current \in Assignments /\ current[s] = Nobody
    BY <1>2 DEF Free, IInv, TypeOK, Occupied
  <2> QED  BY <2>1 DEF Removed, Assignments
<1> QED  BY <1>1, <1>2

\* Every step of either strategy is a move of Space or leaves the assignment
\* alone.
LEMMA StepsAreMoves ==
  IInv /\ WalkTyped /\ [SolveNext]_<<vars, walk>> => [Next]_vars
<1> SUFFICES ASSUME IInv, WalkTyped, [SolveNext]_<<vars, walk>> PROVE [Next]_vars
  OBVIOUS
<1> USE DEF vars
<1>1. CASE Anneal
  BY <1>1 DEF Anneal, Next
<1>2. CASE Begin
  BY <1>2 DEF Begin, Next
<1>3. CASE Score \/ Halt \/ NextRoom \/ LeaveEmpty \/ GiveUp
  BY <1>3 DEF Score, Halt, NextRoom, LeaveEmpty, GiveUp, InLoop, Walking
<1>4. CASE Try
  <2>1. stack # <<>> /\ ~AtLeaf /\ ~RoomDone /\ Stay
    BY <1>4 DEF Try, InLoop, Walking, WalkTyped, Stay
  <2>2. PICK p \in DOMAIN order : current' = Placed(current, SlotOf(Top), order[p])
    BY <1>4 DEF Try, Untried
  <2>3. SlotOf(Top) \in Free /\ order[p] \in pool
    BY <2>1, SlotsAreFree DEF WalkTyped
  <2> QED  BY <2>1, <2>2, <2>3, PlacesAreMoves DEF Next, Fill, Replace, Stay
<1>5. CASE TakeBack
  <2>1. stack # <<>> /\ ~AtLeaf /\ ~RoomDone /\ Stay
        /\ current' = Removed(current, SlotOf(Top))
    BY <1>5 DEF TakeBack, Walking, WalkTyped, Stay
  <2> QED  BY <2>1, SlotsAreFree, RemovesAreMoves DEF Next, Clear, Stay
<1>6. CASE Enumerated
  BY <1>6 DEF Enumerated
<1>7. CASE UNCHANGED <<vars, walk>>
  BY <1>7
<1> QED  BY <1>1, <1>2, <1>3, <1>4, <1>5, <1>6, <1>7 DEF SolveNext

LEMMA InitWalkTyped == SolveInit => WalkTyped
BY DEF SolveInit, WalkTyped

LEMMA NextWalkTyped ==
  IInv /\ WalkTyped /\ [SolveNext]_<<vars, walk>> => WalkTyped'
<1> SUFFICES ASSUME IInv, WalkTyped, [SolveNext]_<<vars, walk>> PROVE WalkTyped'
  OBVIOUS
<1> DEFINE StackTyped == stack \in Seq(Frames) /\ (phase = "walking" => stack # <<>>)
<1>0. ASSUME StackTyped', UNCHANGED <<pool, order>> PROVE WalkTyped'
  BY <1>0 DEF WalkTyped
<1>1. CASE Anneal
  BY <1>1 DEF Anneal, walk, Swap, Replace, Fill, Clear, Fallback, Restart, Stay, WalkTyped
<1>2. CASE Begin
  <2>1. /\ stack' = <<Call(1, 1, 1)>> /\ pool' = pool
        /\ order' \in [1..Cardinality(pool) -> pool]
    BY <1>2 DEF Begin, ClearAll, Stay
  <2>2. Call(1, 1, 1) \in Frames
    BY Calls
  <2>3. stack' \in Seq(Frames) /\ stack' # <<>>
    BY <2>1, <2>2
  <2>4. DOMAIN order' \subseteq Nat \ {0}
    BY <2>1
  <2>5. \A p \in DOMAIN order' : order'[p] \in pool'
    BY <2>1
  <2> QED  BY <2>3, <2>4, <2>5 DEF WalkTyped
<1>3. ASSUME stack # <<>>, Return, UNCHANGED <<pool, order>> PROVE WalkTyped'
  BY <1>0, <1>3, Returns
<1>4. CASE Score \/ Halt \/ GiveUp
  <2>1. stack # <<>> /\ Return /\ UNCHANGED <<pool, order>>
    BY <1>4 DEF Score, Halt, GiveUp, InLoop, Walking, WalkTyped
  <2> QED  BY <2>1, <1>3
<1>5. CASE NextRoom
  <2>1. /\ stack # <<>> /\ UNCHANGED <<pool, order>>
        /\ stack' = Append(Front(stack), Call(Top.g + 1, 1, 1))
    BY <1>5 DEF NextRoom, Walking, WalkTyped
  <2>2. Call(Top.g + 1, 1, 1) \in Frames
    BY <2>1, Stacks, NextCalls
  <2> QED  BY <1>0, <2>1, <2>2, Stacks
\* The top call is kept, changed, and makes another.
<1>6. ASSUME NEW f \in Frames, NEW c \in Frames, stack # <<>>,
             UNCHANGED <<pool, order>>,
             stack' = Append(Append(Front(stack), f), c)
      PROVE  WalkTyped'
  <2> DEFINE below == Append(Front(stack), f)
  <2>1. below \in Seq(Frames)
    BY <1>6, Stacks
  <2>2. stack' = Append(below, c)
    BY <1>6
  <2> HIDE DEF below
  <2>3. /\ Append(below, c) \in Seq(Frames)
        /\ Len(Append(below, c)) = Len(below) + 1 /\ Len(below) \in Nat
    BY <2>1
  <2>4. Append(below, c) # <<>>
    BY <2>3
  <2> QED  BY <1>0, <1>6, <2>2, <2>3, <2>4
<1>7. CASE LeaveEmpty
  <2>1. /\ stack # <<>> /\ UNCHANGED <<pool, order>>
        /\ stack' = Append(Append(Front(stack), [Top EXCEPT !.left = TRUE]),
                           Call(Top.g + 1, 1, 1))
    BY <1>7 DEF LeaveEmpty, Walking, WalkTyped
  <2>2. Top \in Frames
    BY <2>1, Stacks
  <2>3. [Top EXCEPT !.left = TRUE] \in Frames
    BY <2>2, Updates
  <2>4. Call(Top.g + 1, 1, 1) \in Frames
    BY <2>2, NextCalls
  <2> QED  BY <1>6, <2>1, <2>3, <2>4
<1>8. CASE Try
  <2>1. stack # <<>> /\ UNCHANGED <<pool, order>>
    BY <1>8 DEF Try, InLoop, Walking, WalkTyped
  <2>2. PICK p \in DOMAIN order :
          \/ stack' = Append(Append(Front(stack), [Top EXCEPT !.next = p, !.placing = TRUE]),
                             Call(Top.g, Top.i + 1, NextMin(Top.g, p)))
          \/ stack' = Append(Front(stack), [Top EXCEPT !.next = p + 1])
    BY <1>8 DEF Try, Untried
  <2>3. /\ p \in Nat \ {0} /\ p + 1 \in Nat \ {0}
        /\ NextMin(Top.g, p) \in Nat \ {0}
    BY DEF WalkTyped, NextMin
  <2>4. Top \in Frames
    BY <2>1, Stacks
  <2>5. /\ [Top EXCEPT !.next = p, !.placing = TRUE] \in Frames
        /\ [Top EXCEPT !.next = p + 1] \in Frames
        /\ Call(Top.g, Top.i + 1, NextMin(Top.g, p)) \in Frames
    BY <2>3, <2>4, Updates, NextCalls
  <2>6. CASE stack' = Append(Front(stack), [Top EXCEPT !.next = p + 1])
    BY <1>0, <2>1, <2>5, <2>6, Stacks
  <2> QED  BY <1>6, <2>1, <2>2, <2>5, <2>6
<1>9. CASE TakeBack
  <2>1. /\ stack # <<>> /\ UNCHANGED <<pool, order>>
        /\ stack' = Append(Front(stack),
                           [Top EXCEPT !.next = Top.next + 1, !.placing = FALSE])
    BY <1>9 DEF TakeBack, Walking, WalkTyped
  <2>2. [Top EXCEPT !.next = Top.next + 1, !.placing = FALSE] \in Frames
    BY <2>1, Stacks, Updates
  <2> QED  BY <1>0, <2>1, <2>2, Stacks
<1>10. CASE Enumerated \/ UNCHANGED <<vars, walk>>
  BY <1>0, <1>10 DEF Enumerated, vars, walk, WalkTyped
<1> QED  BY <1>1, <1>2, <1>4, <1>5, <1>7, <1>8, <1>9, <1>10 DEF SolveNext

\* Whatever either strategy does is a search as Space describes it: the walk
\* fills and clears free slots from the pool, and nothing else.
THEOREM StrategiesSearch == SolveSpec => Spec
<1>1. SolveInit => Init /\ IInv /\ WalkTyped
  BY InitIInv, InitWalkTyped DEF SolveInit
<1>2. IInv /\ WalkTyped /\ [SolveNext]_<<vars, walk>> => [Next]_vars /\ IInv' /\ WalkTyped'
  BY NextIInv, StepsAreMoves, NextWalkTyped
<1> QED  BY <1>1, <1>2, PTL DEF SolveSpec, Spec

\* Nothing the walk scores has an operator in two places, changes a locked
\* slot or uses an operator from outside the pool.
THEOREM WalkAlwaysValid == SolveSpec => []Valid
BY StrategiesSearch, AlwaysValid, PTL

-----------------------------------------------------------------------------
(* The walk is complete.  It lists the fillings in which every room is     *)
(* filled from the front, in the order of the pool; each of these is ahead *)
(* of one call of the stack until it is scored.                            *)

Rank(op) == CHOOSE p \in DOMAIN order : order[p] = op

\* order is the pool, in some order.
Enumerates ==
  /\ DOMAIN order \subseteq Nat \ {0}
  /\ \A p \in DOMAIN order : order[p] \in pool
  /\ \A p, q \in DOMAIN order : order[p] = order[q] => p = q
  /\ \A op \in pool : \E p \in DOMAIN order : order[p] = op

InOrder(a) ==
  \A g \in DOMAIN Groups : \A i, j \in DOMAIN Groups[g] :
    i < j /\ a[Groups[g][j]] # Nobody =>
      a[Groups[g][i]] # Nobody /\ Rank(a[Groups[g][i]]) < Rank(a[Groups[g][j]])

Listed == {a \in Fillings : InOrder(a)}

\* Calls fill the slots in order, and what those before the slot of f hold is
\* settled while f runs.
HasSlot(f) == f.g \in DOMAIN Groups /\ f.i \in DOMAIN Groups[f.g]
Above(f, h) == f.g < h.g \/ (f.g = h.g /\ f.i < h.i)
Before(f, g, i) == g < f.g \/ (g = f.g /\ i < f.i)
Agrees(f, a, b) ==
  \A g \in DOMAIN Groups : \A i \in DOMAIN Groups[g] :
    Before(f, g, i) => a[Groups[g][i]] = b[Groups[g][i]]

\* What f has yet to score of its own, when b is the assignment so far.
From(f) == IF f.placing THEN f.next + 1 ELSE f.next
Owes(f, a, b) ==
  /\ Agrees(f, a, b)
  /\ f.left => a[SlotOf(f)] # Nobody /\ Rank(a[SlotOf(f)]) >= From(f)

Ahead(a) == \E k \in DOMAIN stack : Owes(stack[k], a, current)

\* A call and the assignment so far: the rest of its room is filled with
\* operators before next, the first of those that may follow them.
Fits(f, b) ==
  /\ f.left => HasSlot(f)
  /\ f.placing => f.left /\ f.next \in DOMAIN order /\ b[SlotOf(f)] = order[f.next]
  /\ HasSlot(f) =>
       /\ \A i \in 1 .. f.i - 1 :
            b[Groups[f.g][i]] # Nobody /\ Rank(b[Groups[f.g][i]]) < f.next
       /\ ~f.left => f.next = IF f.i = 1 THEN 1 ELSE Rank(b[Groups[f.g][f.i - 1]]) + 1

StackInv ==
  /\ \A k \in DOMAIN stack : Fits(stack[k], current)
  /\ \A j, k \in DOMAIN stack : j < k => Above(stack[j], stack[k]) /\ stack[j].left
  /\ \A s \in Free : current[s] # Nobody =>
       \E k \in DOMAIN stack : stack[k].placing /\ SlotOf(stack[k]) = s
  /\ used = {stack[k].next : k \in {j \in DOMAIN stack : stack[j].placing}}
  /\ InOrder(current)

Offered ==
  /\ IsFiniteSet(visited) /\ Cardinality(visited) = scored
  /\ visited \subseteq {Canonical(a) : a \in Listed}
  /\ \A a \in Listed : Ahead(a) => Canonical(a) \notin visited
  /\ ~halted => \A a \in Listed : Ahead(a) \/ Canonical(a) \in visited

WalkInv ==
  /\ phase \in {"annealing", "exhaustive", "walking", "walked"}
  /\ phase \in {"annealing", "exhaustive"} =>
       stack = <<>> /\ used = {} /\ scored = 0 /\ visited = {} /\ ~halted
  /\ phase = "walked" => stack = <<>>
  /\ phase \in {"walking", "walked"} => Enumerates /\ StackInv /\ Offered

LEMMA RankIs ==
  ASSUME Enumerates
  PROVE  /\ \A op \in pool : Rank(op) \in DOMAIN order /\ order[Rank(op)] = op
         /\ \A p \in DOMAIN order : Rank(order[p]) = p
         /\ \A p \in DOMAIN order : p \in Nat \ {0}
<1>1. \A op \in pool : Rank(op) \in DOMAIN order /\ order[Rank(op)] = op
  BY DEF Enumerates, Rank
<1> QED  BY <1>1 DEF Enumerates

\* The fillings are the assignments every move of the search keeps to.
LEMMA FillingsAreGood ==
  ASSUME IInv, NEW a
  PROVE  a \in Fillings <=> Good(a)
<1> DEFINE filled(f) == [s \in Slots |-> IF s \in Free THEN f[s] ELSE initial[s]]
<1>1. initial \in Assignments /\ pool \subseteq Operators
  BY DEF IInv, TypeOK
<1>2. ASSUME NEW f \in [Free -> pool \cup {Nobody}], NoDuplicates(filled(f))
      PROVE  Good(filled(f))
  BY <1>1, <1>2, SpaceAssumption DEF Good, Assignments, Free
<1>3. ASSUME Good(a)
      PROVE  \E f \in [Free -> pool \cup {Nobody}] : a = filled(f)
  <2> DEFINE f == [s \in Free |-> a[s]]
  <2>1. f \in [Free -> pool \cup {Nobody}]
    BY <1>3 DEF Good
  <2>2. a = filled(f)
    BY <1>3, SpaceAssumption DEF Good, Assignments, Free
  <2> HIDE DEF f, filled
  <2> QED  BY <2>1, <2>2
<1>4. a \in Fillings <=> NoDuplicates(a) /\ \E f \in [Free -> pool \cup {Nobody}] : a = filled(f)
  BY DEF Fillings
<1>5. Good(a) => NoDuplicates(a)
  BY DEF Good
<1> HIDE DEF filled
<1> QED  BY <1>2, <1>3, <1>4, <1>5

\* Where a slot stands among the groups, and that it stands there only.
LEMMA Grouped ==
  /\ Groups \in Seq(Seq(Free))
  /\ \A g \in DOMAIN Groups : g \in Nat \ {0} /\ Len(Groups[g]) \in Nat /\ DOMAIN Groups[g] = 1 .. Len(Groups[g])
  /\ \A g \in DOMAIN Groups : \A i \in DOMAIN Groups[g] : Groups[g][i] \in Free /\ Groups[g][i] \in Slots /\ i \in Nat \ {0}
  /\ \A s \in Free : \E g \in DOMAIN Groups : \E i \in DOMAIN Groups[g] : Groups[g][i] = s
  /\ \A g, h \in DOMAIN Groups : \A i \in DOMAIN Groups[g], j \in DOMAIN Groups[h] :
       Groups[g][i] = Groups[h][j] => g = h /\ i = j
  /\ \A g \in DOMAIN Groups : Ordered(g) => DOMAIN Groups[g] \subseteq {1}
<1>1. Groups \in Seq(Seq(Free)) /\ Free \subseteq Slots
  BY WalkAssumption DEF Free
<1>2. \A g \in DOMAIN Groups : g \in Nat \ {0} /\ Groups[g] \in Seq(Free)
  BY <1>1
<1>3. ASSUME NEW g \in DOMAIN Groups
      PROVE  /\ Len(Groups[g]) \in Nat /\ DOMAIN Groups[g] = 1 .. Len(Groups[g])
             /\ \A i \in DOMAIN Groups[g] : Groups[g][i] \in Free /\ Groups[g][i] \in Slots /\ i \in Nat \ {0}
  <2>1. Groups[g] \in Seq(Free)
    BY <1>2
  <2> QED  BY <1>1, <2>1
<1>4. \A s \in Free : \E g \in DOMAIN Groups : \E i \in DOMAIN Groups[g] : Groups[g][i] = s
  BY WalkAssumption
<1>5. ASSUME NEW g \in DOMAIN Groups, NEW h \in DOMAIN Groups,
             NEW i \in DOMAIN Groups[g], NEW j \in DOMAIN Groups[h]
      PROVE  /\ Groups[g][i] = Groups[h][j] => g = h /\ i = j
             /\ g = h /\ RoomOf[Groups[g][i]] \in Training => i = j
             /\ g = h => RoomOf[Groups[g][i]] = RoomOf[Groups[h][j]]
  BY WalkAssumption
<1>6. ASSUME NEW g \in DOMAIN Groups, Ordered(g)
      PROVE  DOMAIN Groups[g] \subseteq {1}
  <2>1. PICK i \in DOMAIN Groups[g] : RoomOf[Groups[g][i]] \in Training
    BY <1>6 DEF Ordered
  <2>2. \A j \in DOMAIN Groups[g] : i = j
    BY <2>1, <1>5
  <2>3. 1 \in DOMAIN Groups[g]
    BY <1>3
  <2> QED  BY <2>2, <2>3
<1> QED  BY <1>1, <1>2, <1>3, <1>4, <1>5, <1>6

LEMMA OnePlace ==
  ASSUME NEW f, HasSlot(f), NEW g \in DOMAIN Groups, NEW i \in DOMAIN Groups[g], Groups[g][i] = SlotOf(f)
  PROVE  g = f.g /\ i = f.i
<1>1. f.g \in DOMAIN Groups /\ f.i \in DOMAIN Groups[f.g] /\ Groups[g][i] = Groups[f.g][f.i]
  BY DEF HasSlot, SlotOf
<1>2. \A x, h \in DOMAIN Groups : \A k \in DOMAIN Groups[x], j \in DOMAIN Groups[h] :
        Groups[x][k] = Groups[h][j] => x = h /\ k = j
  BY Grouped
<1> QED  BY <1>1, <1>2, Zenon

\* The slot a call fills.
LEMMA HasSlotIs ==
  ASSUME NEW f \in Frames
  PROVE  /\ HasSlot(f) <=> f.g <= Len(Groups) /\ f.i <= Len(Groups[f.g])
         /\ HasSlot(f) => SlotOf(f) \in Free /\ SlotOf(f) \in Slots
<1>1. f.g \in Nat \ {0} /\ f.i \in Nat \ {0}
  BY DEF Frames
<1>2. DOMAIN Groups = 1 .. Len(Groups) /\ Len(Groups) \in Nat
  BY Grouped
<1>3. f.g \in DOMAIN Groups <=> f.g <= Len(Groups)
  BY <1>1, <1>2
<1>4. f.g \in DOMAIN Groups => (f.i \in DOMAIN Groups[f.g] <=> f.i <= Len(Groups[f.g]))
  BY <1>1, Grouped
<1> QED  BY <1>3, <1>4, Grouped DEF HasSlot, SlotOf

\* What the calls of the stack are, and those below the top.
LEMMA StackForms ==
  ASSUME WalkTyped, stack # <<>>
  PROVE  /\ Len(stack) \in Nat \ {0} /\ DOMAIN stack = 1 .. Len(stack) /\ Top = stack[Len(stack)]
         /\ \A k \in 1 .. Len(stack) : stack[k] \in Frames
         /\ Front(stack) \in Seq(Frames) /\ Len(Front(stack)) = Len(stack) - 1
         /\ DOMAIN Front(stack) = 1 .. Len(stack) - 1
         /\ \A k \in 1 .. Len(stack) - 1 : Front(stack)[k] = stack[k]
<1> DEFINE n == Len(stack)
<1>1. stack \in Seq(Frames) /\ n \in Nat \ {0} /\ DOMAIN stack = 1 .. n
  BY DEF WalkTyped
<1>2. Top = stack[n] /\ \A k \in 1 .. n : stack[k] \in Frames
  BY <1>1 DEF Top, Last
<1>3. Front(stack) \in Seq(Frames) /\ Len(Front(stack)) = n - 1
      /\ \A k \in 1 .. n - 1 : Front(stack)[k] = stack[k]
  <2>1. n - 1 \in Nat /\ \A k \in 1 .. n - 1 : stack[k] \in Frames
    BY <1>1
  <2> DEFINE rest == SubSeq(stack, 1, n - 1)
  <2>2. /\ rest \in Seq(Frames)
        /\ Len(rest) = IF 1 <= n - 1 THEN (n - 1) - 1 + 1 ELSE 0
        /\ \A k \in 1 .. (n - 1) - 1 + 1 : rest[k] = stack[1 + k - 1]
    BY <1>1, <2>1, SubSeqProperties
  <2>3. Front(stack) = rest
    BY DEF Front
  <2> HIDE DEF rest
  <2>4. \A k \in 1 .. n - 1 : k \in 1 .. (n - 1) - 1 + 1 /\ 1 + k - 1 = k
    BY <1>1
  <2>5. Len(rest) = n - 1
    <3>1. CASE n = 1
      BY <2>2, <3>1
    <3>2. CASE n # 1
      <4>1. 1 <= n - 1 /\ (n - 1) - 1 + 1 = n - 1
        BY <1>1, <3>2
      <4> QED  BY <2>2, <4>1
    <3> QED  BY <3>1, <3>2
  <2>6. \A k \in 1 .. n - 1 : rest[k] = stack[k]
    BY <2>2, <2>4
  <2> QED  BY <2>2, <2>3, <2>5, <2>6
<1>4. DOMAIN Front(stack) = 1 .. n - 1
  BY <1>3
<1> QED  BY <1>1, <1>2, <1>3, <1>4

LEMMA TopFits ==
  ASSUME WalkTyped, StackInv, stack # <<>>
  PROVE  /\ Top \in Frames /\ Fits(Top, current)
         /\ DOMAIN stack = 1 .. Len(stack) /\ Len(stack) \in Nat \ {0}
         /\ \A k \in DOMAIN stack : stack[k] \in Frames /\ Fits(stack[k], current)
<1>1. /\ DOMAIN stack = 1 .. Len(stack) /\ Len(stack) \in Nat \ {0} /\ Top = stack[Len(stack)]
      /\ \A k \in 1 .. Len(stack) : stack[k] \in Frames
  BY StackForms
<1>2. Len(stack) \in DOMAIN stack
  BY <1>1
<1> QED  BY <1>1, <1>2 DEF StackInv

\* The calls below the top: what they fill comes before the top's slot.
LEMMA CallsBelow ==
  ASSUME WalkTyped, StackInv, stack # <<>>, NEW k \in 1 .. Len(stack) - 1
  PROVE  /\ stack[k] \in Frames /\ Top \in Frames /\ k \in DOMAIN stack
         /\ stack[k].left /\ HasSlot(stack[k]) /\ Fits(stack[k], current)
         /\ Before(Top, stack[k].g, stack[k].i)
         /\ \A g \in Nat, i \in Nat : Before(stack[k], g, i) => Before(Top, g, i)
<1> DEFINE n == Len(stack)  f == stack[k]
<1>1. n \in Nat \ {0} /\ DOMAIN stack = 1 .. n /\ Top = stack[n] /\ \A j \in 1 .. n : stack[j] \in Frames
  BY StackForms
<1> HIDE DEF n
<1>2. k \in 1 .. n - 1
  BY DEF n
<1>3. k \in 1 .. n /\ n \in 1 .. n /\ k < n
  BY <1>1, <1>2
<1>4. f \in Frames /\ Top \in Frames /\ Fits(f, current) /\ Above(f, Top) /\ f.left
  BY <1>1, <1>3 DEF StackInv
<1>5. HasSlot(f)
  BY <1>4 DEF Fits
<1>6. f.g \in Nat /\ f.i \in Nat /\ Top.g \in Nat /\ Top.i \in Nat
  BY <1>4 DEF Frames
<1>7. Before(Top, f.g, f.i)
  BY <1>4 DEF Above, Before
<1>8. ASSUME NEW g \in Nat, NEW i \in Nat, Before(f, g, i) PROVE Before(Top, g, i)
  BY <1>4, <1>6, <1>8 DEF Above, Before
<1> QED  BY <1>1, <1>3, <1>4, <1>5, <1>7, <1>8

\* A step that changes nothing before the top's slot leaves them as they were.
LEMMA BelowKept ==
  ASSUME WalkTyped, StackInv, stack # <<>>, NEW b, Agrees(Top, b, current),
         NEW k \in 1 .. Len(stack) - 1
  PROVE  /\ Fits(stack[k], b)
         /\ \A a : Owes(stack[k], a, b) <=> Owes(stack[k], a, current)
<1> DEFINE f == stack[k]
<1>1. /\ f \in Frames /\ f.left /\ HasSlot(f) /\ Fits(f, current) /\ Before(Top, f.g, f.i)
      /\ \A g \in Nat, i \in Nat : Before(f, g, i) => Before(Top, g, i)
  BY CallsBelow
<1> HIDE DEF f
<1>2. \A g \in DOMAIN Groups : \A i \in DOMAIN Groups[g] :
        Before(f, g, i) => b[Groups[g][i]] = current[Groups[g][i]]
  <2> SUFFICES ASSUME NEW g \in DOMAIN Groups, NEW i \in DOMAIN Groups[g], Before(f, g, i)
               PROVE  b[Groups[g][i]] = current[Groups[g][i]]
    OBVIOUS
  <2>1. g \in Nat /\ i \in Nat
    BY Grouped
  <2>2. Before(Top, g, i)
    BY <1>1, <2>1
  <2> QED  BY <2>2 DEF Agrees
<1>3. b[SlotOf(f)] = current[SlotOf(f)]
  BY <1>1 DEF HasSlot, SlotOf, Agrees
<1>4. ASSUME NEW i \in 1 .. f.i - 1
      PROVE  i \in DOMAIN Groups[f.g] /\ b[Groups[f.g][i]] = current[Groups[f.g][i]]
  <2>1. f.g \in DOMAIN Groups /\ f.i \in 1 .. Len(Groups[f.g]) /\ Len(Groups[f.g]) \in Nat
        /\ DOMAIN Groups[f.g] = 1 .. Len(Groups[f.g])
    BY <1>1, Grouped DEF HasSlot
  <2>2. i \in DOMAIN Groups[f.g] /\ i < f.i
    BY <2>1
  <2>3. Before(f, f.g, i)
    BY <2>2 DEF Before
  <2> QED  BY <2>1, <2>2, <2>3, <1>2
<1>5. Fits(f, b)
  BY <1>1, <1>3, <1>4 DEF Fits
<1>6. \A a : Agrees(f, a, b) <=> Agrees(f, a, current)
  BY <1>2 DEF Agrees
<1>7. \A a : Owes(f, a, b) <=> Owes(f, a, current)
  BY <1>6 DEF Owes
<1> QED  BY <1>5, <1>7 DEF f

\* Who stands in a free slot was placed by a call of the stack.
LEMMA Occupants ==
  ASSUME WalkTyped, StackInv, stack # <<>>,
         NEW g \in DOMAIN Groups, NEW i \in DOMAIN Groups[g], current[Groups[g][i]] # Nobody
  PROVE  Before(Top, g, i) \/ (Top.placing /\ g = Top.g /\ i = Top.i)
<1> DEFINE n == Len(stack)
<1>1. n \in Nat \ {0} /\ DOMAIN stack = 1 .. n /\ Top = stack[n]
  BY StackForms
<1>2. Groups[g][i] \in Free
  BY Grouped
<1>3. PICK k \in DOMAIN stack : stack[k].placing /\ SlotOf(stack[k]) = Groups[g][i]
  BY <1>2 DEF StackInv
<1>4. stack[k].g = g /\ stack[k].i = i
  <2>1. HasSlot(stack[k])
    BY <1>3 DEF StackInv, Fits
  <2> QED  BY <2>1, <1>3, OnePlace
<1>5. CASE k = n
  BY <1>1, <1>3, <1>4, <1>5
<1>6. CASE k # n
  <2>1. k \in 1 .. n - 1
    BY <1>1, <1>3, <1>6
  <2> QED  BY <1>4, <2>1, CallsBelow
<1> QED  BY <1>5, <1>6

\* used says who stands in the free slots.
LEMMA UsedAre ==
  ASSUME IInv, WalkTyped, StackInv, Enumerates, NEW p \in DOMAIN order
  PROVE  p \in used <=> \E s \in Free : current[s] = order[p]
<1>1. ASSUME p \in used PROVE \E s \in Free : current[s] = order[p]
  <2>1. PICK k \in DOMAIN stack : stack[k].placing /\ p = stack[k].next
    BY <1>1 DEF StackInv
  <2>2. Fits(stack[k], current) /\ stack[k] \in Frames
    BY DEF StackInv, WalkTyped
  <2>3. HasSlot(stack[k]) /\ current[SlotOf(stack[k])] = order[p]
    BY <2>1, <2>2 DEF Fits
  <2> QED  BY <2>2, <2>3, HasSlotIs
<1>2. ASSUME NEW s \in Free, current[s] = order[p] PROVE p \in used
  <2>1. current[s] # Nobody
    <3>1. order[p] \in pool /\ pool \subseteq Operators
      BY DEF Enumerates, IInv, TypeOK
    <3> QED  BY <1>2, <3>1, NobodyAssumption
  <2>2. PICK k \in DOMAIN stack : stack[k].placing /\ SlotOf(stack[k]) = s
    BY <2>1 DEF StackInv
  <2>3. stack[k].next \in DOMAIN order /\ current[s] = order[stack[k].next]
    BY <2>2 DEF StackInv, Fits
  <2>4. p = stack[k].next
    BY <2>3, <1>2 DEF Enumerates
  <2> QED  BY <2>2, <2>4 DEF StackInv
<1> QED  BY <1>1, <1>2

\* Who may come next in a slot is still to be tried.
LEMMA OwedIsUntried ==
  ASSUME IInv, WalkTyped, StackInv, Enumerates, stack # <<>>,
         HasSlot(Top), Top.left, ~Top.placing,
         NEW a \in Listed, Owes(Top, a, current)
  PROVE  Rank(a[SlotOf(Top)]) \in Untried /\ a[SlotOf(Top)] = order[Rank(a[SlotOf(Top)])]
<1> DEFINE s == SlotOf(Top)  p == Rank(a[s])
<1>1. Top \in Frames
  BY Stacks
<1>2. s \in Free /\ s \in Slots
  BY <1>1, HasSlotIs
<1>3. Good(a)
  BY FillingsAreGood DEF Listed
<1>4. a[s] \in pool /\ a[s] # Nobody /\ p >= Top.next
  BY <1>2, <1>3 DEF Good, Owes, From
<1> HIDE DEF s
<1>5. p \in DOMAIN order /\ order[p] = a[s]
  BY <1>4, RankIs
<1>6. p \notin used
  <2> SUFFICES ASSUME p \in used PROVE FALSE
    OBVIOUS
  <2>1. PICK t \in Free : current[t] = a[s]
    BY <1>5, UsedAre
  <2>2. PICK g \in DOMAIN Groups : \E i \in DOMAIN Groups[g] : Groups[g][i] = t
    BY Grouped
  <2>3. PICK i \in DOMAIN Groups[g] : Groups[g][i] = t
    BY <2>2
  <2>4. Before(Top, g, i)
    BY <2>1, <2>3, <1>4, Occupants
  <2>5. a[t] = a[s]
    BY <2>1, <2>3, <2>4 DEF Owes, Agrees
  <2>6. t = s
    BY <2>5, <1>2, <1>3, <1>4 DEF Good, NoDuplicates, Free
  <2>7. g = Top.g /\ i = Top.i
    BY <2>3, <2>6, OnePlace DEF s
  <2>8. Top.g \in Nat /\ Top.i \in Nat
    BY <1>1 DEF Frames
  <2> QED  BY <2>4, <2>7, <2>8 DEF Before
<1>7. p \in Untried
  BY <1>4, <1>5, <1>6 DEF Untried
<1> QED  BY <1>5, <1>7 DEF s

\* Agreement up to the next slot, and with an assignment changed at this one.
LEMMA AgreeNext ==
  ASSUME NEW f \in Frames, HasSlot(f), NEW c \in Frames, c.g = f.g, c.i = f.i + 1, NEW a, NEW b
  PROVE  Agrees(c, a, b) <=> Agrees(f, a, b) /\ a[SlotOf(f)] = b[SlotOf(f)]
<1>1. ASSUME NEW g \in DOMAIN Groups, NEW i \in DOMAIN Groups[g]
      PROVE  Before(c, g, i) <=> Before(f, g, i) \/ (g = f.g /\ i = f.i)
  <2>1. f.g \in Nat /\ f.i \in Nat /\ g \in Nat /\ i \in Nat
    BY Grouped DEF Frames
  <2> QED  BY <2>1 DEF Before
<1>2. f.g \in DOMAIN Groups /\ f.i \in DOMAIN Groups[f.g] /\ SlotOf(f) = Groups[f.g][f.i]
  BY DEF HasSlot, SlotOf
<1>3. ASSUME Agrees(c, a, b) PROVE Agrees(f, a, b) /\ a[SlotOf(f)] = b[SlotOf(f)]
  BY <1>1, <1>2, <1>3, Zenon DEF Agrees
<1>4. ASSUME Agrees(f, a, b), a[SlotOf(f)] = b[SlotOf(f)] PROVE Agrees(c, a, b)
  BY <1>1, <1>2, <1>4, Zenon DEF Agrees
<1> QED  BY <1>3, <1>4

LEMMA AgreeBut ==
  ASSUME NEW f \in Frames, HasSlot(f), NEW a, NEW b \in Assignments, NEW c,
         NEW w, c = [b EXCEPT ![SlotOf(f)] = w]
  PROVE  /\ Agrees(f, a, c) <=> Agrees(f, a, b)
         /\ Agrees(f, c, b)
         /\ c[SlotOf(f)] = w
<1>1. ASSUME NEW g \in DOMAIN Groups, NEW i \in DOMAIN Groups[g], Before(f, g, i)
      PROVE  c[Groups[g][i]] = b[Groups[g][i]]
  <2>1. f.g \in Nat /\ f.i \in Nat
    BY DEF Frames
  <2>2. Groups[g][i] # SlotOf(f)
    BY <2>1, <1>1, OnePlace DEF Before
  <2>3. Groups[g][i] \in Slots
    BY Grouped
  <2> QED  BY <2>2, <2>3 DEF Assignments
<1>2. c[SlotOf(f)] = w
  BY HasSlotIs DEF Assignments
<1> QED  BY <1>1, <1>2 DEF Agrees

\* What a call owes is what it owes after its slot is left empty, and what
\* the call for the next room owes.
LEMMA OwedLeft ==
  ASSUME IInv, WalkTyped, StackInv, Enumerates, stack # <<>>, HasSlot(Top), ~Top.left,
         NEW a \in Listed
  PROVE  Owes(Top, a, current) <=>
           \/ Owes([Top EXCEPT !.left = TRUE], a, current)
           \/ Owes(Call(Top.g + 1, 1, 1), a, current)
<1> DEFINE f == Top  s == SlotOf(f)  h == [f EXCEPT !.left = TRUE]  c == Call(f.g + 1, 1, 1)
<1>1. /\ f \in Frames /\ Fits(f, current) /\ ~f.placing
      /\ f.g \in Nat /\ f.i \in Nat \ {0} /\ f.g \in DOMAIN Groups /\ f.i \in DOMAIN Groups[f.g]
      /\ s = Groups[f.g][f.i]
  <2>1. f \in Frames /\ Fits(f, current)
    BY TopFits
  <2> QED  BY <2>1 DEF Fits, Frames, HasSlot, SlotOf
<1>2. /\ h.g = f.g /\ h.i = f.i /\ h.next = f.next /\ h.left /\ h.placing = f.placing
      /\ c.g = f.g + 1 /\ c.i = 1 /\ ~c.left
  BY <1>1 DEF Frames, Call
<1>3. Good(a) /\ InOrder(a)
  BY FillingsAreGood DEF Listed
<1> HIDE DEF f, h, c
<1>4. \A b : Agrees(h, a, b) <=> Agrees(f, a, b)
  BY <1>2 DEF Agrees, Before
<1>5. SlotOf(h) = s /\ From(h) = f.next
  BY <1>1, <1>2 DEF SlotOf, From
<1>6. \A g \in DOMAIN Groups : \A i \in DOMAIN Groups[g] :
        /\ g \in Nat /\ i \in Nat \ {0}
        /\ Before(c, g, i) <=> g <= f.g
  <2> SUFFICES ASSUME NEW g \in DOMAIN Groups, NEW i \in DOMAIN Groups[g]
               PROVE  g \in Nat /\ i \in Nat \ {0} /\ (Before(c, g, i) <=> g <= f.g)
    OBVIOUS
  <2>1. g \in Nat /\ i \in Nat \ {0}
    BY Grouped
  <2> QED  BY <2>1, <1>1, <1>2 DEF Before
<1>7. ASSUME Owes(f, a, current), a[s] # Nobody PROVE Owes(h, a, current)
  <2>1. Rank(a[s]) \in Nat \ {0}
    <3>1. s \in Free
      BY <1>1, HasSlotIs
    <3>2. a[s] \in pool
      BY <1>3, <1>7, <3>1 DEF Good
    <3> QED  BY <3>2, RankIs
  <2>2. Rank(a[s]) >= f.next
    <3>1. CASE f.i = 1
      BY <1>1, <2>1, <3>1 DEF Fits, f
    <3>2. CASE f.i # 1
      <4>1. f.i - 1 \in DOMAIN Groups[f.g] /\ f.i - 1 < f.i
        <5>1. DOMAIN Groups[f.g] = 1 .. Len(Groups[f.g]) /\ Len(Groups[f.g]) \in Nat
          BY <1>1, Grouped
        <5> QED  BY <1>1, <3>2, <5>1
      <4> DEFINE t == Groups[f.g][f.i - 1]
      <4>2. Before(f, f.g, f.i - 1)
        BY <4>1 DEF Before
      <4>3. a[t] = current[t]
        BY <1>1, <1>7, <4>1, <4>2 DEF Owes, Agrees
      <4>4. f.next = Rank(current[t]) + 1
        BY <1>1, <3>2 DEF Fits, f
      <4>5. a[t] # Nobody /\ Rank(a[t]) < Rank(a[s])
        BY <1>1, <1>3, <1>7, <4>1 DEF InOrder
      <4>6. Rank(a[t]) \in Nat
        <5>1. t \in Free
          BY <1>1, <4>1, Grouped
        <5>2. a[t] \in pool
          BY <1>3, <4>5, <5>1 DEF Good
        <5> QED  BY <5>2, RankIs
      <4> QED  BY <2>1, <4>3, <4>4, <4>5, <4>6
    <3> QED  BY <3>1, <3>2
  <2> QED  BY <1>4, <1>5, <1>7, <2>2 DEF Owes
<1>8. ASSUME Owes(f, a, current), a[s] = Nobody PROVE Owes(c, a, current)
  <2>1. ASSUME NEW g \in DOMAIN Groups, NEW i \in DOMAIN Groups[g], Before(c, g, i)
        PROVE  a[Groups[g][i]] = current[Groups[g][i]]
    <3>1. CASE Before(f, g, i)
      BY <1>8, <3>1 DEF Owes, Agrees
    <3>2. CASE ~Before(f, g, i)
      <4>1. g = f.g /\ i >= f.i
        BY <1>1, <1>6, <2>1, <3>2 DEF Before
      <4>2. current[Groups[g][i]] = Nobody
        BY <1>1, <3>2, Occupants DEF f
      <4>3. a[Groups[g][i]] = Nobody
        <5>1. CASE i = f.i
          BY <1>1, <1>8, <4>1, <5>1
        <5>2. CASE i # f.i
          <6>1. f.i < i
            BY <1>1, <1>6, <4>1, <5>2
          <6> QED  BY <1>1, <1>3, <1>8, <4>1, <6>1 DEF InOrder
        <5> QED  BY <5>1, <5>2
      <4> QED  BY <4>2, <4>3
    <3> QED  BY <3>1, <3>2
  <2> QED  BY <2>1, <1>2 DEF Owes, Agrees
<1>9. ASSUME Owes(h, a, current) PROVE Owes(f, a, current)
  BY <1>4, <1>9 DEF Owes, f
<1>10. ASSUME Owes(c, a, current) PROVE Owes(f, a, current)
  <2>1. ASSUME NEW g \in DOMAIN Groups, NEW i \in DOMAIN Groups[g], Before(f, g, i)
        PROVE  Before(c, g, i)
    BY <1>1, <1>6, <2>1 DEF Before
  <2> QED  BY <2>1, <1>10 DEF Owes, Agrees, f
<1> QED  BY <1>7, <1>8, <1>9, <1>10 DEF f, h, c

\* What a call owes is what it owes once the next operator is placed and
\* what the call for the rest of the room owes.
LEMMA OwedPlaced ==
  ASSUME IInv, WalkTyped, StackInv, Enumerates, stack # <<>>,
         HasSlot(Top), Top.left, ~Top.placing,
         NEW p \in Untried, \A q \in Untried : p <= q,
         NEW b, b = [current EXCEPT ![SlotOf(Top)] = order[p]],
         NEW min \in Nat \ {0}, NEW a \in Listed
  PROVE  Owes(Top, a, current) <=>
           \/ Owes([Top EXCEPT !.next = p, !.placing = TRUE], a, b)
           \/ Owes(Call(Top.g, Top.i + 1, min), a, b)
<1> DEFINE f == Top  s == SlotOf(f)  h == [f EXCEPT !.next = p, !.placing = TRUE]
           c == Call(f.g, f.i + 1, min)
<1>1. f \in Frames /\ f.next \in Nat /\ c \in Frames
  <2>1. f \in Frames
    BY Stacks
  <2> QED  BY <2>1, NextCalls DEF Frames
<1>2. /\ h.g = f.g /\ h.i = f.i /\ h.next = p /\ h.left /\ h.placing
      /\ c.g = f.g /\ c.i = f.i + 1 /\ ~c.left
  BY <1>1 DEF Frames, Call
<1>3. p \in DOMAIN order /\ p \in Nat /\ p >= f.next /\ order[p] \in pool /\ order[p] # Nobody
  BY NobodyAssumption DEF Untried, Enumerates, IInv, TypeOK
<1>4. HasSlot(f) /\ current \in Assignments /\ ~f.placing /\ f.left
  BY DEF IInv, TypeOK
<1>5. /\ Agrees(f, a, b) <=> Agrees(f, a, current)
      /\ b[s] = order[p]
  <2>1. b = [current EXCEPT ![SlotOf(f)] = order[p]]
    OBVIOUS
  <2>2. f \in Frames /\ HasSlot(f) /\ current \in Assignments
    BY <1>1, <1>4
  <2> HIDE DEF f
  <2>3. Agrees(f, a, b) <=> Agrees(f, a, current)
    BY <2>2, <2>1, AgreeBut
  <2>4. b[SlotOf(f)] = order[p]
    BY <2>2, <2>1, HasSlotIs DEF Assignments
  <2> QED  BY <2>3, <2>4
<1>6. Agrees(c, a, b) <=> Agrees(f, a, b) /\ a[s] = b[s]
  <2> HIDE DEF f, c
  <2>1. f \in Frames /\ HasSlot(f) /\ c \in Frames /\ c.g = f.g /\ c.i = f.i + 1
    BY <1>1, <1>2, <1>4
  <2>2. Agrees(c, a, b) <=> Agrees(f, a, b) /\ a[SlotOf(f)] = b[SlotOf(f)]
    <3> HIDE DEF s
    <3> QED  BY ONLY <2>1, AgreeNext
  <2> QED  BY <2>2
<1>7. Agrees(h, a, b) <=> Agrees(f, a, b)
  BY <1>2 DEF Agrees, Before
<1>8. SlotOf(h) = s /\ From(h) = p + 1 /\ From(f) = f.next
  BY <1>2, <1>4 DEF SlotOf, From
<1>9. ASSUME Owes(f, a, current)
      PROVE  Rank(a[s]) \in Nat /\ a[s] = order[Rank(a[s])] /\ p <= Rank(a[s])
  <2>1. Rank(a[s]) \in Untried /\ a[s] = order[Rank(a[s])]
    BY <1>9, OwedIsUntried
  <2>2. Rank(a[s]) \in Nat
    BY <2>1 DEF Untried, Enumerates
  <2> QED  BY <2>1, <2>2
<1> HIDE DEF f, s, h, c
<1>10. Owes(f, a, current) <=> Agrees(f, a, current) /\ a[s] # Nobody /\ Rank(a[s]) >= f.next
  BY <1>4, <1>8 DEF Owes, s
<1>11. Owes(h, a, b) <=> Agrees(f, a, current) /\ a[s] # Nobody /\ Rank(a[s]) >= p + 1
  BY <1>2, <1>5, <1>7, <1>8 DEF Owes
<1>12. Owes(c, a, b) <=> Agrees(f, a, current) /\ a[s] = order[p]
  BY <1>2, <1>5, <1>6 DEF Owes
<1>13. ASSUME Owes(f, a, current) PROVE Owes(h, a, b) \/ Owes(c, a, b)
  BY <1>3, <1>9, <1>10, <1>11, <1>12, <1>13
<1>14. ASSUME Owes(c, a, b) PROVE Owes(f, a, current)
  <2>1. Rank(order[p]) = p
    BY <1>3, RankIs
  <2> QED  BY <1>3, <1>10, <1>12, <1>14, <2>1
<1>15. ASSUME Owes(h, a, b) PROVE Owes(f, a, current)
  <2>1. Rank(a[s]) \in Nat
    <3>1. Good(a) /\ s \in Free
      BY <1>1, <1>4, HasSlotIs, FillingsAreGood DEF Listed, s
    <3>2. a[s] \in pool
      BY <3>1, <1>11, <1>15 DEF Good
    <3> QED  BY <3>2, RankIs
  <2> QED  BY <2>1, <1>1, <1>3, <1>10, <1>11, <1>15
<1> QED  BY <1>13, <1>14, <1>15 DEF f, h, c

\* Nothing else becomes owed, or ceases to be, when an operator is taken back,
LEMMA OwedBack ==
  ASSUME IInv, WalkTyped, stack # <<>>, HasSlot(Top), Top.left, Top.placing,
         NEW b, b = [current EXCEPT ![SlotOf(Top)] = Nobody], NEW a
  PROVE  Owes(Top, a, current) <=>
           Owes([Top EXCEPT !.next = Top.next + 1, !.placing = FALSE], a, b)
<1> DEFINE f == Top  h == [f EXCEPT !.next = f.next + 1, !.placing = FALSE]
<1>1. f \in Frames /\ HasSlot(f) /\ current \in Assignments /\ f.left /\ f.placing
  BY Stacks DEF IInv, TypeOK
<1>2. h.g = f.g /\ h.i = f.i /\ h.next = f.next + 1 /\ h.left /\ ~h.placing
  BY <1>1 DEF Frames
<1>3. Agrees(f, a, b) <=> Agrees(f, a, current)
  BY <1>1, AgreeBut
<1>4. Agrees(h, a, b) <=> Agrees(f, a, b)
  BY <1>2 DEF Agrees, Before
<1>5. SlotOf(h) = SlotOf(f) /\ From(h) = From(f)
  BY <1>1, <1>2 DEF SlotOf, From
<1> HIDE DEF f, h
<1>6. Owes(f, a, current) <=> Owes(h, a, b)
  BY <1>1, <1>2, <1>3, <1>4, <1>5 DEF Owes
<1> QED  BY <1>6 DEF f, h

\* or the next room begins.
LEMMA OwedOn ==
  ASSUME WalkTyped, StackInv, stack # <<>>, ~AtLeaf, RoomDone, NEW a
  PROVE  /\ ~Top.left
         /\ Owes(Top, a, current) <=> Owes(Call(Top.g + 1, 1, 1), a, current)
<1> DEFINE f == Top  c == Call(f.g + 1, 1, 1)
<1>1. f \in Frames /\ f.g \in Nat /\ f.i \in Nat /\ Fits(f, current)
  <2>1. f \in Frames /\ Fits(f, current)
    BY TopFits
  <2> QED  BY <2>1 DEF Frames
<1>2. ~f.left
  BY <1>1, HasSlotIs, Grouped DEF Fits, AtLeaf, RoomDone, HasSlot
<1>3. c.g = f.g + 1 /\ c.i = 1 /\ ~c.left
  BY DEF Call
<1>4. ASSUME NEW g \in DOMAIN Groups, NEW i \in DOMAIN Groups[g]
      PROVE  Before(c, g, i) <=> Before(f, g, i)
  <2>1. g \in Nat /\ i \in Nat \ {0} /\ i <= Len(Groups[g]) /\ Len(Groups[g]) \in Nat
    BY Grouped
  <2>2. f.i > Len(Groups[f.g])
    BY DEF RoomDone
  <2> HIDE DEF c, f
  <2>3. CASE g = f.g
    BY <2>1, <2>2, <2>3, <1>1, <1>3 DEF Before
  <2>4. CASE g # f.g
    BY <2>1, <2>4, <1>1, <1>3 DEF Before
  <2> QED  BY <2>3, <2>4
<1> HIDE DEF c, f
<1>5. Agrees(c, a, current) <=> Agrees(f, a, current)
  BY <1>4, Zenon DEF Agrees
<1> QED  BY <1>2, <1>3, <1>5 DEF Owes, c, f

\* At the end of the recursion one filling is owed, and by that call only.
LEMMA OwedLeaf ==
  ASSUME IInv, WalkTyped, StackInv, Enumerates, stack # <<>>, AtLeaf
  PROVE  /\ current \in Listed
         /\ \A a \in Listed : Owes(Top, a, current) <=> a = current
         /\ \A k \in 1 .. Len(stack) - 1 : ~Owes(stack[k], current, current)
<1>1. Top \in Frames /\ Fits(Top, current) /\ Top.g > Len(Groups)
  BY TopFits, HasSlotIs DEF AtLeaf
<1>2. ~HasSlot(Top) /\ ~Top.left
  <2>1. ~HasSlot(Top)
    BY <1>1, HasSlotIs, Grouped DEF Frames
  <2> QED  BY <1>1, <2>1 DEF Fits
<1>3. current \in Listed
  <2>1. Good(current)
    BY DEF IInv, TypeOK, Valid, Good
  <2> QED  BY <2>1, FillingsAreGood DEF Listed, StackInv
<1>4. ASSUME NEW a \in Listed, Owes(Top, a, current) PROVE a = current
  <2>1. Good(a) /\ Good(current)
    BY <1>3, FillingsAreGood DEF Listed
  <2>2. ASSUME NEW s \in Free PROVE a[s] = current[s]
    <3>1. PICK g \in DOMAIN Groups : \E i \in DOMAIN Groups[g] : Groups[g][i] = s
      BY Grouped
    <3>2. PICK i \in DOMAIN Groups[g] : Groups[g][i] = s
      BY <3>1
    <3>3. Before(Top, g, i)
      <4>2. Top.g \in Nat
        BY <1>1 DEF Frames
      <4>1. g \in 1 .. Len(Groups) /\ Len(Groups) \in Nat /\ Top.g \in Nat
        BY <4>2, WalkAssumption
      <4> QED  BY <4>1, <1>1 DEF Before
    <3> QED  BY <1>4, <3>2, <3>3 DEF Owes, Agrees
  <2>3. \A s \in Locked : a[s] = current[s]
    BY <2>1 DEF Good
  <2>4. \A s \in Slots : a[s] = current[s]
    BY <2>2, <2>3 DEF Free
  <2> QED  BY <2>1, <2>4 DEF Good, Assignments
<1>5. Owes(Top, current, current)
  BY <1>2 DEF Owes, Agrees
<1>6. ASSUME NEW k \in 1 .. Len(stack) - 1, Owes(stack[k], current, current) PROVE FALSE
  <2> DEFINE f == stack[k]  s == SlotOf(f)
  <2>1. /\ f \in Frames /\ f.left /\ HasSlot(f) /\ Fits(f, current) /\ k \in DOMAIN stack
        /\ current[s] # Nobody /\ Rank(current[s]) >= From(f)
    BY <1>6, CallsBelow DEF Owes
  <2>2. CASE f.placing
    <3>1. f.next \in DOMAIN order /\ current[s] = order[f.next]
      BY <2>1, <2>2 DEF Fits
    <3>2. Rank(current[s]) = f.next /\ f.next \in Nat
      BY <3>1, RankIs
    <3> QED  BY <2>1, <2>2, <3>2 DEF From
  <2>3. CASE ~f.placing
    <3>1. s \in Free
      BY <2>1, HasSlotIs
    <3>2. PICK j \in DOMAIN stack : stack[j].placing /\ SlotOf(stack[j]) = s
      BY <2>1, <3>1 DEF StackInv
    <3>3. HasSlot(stack[j]) /\ stack[j] \in Frames
      BY <3>2, StackForms DEF StackInv, Fits
    <3>4. stack[j].g = f.g /\ stack[j].i = f.i
      BY <2>1, <3>2, <3>3, OnePlace DEF HasSlot, SlotOf
    <3>5. j # k
      BY <2>3, <3>2
    <3>6. Above(f, stack[j]) \/ Above(stack[j], f)
      <4>1. j < k \/ k < j
        <5>1. j \in 1 .. Len(stack) /\ k \in 1 .. Len(stack) /\ Len(stack) \in Nat
            BY <2>1, TopFits
          <5> QED  BY <3>5, <5>1
      <4> QED  BY <2>1, <4>1 DEF StackInv
    <3>7. f.g \in Nat /\ f.i \in Nat
      BY <2>1 DEF Frames
    <3> QED  BY <3>4, <3>6, <3>7 DEF Above
  <2> QED  BY <2>2, <2>3
<1> QED  BY <1>3, <1>4, <1>5, <1>6

\* A nonempty set of subsets of a finite set has a smallest member.
LEMMA SmallestSubset ==
  ASSUME NEW S, IsFiniteSet(S), NEW T, T \subseteq SUBSET S, T # {}
  PROVE  \E t \in T : \A u \in T : ~(u \subseteq t /\ u # t)
<1>1. FiniteSubsetsOf(S) = SUBSET S
  BY FS_FiniteSubsetsOfFinite
<1>2. IsWellFoundedOn(StrictSubsetOrdering(S), SUBSET S)
  BY <1>1, FS_StrictSubsetOrderingWellFounded
<1>3. PICK t \in T : \A u \in T : ~(<<u, t>> \in StrictSubsetOrdering(S))
  BY <1>2, WFMin
<1>4. \A u \in T : u \subseteq t /\ u # t => <<u, t>> \in StrictSubsetOrdering(S)
  BY DEF StrictSubsetOrdering
<1>5. ASSUME NEW u \in T, u \subseteq t, u # t PROVE FALSE
  BY <1>3, <1>4, <1>5, Zenon
<1> QED BY <1>5, Zenon

\* So has a nonempty set of natural numbers.
LEMMA SmallestNumber ==
  ASSUME NEW T, T \subseteq Nat, T # {}
  PROVE  \E n \in T : \A m \in T : n <= m
<1>1. PICK k \in T : TRUE
  OBVIOUS
<1> DEFINE low == {n \in T : n <= k}
           below == {1 .. n : n \in low}
<1>2. PICK K : K = 1 .. k
  OBVIOUS
<1>3. IsFiniteSet(K) /\ below \subseteq SUBSET K /\ below # {}
  <2>1. IsFiniteSet(1 .. k)
    BY FS_Interval
  <2>2. \A u \in below : u \subseteq 1 .. k
    OBVIOUS
  <2> QED BY <2>1, <2>2, <1>2
<1>4. PICK t \in below : \A u \in below : ~(u \subseteq t /\ u # t)
  <2> HIDE DEF below
  <2> QED BY <1>3, SmallestSubset
<1>5. PICK n \in low : t = 1 .. n
  BY <1>4
<1>6. ASSUME NEW m \in T, m < n PROVE FALSE
  <2>1. m \in low /\ (1 .. m) \subseteq (1 .. n) /\ n \in 1 .. n /\ n \notin 1 .. m
    BY <1>5, <1>6
  <2> QED BY <2>1, <1>4, <1>5
<1> QED BY <1>5, <1>6

\* Where two listed fillings first differ in a room, they do not hold the same
\* operators there.
LEMMA FirstDiffers ==
  ASSUME IInv, Enumerates, NEW a \in Listed, NEW b \in Listed, NEW g \in DOMAIN Groups, NEW i \in DOMAIN Groups[g],
         \A j \in DOMAIN Groups[g] : j < i => a[Groups[g][j]] = b[Groups[g][j]],
         \A j \in DOMAIN Groups[g] : a[Groups[g][j]] # Nobody =>
            \E m \in DOMAIN Groups[g] : b[Groups[g][m]] = a[Groups[g][j]],
         \A j \in DOMAIN Groups[g] : b[Groups[g][j]] # Nobody =>
            \E m \in DOMAIN Groups[g] : a[Groups[g][m]] = b[Groups[g][j]],
         a[Groups[g][i]] # Nobody
  PROVE  a[Groups[g][i]] = b[Groups[g][i]]
<1>1. Good(a) /\ Good(b) /\ InOrder(a) /\ InOrder(b)
  BY FillingsAreGood DEF Listed
<1> DEFINE G == Groups[g]  D == DOMAIN G
<1>2. /\ D \subseteq Nat /\ \A j \in D : G[j] \in Free /\ G[j] \in Slots
      /\ \A j, m \in D : G[j] = G[m] => j = m
  <2>1. \A h, x \in DOMAIN Groups : \A j \in DOMAIN Groups[h], m \in DOMAIN Groups[x] :
          Groups[h][j] = Groups[x][m] => h = x /\ j = m
    BY Grouped
  <2>2. \A j, m \in D : G[j] = G[m] => j = m
    <3> SUFFICES ASSUME NEW j \in DOMAIN Groups[g], NEW m \in DOMAIN Groups[g], Groups[g][j] = Groups[g][m]
                 PROVE  j = m
      OBVIOUS
    <3>1. \A k, l \in DOMAIN Groups[g] : Groups[g][k] = Groups[g][l] => k = l
      BY <2>1
    <3> QED  BY <3>1, Zenon
  <2> QED  BY <2>2, Grouped
<1>3. /\ \A j, m \in D : a[G[j]] # Nobody /\ a[G[j]] = a[G[m]] => j = m
      /\ \A j, m \in D : b[G[j]] # Nobody /\ b[G[j]] = b[G[m]] => j = m
  BY <1>1, <1>2 DEF Good, NoDuplicates
<1>4. /\ \A j \in D : a[G[j]] # Nobody => Rank(a[G[j]]) \in Nat
      /\ \A j \in D : b[G[j]] # Nobody => Rank(b[G[j]]) \in Nat
  <2>1. \A op \in pool : Rank(op) \in Nat
    BY RankIs
  <2> QED  BY <1>1, <1>2, <2>1 DEF Good
<1>5. /\ \A j, m \in D : j < m /\ a[G[m]] # Nobody => a[G[j]] # Nobody /\ Rank(a[G[j]]) < Rank(a[G[m]])
      /\ \A j, m \in D : j < m /\ b[G[m]] # Nobody => b[G[j]] # Nobody /\ Rank(b[G[j]]) < Rank(b[G[m]])
  BY <1>1 DEF InOrder
<1> HIDE DEF G
<1>6. PICK j \in D : b[G[j]] = a[G[i]]
  BY DEF G
<1>7. CASE j < i
  <2>1. a[G[j]] = a[G[i]]
    BY <1>6, <1>7 DEF G
  <2> QED  BY <2>1, <1>2, <1>3, <1>7 DEF G
<1>8. CASE j = i
  BY <1>6, <1>8 DEF G
<1>9. CASE i < j
  <2>1. i \in D /\ b[G[i]] # Nobody /\ Rank(b[G[i]]) < Rank(a[G[i]])
    BY <1>5, <1>6, <1>9 DEF G
  <2>2. PICK m \in D : a[G[m]] = b[G[i]]
    BY <2>1 DEF G
  <2>3. CASE m < i
    <3>1. b[G[m]] = b[G[i]]
      BY <2>2, <2>3 DEF G
    <3> QED  BY <2>1, <2>3, <3>1, <1>2, <1>3
  <2>4. CASE i < m
    <3>1. Rank(a[G[i]]) < Rank(b[G[i]])
      BY <1>5, <2>1, <2>2, <2>4
    <3>2. Rank(a[G[i]]) \in Nat /\ Rank(b[G[i]]) \in Nat
      BY <1>4, <2>1 DEF G
    <3> QED  BY <2>1, <3>1, <3>2
  <2>5. CASE m = i
    BY <2>2, <2>5 DEF G
  <2> QED  BY <2>1, <2>3, <2>4, <2>5, <1>2
<1> QED  BY <1>2, <1>6, <1>7, <1>8, <1>9 DEF G

\* The free slots of a room are those of one group.
LEMMA RoomIs ==
  ASSUME NEW g \in DOMAIN Groups, NEW i \in DOMAIN Groups[g], NEW s \in Slots, RoomOf[s] = RoomOf[Groups[g][i]]
  PROVE  s \in Locked \/ \E m \in DOMAIN Groups[g] : s = Groups[g][m]
<1> SUFFICES ASSUME s \notin Locked PROVE \E m \in DOMAIN Groups[g] : s = Groups[g][m]
  OBVIOUS
<1>1. PICK h \in DOMAIN Groups : \E m \in DOMAIN Groups[h] : Groups[h][m] = s
  BY Grouped DEF Free
<1>2. PICK m \in DOMAIN Groups[h] : Groups[h][m] = s
  BY <1>1
<1>3. \A x, y \in DOMAIN Groups : \A j \in DOMAIN Groups[x], k \in DOMAIN Groups[y] :
        RoomOf[Groups[x][j]] = RoomOf[Groups[y][k]] => x = y
  BY WalkAssumption
<1>4. h = g
  BY <1>2, <1>3, Zenon
<1> QED  BY <1>2, <1>4

\* Keys tell listed fillings apart.
LEMMA KeysDiffer ==
  ASSUME IInv, Enumerates, NEW a \in Listed, NEW b \in Listed, Canonical(a) = Canonical(b)
  PROVE  a = b
<1>1. Good(a) /\ Good(b)
  BY FillingsAreGood DEF Listed
<1>2. \A s \in Locked : a[s] = b[s] /\ s \in Slots
  BY <1>1, SpaceAssumption DEF Good
<1>3. ASSUME NEW r \in Rooms
      PROVE  Canonical(a)[r] = Canonical(b)[r]
  BY Zenon
<1>4. ASSUME NEW c, NEW d, Good(c), Good(d), Canonical(c) = Canonical(d),
             NEW g \in DOMAIN Groups, NEW i \in DOMAIN Groups[g], ~Ordered(g),
             c[Groups[g][i]] # Nobody
      PROVE  \E m \in DOMAIN Groups[g] : d[Groups[g][m]] = c[Groups[g][i]]
  <2> DEFINE t == Groups[g][i]  r == RoomOf[t]  here == {s \in Slots : RoomOf[s] = r}
  <2>1. t \in Slots /\ t \in Free /\ r \in Rooms /\ r \notin Training
    BY <1>4, SpaceAssumption, Grouped DEF Ordered
  <2>2. /\ Canonical(c)[r] = {c[s] : s \in here} \ {Nobody}
        /\ Canonical(d)[r] = {d[s] : s \in here} \ {Nobody}
    BY <2>1 DEF Canonical
  <2>3. c[t] \in Canonical(d)[r]
    BY <1>4, <2>1, <2>2
  <2>4. PICK s \in Slots : RoomOf[s] = r /\ d[s] = c[t]
    BY <2>2, <2>3
  <2>5. c[t] \in pool
    BY <1>4, <2>1 DEF Good
  <2>6. s \notin Locked
    BY <1>4, <2>4, <2>5 DEF Good, IInv, Valid
  <2> QED  BY <2>4, <2>6, RoomIs
<1>5. ASSUME NEW g \in DOMAIN Groups, NEW i \in DOMAIN Groups[g], a[Groups[g][i]] # b[Groups[g][i]] PROVE FALSE
  <2>1. CASE Ordered(g)
    <3> DEFINE t == Groups[g][i]  r == RoomOf[t]  here == {s \in Slots : RoomOf[s] = r}
    <3>1. t \in Slots /\ r \in Rooms /\ r \in Training
      <4>1. t \in Slots /\ r \in Rooms
        BY SpaceAssumption, Grouped
      <4>2. PICK j \in DOMAIN Groups[g] : RoomOf[Groups[g][j]] \in Training
        BY <2>1 DEF Ordered
      <4>3. DOMAIN Groups[g] \subseteq {1}
        BY <2>1, Grouped
      <4> QED  BY <4>1, <4>2, <4>3
    <3>2. [s \in here |-> a[s]] = [s \in here |-> b[s]]
      BY <1>3, <3>1 DEF Canonical
    <3>3. t \in here
      BY <3>1
    <3>4. [s \in here |-> a[s]][t] = a[t] /\ [s \in here |-> b[s]][t] = b[t]
      BY <3>3
    <3> QED  BY <3>2, <3>4, <1>5
  <2>2. CASE ~Ordered(g)
    <3> DEFINE differ == {j \in DOMAIN Groups[g] : a[Groups[g][j]] # b[Groups[g][j]]}
    <3>1. differ \subseteq Nat /\ i \in differ
      BY <1>5, Grouped
    <3>2. PICK k \in differ : \A m \in differ : k <= m
      <4> HIDE DEF differ
      <4> QED  BY <3>1, SmallestNumber
    <3>3. \A j \in DOMAIN Groups[g] : j \in Nat /\ k \in Nat /\ (j < k => a[Groups[g][j]] = b[Groups[g][j]])
      BY <3>1, <3>2, Grouped
    <3>4. /\ \A j \in DOMAIN Groups[g] : a[Groups[g][j]] # Nobody =>
               \E m \in DOMAIN Groups[g] : b[Groups[g][m]] = a[Groups[g][j]]
          /\ \A j \in DOMAIN Groups[g] : b[Groups[g][j]] # Nobody =>
               \E m \in DOMAIN Groups[g] : a[Groups[g][m]] = b[Groups[g][j]]
      BY <1>1, <1>4, <2>2
    <3>5. k \in DOMAIN Groups[g] /\ a[Groups[g][k]] # b[Groups[g][k]]
      OBVIOUS
    <3>6. CASE a[Groups[g][k]] # Nobody
      BY <3>3, <3>4, <3>5, <3>6, FirstDiffers
    <3>7. CASE b[Groups[g][k]] # Nobody
      <4>1. \A j \in DOMAIN Groups[g] : j < k => b[Groups[g][j]] = a[Groups[g][j]]
        BY <3>3
      <4>2. b[Groups[g][k]] = a[Groups[g][k]]
        BY <4>1, <3>4, <3>5, <3>7, FirstDiffers
      <4> QED  BY <3>5, <4>2
    <3> QED  BY <3>5, <3>6, <3>7
  <2> QED  BY <2>1, <2>2
<1>6. \A s \in Free : a[s] = b[s]
  BY <1>5, Grouped
<1>7. \A s \in Slots : a[s] = b[s]
  BY <1>2, <1>6 DEF Free
<1> QED  BY <1>1, <1>7 DEF Good, Assignments

\* A finite set of numbers can be counted in order.
LEMMA Counted ==
  ASSUME NEW S \in SUBSET Nat, IsFiniteSet(S)
  PROVE  /\ Cardinality(S) \in Nat
         /\ \E e \in [1 .. Cardinality(S) -> S] :
              /\ \A i, j \in 1 .. Cardinality(S) : i < j => e[i] < e[j]
              /\ \A x \in S : \E i \in 1 .. Cardinality(S) : e[i] = x
<1> DEFINE n == Cardinality(S)
           below(x) == {y \in S : y < x}
           place == [x \in S |-> Cardinality(below(x)) + 1]
<1>1. n \in Nat
  BY FS_CardinalityType
<1>2. ASSUME NEW x \in S
      PROVE  IsFiniteSet(below(x)) /\ Cardinality(below(x)) \in Nat /\ Cardinality(below(x)) < n
  <2>1. IsFiniteSet(S \ {x}) /\ Cardinality(S \ {x}) = n - 1
    BY FS_RemoveElement
  <2>2. below(x) \in SUBSET (S \ {x})
    OBVIOUS
  <2> HIDE DEF below
  <2>3. IsFiniteSet(below(x)) /\ Cardinality(below(x)) <= Cardinality(S \ {x})
    BY <2>1, <2>2, FS_Subset
  <2>4. Cardinality(below(x)) \in Nat
    BY <2>3, FS_CardinalityType
  <2> QED  BY <1>1, <2>1, <2>3, <2>4
<1>3. ASSUME NEW x \in S, NEW y \in S, x < y
      PROVE  Cardinality(below(x)) < Cardinality(below(y))
  <2>1. IsFiniteSet(below(y)) /\ x \in below(y) /\ Cardinality(below(y)) \in Nat /\ Cardinality(below(x)) \in Nat
    BY <1>2, <1>3
  <2>2. IsFiniteSet(below(y) \ {x}) /\ Cardinality(below(y) \ {x}) = Cardinality(below(y)) - 1
    BY <2>1, FS_RemoveElement
  <2>3. below(x) \in SUBSET (below(y) \ {x})
    <3>1. ASSUME NEW z \in S, z < x PROVE z < y /\ z # x
      <4>1. x \in Nat /\ y \in Nat /\ z \in Nat
        OBVIOUS
      <4> QED  BY <4>1, <3>1, <1>3
    <3> QED  BY <3>1
  <2> HIDE DEF below
  <2>4. Cardinality(below(x)) <= Cardinality(below(y) \ {x})
    BY <2>2, <2>3, FS_Subset
  <2> QED  BY <2>1, <2>2, <2>4
<1> HIDE DEF below, n
<1>4. place \in [S -> 1 .. n]
  BY <1>1, <1>2
<1>5. \A x, y \in S : x < y => place[x] < place[y]
  BY <1>2, <1>3
<1> HIDE DEF place
<1>6. \A x, y \in S : place[x] = place[y] => x = y
  <2> SUFFICES ASSUME NEW x \in S, NEW y \in S, place[x] = place[y], x # y PROVE FALSE
    OBVIOUS
  <2>1. x < y \/ y < x
    OBVIOUS
  <2>2. place[x] \in Nat /\ place[y] \in Nat
    BY <1>4
  <2> QED  BY <1>5, <2>1, <2>2
<1>7. \A i \in 1 .. n : \E x \in S : place[x] = i
  <2>1. place \in Injection(S, 1 .. n)
    BY <1>4, <1>6 DEF Injection, IsInjective
  <2>2. IsFiniteSet(1 .. n) /\ Cardinality(1 .. n) = n
    <3>1. IsFiniteSet(1 .. n) /\ Cardinality(1 .. n) = IF 1 > n THEN 0 ELSE n - 1 + 1
      BY <1>1, FS_Interval
    <3> QED  BY <1>1, <3>1
  <2>3. place \in Surjection(S, 1 .. n)
    BY <2>1, <2>2, FS_Injection DEF n
  <2> QED  BY <2>3 DEF Surjection
<1> DEFINE e == [i \in 1 .. n |-> CHOOSE x \in S : place[x] = i]
<1>8. \A i \in 1 .. n : e[i] \in S /\ place[e[i]] = i
  BY <1>7
<1>9. e \in [1 .. n -> S]
  BY <1>8
<1> HIDE DEF e
<1>10. ASSUME NEW i \in 1 .. n, NEW j \in 1 .. n, i < j PROVE e[i] < e[j]
  <2>1. e[i] \in Nat /\ e[j] \in Nat
    BY <1>8
  <2>2. ~(e[j] < e[i])
    <3> SUFFICES ASSUME e[j] < e[i] PROVE FALSE
      OBVIOUS
    <3>1. e[i] \in S /\ e[j] \in S /\ place[e[i]] = i /\ place[e[j]] = j
      BY <1>8
    <3>2. place[e[j]] < place[e[i]]
      BY <1>5, <3>1
    <3> QED  BY <1>1, <1>10, <3>1, <3>2
  <2>3. e[i] # e[j]
    BY <1>8, <1>10
  <2> QED  BY <2>1, <2>2, <2>3
<1>11. \A x \in S : \E i \in 1 .. n : e[i] = x
  BY <1>4, <1>6, <1>8
<1> QED  BY <1>1, <1>9, <1>10, <1>11 DEF n

\* The operators of a room, from the front in the order of the pool.
Arranges(c, a, g) ==
  /\ c \in [DOMAIN Groups[g] -> pool \cup {Nobody}]
  /\ \A i, j \in DOMAIN Groups[g] : i < j /\ c[j] # Nobody => c[i] # Nobody /\ Rank(c[i]) < Rank(c[j])
  /\ \A i \in DOMAIN Groups[g] : c[i] # Nobody => \E j \in DOMAIN Groups[g] : a[Groups[g][j]] = c[i]
  /\ \A j \in DOMAIN Groups[g] : a[Groups[g][j]] # Nobody => \E i \in DOMAIN Groups[g] : c[i] = a[Groups[g][j]]

LEMMA GroupArranged ==
  ASSUME IInv, Enumerates, NEW a, Good(a), NEW g \in DOMAIN Groups
  PROVE  \E c : Arranges(c, a, g)
<1> DEFINE G == Groups[g]  D == DOMAIN G
           taken == {i \in D : a[G[i]] # Nobody}
           rank == [i \in taken |-> Rank(a[G[i]])]
           ranks == {rank[i] : i \in taken}
           m == Cardinality(ranks)
<1>1. /\ D = 1 .. Len(G) /\ Len(G) \in Nat
      /\ \A i \in D : G[i] \in Free
  BY Grouped
<1>2. \A i \in taken : a[G[i]] \in pool /\ rank[i] \in DOMAIN order /\ order[rank[i]] = a[G[i]]
                       /\ rank[i] \in Nat
  <2> SUFFICES ASSUME NEW i \in taken
               PROVE  /\ a[G[i]] \in pool /\ rank[i] \in DOMAIN order /\ order[rank[i]] = a[G[i]]
                      /\ rank[i] \in Nat
    OBVIOUS
  <2>1. a[G[i]] \in pool /\ rank[i] = Rank(a[G[i]])
    BY <1>1 DEF Good
  <2> QED  BY <2>1, RankIs
<1>3. IsFiniteSet(taken) /\ Cardinality(taken) \in Nat /\ Cardinality(taken) <= Len(G)
  <2>1. IsFiniteSet(1 .. Len(G)) /\ Cardinality(1 .. Len(G)) = IF 1 > Len(G) THEN 0 ELSE Len(G) - 1 + 1
    BY <1>1, FS_Interval
  <2>2. taken \in SUBSET (1 .. Len(G))
    BY <1>1
  <2> HIDE DEF taken
  <2>3. IsFiniteSet(taken) /\ Cardinality(taken) <= Cardinality(1 .. Len(G))
    BY <2>1, <2>2, FS_Subset
  <2> QED  BY <1>1, <2>1, <2>3, FS_CardinalityType
<1>4. IsFiniteSet(ranks) /\ m <= Cardinality(taken) /\ ranks \in SUBSET Nat
  <2>1. rank \in [taken -> ranks] /\ \A x \in ranks : \E i \in taken : rank[i] = x
    OBVIOUS
  <2>2. ranks \in SUBSET Nat
    BY <1>2
  <2> HIDE DEF rank, ranks, taken
  <2>3. rank \in Surjection(taken, ranks)
    BY <2>1 DEF Surjection
  <2> QED  BY <1>3, <2>2, <2>3, FS_Surjection
<1>5. m \in Nat /\ m <= Len(G)
  <2> HIDE DEF ranks, taken
  <2>1. m \in Nat
    BY <1>4, Counted
  <2> HIDE DEF m
  <2> QED  BY <1>1, <1>3, <1>4, <2>1
<1>6. PICK e \in [1 .. m -> ranks] :
        /\ \A i, j \in 1 .. m : i < j => e[i] < e[j]
        /\ \A x \in ranks : \E i \in 1 .. m : e[i] = x
  <2> HIDE DEF ranks
  <2> QED  BY <1>4, Counted
<1>7. \A x \in ranks : /\ x \in DOMAIN order /\ order[x] \in pool /\ order[x] # Nobody /\ Rank(order[x]) = x
                       /\ \E i \in D : a[G[i]] = order[x]
  <2> SUFFICES ASSUME NEW x \in ranks
               PROVE  /\ x \in DOMAIN order /\ order[x] \in pool /\ order[x] # Nobody /\ Rank(order[x]) = x
                      /\ \E j \in D : a[G[j]] = order[x]
    OBVIOUS
  <2>0. PICK i \in taken : x = rank[i]
    OBVIOUS
  <2>1. rank[i] \in DOMAIN order /\ order[rank[i]] = a[G[i]] /\ a[G[i]] # Nobody /\ i \in D /\ a[G[i]] \in pool
    BY <1>2
  <2> HIDE DEF rank
  <2> QED  BY <2>0, <2>1, RankIs
<1>8. \A i \in D : a[G[i]] # Nobody => \E x \in ranks : order[x] = a[G[i]]
  BY <1>2
<1> HIDE DEF ranks, rank, taken, m
<1> DEFINE c == [i \in D |-> IF i <= m THEN order[e[i]] ELSE Nobody]
<1>9. \A i \in D : /\ i \in Nat \ {0} /\ i <= Len(G)
                   /\ i <= m => i \in 1 .. m /\ e[i] \in ranks /\ c[i] = order[e[i]]
                   /\ i > m => c[i] = Nobody
                   /\ c[i] # Nobody => i <= m
  BY <1>1, <1>5
<1>10. c \in [D -> pool \cup {Nobody}]
  <2>1. \A i \in D : c[i] \in pool \cup {Nobody}
    BY <1>5, <1>7, <1>9
  <2> QED  BY <2>1
<1> HIDE DEF c
<1>11. ASSUME NEW i \in D, NEW j \in D, i < j, c[j] # Nobody
       PROVE  c[i] # Nobody /\ Rank(c[i]) < Rank(c[j])
  <2>1. i <= m /\ j <= m
    BY <1>5, <1>9, <1>11
  <2>2. c[i] = order[e[i]] /\ c[j] = order[e[j]] /\ e[i] \in ranks /\ e[j] \in ranks /\ e[i] < e[j]
    BY <1>6, <1>9, <1>11, <2>1
  <2> QED  BY <1>7, <2>2
<1>12. ASSUME NEW i \in D, c[i] # Nobody PROVE \E j \in D : a[G[j]] = c[i]
  BY <1>7, <1>9, <1>12
<1>13. ASSUME NEW j \in D, a[G[j]] # Nobody PROVE \E i \in D : c[i] = a[G[j]]
  <2>1. PICK x \in ranks : order[x] = a[G[j]]
    BY <1>8, <1>13
  <2>2. PICK i \in 1 .. m : e[i] = x
    BY <1>6
  <2>3. i \in D /\ i <= m
    BY <1>1, <1>5
  <2> QED  BY <1>9, <2>1, <2>2, <2>3
<1> HIDE DEF D
<1>14. Arranges(c, a, g)
  BY <1>10, <1>11, <1>12, <1>13 DEF Arranges, D
<1> QED  BY <1>14

\* Every filling can be rearranged into a listed one without a change of key.
LEMMA Arranged ==
  ASSUME IInv, Enumerates, NEW a \in Fillings
  PROVE  \E b \in Listed : Canonical(b) = Canonical(a)
<1>1. Good(a)
  BY FillingsAreGood
<1> DEFINE in(s) == CHOOSE g \in DOMAIN Groups : \E i \in DOMAIN Groups[g] : Groups[g][i] = s
           at(s) == CHOOSE i \in DOMAIN Groups[in(s)] : Groups[in(s)][i] = s
           C(g) == CHOOSE c : Arranges(c, a, g)
           b == [s \in Slots |-> IF s \in Free THEN C(in(s))[at(s)] ELSE a[s]]
<1>2. \A g \in DOMAIN Groups : Arranges(C(g), a, g)
  BY <1>1, GroupArranged
<1>3. \A s \in Free : in(s) \in DOMAIN Groups /\ at(s) \in DOMAIN Groups[in(s)] /\ Groups[in(s)][at(s)] = s
  <2> SUFFICES ASSUME NEW s \in Free
               PROVE  in(s) \in DOMAIN Groups /\ at(s) \in DOMAIN Groups[in(s)] /\ Groups[in(s)][at(s)] = s
    OBVIOUS
  <2>1. \E g \in DOMAIN Groups : \E i \in DOMAIN Groups[g] : Groups[g][i] = s
    BY Grouped
  <2>2. in(s) \in DOMAIN Groups /\ \E i \in DOMAIN Groups[in(s)] : Groups[in(s)][i] = s
    BY <2>1
  <2> HIDE DEF in
  <2> QED  BY <2>2
<1>4. \A g, h \in DOMAIN Groups : \A i \in DOMAIN Groups[g], j \in DOMAIN Groups[h] :
        Groups[g][i] = Groups[h][j] => g = h /\ i = j
  BY Grouped
<1> HIDE DEF in, at, C
<1>5. /\ \A s \in Locked : b[s] = a[s] /\ a[s] = initial[s] /\ a[s] \notin pool /\ s \in Slots
      /\ \A s \in Slots : s \notin Locked <=> s \in Free
  BY <1>1, SpaceAssumption DEF Good, Free, IInv, Valid
<1>6. ASSUME NEW g \in DOMAIN Groups, NEW i \in DOMAIN Groups[g]
      PROVE  b[Groups[g][i]] = C(g)[i] /\ Groups[g][i] \in Free /\ Groups[g][i] \in Slots
  <2> DEFINE s == Groups[g][i]
  <2>1. s \in Free /\ s \in Slots
    BY Grouped
  <2>2. in(s) = g /\ at(s) = i
    <3>1. Groups[in(s)][at(s)] = s /\ in(s) \in DOMAIN Groups /\ at(s) \in DOMAIN Groups[in(s)]
      BY <1>3, <2>1
    <3> QED  BY <1>4, <3>1
  <2> QED  BY <2>1, <2>2
<1>7. ASSUME NEW s \in Free
      PROVE  \E g \in DOMAIN Groups : \E i \in DOMAIN Groups[g] : s = Groups[g][i] /\ b[s] = C(g)[i]
  BY <1>3, <1>6
<1> HIDE DEF b
<1>8. \A s \in Free : b[s] \in pool \cup {Nobody}
  BY <1>2, <1>7 DEF Arranges
<1>9. ASSUME NEW s \in Slots, NEW t \in Slots, b[s] # Nobody, b[s] = b[t] PROVE s = t
  <2>1. CASE s \in Free /\ t \in Free
    <3>1. PICK g \in DOMAIN Groups : \E i \in DOMAIN Groups[g] : s = Groups[g][i] /\ b[s] = C(g)[i]
      BY <1>7, <2>1
    <3>2. PICK i \in DOMAIN Groups[g] : s = Groups[g][i] /\ b[s] = C(g)[i]
      BY <3>1
    <3>3. PICK h \in DOMAIN Groups : \E j \in DOMAIN Groups[h] : t = Groups[h][j] /\ b[t] = C(h)[j]
      BY <1>7, <2>1
    <3>4. PICK j \in DOMAIN Groups[h] : t = Groups[h][j] /\ b[t] = C(h)[j]
      BY <3>3
    <3>5. PICK k \in DOMAIN Groups[g] : a[Groups[g][k]] = b[s]
      BY <1>2, <1>9, <3>2 DEF Arranges
    <3>6. PICK l \in DOMAIN Groups[h] : a[Groups[h][l]] = b[s]
      BY <1>2, <1>9, <3>4 DEF Arranges
    <3>7. Groups[g][k] = Groups[h][l]
      BY <1>1, <1>6, <1>9, <3>5, <3>6 DEF Good, NoDuplicates
    <3>8. g = h
      BY <1>4, <3>7
    <3>9. Rank(b[s]) \in Nat /\ i \in Nat /\ j \in Nat
      BY <1>8, <1>9, <2>1, RankIs, Grouped
    <3>10. ~(i < j) /\ ~(j < i)
      BY <1>2, <1>9, <3>2, <3>4, <3>8, <3>9 DEF Arranges
    <3> QED  BY <3>2, <3>4, <3>8, <3>9, <3>10
  <2>2. CASE s \in Locked \/ t \in Locked
    BY <1>1, <1>5, <1>8, <1>9, <2>2 DEF Good, NoDuplicates
  <2> QED  BY <1>5, <2>1, <2>2
<1>10. b \in Assignments
  <2>1. \A s \in Slots : b[s] \in Operators \cup {Nobody}
    BY <1>1, <1>5, <1>8 DEF Good, Assignments, IInv, TypeOK
  <2>2. b = [s \in Slots |-> b[s]]
    BY DEF b
  <2> QED  BY <2>1, <2>2 DEF Assignments
<1>11. b \in Listed
  <2>1. Good(b)
    BY <1>5, <1>8, <1>9, <1>10 DEF Good, NoDuplicates
  <2>2. InOrder(b)
    BY <1>2, <1>6 DEF InOrder, Arranges
  <2> QED  BY <2>1, <2>2, FillingsAreGood DEF Listed
<1>12. ASSUME NEW r \in Rooms PROVE Canonical(b)[r] = Canonical(a)[r]
  <2> DEFINE here == {s \in Slots : RoomOf[s] = r}
  <2>1. CASE r \in Training
    <3>1. ASSUME NEW s \in here, s \in Free PROVE b[s] = a[s]
      <4>1. PICK g \in DOMAIN Groups : \E i \in DOMAIN Groups[g] : s = Groups[g][i] /\ b[s] = C(g)[i]
        BY <1>7, <3>1
      <4>2. PICK i \in DOMAIN Groups[g] : s = Groups[g][i] /\ b[s] = C(g)[i]
        BY <4>1
      <4>3. DOMAIN Groups[g] \subseteq {1}
        <5>1. Ordered(g)
          BY <2>1, <3>1, <4>2 DEF Ordered
        <5> QED  BY <5>1, Grouped
      <4>4. \A j \in DOMAIN Groups[g] : j = i
        BY <4>3
      <4>5. b[s] # Nobody => a[s] = b[s]
        BY <1>2, <4>2, <4>4 DEF Arranges
      <4>6. a[s] # Nobody => b[s] = a[s]
        BY <1>2, <4>2, <4>4 DEF Arranges
      <4> QED  BY <4>5, <4>6
    <3>2. \A s \in here : b[s] = a[s]
      BY <1>5, <3>1
    <3>3. [s \in here |-> b[s]] = [s \in here |-> a[s]]
      BY <3>2
    <3> QED  BY <2>1, <3>3 DEF Canonical
  <2>2. CASE r \notin Training
    <3>1. ASSUME NEW s \in here, a[s] # Nobody PROVE \E t \in here : b[t] = a[s]
      <4>1. CASE s \in Locked
        BY <1>5, <3>1, <4>1
      <4>2. CASE s \notin Locked
        <5>1. PICK g \in DOMAIN Groups : \E i \in DOMAIN Groups[g] : s = Groups[g][i]
          BY <1>5, <1>7, <4>2
        <5>2. PICK i \in DOMAIN Groups[g] : s = Groups[g][i]
          BY <5>1
        <5>3. PICK j \in DOMAIN Groups[g] : C(g)[j] = a[s]
          BY <1>2, <3>1, <5>2 DEF Arranges
        <5>4. RoomOf[Groups[g][j]] = RoomOf[Groups[g][i]]
          BY WalkAssumption
        <5> QED  BY <1>6, <5>2, <5>3, <5>4
      <4> QED  BY <4>1, <4>2
    <3>2. ASSUME NEW s \in here, b[s] # Nobody PROVE \E t \in here : a[t] = b[s]
      <4>1. CASE s \in Locked
        BY <1>5, <3>2, <4>1
      <4>2. CASE s \notin Locked
        <5>1. PICK g \in DOMAIN Groups : \E i \in DOMAIN Groups[g] : s = Groups[g][i] /\ b[s] = C(g)[i]
          BY <1>5, <1>7, <4>2
        <5>2. PICK i \in DOMAIN Groups[g] : s = Groups[g][i] /\ b[s] = C(g)[i]
          BY <5>1
        <5>3. PICK j \in DOMAIN Groups[g] : a[Groups[g][j]] = b[s]
          BY <1>2, <3>2, <5>2 DEF Arranges
        <5>4. RoomOf[Groups[g][j]] = RoomOf[Groups[g][i]]
          BY WalkAssumption
        <5> QED  BY <1>6, <5>2, <5>3, <5>4
      <4> QED  BY <4>1, <4>2
    <3>3. {b[s] : s \in here} \ {Nobody} = {a[s] : s \in here} \ {Nobody}
      <4> HIDE DEF here
      <4> QED  BY <3>1, <3>2
    <3> QED  BY <2>2, <3>3 DEF Canonical
  <2> QED  BY <2>1, <2>2
<1>13. Canonical(b) = Canonical(a)
  <2>1. Canonical(b) = [r \in Rooms |-> Canonical(b)[r]] /\ Canonical(a) = [r \in Rooms |-> Canonical(a)[r]]
    BY DEF Canonical
  <2> QED  BY <1>12, <2>1, Zenon
<1> QED  BY <1>11, <1>13

\* While the pool and its order stay as they are, so does what is listed.
LEMMA SameListing ==
  ASSUME UNCHANGED <<initial, pool, order>>
  PROVE  /\ Listed' = Listed
         /\ Enumerates' <=> Enumerates
         /\ \A a : InOrder(a)' <=> InOrder(a)
<1>1. \A op : Rank(op)' = Rank(op)
  BY DEF Rank
<1>2. Fillings' = Fillings
  BY DEF Fillings
<1>3. \A a : InOrder(a)' <=> InOrder(a)
  BY DEF InOrder, Rank
<1>4. Listed' = {a \in Fillings' : InOrder(a)'}
  BY DEF Listed
<1> QED  BY <1>2, <1>3, <1>4 DEF Enumerates, Listed

LEMMA SameFits ==
  ASSUME UNCHANGED <<initial, pool, order>>, \A k \in DOMAIN stack' : Fits(stack'[k], current')
  PROVE  (\A k \in DOMAIN stack : Fits(stack[k], current))'
BY DEF Fits, HasSlot, SlotOf, Rank

LEMMA SameAhead ==
  ASSUME UNCHANGED <<initial, pool, order>>, NEW a
  PROVE  Ahead(a)' <=> \E k \in DOMAIN stack' : Owes(stack'[k], a, current')
BY DEF Ahead, Owes, From, Agrees, SlotOf, Rank, Before

LEMMA SameOrder ==
  ASSUME UNCHANGED <<initial, pool, order>>, InOrder(current')
  PROVE  InOrder(current)'
BY DEF InOrder, Rank

\* The walk is under way.
Underway ==
  /\ phase = "walking" /\ stack # <<>>
  /\ IInv /\ WalkTyped /\ Enumerates /\ StackInv /\ Offered

\* What a step does to the stack: it changes the top call, or takes it away,
\* or puts one more on it, and changes nothing before the top's slot.
LEMMA StackStep ==
  ASSUME Underway, UNCHANGED <<initial, pool, order>>, Agrees(Top, current', current),
         NEW m \in {Len(stack) - 1, Len(stack), Len(stack) + 1},
         DOMAIN stack' = 1 .. m,
         \A k \in 1 .. Len(stack) - 1 : stack'[k] = stack[k],
         \A k \in Len(stack) .. m : stack'[k] \in Frames /\ Fits(stack'[k], current'),
         \A k \in Len(stack) .. m :
            Above(Top, stack'[k]) \/ (Top.g = stack'[k].g /\ Top.i = stack'[k].i),
         m = Len(stack) + 1 => /\ stack'[Len(stack)].left
                               /\ Above(stack'[Len(stack)], stack'[Len(stack) + 1])
  PROVE  /\ (\A k \in DOMAIN stack : Fits(stack[k], current))'
         /\ \A j, k \in DOMAIN stack' : j < k => Above(stack'[j], stack'[k]) /\ stack'[j].left
         /\ \A a : Ahead(a)' <=> \/ \E k \in 1 .. Len(stack) - 1 : Owes(stack[k], a, current)
                                 \/ \E k \in Len(stack) .. m : Owes(stack'[k], a, current')
         /\ \A a : Ahead(a) <=> \/ \E k \in 1 .. Len(stack) - 1 : Owes(stack[k], a, current)
                                \/ Owes(Top, a, current)
<1> DEFINE n == Len(stack)
<1>1. /\ n \in Nat \ {0} /\ DOMAIN stack = 1 .. n /\ Top = stack[n] /\ Top \in Frames
      /\ \A k \in 1 .. n : stack[k] \in Frames
  <2>1. n \in Nat \ {0} /\ DOMAIN stack = 1 .. n /\ Top = stack[n] /\ \A k \in 1 .. n : stack[k] \in Frames
    BY StackForms DEF Underway
  <2> QED  BY <2>1
<1>2. \A k \in 1 .. n - 1 : Fits(stack[k], current') /\ \A a : Owes(stack[k], a, current') <=> Owes(stack[k], a, current)
  BY BelowKept DEF Underway
<1>3. \A j, k \in DOMAIN stack : j < k => Above(stack[j], stack[k]) /\ stack[j].left
  BY DEF Underway, StackInv
<1> HIDE DEF n
<1>4. /\ m \in {n - 1, n, n + 1} /\ DOMAIN stack' = 1 .. m
      /\ \A k \in 1 .. n - 1 : stack'[k] = stack[k]
      /\ \A k \in n .. m : stack'[k] \in Frames /\ Fits(stack'[k], current')
      /\ \A k \in n .. m : Above(Top, stack'[k]) \/ (Top.g = stack'[k].g /\ Top.i = stack'[k].i)
      /\ m = n + 1 => stack'[n].left /\ Above(stack'[n], stack'[n + 1])
  BY DEF n
<1>5. \A k \in 1 .. m : k \in 1 .. n - 1 \/ k \in n .. m
  BY <1>1, <1>4
<1>6. \A k \in DOMAIN stack' : Fits(stack'[k], current')
  BY <1>2, <1>4, <1>5
<1>7. ASSUME NEW j \in DOMAIN stack', NEW k \in DOMAIN stack', j < k
      PROVE  Above(stack'[j], stack'[k]) /\ stack'[j].left
  <2>1. CASE k \in 1 .. n - 1
    <3>1. j \in 1 .. n - 1 /\ j \in 1 .. n /\ k \in 1 .. n
      BY <1>1, <1>4, <1>7, <2>1
    <3> QED  BY <1>1, <1>3, <1>4, <1>7, <2>1, <3>1
  <2>2. CASE k \in n .. m /\ j \in 1 .. n - 1
    <3>1. j \in 1 .. n /\ n \in 1 .. n /\ j < n
      BY <1>1, <2>2
    <3>2. Above(stack[j], Top) /\ stack[j].left /\ stack[j] \in Frames
      BY <1>1, <1>3, <3>1
    <3>3. Above(Top, stack'[k]) \/ (Top.g = stack'[k].g /\ Top.i = stack'[k].i)
      BY <1>4, <2>2
    <3>4. stack'[k] \in Frames
      BY <1>4, <2>2
    <3>5. /\ Top.g \in Nat /\ Top.i \in Nat /\ stack[j].g \in Nat /\ stack[j].i \in Nat
          /\ stack'[k].g \in Nat /\ stack'[k].i \in Nat
      BY <1>1, <3>2, <3>4 DEF Frames
    <3>6. Above(stack[j], stack'[k])
      <4> DEFINE x == stack[j]  y == Top  z == stack'[k]
      <4>1. /\ x.g < y.g \/ (x.g = y.g /\ x.i < y.i)
            /\ y.g < z.g \/ (y.g = z.g /\ y.i < z.i) \/ (y.g = z.g /\ y.i = z.i)
            /\ x.g \in Nat /\ x.i \in Nat /\ y.g \in Nat /\ y.i \in Nat /\ z.g \in Nat /\ z.i \in Nat
        BY <3>2, <3>3, <3>5 DEF Above
      <4> HIDE DEF x, y, z
      <4>2. x.g < z.g \/ (x.g = z.g /\ x.i < z.i)
        BY <4>1
      <4> QED  BY <4>2 DEF Above, x, z
    <3> QED  BY <1>4, <2>2, <3>2, <3>6
  <2>3. CASE k \in n .. m /\ j \in n .. m
    <3>1. m = n + 1 /\ j = n /\ k = n + 1
      BY <1>1, <1>4, <1>7, <2>3
    <3> QED  BY <1>4, <3>1
  <2> QED  BY <1>4, <1>5, <2>1, <2>2, <2>3
<1>8. ASSUME NEW a
      PROVE  Ahead(a)' <=> \/ \E k \in 1 .. n - 1 : Owes(stack[k], a, current)
                           \/ \E k \in n .. m : Owes(stack'[k], a, current')
  <2>1. Ahead(a)' <=> \E k \in DOMAIN stack' : Owes(stack'[k], a, current')
    BY SameAhead
  <2>2. \A k \in 1 .. n - 1 : k \in 1 .. m
    BY <1>1, <1>4
  <2>3. \A k \in n .. m : k \in 1 .. m
    BY <1>1, <1>4
  <2> QED  BY <1>2, <1>4, <1>5, <2>1, <2>2, <2>3
<1>9. ASSUME NEW a
      PROVE  Ahead(a) <=> (\E k \in 1 .. n - 1 : Owes(stack[k], a, current)) \/ Owes(Top, a, current)
  <2>1. \A k \in 1 .. n : k \in 1 .. n - 1 \/ k = n
    BY <1>1
  <2>2. n \in 1 .. n /\ \A k \in 1 .. n - 1 : k \in 1 .. n
    BY <1>1
  <2> QED  BY <1>1, <2>1, <2>2 DEF Ahead
<1>10. (\A k \in DOMAIN stack : Fits(stack[k], current))'
  BY <1>6, SameFits
<1> QED  BY <1>7, <1>8, <1>9, <1>10 DEF n

\* What is offered stays as it is while what is owed does; a walk that was
\* halted may forget what it owes.
LEMMA OfferedKept ==
  ASSUME Underway, UNCHANGED <<initial, pool, order, scored, visited, halted>>,
         \A a \in Listed : Ahead(a)' => Ahead(a),
         ~halted => \A a \in Listed : Ahead(a) => Ahead(a)'
  PROVE  Offered'
<1>1. Listed' = Listed
  BY SameListing
<1> QED  BY <1>1 DEF Underway, Offered

\* A step that places nobody and takes nobody back.
LEMMA NobodyMoved ==
  ASSUME Underway, UNCHANGED <<initial, pool, order, current, used>>, ~Top.placing,
         NEW m \in {Len(stack) - 1, Len(stack), Len(stack) + 1},
         DOMAIN stack' = 1 .. m,
         \A k \in 1 .. Len(stack) - 1 : stack'[k] = stack[k],
         \A k \in Len(stack) .. m : stack'[k] \in Frames /\ Fits(stack'[k], current),
         \A k \in Len(stack) .. m : ~stack'[k].placing,
         \A k \in Len(stack) .. m :
            Above(Top, stack'[k]) \/ (Top.g = stack'[k].g /\ Top.i = stack'[k].i),
         m = Len(stack) + 1 => /\ stack'[Len(stack)].left
                               /\ Above(stack'[Len(stack)], stack'[Len(stack) + 1])
  PROVE  /\ StackInv'
         /\ \A a : Ahead(a)' <=> \/ \E k \in 1 .. Len(stack) - 1 : Owes(stack[k], a, current)
                                 \/ \E k \in Len(stack) .. m : Owes(stack'[k], a, current)
         /\ \A a : Ahead(a) <=> \/ \E k \in 1 .. Len(stack) - 1 : Owes(stack[k], a, current)
                                \/ Owes(Top, a, current)
<1> DEFINE n == Len(stack)
<1>1. Agrees(Top, current', current)
  BY DEF Agrees
<1>2. /\ (\A k \in DOMAIN stack : Fits(stack[k], current))'
      /\ \A j, k \in DOMAIN stack' : j < k => Above(stack'[j], stack'[k]) /\ stack'[j].left
      /\ \A a : Ahead(a)' <=> \/ \E k \in 1 .. n - 1 : Owes(stack[k], a, current)
                              \/ \E k \in n .. m : Owes(stack'[k], a, current)
      /\ \A a : Ahead(a) <=> \/ \E k \in 1 .. n - 1 : Owes(stack[k], a, current)
                             \/ Owes(Top, a, current)
  BY <1>1, StackStep
<1>3. n \in Nat \ {0} /\ DOMAIN stack = 1 .. n /\ Top = stack[n]
  BY StackForms DEF Underway
<1> HIDE DEF n
<1>4. /\ DOMAIN stack' = 1 .. m /\ m \in {n - 1, n, n + 1}
      /\ \A k \in 1 .. n - 1 : stack'[k] = stack[k]
      /\ \A k \in n .. m : ~stack'[k].placing
  BY DEF n
<1>5. \A k \in DOMAIN stack : stack[k].placing => k \in 1 .. n - 1
  BY <1>3
<1>6. \A k \in DOMAIN stack' : stack'[k].placing => k \in 1 .. n - 1
  BY <1>3, <1>4
<1>7. \A k \in 1 .. n - 1 : k \in DOMAIN stack /\ k \in DOMAIN stack' /\ stack'[k] = stack[k]
  BY <1>3, <1>4
<1>8. ASSUME NEW s \in Free, current[s] # Nobody
      PROVE  \E k \in DOMAIN stack' : stack'[k].placing /\ Groups[stack'[k].g][stack'[k].i] = s
  <2>1. PICK k \in DOMAIN stack : stack[k].placing /\ SlotOf(stack[k]) = s
    BY <1>8 DEF Underway, StackInv
  <2> QED  BY <1>5, <1>7, <2>1 DEF SlotOf
<1>9. used = {stack'[k].next : k \in {j \in DOMAIN stack' : stack'[j].placing}}
  <2>1. used = {stack[k].next : k \in {j \in DOMAIN stack : stack[j].placing}}
    BY DEF Underway, StackInv
  <2>2. ASSUME NEW k \in DOMAIN stack, stack[k].placing
        PROVE  k \in DOMAIN stack' /\ stack'[k].placing /\ stack'[k].next = stack[k].next
    BY <1>5, <1>7, <2>2
  <2>3. ASSUME NEW k \in DOMAIN stack', stack'[k].placing
        PROVE  k \in DOMAIN stack /\ stack[k].placing /\ stack'[k].next = stack[k].next
    BY <1>6, <1>7, <2>3
  <2> QED  BY <2>1, <2>2, <2>3
<1>10. InOrder(current)'
  <2>1. InOrder(current) /\ current' = current
    BY DEF Underway, StackInv
  <2>2. InOrder(current')
    BY <2>1
  <2> QED  BY <2>2, SameOrder
<1>11. StackInv'
  BY <1>2, <1>8, <1>9, <1>10 DEF StackInv, SlotOf
<1> QED  BY <1>2, <1>11 DEF n

\* Where a call has a slot to fill.
LEMMA SlotToFill ==
  ASSUME WalkTyped, stack # <<>>, ~AtLeaf, ~RoomDone
  PROVE  HasSlot(Top) /\ SlotOf(Top) \in Free
<1>1. Top \in Frames /\ Top.g \in Nat \ {0} /\ Top.i \in Nat \ {0}
  BY Stacks DEF Frames
<1>2. Top.g <= Len(Groups)
  BY <1>1, Grouped DEF AtLeaf
<1>3. Top.g \in DOMAIN Groups
  BY <1>1, <1>2, Grouped
<1>4. Len(Groups[Top.g]) \in Nat
  BY <1>3, Grouped
<1> QED  BY <1>1, <1>2, <1>4, HasSlotIs DEF RoomDone

\* A call returns that has placed nobody.
LEMMA Popped ==
  ASSUME Underway, UNCHANGED <<initial, pool, order, current, used>>, ~Top.placing, stack' = Front(stack)
  PROVE  /\ StackInv'
         /\ \A a : Ahead(a)' <=> \E k \in 1 .. Len(stack) - 1 : Owes(stack[k], a, current)
         /\ \A a : Ahead(a) <=> Ahead(a)' \/ Owes(Top, a, current)
<1> DEFINE n == Len(stack)  m == n - 1
<1>1. /\ n \in Nat \ {0} /\ DOMAIN stack' = 1 .. n - 1
      /\ \A k \in 1 .. n - 1 : stack'[k] = stack[k]
  BY StackForms DEF Underway
<1>2. n .. m = {} /\ m # n + 1 /\ m \in {n - 1, n, n + 1}
  BY <1>1
<1>3. /\ DOMAIN stack' = 1 .. m
      /\ \A k \in n .. m : stack'[k] \in Frames /\ Fits(stack'[k], current)
      /\ \A k \in n .. m : ~stack'[k].placing
      /\ \A k \in n .. m : Above(Top, stack'[k]) \/ (Top.g = stack'[k].g /\ Top.i = stack'[k].i)
      /\ m = n + 1 => stack'[n].left /\ Above(stack'[n], stack'[n + 1])
  BY <1>1, <1>2
<1> HIDE DEF m
<1>4. /\ StackInv'
      /\ \A a : Ahead(a)' <=> \/ \E k \in 1 .. n - 1 : Owes(stack[k], a, current)
                              \/ \E k \in n .. m : Owes(stack'[k], a, current)
      /\ \A a : Ahead(a) <=> \/ \E k \in 1 .. n - 1 : Owes(stack[k], a, current)
                             \/ Owes(Top, a, current)
  BY <1>1, <1>2, <1>3, NobodyMoved
<1> QED  BY <1>2, <1>4

\* A filling is scored: it is the only one the call owed, and no other key is
\* its key.
LEMMA ScoreKeeps ==
  ASSUME Underway, Score
  PROVE  StackInv' /\ Offered'
<1>1. /\ UNCHANGED <<initial, pool, order, current, used, halted>>
      /\ stack' = Front(stack) /\ AtLeaf /\ scored' = scored + 1
      /\ visited' = visited \cup {Canonical(current)}
  BY DEF Score, Walking, Return
<1>2. ~HasSlot(Top) /\ ~Top.placing
  <2>1. Top \in Frames /\ Fits(Top, current)
    BY TopFits DEF Underway
  <2>2. ~HasSlot(Top)
    BY <1>1, <2>1, HasSlotIs, Grouped DEF AtLeaf, Frames
  <2> QED  BY <2>1, <2>2 DEF Fits
<1>3. /\ StackInv'
      /\ \A a : Ahead(a)' <=> \E k \in 1 .. Len(stack) - 1 : Owes(stack[k], a, current)
      /\ \A a : Ahead(a) <=> Ahead(a)' \/ Owes(Top, a, current)
  BY <1>1, <1>2, Popped
<1>4. /\ current \in Listed
      /\ \A a \in Listed : Owes(Top, a, current) <=> a = current
      /\ \A k \in 1 .. Len(stack) - 1 : ~Owes(stack[k], current, current)
  BY <1>1, OwedLeaf DEF Underway
<1>5. Ahead(current) /\ \A a \in Listed : Ahead(a)' <=> Ahead(a) /\ a # current
  <2> DEFINE c == current
  <2>1. \A k \in 1 .. Len(stack) - 1 : ~Owes(stack[k], c, current)
    BY <1>4
  <2>2. c \in Listed /\ Owes(Top, c, current)
    BY <1>4
  <2> HIDE DEF c
  <2>3. Ahead(c)
    BY <1>3, <2>2
  <2>4. \A a \in Listed : a = c => ~Ahead(a)'
    BY <1>3, <2>1
  <2>5. \A a \in Listed : Owes(Top, a, current) <=> a = c
    BY <1>4 DEF c
  <2> QED  BY <1>3, <2>3, <2>4, <2>5 DEF c
<1>6. /\ Canonical(current) \notin visited
      /\ IsFiniteSet(visited) /\ Cardinality(visited) = scored
      /\ visited \subseteq {Canonical(a) : a \in Listed}
  BY <1>4, <1>5 DEF Underway, Offered
<1>7. IsFiniteSet(visited') /\ Cardinality(visited') = scored'
  BY <1>1, <1>6, FS_AddElement
<1>8. Listed' = Listed
  BY <1>1, SameListing
<1>9. visited' \subseteq {Canonical(a) : a \in Listed}
  BY <1>1, <1>4, <1>6
<1>10. ASSUME NEW a \in Listed, Ahead(a)' PROVE Canonical(a) \notin visited'
  <2>1. Ahead(a) /\ a # current
    BY <1>5, <1>10
  <2>2. Canonical(a) \notin visited
    BY <2>1 DEF Underway, Offered
  <2>3. Canonical(a) # Canonical(current)
    BY <1>4, <2>1, KeysDiffer DEF Underway
  <2> QED  BY <1>1, <2>2, <2>3
<1>11. ASSUME ~halted, NEW a \in Listed PROVE Ahead(a)' \/ Canonical(a) \in visited'
  <2>1. Ahead(a) \/ Canonical(a) \in visited
    BY <1>11 DEF Underway, Offered
  <2> QED  BY <1>1, <1>5, <2>1
<1>12. Offered'
  BY <1>1, <1>7, <1>8, <1>9, <1>10, <1>11 DEF Offered
<1> QED  BY <1>3, <1>12

\* A walk that stops owes what it leaves unscored no longer.
LEMMA HaltKeeps ==
  ASSUME Underway, Halt
  PROVE  StackInv' /\ Offered'
<1>1. /\ UNCHANGED <<initial, pool, order, current, used, scored, visited>>
      /\ stack' = Front(stack) /\ AtLeaf /\ halted'
  BY DEF Halt, Walking, Return
<1>2. ~Top.placing
  <2>1. Top \in Frames /\ Fits(Top, current)
    BY TopFits DEF Underway
  <2>2. ~HasSlot(Top)
    BY <1>1, <2>1, HasSlotIs, Grouped DEF AtLeaf, Frames
  <2> QED  BY <2>1, <2>2 DEF Fits
<1>3. StackInv' /\ \A a : Ahead(a)' => Ahead(a)
  BY <1>1, <1>2, Popped
<1>4. Listed' = Listed
  BY <1>1, SameListing
<1> QED  BY <1>1, <1>3, <1>4 DEF Underway, Offered

\* A call whose slot nobody is left for owes nothing more.
LEMMA GiveUpKeeps ==
  ASSUME Underway, GiveUp
  PROVE  StackInv' /\ Offered'
<1>1. /\ UNCHANGED <<initial, pool, order, current, used, scored, halted, visited>>
      /\ stack' = Front(stack) /\ ~AtLeaf /\ ~RoomDone /\ Top.left /\ ~Top.placing
      /\ halted \/ Untried = {}
  BY DEF GiveUp, InLoop, Walking, Return
<1>2. HasSlot(Top)
  BY <1>1, SlotToFill DEF Underway
<1>3. /\ StackInv'
      /\ \A a : Ahead(a) <=> Ahead(a)' \/ Owes(Top, a, current)
  BY <1>1, Popped
<1>4. ASSUME ~halted, NEW a \in Listed PROVE ~Owes(Top, a, current)
  BY <1>1, <1>2, <1>4, OwedIsUntried DEF Underway
<1>5. Offered'
  BY <1>1, <1>3, <1>4, OfferedKept
<1> QED  BY <1>3, <1>5

\* The stack when the top call changes, and when it makes another.
LEMMA ReplacedForm ==
  ASSUME WalkTyped, stack # <<>>, NEW h \in Frames, NEW t, t = Append(Front(stack), h)
  PROVE  /\ Len(stack) \in Nat \ {0} /\ t \in Seq(Frames) /\ Len(t) = Len(stack)
         /\ DOMAIN t = 1 .. Len(stack) /\ t[Len(stack)] = h
         /\ \A k \in 1 .. Len(stack) - 1 : t[k] = stack[k]
         /\ DOMAIN stack = 1 .. Len(stack) /\ stack[Len(stack)] = Top
<1> DEFINE n == Len(stack)  front == Front(stack)
<1>1. /\ n \in Nat \ {0} /\ front \in Seq(Frames) /\ Len(front) = n - 1
      /\ \A k \in 1 .. n - 1 : front[k] = stack[k]
      /\ DOMAIN stack = 1 .. n /\ stack[n] = Top
  BY StackForms
<1>2. t = Append(front, h)
  OBVIOUS
<1> HIDE DEF n, front
<1>3. /\ t \in Seq(Frames) /\ Len(t) = Len(front) + 1 /\ t[Len(front) + 1] = h
      /\ \A k \in 1 .. Len(front) : t[k] = front[k]
  BY <1>1, <1>2
<1>4. (n - 1) + 1 = n
  BY <1>1
<1>5. Len(t) = n
  BY <1>1, <1>3, <1>4
<1>6. DOMAIN t = 1 .. n
  BY <1>3, <1>5
<1> QED  BY <1>1, <1>3, <1>4, <1>5, <1>6 DEF n

LEMMA PushedForm ==
  ASSUME WalkTyped, stack # <<>>, NEW h \in Frames, NEW c \in Frames,
         stack' = Append(Append(Front(stack), h), c)
  PROVE  /\ Len(stack) \in Nat \ {0} /\ DOMAIN stack' = 1 .. Len(stack) + 1
         /\ stack'[Len(stack)] = h /\ stack'[Len(stack) + 1] = c
         /\ \A k \in 1 .. Len(stack) - 1 : stack'[k] = stack[k]
<1> DEFINE n == Len(stack)  t == Append(Front(stack), h)
<1>1. t = Append(Front(stack), h) /\ stack' = Append(t, c)
  OBVIOUS
<1> HIDE DEF t
<1>2. /\ n \in Nat \ {0} /\ t \in Seq(Frames) /\ Len(t) = n /\ t[n] = h
      /\ \A k \in 1 .. n - 1 : t[k] = stack[k]
  <2>1. ASSUME NEW u, u = Append(Front(stack), h)
        PROVE  /\ Len(stack) \in Nat \ {0} /\ u \in Seq(Frames) /\ Len(u) = Len(stack)
               /\ u[Len(stack)] = h /\ \A k \in 1 .. Len(stack) - 1 : u[k] = stack[k]
    <3>1. u \in Seq(Frames)
      BY <2>1, ReplacedForm
    <3>2. Len(stack) \in Nat \ {0} /\ Len(u) = Len(stack)
      BY <2>1, ReplacedForm
    <3>3. u[Len(stack)] = h /\ \A k \in 1 .. Len(stack) - 1 : u[k] = stack[k]
      BY <2>1, ReplacedForm
    <3> QED  BY <3>1, <3>2, <3>3
  <2> QED  BY <1>1, <2>1
<1> HIDE DEF n
<1>3. /\ Append(t, c) \in Seq(Frames) /\ Len(Append(t, c)) = n + 1 /\ Append(t, c)[n + 1] = c
      /\ \A k \in 1 .. n : Append(t, c)[k] = t[k]
  BY <1>2
<1>4. DOMAIN Append(t, c) = 1 .. n + 1
  BY <1>3
<1>5. n \in 1 .. n /\ \A k \in 1 .. n - 1 : k \in 1 .. n
  BY <1>2
<1> QED  BY <1>1, <1>2, <1>3, <1>4, <1>5 DEF n

\* A room is full: the next one begins.
LEMMA NextRoomKeeps ==
  ASSUME Underway, NextRoom
  PROVE  StackInv' /\ Offered'
<1> DEFINE n == Len(stack)  c == Call(Top.g + 1, 1, 1)
<1>1. /\ UNCHANGED <<initial, pool, order, current, used, scored, halted, visited>>
      /\ stack' = Append(Front(stack), c) /\ ~AtLeaf /\ RoomDone
  BY DEF NextRoom, Walking
<1>2. Top \in Frames /\ Fits(Top, current) /\ c \in Frames
  BY TopFits, NextCalls DEF Underway
<1>3. ~Top.left /\ \A a : Owes(Top, a, current) <=> Owes(c, a, current)
  BY <1>1, OwedOn DEF Underway
<1>4. ~Top.placing
  BY <1>2, <1>3 DEF Fits
<1>5. /\ n \in Nat \ {0} /\ DOMAIN stack' = 1 .. n /\ stack'[n] = c
      /\ \A k \in 1 .. n - 1 : stack'[k] = stack[k]
  BY <1>1, <1>2, ReplacedForm DEF Underway
<1>6. Fits(c, current) /\ ~c.placing /\ Above(Top, c)
  <2>1. c.g = Top.g + 1 /\ c.i = 1 /\ c.next = 1 /\ ~c.left /\ ~c.placing /\ Top.g \in Nat
    BY <1>2 DEF Call, Frames
  <2> HIDE DEF c
  <2> QED  BY <2>1 DEF Fits, Above
<1> HIDE DEF c
<1>7. \A k \in n .. n : stack'[k] = c
  BY <1>5
<1>8. /\ StackInv'
      /\ \A a : Ahead(a)' <=> \/ \E k \in 1 .. n - 1 : Owes(stack[k], a, current)
                              \/ \E k \in n .. n : Owes(stack'[k], a, current)
      /\ \A a : Ahead(a) <=> \/ \E k \in 1 .. n - 1 : Owes(stack[k], a, current)
                             \/ Owes(Top, a, current)
  <2>1. /\ \A k \in n .. n : stack'[k] \in Frames /\ Fits(stack'[k], current)
        /\ \A k \in n .. n : ~stack'[k].placing
        /\ \A k \in n .. n : Above(Top, stack'[k]) \/ (Top.g = stack'[k].g /\ Top.i = stack'[k].i)
    BY <1>2, <1>6, <1>7
  <2>2. n # n + 1 /\ n \in {n - 1, n, n + 1}
    BY <1>5
  <2> QED  BY <1>1, <1>4, <1>5, <2>1, <2>2, NobodyMoved
<1>9. \A a : Ahead(a)' <=> Ahead(a)
  <2>1. \A a : (\E k \in n .. n : Owes(stack'[k], a, current)) <=> Owes(c, a, current)
    BY <1>5
  <2> QED  BY <1>3, <1>8, <2>1
<1> QED  BY <1>1, <1>8, <1>9, OfferedKept

\* A slot is left empty, with the rest of its room: what has nobody in it goes
\* to the call of the next room.
LEMMA LeaveEmptyKeeps ==
  ASSUME Underway, LeaveEmpty
  PROVE  StackInv' /\ Offered'
<1> DEFINE n == Len(stack)  h == [Top EXCEPT !.left = TRUE]  c == Call(Top.g + 1, 1, 1)
<1>1. /\ UNCHANGED <<initial, pool, order, current, used, scored, halted, visited>>
      /\ stack' = Append(Append(Front(stack), h), c) /\ ~AtLeaf /\ ~RoomDone /\ ~Top.left
  BY DEF LeaveEmpty, Walking
<1>2. Top \in Frames /\ Fits(Top, current) /\ c \in Frames /\ h \in Frames
  <2>1. Top \in Frames /\ Fits(Top, current)
    BY TopFits DEF Underway
  <2> QED  BY <2>1, NextCalls, Updates
<1>3. HasSlot(Top)
  BY <1>1, SlotToFill DEF Underway
<1>4. ~Top.placing
  BY <1>1, <1>2 DEF Fits
<1>5. \A a \in Listed : Owes(Top, a, current) <=> Owes(h, a, current) \/ Owes(c, a, current)
  BY <1>1, <1>3, OwedLeft DEF Underway
<1>6. /\ n \in Nat \ {0} /\ DOMAIN stack' = 1 .. n + 1 /\ stack'[n] = h /\ stack'[n + 1] = c
      /\ \A k \in 1 .. n - 1 : stack'[k] = stack[k]
  BY <1>1, <1>2, PushedForm DEF Underway
<1>7. /\ h.g = Top.g /\ h.i = Top.i /\ h.next = Top.next /\ h.left /\ ~h.placing
      /\ c.g = Top.g + 1 /\ c.i = 1 /\ c.next = 1 /\ ~c.left /\ ~c.placing /\ Top.g \in Nat
  BY <1>2, <1>4 DEF Call, Frames
<1> HIDE DEF h, c
<1>8. Fits(h, current)
  <2>1. HasSlot(h)
    BY <1>3, <1>7 DEF HasSlot
  <2> QED  BY <1>2, <1>3, <1>7, <2>1 DEF Fits
<1>9. Fits(c, current) /\ Above(Top, c) /\ Above(h, c)
  BY <1>7 DEF Fits, Above
<1>10. \A k \in n .. n + 1 : stack'[k] = h \/ stack'[k] = c
  BY <1>6
<1>11. /\ StackInv'
       /\ \A a : Ahead(a)' <=> \/ \E k \in 1 .. n - 1 : Owes(stack[k], a, current)
                               \/ \E k \in n .. n + 1 : Owes(stack'[k], a, current)
       /\ \A a : Ahead(a) <=> \/ \E k \in 1 .. n - 1 : Owes(stack[k], a, current)
                              \/ Owes(Top, a, current)
  <2>1. /\ \A k \in n .. n + 1 : stack'[k] \in Frames /\ Fits(stack'[k], current)
        /\ \A k \in n .. n + 1 : ~stack'[k].placing
        /\ \A k \in n .. n + 1 : Above(Top, stack'[k]) \/ (Top.g = stack'[k].g /\ Top.i = stack'[k].i)
    BY <1>2, <1>7, <1>8, <1>9, <1>10
  <2>2. n + 1 \in {n - 1, n, n + 1} /\ stack'[n].left /\ Above(stack'[n], stack'[n + 1])
    BY <1>6, <1>7, <1>9
  <2> QED  BY <1>1, <1>4, <1>6, <2>1, <2>2, NobodyMoved
<1>12. \A a \in Listed : Ahead(a)' <=> Ahead(a)
  <2>1. \A a : (\E k \in n .. n + 1 : Owes(stack'[k], a, current)) <=> Owes(h, a, current) \/ Owes(c, a, current)
    <3>1. n \in n .. n + 1 /\ n + 1 \in n .. n + 1
      BY <1>6
    <3> QED  BY <1>6, <1>10, <3>1
  <2> QED  BY <1>5, <1>11, <2>1
<1> QED  BY <1>1, <1>11, <1>12, OfferedKept

\* Nobody the walk tries to place is refused: who is not used stands nowhere.
LEMMA NeverRefused ==
  ASSUME Underway, HasSlot(Top), NEW p \in Untried
  PROVE  /\ p \in DOMAIN order /\ p \in Nat /\ p >= Top.next /\ p \notin used
         /\ order[p] \in pool /\ order[p] # Nobody
         /\ CanPlace(current, SlotOf(Top), order[p])
<1>1. p \in DOMAIN order /\ p >= Top.next /\ p \notin used
  BY DEF Untried
<1>2. p \in Nat /\ order[p] \in pool /\ order[p] # Nobody
  BY <1>1, NobodyAssumption DEF Underway, Enumerates, IInv, TypeOK
<1>3. SlotOf(Top) \in Slots
  BY TopFits, HasSlotIs DEF Underway
<1>4. ASSUME NEW x \in Slots, current[x] = order[p] PROVE FALSE
  <2>1. CASE x \in Free
    BY <1>1, <1>4, <2>1, UsedAre DEF Underway
  <2>2. CASE x \in Locked
    BY <1>2, <1>4, <2>2 DEF Underway, IInv, Valid
  <2> QED  BY <2>1, <2>2 DEF Free
<1> QED  BY <1>1, <1>2, <1>3, <1>4 DEF CanPlace, At

\* The slot of a call that places nobody is empty, and so are those after it.
LEMMA EmptyAfter ==
  ASSUME WalkTyped, StackInv, stack # <<>>,
         NEW i \in DOMAIN Groups[Top.g], HasSlot(Top), i > Top.i \/ (i = Top.i /\ ~Top.placing)
  PROVE  current[Groups[Top.g][i]] = Nobody
<1>1. Top.g \in DOMAIN Groups /\ Top.i \in Nat /\ Top.g \in Nat /\ i \in Nat
  BY TopFits, Grouped DEF HasSlot, Frames
<1>2. ~Before(Top, Top.g, i)
  BY <1>1 DEF Before
<1>3. ~(Top.placing /\ i = Top.i)
  BY <1>1
<1> HIDE DEF Top
<1> QED  BY <1>1, <1>2, <1>3, Occupants

\* What the next operator is placed on.
LEMMA TryIs ==
  ASSUME Underway, Try
  PROVE  /\ UNCHANGED <<initial, pool, order, scored, halted, visited>>
         /\ HasSlot(Top) /\ SlotOf(Top) \in Free /\ Top.left /\ ~Top.placing
         /\ \E p \in Untried :
              /\ \A q \in Untried : p <= q
              /\ current' = [current EXCEPT ![SlotOf(Top)] = order[p]]
              /\ used' = used \cup {p}
              /\ stack' = Append(Append(Front(stack), [Top EXCEPT !.next = p, !.placing = TRUE]),
                                 Call(Top.g, Top.i + 1, NextMin(Top.g, p)))
<1>1. /\ UNCHANGED <<initial, pool, order, scored, halted, visited>>
      /\ ~AtLeaf /\ ~RoomDone /\ Top.left /\ ~Top.placing
  BY DEF Try, InLoop, Walking
<1>2. HasSlot(Top) /\ SlotOf(Top) \in Free
  BY <1>1, SlotToFill DEF Underway
<1>3. PICK p \in Untried :
        LET placed == CanPlace(current, SlotOf(Top), order[p])
        IN /\ \A q \in Untried : p <= q
           /\ current' = Placed(current, SlotOf(Top), order[p])
           /\ used' = IF placed THEN used \cup {p} ELSE used
           /\ stack' =
                IF placed
                THEN Append(Append(Front(stack), [Top EXCEPT !.next = p, !.placing = TRUE]),
                            Call(Top.g, Top.i + 1, NextMin(Top.g, p)))
                ELSE Append(Front(stack), [Top EXCEPT !.next = p + 1])
  BY DEF Try
<1>4. CanPlace(current, SlotOf(Top), order[p])
  BY <1>2, NeverRefused
<1> QED  BY <1>1, <1>2, <1>3, <1>4 DEF Placed

LEMMA TryKeeps ==
  ASSUME Underway, Try
  PROVE  StackInv' /\ Offered'
<1> DEFINE n == Len(stack)  f == Top  s == SlotOf(f)  G == Groups[f.g]
<1>1. /\ UNCHANGED <<initial, pool, order, scored, halted, visited>>
      /\ HasSlot(f) /\ s \in Free /\ f.left /\ ~f.placing
  BY TryIs
<1>2. PICK p \in Untried :
        /\ \A q \in Untried : p <= q
        /\ current' = [current EXCEPT ![s] = order[p]]
        /\ used' = used \cup {p}
        /\ stack' = Append(Append(Front(stack), [f EXCEPT !.next = p, !.placing = TRUE]),
                           Call(f.g, f.i + 1, NextMin(f.g, p)))
  BY TryIs
<1> DEFINE h == [f EXCEPT !.next = p, !.placing = TRUE]  c == Call(f.g, f.i + 1, NextMin(f.g, p))
<1>3. p \in DOMAIN order /\ p \in Nat \ {0} /\ p >= f.next /\ order[p] \in pool /\ order[p] # Nobody
      /\ Rank(order[p]) = p
  BY <1>1, NeverRefused, RankIs DEF Underway
<1>4. f \in Frames /\ Fits(f, current) /\ h \in Frames /\ c \in Frames /\ NextMin(f.g, p) \in Nat \ {0}
  <2>1. f \in Frames /\ Fits(f, current)
    BY TopFits DEF Underway
  <2>2. NextMin(f.g, p) \in Nat \ {0}
    BY <1>3 DEF NextMin
  <2> QED  BY <1>3, <2>1, <2>2, NextCalls, Updates
<1>5. /\ n \in Nat \ {0} /\ DOMAIN stack' = 1 .. n + 1 /\ stack'[n] = h /\ stack'[n + 1] = c
      /\ \A k \in 1 .. n - 1 : stack'[k] = stack[k]
  BY <1>2, <1>4, PushedForm DEF Underway
<1>6. /\ h.g = f.g /\ h.i = f.i /\ h.next = p /\ h.left /\ h.placing
      /\ c.g = f.g /\ c.i = f.i + 1 /\ c.next = NextMin(f.g, p) /\ ~c.left /\ ~c.placing
      /\ f.g \in DOMAIN Groups /\ f.g \in Nat /\ f.i \in DOMAIN G /\ f.i \in Nat \ {0} /\ f.next \in Nat
  BY <1>1, <1>4 DEF Call, Frames, HasSlot
<1> HIDE DEF h, c
<1>7. /\ \A a : Agrees(f, a, current') <=> Agrees(f, a, current)
      /\ Agrees(f, current', current) /\ current'[s] = order[p]
  <2>1. current \in Assignments /\ f \in Frames /\ HasSlot(f)
    BY <1>1, <1>4 DEF Underway, IInv, TypeOK
  <2>2. current' = [current EXCEPT ![SlotOf(f)] = order[p]]
    BY <1>2
  <2> HIDE DEF f
  <2>3. ASSUME NEW b, b = current'
        PROVE  /\ \A a : Agrees(f, a, b) <=> Agrees(f, a, current)
               /\ Agrees(f, b, current) /\ b[SlotOf(f)] = order[p]
    BY <2>1, <2>2, <2>3, AgreeBut
  <2> QED  BY <2>3 DEF s
<1>8. s = G[f.i] /\ \A x \in Slots : x # s => current'[x] = current[x]
  <2>1. current \in [Slots -> Operators \cup {Nobody}]
    BY DEF Underway, IInv, TypeOK, Assignments
  <2> QED  BY <1>2, <2>1 DEF SlotOf
<1> HIDE DEF f, G
<1>9. \A i \in 1 .. f.i - 1 :
        i \in DOMAIN G /\ G[i] # s /\ current'[G[i]] = current[G[i]]
        /\ current[G[i]] # Nobody /\ Rank(current[G[i]]) < f.next /\ Rank(current[G[i]]) \in Nat
  <2> SUFFICES ASSUME NEW i \in 1 .. f.i - 1
               PROVE  i \in DOMAIN G /\ G[i] # s /\ current'[G[i]] = current[G[i]]
                      /\ current[G[i]] # Nobody /\ Rank(current[G[i]]) < f.next /\ Rank(current[G[i]]) \in Nat
    OBVIOUS
  <2>1. i \in DOMAIN G
    BY <1>6, Grouped DEF G
  <2>2. G[i] # s /\ G[i] \in Free
    <3>1. G[i] \in Free
      BY <1>6, <2>1, Grouped DEF G
    <3>2. i # f.i
      BY <1>6
    <3> QED  BY <1>1, <1>6, <2>1, <3>1, <3>2, OnePlace DEF G
  <2>3. current[G[i]] # Nobody /\ Rank(current[G[i]]) < f.next
    BY <1>1, <1>4 DEF Fits, G
  <2>4. current[G[i]] \in pool
    BY <2>2, <2>3 DEF Underway, IInv, Valid
  <2>5. Rank(current[G[i]]) \in Nat
    BY <2>4, RankIs DEF Underway
  <2> QED  BY <1>8, <2>1, <2>2, <2>3, <2>5 DEF Free
<1>10. Fits(h, current')
  <2>1. HasSlot(h) /\ SlotOf(h) = s
    BY <1>1, <1>6 DEF HasSlot, SlotOf
  <2>2. \A i \in 1 .. h.i - 1 : current'[Groups[h.g][i]] # Nobody /\ Rank(current'[Groups[h.g][i]]) < h.next
    BY <1>3, <1>6, <1>9 DEF G
  <2> QED  BY <1>3, <1>6, <1>7, <2>1, <2>2 DEF Fits
<1>11. Fits(c, current')
  <2>1. ASSUME HasSlot(c)
        PROVE  c.next = p + 1
    <3>1. f.i + 1 \in DOMAIN Groups[f.g]
      BY <1>6, <2>1 DEF HasSlot
    <3>2. ~Ordered(f.g)
      BY <1>6, <3>1, Grouped
    <3> QED  BY <1>6, <3>2 DEF NextMin
  <2>2. ASSUME NEW i \in 1 .. c.i - 1
        PROVE  current'[G[i]] # Nobody /\ Rank(current'[G[i]]) < p + 1
    <3>1. i \in 1 .. f.i - 1 \/ i = f.i
      BY <1>6
    <3>2. CASE i \in 1 .. f.i - 1
      BY <1>3, <1>6, <1>9, <3>2
    <3>3. CASE i = f.i
      BY <1>3, <1>7, <1>8, <3>3
    <3> QED  BY <3>1, <3>2, <3>3
  <2>3. c.i # 1 /\ c.i - 1 = f.i /\ Rank(current'[G[c.i - 1]]) = p
    BY <1>3, <1>6, <1>7, <1>8
  <2> QED  BY <1>6, <2>1, <2>2, <2>3 DEF Fits, G
<1>12. Above(f, c) /\ Above(h, c)
  BY <1>6 DEF Above
<1>13. /\ (\A k \in DOMAIN stack : Fits(stack[k], current))'
       /\ \A j, k \in DOMAIN stack' : j < k => Above(stack'[j], stack'[k]) /\ stack'[j].left
       /\ \A a : Ahead(a)' <=> \/ \E k \in 1 .. n - 1 : Owes(stack[k], a, current)
                               \/ \E k \in n .. n + 1 : Owes(stack'[k], a, current')
       /\ \A a : Ahead(a) <=> \/ \E k \in 1 .. n - 1 : Owes(stack[k], a, current)
                              \/ Owes(f, a, current)
  <2>1. \A k \in n .. n + 1 : stack'[k] = h \/ stack'[k] = c
    BY <1>5
  <2>2. /\ \A k \in n .. n + 1 : stack'[k] \in Frames /\ Fits(stack'[k], current')
        /\ \A k \in n .. n + 1 : Above(Top, stack'[k]) \/ (Top.g = stack'[k].g /\ Top.i = stack'[k].i)
    BY <1>4, <1>6, <1>10, <1>11, <1>12, <2>1 DEF f
  <2>3. n + 1 \in {n - 1, n, n + 1} /\ stack'[n].left /\ Above(stack'[n], stack'[n + 1])
    BY <1>5, <1>6, <1>12
  <2>4. Agrees(Top, current', current)
    BY <1>7 DEF f
  <2> QED  BY <1>1, <1>5, <2>2, <2>3, <2>4, StackStep DEF f
<1>14. DOMAIN stack = 1 .. n /\ f = stack[n]
  BY StackForms DEF Underway, f
<1> HIDE DEF n, s
<1>15. \A k \in DOMAIN stack : stack[k].placing => k \in 1 .. n - 1
  BY <1>1, <1>5, <1>14
<1>16. \A k \in 1 .. n - 1 : k \in DOMAIN stack /\ k \in DOMAIN stack' /\ stack'[k] = stack[k]
  BY <1>5, <1>14
<1>17. n \in DOMAIN stack' /\ stack'[n] = h /\ \A k \in DOMAIN stack' : stack'[k].placing => k \in 1 .. n - 1 \/ k = n
  BY <1>5, <1>6
<1>18. ASSUME NEW x \in Free, current'[x] # Nobody
       PROVE  \E k \in DOMAIN stack' : stack'[k].placing /\ Groups[stack'[k].g][stack'[k].i] = x
  <2>1. CASE x = s
    BY <1>6, <1>8, <1>17, <2>1 DEF G
  <2>2. CASE x # s
    <3>1. current[x] # Nobody
      BY <1>8, <1>18, <2>2 DEF Free
    <3>2. PICK k \in DOMAIN stack : stack[k].placing /\ SlotOf(stack[k]) = x
      BY <3>1 DEF Underway, StackInv
    <3> QED  BY <1>15, <1>16, <3>2 DEF SlotOf
  <2> QED  BY <2>1, <2>2
<1>19. used' = {stack'[k].next : k \in {j \in DOMAIN stack' : stack'[j].placing}}
  <2>1. used = {stack[k].next : k \in {j \in DOMAIN stack : stack[j].placing}} /\ used' = used \cup {p}
    BY <1>2 DEF Underway, StackInv
  <2>2. ASSUME NEW k \in DOMAIN stack, stack[k].placing
        PROVE  k \in DOMAIN stack' /\ stack'[k].placing /\ stack'[k].next = stack[k].next
    BY <1>15, <1>16, <2>2
  <2>3. ASSUME NEW k \in DOMAIN stack', stack'[k].placing, k # n
        PROVE  k \in DOMAIN stack /\ stack[k].placing /\ stack'[k].next = stack[k].next
    BY <1>16, <1>17, <2>3
  <2>4. n \in DOMAIN stack' /\ stack'[n].placing /\ stack'[n].next = p
    BY <1>6, <1>17
  <2> QED  BY <2>1, <2>2, <2>3, <2>4
<1>20. InOrder(current)'
  <2> SUFFICES ASSUME NEW g \in DOMAIN Groups, NEW i \in DOMAIN Groups[g], NEW j \in DOMAIN Groups[g],
                      i < j, current'[Groups[g][j]] # Nobody
               PROVE  /\ current'[Groups[g][i]] # Nobody
                      /\ Rank(current'[Groups[g][i]]) < Rank(current'[Groups[g][j]])
    <3>1. ASSUME InOrder(current') PROVE InOrder(current)'
      BY <1>1, <3>1, SameOrder
    <3> QED  BY <3>1 DEF InOrder
  <2>1. Groups[g][i] \in Free /\ Groups[g][j] \in Free /\ Groups[g][i] \in Slots /\ Groups[g][j] \in Slots /\ i \in Nat \ {0} /\ j \in Nat
    BY Grouped
  <2>2. CASE Groups[g][j] = s
    <3>1. g = f.g /\ j = f.i
      BY <1>1, <2>2, OnePlace DEF s
    <3>2. i \in 1 .. f.i - 1
      BY <1>6, <2>1, <3>1
    <3>3. current'[Groups[g][i]] # Nobody /\ Rank(current'[Groups[g][i]]) < f.next /\ Rank(current'[Groups[g][i]]) \in Nat
      BY <1>9, <3>1, <3>2 DEF G
    <3> QED  BY <1>3, <1>6, <1>7, <2>2, <3>3
  <2>3. CASE Groups[g][j] # s
    <3>1. current'[Groups[g][j]] = current[Groups[g][j]]
      BY <1>8, <2>1, <2>3
    <3>2. current[Groups[g][j]] # Nobody
      BY <3>1
    <3>3. Groups[g][i] # s
      <4> SUFFICES ASSUME Groups[g][i] = s PROVE FALSE
        OBVIOUS
      <4>1. g = f.g /\ i = f.i
        BY <1>1, OnePlace DEF s
      <4>2. j \in DOMAIN Groups[Top.g] /\ j > Top.i /\ HasSlot(Top)
        BY <1>1, <2>1, <4>1 DEF f
      <4>3. current[Groups[Top.g][j]] = Nobody
        BY <4>2, EmptyAfter DEF Underway
      <4> QED  BY <3>2, <4>1, <4>3 DEF f
    <3>4. current'[Groups[g][i]] = current[Groups[g][i]]
      BY <1>8, <2>1, <3>3
    <3>5. current[Groups[g][i]] # Nobody /\ Rank(current[Groups[g][i]]) < Rank(current[Groups[g][j]])
      BY <3>2 DEF Underway, StackInv, InOrder
    <3> QED  BY <3>1, <3>4, <3>5
  <2> QED  BY <2>2, <2>3
<1>21. StackInv'
  BY <1>13, <1>18, <1>19, <1>20 DEF StackInv, SlotOf
<1>22. \A a \in Listed : Ahead(a)' <=> Ahead(a)
  <2> SUFFICES ASSUME NEW a \in Listed PROVE Ahead(a)' <=> Ahead(a)
    OBVIOUS
  <2>1. Owes(f, a, current) <=> Owes(h, a, current') \/ Owes(c, a, current')
    <3> DEFINE b == current'
    <3>1. b = [current EXCEPT ![SlotOf(Top)] = order[p]] /\ NextMin(Top.g, p) \in Nat \ {0}
      BY <1>2, <1>4 DEF f, s
    <3> HIDE DEF b
    <3>2. HasSlot(Top) /\ Top.left /\ ~Top.placing
      BY <1>1 DEF f
    <3>3. Owes(Top, a, current) <=>
            \/ Owes([Top EXCEPT !.next = p, !.placing = TRUE], a, b)
            \/ Owes(Call(Top.g, Top.i + 1, NextMin(Top.g, p)), a, b)
      BY <1>2, <3>1, <3>2, OwedPlaced DEF Underway
    <3> QED  BY <3>3 DEF f, h, c, b
  <2>2. (\E k \in n .. n + 1 : Owes(stack'[k], a, current')) <=> Owes(h, a, current') \/ Owes(c, a, current')
    <3>1. n \in n .. n + 1 /\ n + 1 \in n .. n + 1 /\ \A k \in n .. n + 1 : k = n \/ k = n + 1
      BY <1>5
    <3> QED  BY <1>5, <3>1
  <2> QED  BY <1>13, <2>1, <2>2
<1> QED  BY <1>1, <1>21, <1>22, OfferedKept

LEMMA TakeBackKeeps ==
  ASSUME Underway, TakeBack
  PROVE  StackInv' /\ Offered'
<1> DEFINE n == Len(stack)  f == Top  s == SlotOf(f)  G == Groups[f.g]
           h == [f EXCEPT !.next = f.next + 1, !.placing = FALSE]
<1>1. /\ UNCHANGED <<initial, pool, order, scored, halted, visited>>
      /\ ~AtLeaf /\ ~RoomDone /\ f.placing
      /\ current' = Removed(current, s) /\ used' = used \ {f.next}
      /\ stack' = Append(Front(stack), h)
  BY DEF TakeBack, Walking
<1>2. HasSlot(f) /\ s \in Free /\ s \in Slots
  BY <1>1, SlotToFill DEF Underway, Free
<1>3. f \in Frames /\ Fits(f, current) /\ f.left /\ h \in Frames
  <2>1. f \in Frames /\ Fits(f, current)
    BY TopFits DEF Underway
  <2> QED  BY <1>1, <2>1, Updates DEF Fits
<1>4. current' = [current EXCEPT ![s] = Nobody] /\ current \in Assignments
  BY <1>1, <1>2 DEF Removed, Underway, IInv, TypeOK
<1>5. /\ n \in Nat \ {0} /\ DOMAIN stack' = 1 .. n /\ stack'[n] = h
      /\ \A k \in 1 .. n - 1 : stack'[k] = stack[k]
      /\ DOMAIN stack = 1 .. n /\ stack[n] = f
  BY <1>1, <1>3, ReplacedForm DEF Underway
<1>6. /\ h.g = f.g /\ h.i = f.i /\ h.next = f.next + 1 /\ h.left /\ ~h.placing
      /\ f.g \in DOMAIN Groups /\ f.g \in Nat /\ f.i \in DOMAIN G /\ f.i \in Nat \ {0} /\ f.next \in Nat
  BY <1>2, <1>3 DEF Frames, HasSlot
<1>7. f.next \in DOMAIN order /\ current[s] = order[f.next] /\ current[s] # Nobody
  <2>1. f.next \in DOMAIN order /\ current[s] = order[f.next]
    BY <1>1, <1>3 DEF Fits
  <2> QED  BY <2>1, NobodyAssumption DEF Underway, Enumerates, IInv, TypeOK
<1> HIDE DEF h
<1>8. Agrees(f, current', current)
  <2>1. current \in Assignments /\ f \in Frames /\ HasSlot(f) /\ current' = [current EXCEPT ![SlotOf(f)] = Nobody]
    BY <1>2, <1>3, <1>4
  <2> HIDE DEF f
  <2>2. ASSUME NEW b, b = current' PROVE Agrees(f, b, current)
    BY <2>1, <2>2, AgreeBut
  <2> QED  BY <2>2
<1>9. s = G[f.i] /\ current'[s] = Nobody /\ \A x \in Slots : x # s => current'[x] = current[x]
  <2>1. current \in [Slots -> Operators \cup {Nobody}]
    BY <1>4 DEF Assignments
  <2> QED  BY <1>2, <1>4, <2>1 DEF SlotOf
<1> HIDE DEF f, G
<1>10. Fits(h, current')
  <2>1. HasSlot(h) /\ SlotOf(h) = s
    BY <1>2, <1>6 DEF HasSlot, SlotOf
  <2>2. ASSUME NEW i \in 1 .. f.i - 1
        PROVE  current'[G[i]] # Nobody /\ Rank(current'[G[i]]) < f.next + 1
    <3>1. i \in DOMAIN G /\ i # f.i
      <4>1. DOMAIN G = 1 .. Len(G) /\ Len(G) \in Nat
        BY <1>6, Grouped DEF G
      <4> QED  BY <1>6, <4>1
    <3>2. G[i] \in Free /\ G[i] # s
      <4>1. G[i] \in Free
        BY <1>6, <3>1, Grouped DEF G
      <4> QED  BY <1>2, <1>6, <3>1, <4>1, OnePlace DEF G
    <3>3. current[G[i]] # Nobody /\ Rank(current[G[i]]) < f.next
      BY <1>2, <1>3 DEF Fits, G
    <3>4. current[G[i]] \in pool
      BY <3>2, <3>3 DEF Underway, IInv, Valid
    <3>5. Rank(current[G[i]]) \in Nat
      BY <3>4, RankIs DEF Underway
    <3>6. current'[G[i]] = current[G[i]]
      BY <1>9, <3>2 DEF Free
    <3> QED  BY <1>6, <3>3, <3>5, <3>6
  <2> QED  BY <1>6, <2>1, <2>2 DEF Fits, G
<1>11. /\ (\A k \in DOMAIN stack : Fits(stack[k], current))'
       /\ \A j, k \in DOMAIN stack' : j < k => Above(stack'[j], stack'[k]) /\ stack'[j].left
       /\ \A a : Ahead(a)' <=> \/ \E k \in 1 .. n - 1 : Owes(stack[k], a, current)
                               \/ \E k \in n .. n : Owes(stack'[k], a, current')
       /\ \A a : Ahead(a) <=> \/ \E k \in 1 .. n - 1 : Owes(stack[k], a, current)
                              \/ Owes(f, a, current)
  <2>1. \A k \in n .. n : stack'[k] = h
    BY <1>5
  <2>2. /\ \A k \in n .. n : stack'[k] \in Frames /\ Fits(stack'[k], current')
        /\ \A k \in n .. n : Above(Top, stack'[k]) \/ (Top.g = stack'[k].g /\ Top.i = stack'[k].i)
    BY <1>3, <1>6, <1>10, <2>1 DEF f
  <2>3. n \in {n - 1, n, n + 1} /\ n # n + 1
    <3>1. n \in Nat
      BY <1>5
    <3> HIDE DEF n
    <3> QED  BY <3>1
  <2>4. Agrees(Top, current', current)
    BY <1>8 DEF f
  <2> QED  BY <1>1, <1>5, <2>2, <2>3, <2>4, StackStep DEF f
<1>12. \A j \in 1 .. n - 1 : Above(stack[j], f) /\ stack[j] \in Frames
  <2>1. \A j \in 1 .. n - 1 : j \in DOMAIN stack /\ n \in DOMAIN stack /\ j < n
    BY <1>5
  <2> QED  BY <1>5, <2>1, TopFits DEF Underway, StackInv
<1> HIDE DEF n, s
<1>13. \A k \in 1 .. n - 1 : k \in DOMAIN stack /\ k \in DOMAIN stack' /\ stack'[k] = stack[k]
  BY <1>5
<1>14. \A k \in DOMAIN stack : k \in 1 .. n - 1 \/ k = n
  BY <1>5
<1>15. \A k \in DOMAIN stack' : stack'[k].placing => k \in 1 .. n - 1
  BY <1>5, <1>6
<1>16. ASSUME NEW x \in Free, current'[x] # Nobody
       PROVE  \E k \in DOMAIN stack' : stack'[k].placing /\ Groups[stack'[k].g][stack'[k].i] = x
  <2>1. x # s /\ current[x] # Nobody
    BY <1>9, <1>16 DEF Free
  <2>2. PICK k \in DOMAIN stack : stack[k].placing /\ SlotOf(stack[k]) = x
    BY <2>1 DEF Underway, StackInv
  <2>3. k # n
    BY <1>5, <2>1, <2>2 DEF s
  <2> QED  BY <1>13, <1>14, <2>2, <2>3 DEF SlotOf
<1>17. ASSUME NEW k \in 1 .. n - 1, stack[k].placing PROVE stack[k].next # f.next
  <2> SUFFICES ASSUME stack[k].next = f.next PROVE FALSE
    OBVIOUS
  <2>1. k \in DOMAIN stack /\ Above(stack[k], f) /\ stack[k] \in Frames
    BY <1>12, <1>13
  <2>2. HasSlot(stack[k]) /\ current[SlotOf(stack[k])] = current[s]
    BY <1>7, <1>17, <2>1 DEF Underway, StackInv, Fits
  <2>3. SlotOf(stack[k]) \in Slots
    BY <2>1, <2>2, HasSlotIs
  <2>4. SlotOf(stack[k]) = s
    BY <1>2, <1>7, <2>2, <2>3 DEF Underway, IInv, Valid, NoDuplicates
  <2>5. stack[k].g = f.g /\ stack[k].i = f.i
    BY <1>2, <2>2, <2>4, OnePlace DEF HasSlot, SlotOf, s
  <2> QED  BY <1>6, <2>1, <2>5 DEF Above
<1>18. used' = {stack'[k].next : k \in {j \in DOMAIN stack' : stack'[j].placing}}
  <2>1. used = {stack[k].next : k \in {j \in DOMAIN stack : stack[j].placing}} /\ used' = used \ {f.next}
    BY <1>1 DEF Underway, StackInv
  <2>2. ASSUME NEW k \in DOMAIN stack, stack[k].placing, stack[k].next # f.next
        PROVE  k \in DOMAIN stack' /\ stack'[k].placing /\ stack'[k].next = stack[k].next
    BY <1>5, <1>13, <1>14, <2>2
  <2>3. ASSUME NEW k \in DOMAIN stack', stack'[k].placing
        PROVE  k \in DOMAIN stack /\ stack[k].placing /\ stack'[k].next = stack[k].next /\ stack[k].next # f.next
    <3>1. k \in 1 .. n - 1
      BY <1>15, <2>3
    <3> QED  BY <1>13, <1>17, <2>3, <3>1
  <2> QED  BY <2>1, <2>2, <2>3
<1>19. InOrder(current)'
  <2> SUFFICES ASSUME NEW g \in DOMAIN Groups, NEW i \in DOMAIN Groups[g], NEW j \in DOMAIN Groups[g],
                      i < j, current'[Groups[g][j]] # Nobody
               PROVE  /\ current'[Groups[g][i]] # Nobody
                      /\ Rank(current'[Groups[g][i]]) < Rank(current'[Groups[g][j]])
    <3>1. ASSUME InOrder(current') PROVE InOrder(current)'
      BY <1>1, <3>1, SameOrder
    <3> QED  BY <3>1 DEF InOrder
  <2>1. Groups[g][i] \in Slots /\ Groups[g][j] \in Slots /\ i \in Nat \ {0} /\ j \in Nat
    BY Grouped
  <2>2. Groups[g][j] # s /\ current'[Groups[g][j]] = current[Groups[g][j]]
    BY <1>9, <2>1
  <2>3. current[Groups[g][j]] # Nobody
    BY <2>2
  <2>4. Groups[g][i] # s
    <3> SUFFICES ASSUME Groups[g][i] = s PROVE FALSE
      OBVIOUS
    <3>1. g = f.g /\ i = f.i
      BY <1>2, OnePlace DEF s
    <3>2. j \in DOMAIN Groups[Top.g] /\ j > Top.i /\ HasSlot(Top)
      BY <1>2, <2>1, <3>1 DEF f
    <3>3. current[Groups[Top.g][j]] = Nobody
      BY <3>2, EmptyAfter DEF Underway
    <3> QED  BY <2>3, <3>1, <3>3 DEF f
  <2>5. current'[Groups[g][i]] = current[Groups[g][i]]
    BY <1>9, <2>1, <2>4
  <2>6. current[Groups[g][i]] # Nobody /\ Rank(current[Groups[g][i]]) < Rank(current[Groups[g][j]])
    BY <2>3 DEF Underway, StackInv, InOrder
  <2> QED  BY <2>2, <2>5, <2>6
<1>20. StackInv'
  BY <1>11, <1>16, <1>18, <1>19 DEF StackInv, SlotOf
<1>21. \A a \in Listed : Ahead(a)' <=> Ahead(a)
  <2> SUFFICES ASSUME NEW a \in Listed PROVE Ahead(a)' <=> Ahead(a)
    OBVIOUS
  <2>1. Owes(f, a, current) <=> Owes(h, a, current')
    <3> DEFINE b == current'
    <3>1. b = [current EXCEPT ![SlotOf(Top)] = Nobody] /\ HasSlot(Top) /\ Top.left /\ Top.placing
      BY <1>1, <1>2, <1>3, <1>4 DEF f, s
    <3> HIDE DEF b
    <3>2. Owes(Top, a, current) <=> Owes([Top EXCEPT !.next = Top.next + 1, !.placing = FALSE], a, b)
      BY <3>1, OwedBack DEF Underway
    <3> QED  BY <3>2 DEF f, h, b
  <2>2. (\E k \in n .. n : Owes(stack'[k], a, current')) <=> Owes(h, a, current')
    <3>1. n \in n .. n /\ \A k \in n .. n : k = n
      BY <1>5
    <3> QED  BY <1>5, <3>1
  <2> QED  BY <1>11, <2>1, <2>2
<1> QED  BY <1>1, <1>20, <1>21, OfferedKept

\* The walk begins with everything ahead of its one call.
LEMMA BeginEnumerates ==
  ASSUME IInv, Begin
  PROVE  Enumerates'
<1> DEFINE N == Cardinality(pool)
<1>1. pool' = pool /\ order' \in [1 .. N -> pool] /\ \A p \in pool : \E i \in DOMAIN order' : order'[i] = p
  BY DEF Begin, ClearAll, Stay
<1>2. IsFiniteSet(pool) /\ N \in Nat
  <2>1. pool \in SUBSET Operators /\ IsFiniteSet(Operators)
    BY WalkAssumption DEF IInv, TypeOK
  <2>2. IsFiniteSet(pool)
    BY <2>1, FS_Subset
  <2> QED  BY <2>2, FS_CardinalityType
<1> HIDE DEF N
<1>3. IsFiniteSet(1 .. N) /\ Cardinality(1 .. N) = N
  <2>1. 1 \in Int /\ N \in Int /\ (IF 1 > N THEN 0 ELSE N - 1 + 1) = N
    BY <1>2
  <2> QED  BY <2>1, FS_Interval
<1>4. order' \in Surjection(1 .. N, pool)
  BY <1>1 DEF Surjection
<1>5. Cardinality(1 .. N) = Cardinality(pool)
  BY <1>3 DEF N
<1>6. order' \in Injection(1 .. N, pool)
  <2> DEFINE S == 1 .. N  f == order'
  <2>1. IsFiniteSet(S) /\ Cardinality(S) = Cardinality(pool) /\ f \in Surjection(S, pool)
    BY <1>3, <1>4, <1>5
  <2> HIDE DEF S, f
  <2>2. f \in Injection(S, pool)
    BY <2>1, FS_SurjSameCardinalityImpliesInj
  <2> QED  BY <2>2 DEF S, f
<1>7. \A p, q \in DOMAIN order' : order'[p] = order'[q] => p = q
  BY <1>6 DEF Injection, IsInjective
<1>8. DOMAIN order' \subseteq Nat \ {0} /\ \A p \in DOMAIN order' : order'[p] \in pool
  BY <1>1, <1>2
<1> QED  BY <1>1, <1>7, <1>8 DEF Enumerates

LEMMA BeginKeeps ==
  ASSUME IInv, WalkInv, Begin
  PROVE  WalkInv'
<1> DEFINE c == Call(1, 1, 1)
<1>1. /\ phase' = "walking" /\ stack' = <<c>>
      /\ current' = [s \in Slots |-> IF s \in Free THEN Nobody ELSE initial[s]]
      /\ used' = {} /\ scored' = 0 /\ visited' = {} /\ ~halted'
  BY DEF Begin, ClearAll, WalkInv
<1>2. c.g = 1 /\ c.i = 1 /\ c.next = 1 /\ ~c.left /\ ~c.placing
  BY DEF Call
<1> HIDE DEF c
<1>3. DOMAIN stack' = {1} /\ stack'[1] = c
  BY <1>1
<1>4. \A s \in Free : s \in Slots /\ current'[s] = Nobody
  BY <1>1 DEF Free
<1>5. (\A k \in DOMAIN stack : Fits(stack[k], current))'
  BY <1>2, <1>3 DEF Fits
<1>6. InOrder(current)'
  BY <1>4, Grouped DEF InOrder
<1>7. used' = {stack'[k].next : k \in {j \in DOMAIN stack' : stack'[j].placing}}
  <2>1. {j \in DOMAIN stack' : stack'[j].placing} = {}
    BY <1>2, <1>3
  <2> QED  BY <1>1, <2>1
<1>8. StackInv'
  BY <1>3, <1>4, <1>5, <1>6, <1>7 DEF StackInv
<1>9. ASSUME NEW a PROVE Ahead(a)'
  <2>1. ASSUME NEW g \in DOMAIN Groups, NEW i \in DOMAIN Groups[g] PROVE ~(g < 1 \/ (g = 1 /\ i < 1))
    BY Grouped
  <2>2. Agrees(c, a, current')
    BY <1>2, <2>1 DEF Agrees, Before
  <2>3. Agrees(stack'[1], a, current') /\ ~stack'[1].left
    BY <1>2, <1>3, <2>2
  <2> QED  BY <1>3, <2>3 DEF Ahead, Owes, Agrees, Before
<1>10. Offered'
  <2>1. IsFiniteSet(visited') /\ Cardinality(visited') = scored'
    BY <1>1, FS_EmptySet
  <2> QED  BY <1>1, <1>9, <2>1 DEF Offered
<1> QED  BY <1>1, <1>8, <1>10, BeginEnumerates DEF WalkInv

LEMMA InitWalkInv == SolveInit => WalkInv
BY DEF SolveInit, WalkInv

\* Every step of the walk keeps to what is owed and what was offered.
LEMMA WalkKeeps ==
  ASSUME Underway, Score \/ Halt \/ NextRoom \/ LeaveEmpty \/ Try \/ TakeBack \/ GiveUp
  PROVE  StackInv' /\ Offered'
BY ScoreKeeps, HaltKeeps, NextRoomKeeps, LeaveEmptyKeeps, TryKeeps, TakeBackKeeps, GiveUpKeeps

LEMMA NextWalkInv ==
  IInv /\ WalkTyped /\ WalkInv /\ [SolveNext]_<<vars, walk>> => WalkInv'
<1> SUFFICES ASSUME IInv, WalkTyped, WalkInv, [SolveNext]_<<vars, walk>> PROVE WalkInv'
  OBVIOUS
<1>1. CASE Anneal
  BY <1>1 DEF Anneal, walk, WalkInv
<1>2. CASE Begin
  BY <1>2, BeginKeeps
<1>3. CASE Score \/ Halt \/ NextRoom \/ LeaveEmpty \/ Try \/ TakeBack \/ GiveUp
  <2>1. phase = "walking" /\ UNCHANGED <<initial, pool, order>>
    BY <1>3 DEF Score, Halt, NextRoom, LeaveEmpty, Try, TakeBack, GiveUp, InLoop, Walking
  <2>2. Underway
    BY <2>1 DEF Underway, WalkInv, WalkTyped
  <2>3. StackInv' /\ Offered'
    BY <1>3, <2>2, WalkKeeps
  <2>4. Enumerates'
    BY <2>1, <2>2, SameListing DEF Underway
  <2>5. phase' = "walking" \/ (phase' = "walked" /\ stack' = <<>>)
    <3>1. CASE NextRoom \/ LeaveEmpty \/ Try \/ TakeBack
      BY <2>1, <3>1 DEF NextRoom, LeaveEmpty, Try, TakeBack
    <3>2. CASE Score \/ Halt \/ GiveUp
      <4>1. Return
        BY <3>2 DEF Score, Halt, GiveUp
      <4>2. Len(stack) = 1 => stack' = <<>>
        <5>1. stack \in Seq(Frames)
          BY DEF WalkTyped
        <5> QED  BY <4>1, <5>1 DEF Return, Front
      <4> QED  BY <4>1, <4>2 DEF Return
    <3> QED  BY <1>3, <3>1, <3>2
  <2> QED  BY <2>3, <2>4, <2>5 DEF WalkInv
<1>4. CASE Enumerated \/ UNCHANGED <<vars, walk>>
  <2>1. UNCHANGED <<vars, walk>>
    BY <1>4 DEF Enumerated
  <2>2. UNCHANGED <<initial, pool, current, phase, order, stack, used, scored, halted, visited>>
    BY <2>1 DEF vars, walk
  <2>3. WalkInv' <=> WalkInv
    BY <2>2 DEF WalkInv, Enumerates, StackInv, Offered, Listed, Fillings, InOrder, Rank,
                Ahead, Owes, Fits, From, HasSlot, SlotOf, Agrees, Before, Above
  <2> QED  BY <2>3
<1> QED  BY <1>1, <1>2, <1>3, <1>4 DEF SolveNext

\* The stack is empty when the walk is over: nothing is ahead, so every key
\* was offered.
LEMMA WalkedAll == IInv /\ WalkInv => WalkIsComplete
<1> SUFFICES ASSUME IInv, WalkInv PROVE WalkIsComplete
  OBVIOUS
<1>1. Cardinality(visited) = scored
  <2>1. CASE phase \in {"annealing", "exhaustive"}
    BY <2>1, FS_EmptySet DEF WalkInv
  <2>2. CASE phase \in {"walking", "walked"}
    BY <2>2 DEF WalkInv, Offered
  <2> QED  BY <2>1, <2>2 DEF WalkInv
<1>2. ASSUME phase = "walked"
      PROVE  /\ \A s \in Slots : current[s] = IF s \in Free THEN Nobody ELSE initial[s]
             /\ used = {}
             /\ ~halted => visited = {Canonical(a) : a \in Fillings}
  <2>1. stack = <<>> /\ Enumerates /\ StackInv /\ Offered
    BY <1>2 DEF WalkInv
  <2>2. \A s \in Free : current[s] = Nobody
    BY <2>1 DEF StackInv
  <2>3. \A s \in Locked : current[s] = initial[s]
    BY DEF IInv, Valid
  <2>4. used = {}
    BY <2>1 DEF StackInv
  <2>5. ASSUME ~halted PROVE visited = {Canonical(a) : a \in Fillings}
    <3>1. \A a \in Listed : Canonical(a) \in visited
      BY <2>1, <2>5 DEF Offered, Ahead
    <3>2. visited \subseteq {Canonical(a) : a \in Listed}
      BY <2>1 DEF Offered
    <3>3. Listed \subseteq Fillings
      BY DEF Listed
    <3>4. \A a \in Fillings : \E b \in Listed : Canonical(b) = Canonical(a)
      BY <2>1, Arranged
    <3>5. ASSUME NEW a \in Fillings PROVE Canonical(a) \in visited
      BY <3>1, <3>4
    <3>6. ASSUME NEW v \in visited PROVE \E a \in Fillings : v = Canonical(a)
      BY <3>2, <3>3
    <3> HIDE DEF Canonical
    <3> QED  BY <3>5, <3>6
  <2> QED  BY <2>2, <2>3, <2>4, <2>5 DEF Free
<1> QED  BY <1>1, <1>2 DEF WalkIsComplete

\* The exhaustive walk scores every assignment there is, none twice, and
\* gives the assignment back as it found it: in every base, with every pool,
\* whatever order the pool comes in and wherever the tracker stops it.
THEOREM WalkAlwaysComplete == SolveSpec => []WalkIsComplete
<1>1. SolveInit => IInv /\ WalkTyped /\ WalkInv
  BY InitIInv, InitWalkTyped, InitWalkInv DEF SolveInit
<1>2. IInv /\ WalkTyped /\ WalkInv /\ [SolveNext]_<<vars, walk>> => IInv' /\ WalkTyped' /\ WalkInv'
  BY NextIInv, StepsAreMoves, NextWalkTyped, NextWalkInv
<1>3. IInv /\ WalkInv => WalkIsComplete
  BY WalkedAll
<1> QED  BY <1>1, <1>2, <1>3, PTL DEF SolveSpec
-----------------------------------------------------------------------------
(* Folds.                                                                  *)

\* A fold over a finite set that takes out of it the element the choice names
\* exists as the recursive function that Folds defines it by, and has its
\* values where the step has them.
Folded(step, base, choice, S, g) ==
  g = [s \in SUBSET S |-> IF s = {} THEN base ELSE step[<<g[s \ {choice[s]}], choice[s]>>]]

\* There is such a function, by induction on the size of the set.
LEMMA FoldExists ==
  ASSUME NEW S, IsFiniteSet(S), NEW V, NEW base \in V, NEW step \in [V \X S -> V],
         NEW choice, \A s \in SUBSET S : s # {} => choice[s] \in s
  PROVE  \E g \in [SUBSET S -> V] : Folded(step, base, choice, S, g)
<1> DEFINE Then(g, s) == IF s = {} THEN base ELSE step[<<g[s \ {choice[s]}], choice[s]>>]
           UpTo(n, g) == \A s \in SUBSET S : Cardinality(s) <= n => g[s] = Then(g, s)
           missing == {n \in Nat : ~\E g \in [SUBSET S -> V] : UpTo(n, g)}
<1>1. \A s \in SUBSET S : IsFiniteSet(s) /\ Cardinality(s) \in Nat
  BY FS_Subset, FS_CardinalityType
<1>2. ASSUME NEW s \in SUBSET S, s # {}
      PROVE  /\ choice[s] \in S /\ s \ {choice[s]} \in SUBSET S
             /\ Cardinality(s \ {choice[s]}) = Cardinality(s) - 1
  <2>1. choice[s] \in s /\ IsFiniteSet(s)
    BY <1>1, <1>2
  <2>2. Cardinality(s \ {choice[s]}) = Cardinality(s) - 1
    BY <2>1, FS_RemoveElement
  <2> QED  BY <2>1, <2>2
<1>3. missing = {}
  <2> SUFFICES ASSUME missing # {} PROVE FALSE
    OBVIOUS
  <2>1. PICK n \in missing : \A m \in missing : n <= m
    <3>1. missing \subseteq Nat
      OBVIOUS
    <3> HIDE DEF missing
    <3> QED  BY <3>1, SmallestNumber
  <2>2. n # 0
    <3>1. \A s \in SUBSET S : Cardinality(s) <= 0 => s = {}
      BY <1>1, FS_EmptySet
    <3>2. PICK least \in [SUBSET S -> V] : least = [s \in SUBSET S |-> base]
      <4>1. [s \in SUBSET S |-> base] \in [SUBSET S -> V]
        OBVIOUS
      <4> QED  BY <4>1, Zenon
    <3>3. UpTo(0, least)
      BY <3>1, <3>2
    <3>4. 0 \notin missing
      BY <3>3
    <3> QED  BY <3>4, <2>1
  <2>3. PICK g \in [SUBSET S -> V] : UpTo(n - 1, g)
    <3>1. n - 1 \in Nat
      BY <2>1, <2>2
    <3>2. n - 1 \notin missing
      <4>1. n \in Nat
        OBVIOUS
      <4> HIDE DEF missing
      <4> QED  BY <4>1, <2>1, <3>1
    <3> QED  BY <3>1, <3>2
  <2> DEFINE h == [s \in SUBSET S |-> IF Cardinality(s) = n THEN Then(g, s) ELSE g[s]]
  <2>4. \A s \in SUBSET S : Then(g, s) \in V
    <3> SUFFICES ASSUME NEW s \in SUBSET S PROVE Then(g, s) \in V
      OBVIOUS
    <3>1. CASE s = {}
      BY <3>1
    <3>2. CASE s # {}
      <4>1. g[s \ {choice[s]}] \in V /\ choice[s] \in S
        BY <1>2, <3>2
      <4>2. step[<<g[s \ {choice[s]}], choice[s]>>] \in V
        BY <4>1
      <4> QED  BY <3>2, <4>2
    <3> QED  BY <3>1, <3>2
  <2>5. h \in [SUBSET S -> V]
    <3> HIDE DEF Then
    <3> QED  BY <2>4
  <2>6. UpTo(n, h)
    <3> SUFFICES ASSUME NEW s \in SUBSET S, Cardinality(s) <= n
                 PROVE  h[s] = Then(h, s)
      OBVIOUS
    <3>1. h[s] = Then(g, s)
      <4>1. CASE Cardinality(s) = n
        BY <4>1
      <4>2. CASE Cardinality(s) # n
        <5>1. Cardinality(s) <= n - 1
          BY <4>2, <1>1
        <5>2. g[s] = Then(g, s)
          BY <5>1, <2>3
        <5> HIDE DEF Then
        <5> QED  BY <4>2, <5>2
      <4> QED  BY <4>1, <4>2
    <3>2. s # {} => h[s \ {choice[s]}] = g[s \ {choice[s]}]
      <4> SUFFICES ASSUME s # {} PROVE h[s \ {choice[s]}] = g[s \ {choice[s]}]
        OBVIOUS
      <4>1. s \ {choice[s]} \in SUBSET S /\ Cardinality(s \ {choice[s]}) # n
        BY <1>1, <1>2
      <4> HIDE DEF Then
      <4> QED  BY <4>1
    <3> HIDE DEF h
    <3> QED  BY <3>1, <3>2
  <2> HIDE DEF UpTo, h
  <2> QED  BY <2>1, <2>5, <2>6
<1>4. PICK g \in [SUBSET S -> V] : UpTo(Cardinality(S), g)
  <2>1. Cardinality(S) \in Nat
    BY <1>1
  <2> HIDE DEF UpTo
  <2> QED  BY <2>1, <1>3
<1>5. \A s \in SUBSET S : Cardinality(s) <= Cardinality(S)
  BY FS_Subset
<1>6. g = [s \in SUBSET S |-> Then(g, s)]
  BY <1>4, <1>5
<1> QED  BY <1>6 DEF Folded

\* So does the function that Folds picks.
LEMMA FoldIs ==
  ASSUME NEW S, IsFiniteSet(S), NEW V, NEW base \in V, NEW step \in [V \X S -> V],
         NEW choice, \A s \in SUBSET S : s # {} => choice[s] \in s
  PROVE  LET g == CHOOSE any : Folded(step, base, choice, S, any)
         IN  g \in [SUBSET S -> V] /\ Folded(step, base, choice, S, g)
<1> DEFINE g == CHOOSE any : Folded(step, base, choice, S, any)
<1>1. \E any : Folded(step, base, choice, S, any)
  <2>1. \E any \in [SUBSET S -> V] : Folded(step, base, choice, S, any)
    BY FoldExists
  <2> QED  BY <2>1
<1>2. Folded(step, base, choice, S, g)
  BY <1>1
<1> HIDE DEF g
<1> DEFINE odd == {s \in SUBSET S : g[s] \notin V}
<1>3. odd = {}
  <2> SUFFICES ASSUME odd # {} PROVE FALSE
    OBVIOUS
  <2>1. PICK s \in odd : \A u \in odd : ~(u \subseteq s /\ u # s)
    <3>1. odd \subseteq SUBSET S
      OBVIOUS
    <3> HIDE DEF odd
    <3> QED  BY <3>1, SmallestSubset
  <2>2. s \in SUBSET S /\ g[s] = IF s = {} THEN base ELSE step[<<g[s \ {choice[s]}], choice[s]>>]
    BY <1>2 DEF Folded
  <2>3. s # {}
    BY <2>2
  <2>4. choice[s] \in s /\ choice[s] \in S /\ s \ {choice[s]} \in SUBSET S
    BY <2>2, <2>3
  <2>5. s \ {choice[s]} \notin odd
    BY <2>1, <2>4
  <2>6. <<g[s \ {choice[s]}], choice[s]>> \in V \X S
    BY <2>4, <2>5
  <2>7. g[s] \in V
    BY <2>2, <2>3, <2>6
  <2> QED  BY <2>1, <2>7
<1>4. g \in [SUBSET S -> V]
  <2>1. g = [s \in SUBSET S |-> g[s]]
    BY <1>2 DEF Folded
  <2> QED  BY <1>3, <2>1
<1> QED  BY <1>2, <1>4 DEF g

Total(f) == FoldFunction(+, 0, f)

SumsUp(f, I, g) ==
  /\ g \in [SUBSET I -> Nat]
  /\ g[I] = Total(f)
  /\ g[{}] = 0
  /\ \A s \in SUBSET I : s # {} => \E x \in s : g[s] = f[x] + g[s \ {x}]

\* A sum, as the rooms of the estimate are added up.
LEMMA SumIs ==
  ASSUME NEW I, IsFiniteSet(I), NEW f \in [I -> Nat]
  PROVE  \E g : SumsUp(f, I, g)
<1> DEFINE step == [v \in Nat \X I |-> f[v[2]] + v[1]]
           choice == [s \in SUBSET I |-> CHOOSE x \in s : TRUE]
           g == CHOOSE any : Folded(step, 0, choice, I, any)
           Is(any) == any = [s \in SUBSET I |-> IF s = {} THEN 0 ELSE f[CHOOSE x \in s : TRUE] + any[s \ {CHOOSE x \in s : TRUE}]]
<1>1. step \in [Nat \X I -> Nat]
  OBVIOUS
<1>2. \A s \in SUBSET I : s # {} => choice[s] \in s
  OBVIOUS
<1>3. g \in [SUBSET I -> Nat] /\ Folded(step, 0, choice, I, g)
  <2> HIDE DEF step, choice
  <2> QED  BY <1>1, <1>2, FoldIs
<1> HIDE DEF g
<1>4. ASSUME NEW s \in SUBSET I, s # {}
      PROVE  choice[s] \in s /\ g[s] = f[choice[s]] + g[s \ {choice[s]}]
  <2>1. choice[s] \in I /\ s \ {choice[s]} \in SUBSET I
    BY <1>2, <1>4
  <2>2. g[s] = step[<<g[s \ {choice[s]}], choice[s]>>]
    BY <1>3, <1>4 DEF Folded
  <2>3. <<g[s \ {choice[s]}], choice[s]>> \in Nat \X I
    <3> HIDE DEF choice
    <3> QED  BY <2>1, <1>3
  <2>4. step[<<g[s \ {choice[s]}], choice[s]>>] = f[choice[s]] + g[s \ {choice[s]}]
    BY <2>3
  <2> QED  BY <2>2, <2>4, <1>2, <1>4
<1>5. g[{}] = 0
  BY <1>3 DEF Folded
<1>6. Is(g)
  <2>1. \A s \in SUBSET I : g[s] = IF s = {} THEN 0 ELSE f[CHOOSE x \in s : TRUE] + g[s \ {CHOOSE x \in s : TRUE}]
    BY <1>4, <1>5
  <2> QED  BY <2>1, <1>3
<1>7. Total(f) = (CHOOSE any : Is(any))[I]
  BY DEF Total, FoldFunction, FoldFunctionOnSet, MapThenFoldSet
<1> DEFINE h == CHOOSE any : Is(any)
<1>8. Is(h)
  <2> HIDE DEF Is
  <2> QED  BY <1>6
<1> HIDE DEF h
<1> DEFINE odd == {s \in SUBSET I : g[s] # h[s]}
<1>9. odd = {}
  <2> SUFFICES ASSUME odd # {} PROVE FALSE
    OBVIOUS
  <2>1. PICK s \in odd : \A u \in odd : ~(u \subseteq s /\ u # s)
    <3>1. odd \subseteq SUBSET I
      OBVIOUS
    <3> HIDE DEF odd
    <3> QED  BY <3>1, SmallestSubset
  <2>2. h[s] = IF s = {} THEN 0 ELSE f[choice[s]] + h[s \ {choice[s]}]
    BY <1>8
  <2>3. s # {}
    BY <2>2, <1>5
  <2>4. choice[s] \in s /\ g[s] = f[choice[s]] + g[s \ {choice[s]}]
    BY <2>3, <1>4
  <2> HIDE DEF choice
  <2>5. s \ {choice[s]} \in SUBSET I /\ s \ {choice[s]} \notin odd
    BY <2>1, <2>4
  <2> QED  BY <2>1, <2>2, <2>3, <2>4, <2>5
<1>10. g[I] = Total(f)
  BY <1>7, <1>9 DEF h, Total
<1>11. \A s \in SUBSET I : s # {} => \E x \in s : g[s] = f[x] + g[s \ {x}]
  <2> HIDE DEF choice
  <2> QED  BY <1>4
<1> HIDE DEF choice
<1> QED  BY <1>3, <1>5, <1>10, <1>11 DEF SumsUp

\* Combinatorics defines the factorial by recursion.
LEMMA Factorials ==
  /\ factorial \in [Nat -> Nat \ {0}]
  /\ factorial[0] = 1
  /\ \A n \in Nat : factorial[n + 1] = (n + 1) * factorial[n]
<1> DEFINE Is(f) == f = [n \in Nat |-> IF n = 0 THEN 1 ELSE n * f[n - 1]]
           UpTo(n, f) == f[0] = 1 /\ \A i \in 1 .. n : f[i] = i * f[i - 1]
           P == Nat \ {0}
           missing == {n \in Nat : ~\E f \in [Nat -> P] : UpTo(n, f)}
<1>1. missing = {}
  <2> SUFFICES ASSUME missing # {} PROVE FALSE
    OBVIOUS
  <2>1. PICK n \in missing : \A m \in missing : n <= m
    <3>1. missing \subseteq Nat
      OBVIOUS
    <3> HIDE DEF missing
    <3> QED  BY <3>1, SmallestNumber
  <2>2. n # 0
    <3> DEFINE one == [i \in Nat |-> 1]
    <3>1. one \in [Nat -> P] /\ UpTo(0, one)
      OBVIOUS
    <3>2. 0 \notin missing
      <4> HIDE DEF one, UpTo
      <4> QED  BY <3>1
    <3> QED  BY <3>2, <2>1
  <2>3. PICK f \in [Nat -> P] : UpTo(n - 1, f)
    <3>1. n - 1 \in Nat
      BY <2>1, <2>2
    <3>2. n - 1 \notin missing
      <4>1. n \in Nat
        OBVIOUS
      <4> HIDE DEF missing
      <4> QED  BY <4>1, <2>1, <3>1
    <3> QED  BY <3>1, <3>2
  <2> DEFINE h == [i \in Nat |-> IF i = n THEN n * f[n - 1] ELSE f[i]]
  <2>4. n * f[n - 1] \in P
    <3>1. n - 1 \in Nat /\ n \in P
      BY <2>1, <2>2
    <3>2. f[n - 1] \in P
      BY <3>1
    <3>3. \A i, j \in P : i * j \in P
      OBVIOUS
    <3> HIDE DEF P
    <3> QED  BY <3>1, <3>2, <3>3
  <2>5. h \in [Nat -> P]
    BY <2>4
  <2>6. UpTo(n, h)
    <3>1. h[0] = 1
      BY <2>2, <2>3
    <3>2. ASSUME NEW i \in 1 .. n PROVE h[i] = i * h[i - 1]
      <4>1. i \in Nat /\ i - 1 \in Nat /\ i - 1 # n /\ n \in Nat
        OBVIOUS
      <4>2. h[i - 1] = f[i - 1]
        BY <4>1
      <4>3. CASE i = n
        BY <4>1, <4>2, <4>3
      <4>4. CASE i # n
        <5>1. i \in 1 .. n - 1
          BY <4>1, <4>4
        <5> QED  BY <5>1, <4>1, <4>2, <4>4, <2>3
      <4> QED  BY <4>3, <4>4
    <3> QED  BY <3>1, <3>2
  <2> HIDE DEF UpTo, h
  <2> QED  BY <2>1, <2>5, <2>6
<1> DEFINE some == [n \in Nat |-> CHOOSE f \in [Nat -> P] : UpTo(n, f)]
<1>2. ASSUME NEW n \in Nat PROVE some[n] \in [Nat -> P] /\ UpTo(n, some[n])
  <2>1. \E f \in [Nat -> P] : UpTo(n, f)
    BY <1>1
  <2> HIDE DEF UpTo
  <2> QED  BY <2>1
<1>3. ASSUME NEW n \in Nat, NEW f \in [Nat -> P], NEW h \in [Nat -> P],
             UpTo(n, f), NEW m \in Nat, UpTo(m, h), n <= m
      PROVE  f[n] = h[n]
  <2> DEFINE odd == {i \in 0 .. n : f[i] # h[i]}
  <2> SUFFICES ASSUME odd # {} PROVE FALSE
    BY <1>3
  <2>1. PICK i \in odd : \A j \in odd : i <= j
    <3>1. odd \subseteq Nat
      OBVIOUS
    <3> HIDE DEF odd
    <3> QED  BY <3>1, SmallestNumber
  <2>2. i # 0
    BY <1>3
  <2>3. i - 1 \in 0 .. n /\ i - 1 \notin odd
    BY <2>1, <2>2
  <2>4. i \in 1 .. n /\ i \in 1 .. m
    BY <2>2, <1>3
  <2>5. f[i] = i * f[i - 1] /\ h[i] = i * h[i - 1]
    BY <1>3, <2>4
  <2> QED  BY <2>1, <2>3, <2>5
<1> DEFINE f == [n \in Nat |-> some[n][n]]
<1>4. f \in [Nat -> P]
  BY <1>2
<1>5. f[0] = 1 /\ \A n \in Nat : f[n + 1] = (n + 1) * f[n]
  <2>1. f[0] = 1
    BY <1>2
  <2>2. ASSUME NEW n \in Nat PROVE f[n + 1] = (n + 1) * f[n]
    <3>1. n + 1 \in Nat /\ n + 1 \in 1 .. n + 1 /\ (n + 1) - 1 = n
      OBVIOUS
    <3>2. some[n] \in [Nat -> P] /\ UpTo(n, some[n]) /\ some[n + 1] \in [Nat -> P] /\ UpTo(n + 1, some[n + 1])
      BY <1>2, <3>1
    <3>3. some[n + 1][n + 1] = (n + 1) * some[n + 1][n]
      <4>1. PICK h : h = some[n + 1]
        OBVIOUS
      <4>2. \A i \in 1 .. n + 1 : h[i] = i * h[i - 1]
        BY <3>2, <4>1
      <4>3. h[n + 1] = (n + 1) * h[(n + 1) - 1]
        BY <3>1, <4>2
      <4> HIDE DEF some
      <4> QED  BY <3>1, <4>1, <4>3
    <3>4. some[n][n] = some[n + 1][n]
      <4> HIDE DEF UpTo, some
      <4>1. n <= n + 1
        OBVIOUS
      <4> QED  BY <1>3, <3>1, <3>2, <4>1
    <3> QED  BY <3>1, <3>3, <3>4
  <2> QED  BY <2>1, <2>2
<1> HIDE DEF f
<1>6. Is(f)
  <2>1. ASSUME NEW n \in Nat PROVE f[n] = IF n = 0 THEN 1 ELSE n * f[n - 1]
    <3>1. CASE n = 0
      BY <3>1, <1>5
    <3>2. CASE n # 0
      <4>1. n - 1 \in Nat /\ n = (n - 1) + 1
        BY <3>2
      <4> QED  BY <4>1, <1>5, <3>2
    <3> QED  BY <3>1, <3>2
  <2> QED  BY <2>1, <1>4
<1>7. factorial = CHOOSE any : Is(any)
  BY DEF factorial
<1>8. Is(factorial)
  <2> HIDE DEF Is
  <2> QED  BY <1>6, <1>7
<1>9. factorial[0] = 1 /\ \A n \in Nat \ {0} : factorial[n] = n * factorial[n - 1]
  BY <1>8
<1>10. \A n \in Nat : factorial[n + 1] = (n + 1) * factorial[n]
  BY <1>9
<1>11. factorial \in [Nat -> P]
  <2> DEFINE odd == {n \in Nat : factorial[n] \notin P}
  <2>1. odd = {}
    <3> SUFFICES ASSUME odd # {} PROVE FALSE
      OBVIOUS
    <3>1. PICK n \in odd : \A m \in odd : n <= m
      <4>1. odd \subseteq Nat
        OBVIOUS
      <4> HIDE DEF odd
      <4> QED  BY <4>1, SmallestNumber
    <3>2. n # 0
      BY <1>9
    <3>3. n - 1 \in Nat /\ n - 1 \notin odd
      BY <3>1, <3>2
    <3>4. factorial[n] = n * factorial[n - 1] /\ factorial[n - 1] \in P /\ n \in P
      BY <1>9, <3>2, <3>3
    <3>5. \A i, j \in P : i * j \in P
      OBVIOUS
    <3> HIDE DEF P
    <3> QED  BY <3>1, <3>4, <3>5
  <2>2. DOMAIN factorial = Nat /\ factorial = [n \in DOMAIN factorial |-> factorial[n]]
    BY <1>8
  <2> QED  BY <2>1, <2>2
<1> QED  BY <1>9, <1>10, <1>11

-----------------------------------------------------------------------------
(* Numbers of subsets.                                                     *)

Sized(S, k) == {T \in SUBSET S : Cardinality(T) = k}

\* Of finitely many operators there are finitely many sets of a size.
LEMMA SizedFinite ==
  ASSUME NEW S, IsFiniteSet(S), NEW k
  PROVE  IsFiniteSet(Sized(S, k)) /\ Cardinality(Sized(S, k)) \in Nat
<1>1. IsFiniteSet(SUBSET S)
  BY FS_SUBSET
<1>2. Sized(S, k) \in SUBSET SUBSET S
  BY DEF Sized
<1> QED  BY <1>1, <1>2, FS_Subset, FS_CardinalityType

\* One set of none, one of all.
LEMMA SizedExtremes ==
  ASSUME NEW S, IsFiniteSet(S)
  PROVE  /\ Cardinality(Sized(S, 0)) = 1
         /\ Cardinality(Sized(S, Cardinality(S))) = 1
         /\ \A k \in Nat : k > Cardinality(S) => Sized(S, k) = {}
<1>1. \A T \in SUBSET S : IsFiniteSet(T) /\ Cardinality(T) \in Nat /\ Cardinality(T) <= Cardinality(S)
  BY FS_Subset, FS_CardinalityType
<1>2. Sized(S, 0) = {{}}
  BY <1>1, FS_EmptySet DEF Sized
<1>3. Sized(S, Cardinality(S)) = {S}
  <2>1. \A T \in SUBSET S : Cardinality(T) = Cardinality(S) => T = S
    BY FS_Subset
  <2> QED  BY <2>1 DEF Sized
<1>4. \A k \in Nat : k > Cardinality(S) => Sized(S, k) = {}
  <2>1. Cardinality(S) \in Nat
    BY <1>1
  <2> QED  BY <2>1, <1>1 DEF Sized
<1> QED  BY <1>2, <1>3, <1>4, FS_Singleton

\* A set of k elements has x or has not.
LEMMA SizedSplit ==
  ASSUME NEW S, IsFiniteSet(S), NEW x \in S, NEW k \in Nat \ {0}
  PROVE  Cardinality(Sized(S, k))
           = Cardinality(Sized(S \ {x}, k)) + Cardinality(Sized(S \ {x}, k - 1))
<1> DEFINE R == S \ {x}
           with == {T \in Sized(S, k) : x \in T}
           put == [T \in Sized(R, k - 1) |-> T \cup {x}]
<1>1. IsFiniteSet(R)
  BY FS_RemoveElement
<1>2. \A T \in SUBSET S : IsFiniteSet(T) /\ Cardinality(T) \in Nat
  BY FS_Subset, FS_CardinalityType
<1>3. Sized(S, k) = Sized(R, k) \cup with /\ Sized(R, k) \cap with = {}
  BY DEF Sized
<1>4. ASSUME NEW T \in Sized(R, k - 1)
      PROVE  T \cup {x} \in with
  <2>1. T \in SUBSET S /\ x \notin T /\ Cardinality(T) = k - 1
    BY DEF Sized
  <2>2. IsFiniteSet(T)
    BY <2>1, <1>2
  <2>3. Cardinality(T \cup {x}) = (k - 1) + 1
    BY <2>1, <2>2, FS_AddElement
  <2>4. (k - 1) + 1 = k
    OBVIOUS
  <2> QED  BY <2>1, <2>3, <2>4 DEF Sized
<1>5. ASSUME NEW T \in with
      PROVE  T \ {x} \in Sized(R, k - 1) /\ (T \ {x}) \cup {x} = T
  <2>1. T \in SUBSET S /\ x \in T /\ Cardinality(T) = k
    BY DEF Sized
  <2>2. IsFiniteSet(T)
    BY <2>1, <1>2
  <2>3. Cardinality(T \ {x}) = k - 1
    BY <2>1, <2>2, FS_RemoveElement
  <2> QED  BY <2>1, <2>3 DEF Sized
<1>6. put \in Bijection(Sized(R, k - 1), with)
  <2>1. put \in [Sized(R, k - 1) -> with]
    BY <1>4
  <2>2. \A T, U \in Sized(R, k - 1) : put[T] = put[U] => T = U
    <3>1. \A T \in Sized(R, k - 1) : T = put[T] \ {x}
      BY DEF Sized
    <3> QED  BY <3>1, Zenon
  <2>3. \A T \in with : \E U \in Sized(R, k - 1) : put[U] = T
    BY <1>5
  <2> HIDE DEF put, with
  <2> QED  BY <2>1, <2>2, <2>3 DEF Bijection, Injection, Surjection, IsInjective
<1>7. IsFiniteSet(with) /\ Cardinality(with) = Cardinality(Sized(R, k - 1))
  <2>1. IsFiniteSet(Sized(R, k - 1))
    BY <1>1, SizedFinite
  <2>2. ExistsBijection(Sized(R, k - 1), with)
    BY <1>6 DEF ExistsBijection
  <2> HIDE DEF with
  <2> QED  BY <2>1, <2>2, FS_Bijection
<1>8. IsFiniteSet(Sized(R, k))
  BY <1>1, SizedFinite
<1> HIDE DEF with
<1>9. Cardinality(Sized(R, k) \cup with)
        = Cardinality(Sized(R, k)) + Cardinality(with) - Cardinality(Sized(R, k) \cap with)
  BY <1>7, <1>8, FS_Union
<1>10. Cardinality(Sized(R, k)) \in Nat /\ Cardinality(with) \in Nat
  BY <1>7, <1>8, FS_CardinalityType
<1>11. Cardinality(Sized(R, k) \cap with) = 0
  BY <1>3, FS_EmptySet
<1>12. PICK c \in Nat, d \in Nat : c = Cardinality(Sized(R, k)) /\ d = Cardinality(with)
  BY <1>10
<1>13. Cardinality(Sized(S, k)) = c + d
  <2>1. Cardinality(Sized(S, k)) = c + d - 0
    BY <1>3, <1>9, <1>11, <1>12
  <2> QED  BY <2>1
<1> QED  BY <1>7, <1>12, <1>13

\* The arithmetic of the triangle: the sum of two of its entries.
LEMMA Pascal ==
  ASSUME NEW a \in Nat, NEW b \in Nat, NEW u \in Nat, NEW v \in Nat, NEW k \in Nat, NEW d \in Nat, NEW n \in Nat,
         a * ((k * u) * v) = n, b * (u * (d * v)) = n
  PROVE  (a + b) * ((k * u) * (d * v)) = (k + d) * n
<1>1. (a + b) * ((k * u) * (d * v)) = d * (a * ((k * u) * v)) + k * (b * (u * (d * v)))
  OBVIOUS
<1> QED  BY <1>1

\* The triangle: sets of k with and without the first element, by induction.
LEMMA SizedCounted ==
  ASSUME NEW S, IsFiniteSet(S), NEW k \in 0 .. Cardinality(S)
  PROVE  Cardinality(Sized(S, k)) * (factorial[k] * factorial[Cardinality(S) - k]) = factorial[Cardinality(S)]
<1> DEFINE Holds(T, j) ==
             Cardinality(Sized(T, j)) * (factorial[j] * factorial[Cardinality(T) - j]) = factorial[Cardinality(T)]
           odd == {T \in SUBSET S : \E j \in 0 .. Cardinality(T) : ~Holds(T, j)}
<1>1. odd = {}
  <2> SUFFICES ASSUME odd # {} PROVE FALSE
    OBVIOUS
  <2>1. PICK T \in odd : \A U \in odd : ~(U \subseteq T /\ U # T)
    <3>1. odd \subseteq SUBSET S
      OBVIOUS
    <3> HIDE DEF odd
    <3> QED  BY <3>1, SmallestSubset
  <2>2. PICK j \in 0 .. Cardinality(T) : ~Holds(T, j)
    OBVIOUS
  <2>3. IsFiniteSet(T)
    BY FS_Subset
  <2>4. PICK n \in Nat : n = Cardinality(T)
    BY <2>3, FS_CardinalityType
  <2>5. factorial[n] \in Nat /\ factorial[0] = 1
    BY Factorials
  <2>6. j # 0
    <3> SUFFICES ASSUME j = 0 PROVE Holds(T, j)
      BY <2>2
    <3>1. Cardinality(Sized(T, j)) = 1 /\ n - j = n
      BY <2>3, SizedExtremes
    <3> QED  BY <3>1, <2>4, <2>5
  <2>7. j # n
    <3> SUFFICES ASSUME j = n PROVE Holds(T, j)
      BY <2>2
    <3>1. Cardinality(Sized(T, j)) = 1 /\ n - j = 0
      BY <2>3, <2>4, SizedExtremes
    <3> QED  BY <3>1, <2>4, <2>5
  <2>8. PICK x : x \in T
    BY <2>3, <2>4, <2>6, FS_EmptySet
  <2>9. T \ {x} \in SUBSET S /\ IsFiniteSet(T \ {x}) /\ Cardinality(T \ {x}) = n - 1
    BY <2>3, <2>4, <2>8, FS_RemoveElement
  <2>10. \A i \in 0 .. n - 1 : Holds(T \ {x}, i)
    <3>1. T \ {x} \notin odd
      BY <2>1, <2>8
    <3> QED  BY <3>1, <2>9
  <2>11. j \in Nat /\ j - 1 \in 0 .. n - 1 /\ j \in 0 .. n - 1 /\ n - j \in Nat \ {0}
    BY <2>4, <2>6, <2>7
  <2> DEFINE a == Cardinality(Sized(T \ {x}, j))
             b == Cardinality(Sized(T \ {x}, j - 1))
  <2>12. a \in Nat /\ b \in Nat
    BY <2>9, SizedFinite
  <2>13. Cardinality(Sized(T, j)) = a + b
    BY <2>3, <2>6, <2>8, <2>11, SizedSplit
  <2> HIDE DEF a, b
  <2>14. PICK u \in Nat, v \in Nat, m \in Nat :
           u = factorial[j - 1] /\ v = factorial[(n - j) - 1] /\ m = factorial[n - 1]
    <3>1. j - 1 \in Nat /\ (n - j) - 1 \in Nat /\ n - 1 \in Nat
      BY <2>11
    <3> QED  BY <3>1, Factorials
  <2>15. factorial[j] = j * u /\ factorial[n - j] = (n - j) * v /\ factorial[n] = n * m
    <3>1. j - 1 \in Nat /\ (n - j) - 1 \in Nat /\ n - 1 \in Nat
      BY <2>11
    <3>2. (j - 1) + 1 = j /\ ((n - j) - 1) + 1 = n - j /\ (n - 1) + 1 = n
      BY <2>11
    <3> QED  BY <3>1, <3>2, <2>14, Factorials
  <2>16. a * (factorial[j] * factorial[(n - 1) - j]) = factorial[n - 1]
    BY <2>9, <2>10, <2>11 DEF a
  <2>17. b * (factorial[j - 1] * factorial[(n - 1) - (j - 1)]) = factorial[n - 1]
    BY <2>9, <2>10, <2>11 DEF b
  <2>18. (n - 1) - j = (n - j) - 1 /\ (n - 1) - (j - 1) = n - j
    BY <2>11
  <2>19. a * ((j * u) * v) = m /\ b * (u * ((n - j) * v)) = m
    BY <2>14, <2>15, <2>16, <2>17, <2>18
  <2>20. PICK d \in Nat : d = n - j
    BY <2>11
  <2>21. (a + b) * ((j * u) * (d * v)) = (j + d) * m
    <3> HIDE DEF Holds, odd
    <3> QED  BY <2>11, <2>12, <2>19, <2>20, Pascal
  <2>22. j + d = n
    BY <2>11, <2>20
  <2>23. Holds(T, j)
    BY <2>4, <2>13, <2>15, <2>20, <2>21, <2>22
  <2> QED  BY <2>2, <2>23
<1> QED  BY <1>1

\* The binomial coefficient is the number of subsets of that size.
LEMMA Chosen ==
  ASSUME NEW S, IsFiniteSet(S), NEW k \in 0 .. Cardinality(S)
  PROVE  choose(Cardinality(S), k) = Cardinality(Sized(S, k))
<1>1. PICK n \in Nat, c \in Nat : n = Cardinality(S) /\ c = Cardinality(Sized(S, k))
  BY FS_CardinalityType, SizedFinite
<1>2. k \in Nat /\ n - k \in Nat
  BY <1>1
<1>3. PICK u \in Nat \ {0}, v \in Nat \ {0} : u = factorial[k] /\ v = factorial[n - k]
  BY <1>2, Factorials
<1>4. PICK d \in Nat \ {0} : d = u * v
  OBVIOUS
<1>5. c * d = factorial[n]
  BY <1>1, <1>3, <1>4, SizedCounted
<1>6. (c * d) \div d = c
  OBVIOUS
<1> QED  BY <1>1, <1>3, <1>4, <1>5, <1>6 DEF choose

-----------------------------------------------------------------------------
(* Counting by parts.                                                      *)

Over(S, part, T) == {x \in S : part[x] \in T}

\* One part more.
LEMMA PartsAdd ==
  ASSUME NEW S, NEW part, NEW T, NEW i \in T,
         IsFiniteSet(Over(S, part, T \ {i})), IsFiniteSet(Over(S, part, {i}))
  PROVE  /\ IsFiniteSet(Over(S, part, T))
         /\ Cardinality(Over(S, part, T)) = Cardinality(Over(S, part, {i})) + Cardinality(Over(S, part, T \ {i}))
<1>1. PICK A, B : A = Over(S, part, {i}) /\ B = Over(S, part, T \ {i})
  OBVIOUS
<1>2. Over(S, part, T) = A \cup B /\ A \cap B = {}
  BY <1>1 DEF Over
<1>3. PICK a \in Nat, b \in Nat : a = Cardinality(A) /\ b = Cardinality(B)
  BY <1>1, FS_CardinalityType
<1>4. IsFiniteSet(A \cup B) /\ Cardinality(A \cup B) = Cardinality(A) + Cardinality(B) - Cardinality(A \cap B)
  BY <1>1, FS_Union
<1>5. Cardinality(A \cap B) = 0
  BY <1>2, FS_EmptySet
<1>6. Cardinality(A \cup B) = a + b - 0
  BY <1>3, <1>4, <1>5
<1>7. Cardinality(A \cup B) = a + b
  BY <1>6
<1> QED  BY <1>1, <1>2, <1>3, <1>4, <1>7

\* What is divided into parts of known sizes has the sum of them.
LEMMA Summed ==
  ASSUME NEW I, IsFiniteSet(I), NEW S, NEW part \in [S -> I], NEW f \in [I -> Nat],
         \A i \in I : IsFiniteSet(Over(S, part, {i})) /\ Cardinality(Over(S, part, {i})) = f[i]
  PROVE  IsFiniteSet(S) /\ Cardinality(S) = Total(f)
<1>0. PICK g : SumsUp(f, I, g)
  BY SumIs
<1>1. /\ g \in [SUBSET I -> Nat] /\ g[I] = Total(f) /\ g[{}] = 0
      /\ \A s \in SUBSET I : s # {} => \E x \in s : g[s] = f[x] + g[s \ {x}]
  BY <1>0 DEF SumsUp
<1> DEFINE odd == {s \in SUBSET I : ~(IsFiniteSet(Over(S, part, s)) /\ Cardinality(Over(S, part, s)) = g[s])}
<1>2. odd = {}
  <2> SUFFICES ASSUME odd # {} PROVE FALSE
    OBVIOUS
  <2>1. PICK s \in odd : \A u \in odd : ~(u \subseteq s /\ u # s)
    <3>1. odd \subseteq SUBSET I
      OBVIOUS
    <3> HIDE DEF odd
    <3> QED  BY <3>1, SmallestSubset
  <2>2. s # {}
    <3>1. Over(S, part, {}) = {}
      BY DEF Over
    <3> QED  BY <3>1, <1>1, FS_EmptySet
  <2>3. PICK x \in s : g[s] = f[x] + g[s \ {x}]
    BY <1>1, <2>2
  <2>4. s \ {x} \in SUBSET I /\ s \ {x} \notin odd
    BY <2>1, <2>3
  <2>5. IsFiniteSet(Over(S, part, s \ {x})) /\ Cardinality(Over(S, part, s \ {x})) = g[s \ {x}]
    BY <2>4
  <2>6. IsFiniteSet(Over(S, part, {x})) /\ Cardinality(Over(S, part, {x})) = f[x]
    BY <2>1, <2>3
  <2>7. /\ IsFiniteSet(Over(S, part, s))
        /\ Cardinality(Over(S, part, s)) = Cardinality(Over(S, part, {x})) + Cardinality(Over(S, part, s \ {x}))
    BY <2>3, <2>5, <2>6, PartsAdd
  <2> QED  BY <2>1, <2>3, <2>5, <2>6, <2>7
<1>3. Over(S, part, I) = S
  BY DEF Over
<1>4. I \notin odd
  BY <1>2
<1> QED  BY <1>1, <1>3, <1>4

\* Parts of one size.
LEMMA Shared ==
  ASSUME NEW I, IsFiniteSet(I), NEW S, NEW part \in [S -> I], NEW n \in Nat,
         \A i \in I : IsFiniteSet(Over(S, part, {i})) /\ Cardinality(Over(S, part, {i})) = n
  PROVE  IsFiniteSet(S) /\ Cardinality(S) = Cardinality(I) * n
<1> DEFINE odd == {s \in SUBSET I : ~(IsFiniteSet(Over(S, part, s)) /\ Cardinality(Over(S, part, s)) = Cardinality(s) * n)}
<1>2. odd = {}
  <2> SUFFICES ASSUME odd # {} PROVE FALSE
    OBVIOUS
  <2>1. PICK s \in odd : \A u \in odd : ~(u \subseteq s /\ u # s)
    <3>1. odd \subseteq SUBSET I
      OBVIOUS
    <3> HIDE DEF odd
    <3> QED  BY <3>1, SmallestSubset
  <2>2. s # {}
    <3>1. Over(S, part, {}) = {} /\ 0 * n = 0
      BY DEF Over
    <3> QED  BY <3>1, FS_EmptySet
  <2>3. PICK x : x \in s
    BY <2>2
  <2>4. s \ {x} \in SUBSET I /\ s \ {x} \notin odd
    BY <2>1, <2>3
  <2>5. IsFiniteSet(Over(S, part, s \ {x})) /\ Cardinality(Over(S, part, s \ {x})) = Cardinality(s \ {x}) * n
    BY <2>4
  <2>6. IsFiniteSet(Over(S, part, {x})) /\ Cardinality(Over(S, part, {x})) = n
    BY <2>1, <2>3
  <2>7. /\ IsFiniteSet(Over(S, part, s))
        /\ Cardinality(Over(S, part, s)) = Cardinality(Over(S, part, {x})) + Cardinality(Over(S, part, s \ {x}))
    BY <2>3, <2>5, <2>6, PartsAdd
  <2>8. IsFiniteSet(s)
    BY FS_Subset
  <2>9. PICK c \in Nat : c = Cardinality(s \ {x}) /\ Cardinality(s) = c + 1
    <3>1. IsFiniteSet(s \ {x}) /\ Cardinality(s \ {x}) = Cardinality(s) - 1
      BY <2>3, <2>8, FS_RemoveElement
    <3>2. Cardinality(s) \in Nat /\ Cardinality(s \ {x}) \in Nat
      BY <2>8, <3>1, FS_CardinalityType
    <3> QED  BY <3>1, <3>2
  <2>10. (c + 1) * n = n + c * n
    OBVIOUS
  <2> QED  BY <2>1, <2>5, <2>6, <2>7, <2>9, <2>10
<1>3. Over(S, part, I) = S
  BY DEF Over
<1>4. I \notin odd
  BY <1>2
<1> QED  BY <1>3, <1>4

-----------------------------------------------------------------------------
(* The estimate.  What it adds for each room are the ways to pick who      *)
(* works there; Ways says that the fold over the rooms takes them one      *)
(* after the other.                                                        *)

Capacity == Cardinality(Free)
Counts == [0 .. Capacity -> Nat]

Picks(k, g, j) == IF Ordered(g) THEN Falling(k, j) ELSE choose(k, j)

Terms(ways, g, k) ==
  [j \in 0 .. Len(Groups[g]) |-> IF j > k THEN 0 ELSE ways[k - j] * Picks(k, g, j)]

Into(ways, g) == [k \in 0 .. Capacity |-> Total(Terms(ways, g, k))]

NoneYet == [k \in 0 .. Capacity |-> IF k = 0 THEN 1 ELSE 0]

Ways(w) ==
  /\ w \in [0 .. Len(Groups) -> Counts]
  /\ w[0] = NoneYet
  /\ \A n \in 0 .. Len(Groups) - 1 : w[n + 1] = Into(w[n], n + 1)

\* The free slots are finitely many: the groups list them.
LEMMA FreeFinite == IsFiniteSet(Free) /\ Capacity \in Nat
<1> DEFINE first(n) == {s \in Free : \E g \in DOMAIN Groups : g <= n /\ \E i \in DOMAIN Groups[g] : Groups[g][i] = s}
           odd == {n \in 0 .. Len(Groups) : ~IsFiniteSet(first(n))}
<1>0. Len(Groups) \in Nat /\ DOMAIN Groups = 1 .. Len(Groups)
  <2>1. Groups \in Seq(Seq(Free))
    BY Grouped
  <2> QED  BY <2>1
<1>1. odd = {}
  <2> SUFFICES ASSUME odd # {} PROVE FALSE
    OBVIOUS
  <2>1. PICK n \in odd : \A m \in odd : n <= m
    <3>1. odd \subseteq Nat
      BY <1>0
    <3> HIDE DEF odd
    <3> QED  BY <3>1, SmallestNumber
  <2>2. n # 0
    <3>1. first(0) = {}
      BY <1>0
    <3>2. IsFiniteSet(first(0))
      BY <3>1, FS_EmptySet
    <3> HIDE DEF first
    <3> QED  BY <2>1, <3>2
  <2>3. n - 1 \in 0 .. Len(Groups) /\ n \in DOMAIN Groups
    BY <1>0, <2>1, <2>2
  <2>4. IsFiniteSet(first(n - 1))
    <3>1. n - 1 \notin odd
      BY <1>0, <2>1, <2>3
    <3> HIDE DEF first
    <3> QED  BY <2>3, <3>1
  <2> DEFINE G == Groups[n]
             here == {G[i] : i \in DOMAIN G}
             seat == [i \in DOMAIN G |-> G[i]]
  <2>5. IsFiniteSet(here)
    <3>1. DOMAIN G = 1 .. Len(G) /\ Len(G) \in Nat
      BY <2>3, Grouped
    <3>2. IsFiniteSet(DOMAIN G)
      BY <3>1, FS_Interval
    <3>3. seat \in Surjection(DOMAIN G, here)
      BY DEF Surjection
    <3> HIDE DEF G, here, seat
    <3> QED  BY <3>2, <3>3, FS_Surjection
  <2>6. first(n) \subseteq first(n - 1) \cup here
    BY <1>0, <2>3
  <2> HIDE DEF first, here
  <2>7. IsFiniteSet(first(n - 1) \cup here)
    BY <2>4, <2>5, FS_Union
  <2>8. IsFiniteSet(first(n))
    BY <2>6, <2>7, FS_Subset
  <2> QED  BY <2>1, <2>8
<1>2. first(Len(Groups)) = Free
  BY <1>0, Grouped
<1>3. IsFiniteSet(Free)
  BY <1>0, <1>1, <1>2
<1> QED  BY <1>3, FS_CardinalityType DEF Capacity

\* A room whose order matters has one free slot, so that its order makes no
\* difference to the number of ways.
LEMMA PicksAre ==
  ASSUME NEW g \in DOMAIN Groups, NEW k \in Nat, NEW j \in 0 .. Len(Groups[g]), j <= k
  PROVE  /\ Picks(k, g, j) = choose(k, j)
         /\ Picks(k, g, j) \in Nat
         /\ \A S : IsFiniteSet(S) /\ Cardinality(S) = k => Picks(k, g, j) = Cardinality(Sized(S, j))
<1>0. Len(Groups[g]) \in Nat /\ DOMAIN Groups[g] = 1 .. Len(Groups[g]) /\ j \in Nat
  BY Grouped
<1>1. j \in 0 .. k
  BY <1>0
<1>2. ASSUME NEW S, IsFiniteSet(S), Cardinality(S) = k
      PROVE  choose(k, j) = Cardinality(Sized(S, j)) /\ Cardinality(Sized(S, j)) \in Nat
  BY <1>1, <1>2, Chosen, SizedFinite
<1>3. IsFiniteSet(1 .. k) /\ Cardinality(1 .. k) = k
  <2>1. IsFiniteSet(1 .. k) /\ Cardinality(1 .. k) = IF 1 > k THEN 0 ELSE k - 1 + 1
    BY FS_Interval
  <2> QED  BY <2>1
<1>4. choose(k, j) \in Nat
  BY <1>2, <1>3
<1>5. CASE Ordered(g)
  <2>1. DOMAIN Groups[g] \subseteq {1}
    BY <1>5, Grouped
  <2>2. j = 0 \/ j = 1
    <3>1. ~(2 \in DOMAIN Groups[g])
      BY <2>1
    <3> QED  BY <1>0, <3>1
  <2>3. factorial[0] = 1 /\ factorial[0 + 1] = (0 + 1) * factorial[0]
    BY Factorials
  <2>4. factorial[j] = 1
    BY <2>2, <2>3
  <2>5. choose(k, j) * 1 = choose(k, j)
    <3>1. PICK c \in Nat : c = choose(k, j)
      BY <1>4
    <3> QED  BY <3>1
  <2> QED  BY <1>2, <1>4, <1>5, <2>4, <2>5 DEF Picks, Falling
<1>6. CASE ~Ordered(g)
  BY <1>2, <1>4, <1>6 DEF Picks
<1> QED  BY <1>5, <1>6

\* Sums of numbers are numbers, and so are the entries of the estimate.
LEMMA TotalIsNat ==
  ASSUME NEW I, IsFiniteSet(I), NEW f \in [I -> Nat]
  PROVE  Total(f) \in Nat
<1>1. PICK g : SumsUp(f, I, g)
  BY SumIs
<1>2. I \in SUBSET I
  OBVIOUS
<1> QED  BY <1>1, <1>2 DEF SumsUp

LEMMA IntoIs ==
  ASSUME NEW g \in DOMAIN Groups, NEW w \in Counts
  PROVE  /\ Into(w, g) \in Counts
         /\ \A k \in 0 .. Capacity : Terms(w, g, k) \in [0 .. Len(Groups[g]) -> Nat]
<1>0. Len(Groups[g]) \in Nat /\ IsFiniteSet(0 .. Len(Groups[g])) /\ Capacity \in Nat
  <2>1. Len(Groups[g]) \in Nat
    BY Grouped
  <2> QED  BY <2>1, FS_Interval, FreeFinite
<1>1. ASSUME NEW k \in 0 .. Capacity
      PROVE  Terms(w, g, k) \in [0 .. Len(Groups[g]) -> Nat]
  <2>1. ASSUME NEW j \in 0 .. Len(Groups[g]), j <= k
        PROVE  w[k - j] * Picks(k, g, j) \in Nat
    <3>1. k \in Nat /\ j \in Nat /\ k - j \in 0 .. Capacity
      BY <1>0, <2>1
    <3>2. w[k - j] \in Nat
      BY <3>1 DEF Counts
    <3>3. Picks(k, g, j) \in Nat
      BY <2>1, <3>1, PicksAre
    <3>4. \A a, b \in Nat : a * b \in Nat
      OBVIOUS
    <3> QED  BY <3>2, <3>3, <3>4
  <2>2. \A j \in 0 .. Len(Groups[g]) : (IF j > k THEN 0 ELSE w[k - j] * Picks(k, g, j)) \in Nat
    BY <1>0, <2>1
  <2> QED  BY <2>2 DEF Terms
<1>2. \A k \in 0 .. Capacity : Total(Terms(w, g, k)) \in Nat
  BY <1>0, <1>1, TotalIsNat
<1> QED  BY <1>1, <1>2 DEF Into, Counts

\* The fold over the rooms takes the last room last.
LEMMA LastOf ==
  ASSUME NEW n \in Nat
  PROVE  Max(1 .. (n + 1)) = n + 1 /\ (1 .. (n + 1)) \ {n + 1} = 1 .. n
<1>1. n + 1 \in 1 .. (n + 1) /\ \A y \in 1 .. (n + 1) : n + 1 >= y
  OBVIOUS
<1>2. \A x \in 1 .. (n + 1) : (\A y \in 1 .. (n + 1) : x >= y) => x = n + 1
  OBVIOUS
<1>3. Max(1 .. (n + 1)) = n + 1
  BY <1>1, <1>2 DEF Max
<1> QED  BY <1>3

\* The fold of the estimate goes through the rooms in order.
LEMMA WaysAre ==
  \E w : /\ Ways(w)
         /\ SizeEstimate = Total([k \in {n \in 0 .. Capacity : n <= Cardinality(pool)} |->
                                    choose(Cardinality(pool), k) * w[Len(Groups)][k]])
<1> DEFINE D == DOMAIN Groups
           step == [v \in Counts \X D |-> Into(v[1], v[2])]
           last == [s \in SUBSET D |-> Max(s)]
           rooms == [r \in D |-> r]
           Is(any) == any = [s \in SUBSET DOMAIN rooms |->
                               IF s = {} THEN NoneYet ELSE Into(any[s \ {Max(s)}], rooms[Max(s)])]
           h == CHOOSE any : Is(any)
<1>0. Len(Groups) \in Nat /\ D = 1 .. Len(Groups) /\ IsFiniteSet(D) /\ Capacity \in Nat
  <2>1. Groups \in Seq(Seq(Free))
    BY Grouped
  <2>2. Len(Groups) \in Nat /\ D = 1 .. Len(Groups)
    BY <2>1
  <2> QED  BY <2>2, FS_Interval, FreeFinite
<1>1. step \in [Counts \X D -> Counts] /\ NoneYet \in Counts
  <2>1. \A v \in Counts \X D : Into(v[1], v[2]) \in Counts
    BY IntoIs
  <2>2. NoneYet \in Counts
    BY DEF NoneYet, Counts
  <2> QED  BY <2>1, <2>2
<1>2. ASSUME NEW s \in SUBSET D, s # {} PROVE Max(s) \in s
  <2> DEFINE under == {Len(Groups) - x : x \in s}
  <2>1. under \subseteq Nat /\ under # {}
    BY <1>0, <1>2
  <2>2. PICK m \in under : \A k \in under : m <= k
    <3> HIDE DEF under
    <3> QED  BY <2>1, SmallestNumber
  <2>3. PICK x \in s : m = Len(Groups) - x
    BY <2>2
  <2>4. \A y \in s : x >= y
    <3> SUFFICES ASSUME NEW y \in s PROVE x >= y
      OBVIOUS
    <3>1. m <= Len(Groups) - y
      BY <2>2
    <3> QED  BY <3>1, <2>3, <1>0
  <2> QED  BY <2>4 DEF Max
<1>3. \A s \in SUBSET D : s # {} => last[s] \in s
  BY <1>2
<1>4. PICK g \in [SUBSET D -> Counts] : Folded(step, NoneYet, last, D, g)
  <2> HIDE DEF step, last, D
  <2> QED  BY <1>0, <1>1, <1>3, FoldExists
<1>5. Is(g)
  <2>1. ASSUME NEW s \in SUBSET D
        PROVE  g[s] = IF s = {} THEN NoneYet ELSE Into(g[s \ {Max(s)}], rooms[Max(s)])
    <3>1. g[s] = IF s = {} THEN NoneYet ELSE step[<<g[s \ {last[s]}], last[s]>>]
      BY <1>4 DEF Folded
    <3>2. CASE s # {}
      <4>1. Max(s) \in D /\ s \ {Max(s)} \in SUBSET D /\ last[s] = Max(s)
        BY <1>2, <3>2
      <4>2. <<g[s \ {Max(s)}], Max(s)>> \in Counts \X D
        BY <4>1
      <4>3. step[<<g[s \ {Max(s)}], Max(s)>>] = Into(g[s \ {Max(s)}], Max(s))
        BY <4>2
      <4> HIDE DEF step, last
      <4> QED  BY <3>1, <3>2, <4>1, <4>3
    <3> QED  BY <3>1, <3>2
  <2>2. g = [s \in SUBSET D |-> g[s]]
    OBVIOUS
  <2> HIDE DEF D
  <2> QED  BY <2>1, <2>2
<1>6. Is(h)
  <2> HIDE DEF Is
  <2> QED  BY <1>5
<1>7. SizeEstimate = Total([k \in {n \in 0 .. Capacity : n <= Cardinality(pool)} |->
                              choose(Cardinality(pool), k) * h[DOMAIN rooms][k]])
  BY DEF SizeEstimate, FoldLeft, MapThenFoldSet, Total, Into, Terms, Picks, NoneYet, Capacity
<1> HIDE DEF h
<1> DEFINE w == [n \in 0 .. Len(Groups) |-> h[1 .. n]]
<1>8. h[{}] = NoneYet /\ \A s \in SUBSET D : s # {} => h[s] = Into(h[s \ {Max(s)}], Max(s))
  <2>1. \A s \in SUBSET D : s # {} => rooms[Max(s)] = Max(s)
    BY <1>2
  <2>2. \A s \in SUBSET D : h[s] = IF s = {} THEN NoneYet ELSE Into(h[s \ {Max(s)}], rooms[Max(s)])
    BY <1>6
  <2> QED  BY <2>1, <2>2
<1> HIDE DEF D
<1>9. w[0] = NoneYet
  <2>1. 0 \in 0 .. Len(Groups) /\ 1 .. 0 = {}
    BY <1>0
  <2> QED  BY <2>1, <1>8
<1>10. ASSUME NEW n \in 0 .. Len(Groups) - 1
       PROVE  w[n + 1] = Into(w[n], n + 1)
  <2>1. n \in Nat /\ n \in 0 .. Len(Groups) /\ n + 1 \in 0 .. Len(Groups)
    BY <1>0
  <2>2. 1 .. (n + 1) \in SUBSET D /\ 1 .. (n + 1) # {}
    BY <1>0, <2>1
  <2>3. h[1 .. (n + 1)] = Into(h[1 .. n], n + 1)
    BY <1>8, <2>1, <2>2, LastOf
  <2> QED  BY <2>1, <2>3
<1>11. \A n \in 0 .. Len(Groups) : w[n] \in Counts
  <2> DEFINE odd == {n \in 0 .. Len(Groups) : w[n] \notin Counts}
  <2> SUFFICES ASSUME odd # {} PROVE FALSE
    OBVIOUS
  <2>1. PICK n \in odd : \A m \in odd : n <= m
    <3>1. odd \subseteq Nat
      BY <1>0
    <3> HIDE DEF odd
    <3> QED  BY <3>1, SmallestNumber
  <2>2. n # 0
    BY <1>1, <1>9
  <2>3. n - 1 \in 0 .. Len(Groups) - 1 /\ n - 1 \in 0 .. Len(Groups) /\ (n - 1) + 1 = n /\ n \in D
    BY <1>0, <2>1, <2>2
  <2> HIDE DEF w
  <2>4. w[n - 1] \in Counts
    BY <2>1, <2>3
  <2>5. w[n] = Into(w[n - 1], n)
    BY <1>10, <2>3
  <2>6. w[n] \in Counts
    BY <2>3, <2>4, <2>5, IntoIs DEF D
  <2> QED  BY <2>1, <2>6
<1>12. w \in [0 .. Len(Groups) -> Counts]
  <2>1. w = [n \in 0 .. Len(Groups) |-> w[n]]
    OBVIOUS
  <2> HIDE DEF w
  <2> QED  BY <1>11, <2>1
<1>13. w[Len(Groups)] = h[DOMAIN rooms]
  BY <1>0 DEF D
<1>14. Ways(w)
  <2> HIDE DEF w
  <2> QED  BY <1>9, <1>10, <1>12 DEF Ways
<1> HIDE DEF w
<1> QED  BY <1>7, <1>13, <1>14

\* Who works in each of the first n rooms, when they are just those of S.
Hands(n, S) ==
  {f \in [1 .. n -> SUBSET S] :
     /\ \A g \in 1 .. n : Cardinality(f[g]) <= Len(Groups[g])
     /\ \A g, h \in 1 .. n : g # h => f[g] \cap f[h] = {}
     /\ \A x \in S : \E g \in 1 .. n : x \in f[g]}

\* The hands of one more room: who works there, and the hands of the others.
LEMMA HandsWith ==
  ASSUME NEW n \in Nat, NEW S, NEW T \in SUBSET S, Cardinality(T) <= Len(Groups[n + 1])
  PROVE  ExistsBijection(Hands(n, S \ T), {f \in Hands(n + 1, S) : f[n + 1] = T})
<1> DEFINE with == {f \in Hands(n + 1, S) : f[n + 1] = T}
           add == [f \in Hands(n, S \ T) |-> [g \in 1 .. n + 1 |-> IF g = n + 1 THEN T ELSE f[g]]]
<1>1. \A g \in 1 .. n + 1 : g \in 1 .. n \/ g = n + 1
  OBVIOUS
<1>2. \A g \in 1 .. n : g \in 1 .. n + 1 /\ g # n + 1
  OBVIOUS
<1>3. ASSUME NEW f \in Hands(n, S \ T) PROVE add[f] \in with
  <2> DEFINE h == add[f]
  <2>1. h = [g \in 1 .. n + 1 |-> IF g = n + 1 THEN T ELSE f[g]]
    OBVIOUS
  <2> HIDE DEF h
  <2>2. h[n + 1] = T /\ \A g \in 1 .. n : h[g] = f[g]
    BY <1>1, <1>2, <2>1
  <2>3. /\ f \in [1 .. n -> SUBSET (S \ T)]
        /\ \A g \in 1 .. n : Cardinality(f[g]) <= Len(Groups[g])
        /\ \A g, k \in 1 .. n : g # k => f[g] \cap f[k] = {}
        /\ \A x \in S \ T : \E g \in 1 .. n : x \in f[g]
    BY DEF Hands
  <2>4. h \in [1 .. n + 1 -> SUBSET S]
    BY <1>1, <2>1, <2>3
  <2>5. \A g \in 1 .. n + 1 : Cardinality(h[g]) <= Len(Groups[g])
    BY <1>1, <2>2, <2>3
  <2>6. ASSUME NEW g \in 1 .. n + 1, NEW k \in 1 .. n + 1, g # k PROVE h[g] \cap h[k] = {}
    <3>1. CASE g = n + 1
      BY <1>1, <2>2, <2>3, <2>6, <3>1
    <3>2. CASE k = n + 1
      BY <1>1, <2>2, <2>3, <2>6, <3>2
    <3>3. CASE g \in 1 .. n /\ k \in 1 .. n
      BY <2>2, <2>3, <2>6, <3>3
    <3> QED  BY <1>1, <3>1, <3>2, <3>3
  <2>7. ASSUME NEW x \in S PROVE \E g \in 1 .. n + 1 : x \in h[g]
    <3>1. n + 1 \in 1 .. n + 1
      OBVIOUS
    <3>2. CASE x \in T
      BY <2>2, <3>1, <3>2
    <3>3. CASE x \notin T
      BY <1>2, <2>2, <2>3, <3>3
    <3> QED  BY <3>2, <3>3
  <2>8. h \in Hands(n + 1, S)
    BY <2>4, <2>5, <2>6, <2>7 DEF Hands
  <2> QED  BY <2>2, <2>8 DEF h
<1>4. ASSUME NEW f \in with PROVE \E h \in Hands(n, S \ T) : add[h] = f
  <2>1. /\ f \in [1 .. n + 1 -> SUBSET S] /\ f[n + 1] = T
        /\ \A g \in 1 .. n + 1 : Cardinality(f[g]) <= Len(Groups[g])
        /\ \A g, k \in 1 .. n + 1 : g # k => f[g] \cap f[k] = {}
        /\ \A x \in S : \E g \in 1 .. n + 1 : x \in f[g]
    BY DEF Hands
  <2> DEFINE h == [g \in 1 .. n |-> f[g]]
  <2>2. n + 1 \in 1 .. n + 1
    OBVIOUS
  <2>3. h \in [1 .. n -> SUBSET (S \ T)]
    <3>1. ASSUME NEW g \in 1 .. n PROVE f[g] \in SUBSET (S \ T)
      BY <1>2, <2>1, <2>2
    <3> QED  BY <3>1
  <2>4. \A g \in 1 .. n : h[g] = f[g]
    OBVIOUS
  <2> HIDE DEF h
  <2>5. ASSUME NEW x \in S \ T PROVE \E g \in 1 .. n : x \in h[g]
    BY <1>1, <2>1, <2>4
  <2>6. h \in Hands(n, S \ T)
    <3>1. \A g \in 1 .. n : Cardinality(h[g]) <= Len(Groups[g])
      BY <1>2, <2>1, <2>4
    <3>2. \A g, k \in 1 .. n : g # k => h[g] \cap h[k] = {}
      BY <1>2, <2>1, <2>4
    <3> QED  BY <2>3, <2>5, <3>1, <3>2 DEF Hands
  <2>7. add[h] = f
    <3>1. add[h] = [g \in 1 .. n + 1 |-> IF g = n + 1 THEN T ELSE h[g]]
      BY <2>6
    <3>2. \A g \in 1 .. n + 1 : (IF g = n + 1 THEN T ELSE h[g]) = f[g]
      BY <1>1, <2>1, <2>4
    <3> HIDE DEF add
    <3> QED  BY <2>1, <3>1, <3>2
  <2> HIDE DEF add
  <2> QED  BY <2>6, <2>7
<1>5. ASSUME NEW f \in Hands(n, S \ T), NEW h \in Hands(n, S \ T), add[f] = add[h] PROVE f = h
  <2>1. f \in [1 .. n -> SUBSET (S \ T)] /\ h \in [1 .. n -> SUBSET (S \ T)]
    BY DEF Hands
  <2>2. ASSUME NEW g \in 1 .. n PROVE f[g] = h[g]
    <3>1. add[f][g] = f[g] /\ add[h][g] = h[g]
      BY <1>2
    <3> QED  BY <1>5, <3>1
  <2> QED  BY <2>1, <2>2
<1>6. add \in [Hands(n, S \ T) -> with]
  BY <1>3
<1> HIDE DEF add, with
<1>7. add \in Bijection(Hands(n, S \ T), with)
  BY <1>4, <1>5, <1>6 DEF Bijection, Injection, Surjection, IsInjective
<1> QED  BY <1>7 DEF ExistsBijection, with

\* One room more, if the others are counted.
LEMMA HandsStep ==
  ASSUME NEW n \in Nat, n + 1 \in DOMAIN Groups, NEW w \in Counts,
         NEW S, IsFiniteSet(S), Cardinality(S) <= Capacity,
         \A R \in SUBSET S : IsFiniteSet(Hands(n, R)) /\ Cardinality(Hands(n, R)) = w[Cardinality(R)]
  PROVE  /\ IsFiniteSet(Hands(n + 1, S))
         /\ Cardinality(Hands(n + 1, S)) = Into(w, n + 1)[Cardinality(S)]
<1> DEFINE H == Hands(n + 1, S)
           most == Len(Groups[n + 1])
           size == [f \in H |-> Cardinality(f[n + 1])]
<1>1. PICK k \in 0 .. Capacity : k = Cardinality(S)
  <2>1. Cardinality(S) \in Nat /\ Capacity \in Nat
    BY FS_CardinalityType, FreeFinite
  <2> QED  BY <2>1
<1>2. most \in Nat /\ k \in Nat /\ IsFiniteSet(0 .. most)
  <2>1. most \in Nat
    BY Grouped
  <2> QED  BY <2>1, FS_Interval, FreeFinite
<1>3. ASSUME NEW f \in H
      PROVE  f[n + 1] \in SUBSET S /\ IsFiniteSet(f[n + 1]) /\ Cardinality(f[n + 1]) \in 0 .. most
  <2>1. n + 1 \in 1 .. n + 1
    OBVIOUS
  <2>2. f[n + 1] \in SUBSET S /\ Cardinality(f[n + 1]) <= most
    BY <2>1 DEF Hands
  <2>3. IsFiniteSet(f[n + 1]) /\ Cardinality(f[n + 1]) \in Nat
    BY <2>2, FS_Subset, FS_CardinalityType
  <2> QED  BY <1>2, <2>2, <2>3
<1>4. size \in [H -> 0 .. most]
  BY <1>3
<1>5. ASSUME NEW j \in 0 .. most
      PROVE  /\ IsFiniteSet(Over(H, size, {j}))
             /\ Cardinality(Over(H, size, {j})) = Terms(w, n + 1, k)[j]
  <2> DEFINE O == Over(H, size, {j})
             there == [f \in O |-> f[n + 1]]
  <2>1. \A f \in O : f \in H /\ Cardinality(f[n + 1]) = j
    BY DEF Over
  <2>2. CASE j > k
    <3>1. O = {}
      <4> SUFFICES ASSUME NEW f \in O PROVE FALSE
        OBVIOUS
      <4>1. Cardinality(f[n + 1]) = j /\ f[n + 1] \in SUBSET S
        BY <1>3, <2>1
      <4>2. Cardinality(f[n + 1]) <= k
        BY <1>1, <4>1, FS_Subset
      <4> QED  BY <1>2, <2>2, <4>1, <4>2
    <3>2. Terms(w, n + 1, k)[j] = 0
      BY <2>2 DEF Terms
    <3> QED  BY <3>1, <3>2, FS_EmptySet
  <2>3. CASE j <= k
    <3>1. there \in [O -> Sized(S, j)]
      BY <1>3, <2>1 DEF Sized
    <3>2. PICK c \in Nat : c = w[k - j]
      <4>1. j \in Nat /\ Capacity \in Nat
        BY <1>2, FreeFinite
      <4>2. k - j \in 0 .. Capacity
        BY <1>1, <1>2, <2>3, <4>1
      <4> QED  BY <4>2 DEF Counts
    <3>3. ASSUME NEW T \in Sized(S, j)
          PROVE  IsFiniteSet(Over(O, there, {T})) /\ Cardinality(Over(O, there, {T})) = c
      <4>1. T \in SUBSET S /\ Cardinality(T) = j
        BY DEF Sized
      <4>2. Over(O, there, {T}) = {f \in H : f[n + 1] = T}
        BY <4>1 DEF Over
      <4>3. j <= most
        BY <1>2
      <4>4. ExistsBijection(Hands(n, S \ T), {f \in H : f[n + 1] = T})
        BY <4>1, <4>3, HandsWith
      <4>5. Cardinality(S \ T) = k - j
        <5>1. Cardinality(S \ T) = Cardinality(S) - Cardinality(S \cap T)
          BY FS_Difference
        <5>2. S \cap T = T
          BY <4>1
        <5> QED  BY <1>1, <4>1, <5>1, <5>2
      <4>6. IsFiniteSet(Hands(n, S \ T)) /\ Cardinality(Hands(n, S \ T)) = c
        <5>1. S \ T \in SUBSET S
          OBVIOUS
        <5> QED  BY <4>5, <5>1, <3>2
      <4> HIDE DEF O, there, H
      <4> QED  BY <4>2, <4>4, <4>6, FS_Bijection
    <3>4. IsFiniteSet(Sized(S, j)) /\ Cardinality(Sized(S, j)) \in Nat
      BY SizedFinite
    <3>5. IsFiniteSet(O) /\ Cardinality(O) = Cardinality(Sized(S, j)) * c
      <4> HIDE DEF O, there
      <4>1. PICK Z, Q, part : Z = Sized(S, j) /\ Q = O /\ part = there
        OBVIOUS
      <4>2. \A T \in Z : IsFiniteSet(Over(Q, part, {T})) /\ Cardinality(Over(Q, part, {T})) = c
        BY <3>3, <4>1
      <4>3. IsFiniteSet(Z) /\ c \in Nat
        BY <3>2, <3>4, <4>1
      <4>4. part \in [Q -> Z]
        BY <3>1, <4>1
      <4>5. IsFiniteSet(Q) /\ Cardinality(Q) = Cardinality(Z) * c
        BY ONLY <4>2, <4>3, <4>4, Shared, ZenonT(30)
      <4> QED  BY <4>1, <4>5
    <3>6. Picks(k, n + 1, j) = Cardinality(Sized(S, j))
      BY <1>1, <1>2, <2>3, PicksAre
    <3>7. Terms(w, n + 1, k)[j] = w[k - j] * Picks(k, n + 1, j)
      <4>1. ~(j > k)
        BY <1>2, <2>3
      <4> QED  BY <4>1 DEF Terms
    <3>8. \A a, b \in Nat : a * b = b * a
      OBVIOUS
    <3> HIDE DEF O
    <3> QED  BY <3>2, <3>4, <3>5, <3>6, <3>7, <3>8 DEF O
  <2> QED  BY <1>2, <2>2, <2>3
<1>6. Terms(w, n + 1, k) \in [0 .. most -> Nat]
  BY IntoIs
<1>7. IsFiniteSet(H) /\ Cardinality(H) = Total(Terms(w, n + 1, k))
  <2>0. PICK I : I = 0 .. most
    OBVIOUS
  <2>1. PICK f \in [I -> Nat] : f = Terms(w, n + 1, k)
    BY <1>6, <2>0
  <2>1a. f \in [I -> Nat]
    BY <2>1
  <2>2. \A j \in I : IsFiniteSet(Over(H, size, {j})) /\ Cardinality(Over(H, size, {j})) = f[j]
    BY <1>5, <2>0, <2>1
  <2>3. IsFiniteSet(I) /\ size \in [H -> I]
    BY <1>2, <1>4, <2>0
  <2> HIDE DEF H, size, most
  <2>4. IsFiniteSet(H) /\ Cardinality(H) = Total(f)
    BY ONLY <2>1a, <2>2, <2>3, Summed
  <2> QED  BY <2>1, <2>4
<1>8. Into(w, n + 1)[k] = Total(Terms(w, n + 1, k))
  BY DEF Into
<1> QED  BY <1>1, <1>7, <1>8

\* Every entry of ways counts what it is meant to.
LEMMA HandsCounted ==
  ASSUME NEW w, Ways(w), NEW P, IsFiniteSet(P)
  PROVE  \A n \in 0 .. Len(Groups) : \A S \in SUBSET P : Cardinality(S) <= Capacity =>
           IsFiniteSet(Hands(n, S)) /\ Cardinality(Hands(n, S)) = w[n][Cardinality(S)]
<1> DEFINE Right(n) == \A S \in SUBSET P : Cardinality(S) <= Capacity =>
                         IsFiniteSet(Hands(n, S)) /\ Cardinality(Hands(n, S)) = w[n][Cardinality(S)]
           odd == {n \in 0 .. Len(Groups) : ~Right(n)}
<1>0. Len(Groups) \in Nat /\ DOMAIN Groups = 1 .. Len(Groups) /\ Capacity \in Nat
  <2>1. Groups \in Seq(Seq(Free))
    BY Grouped
  <2> QED  BY <2>1, FreeFinite
<1>1. odd = {}
  <2> SUFFICES ASSUME odd # {} PROVE FALSE
    OBVIOUS
  <2>1. PICK n \in odd : \A m \in odd : n <= m
    <3>1. odd \subseteq Nat
      BY <1>0
    <3> HIDE DEF odd
    <3> QED  BY <3>1, SmallestNumber
  <2>2. n # 0
    <3> SUFFICES Right(0)
      OBVIOUS
    <3> SUFFICES ASSUME NEW S \in SUBSET P, Cardinality(S) <= Capacity
                 PROVE  IsFiniteSet(Hands(0, S)) /\ Cardinality(Hands(0, S)) = w[0][Cardinality(S)]
      OBVIOUS
    <3>1. IsFiniteSet(S) /\ Cardinality(S) \in 0 .. Capacity
      BY <1>0, FS_Subset, FS_CardinalityType
    <3>2. w[0][Cardinality(S)] = IF Cardinality(S) = 0 THEN 1 ELSE 0
      BY <3>1 DEF Ways, NoneYet
    <3>3. 1 .. 0 = {}
      OBVIOUS
    <3>4. CASE S = {}
      <4>1. Hands(0, S) = {[g \in {} |-> {}]}
        BY <3>3, <3>4 DEF Hands
      <4>2. IsFiniteSet(Hands(0, S)) /\ Cardinality(Hands(0, S)) = 1
        BY <4>1, FS_Singleton
      <4>3. Cardinality(S) = 0
        BY <3>4, FS_EmptySet
      <4> QED  BY <3>2, <4>2, <4>3
    <3>5. CASE S # {}
      <4>1. Hands(0, S) = {}
        BY <3>3, <3>5 DEF Hands
      <4> QED  BY <3>1, <3>2, <3>5, <4>1, FS_EmptySet
    <3> QED  BY <3>4, <3>5
  <2>3. PICK m \in 0 .. Len(Groups) - 1 : n = m + 1
    <3>1. n - 1 \in 0 .. Len(Groups) - 1 /\ n = (n - 1) + 1
      BY <1>0, <2>1, <2>2
    <3> QED  BY <3>1
  <2>4. m \in Nat /\ m \in 0 .. Len(Groups) /\ n \in DOMAIN Groups
    BY <1>0, <2>3
  <2>5. Right(m)
    <3>1. m \notin odd
      BY <2>1, <2>3, <2>4
    <3> HIDE DEF Right
    <3> QED  BY <2>4, <3>1
  <2>6. w[m] \in Counts /\ w[n] = Into(w[m], n)
    BY <2>3, <2>4 DEF Ways
  <2>7. ASSUME NEW S \in SUBSET P, Cardinality(S) <= Capacity
        PROVE  IsFiniteSet(Hands(n, S)) /\ Cardinality(Hands(n, S)) = w[n][Cardinality(S)]
    <3>1. IsFiniteSet(S)
      BY FS_Subset
    <3>2. ASSUME NEW R \in SUBSET S
          PROVE  IsFiniteSet(Hands(m, R)) /\ Cardinality(Hands(m, R)) = w[m][Cardinality(R)]
      <4>1. Cardinality(R) <= Cardinality(S) /\ IsFiniteSet(R)
        BY <3>1, FS_Subset
      <4>2. Cardinality(R) \in Nat /\ Cardinality(S) \in Nat
        BY <3>1, <4>1, FS_CardinalityType
      <4>3. Cardinality(R) <= Capacity /\ R \in SUBSET P
        BY <1>0, <2>7, <4>1, <4>2
      <4> QED  BY <2>5, <4>3
    <3>3. PICK v \in Counts : v = w[m]
      BY <2>6
    <3>4. \A R \in SUBSET S : IsFiniteSet(Hands(m, R)) /\ Cardinality(Hands(m, R)) = v[Cardinality(R)]
      BY <3>2, <3>3
    <3>5. /\ IsFiniteSet(Hands(m + 1, S))
          /\ Cardinality(Hands(m + 1, S)) = Into(v, m + 1)[Cardinality(S)]
      <4>1. m + 1 \in DOMAIN Groups
        BY <2>3, <2>4
      <4> QED  BY ONLY <4>1, <2>4, <2>7, <3>1, <3>3, <3>4, HandsStep
    <3> QED  BY <2>3, <2>6, <3>3, <3>5
  <2> QED  BY <2>1, <2>7
<1> HIDE DEF Right
<1>2. \A n \in 0 .. Len(Groups) : Right(n)
  BY <1>1
<1> QED  BY <1>2 DEF Right

-----------------------------------------------------------------------------
(* A key says who works in which room, and every way to have the operators *)
(* work in the rooms is said by a key.                                     *)

Rows == 1 .. Len(Groups)
Held(a) == [g \in Rows |-> {a[Groups[g][i]] : i \in DOMAIN Groups[g]} \ {Nobody}]

Teams ==
  {f \in [Rows -> SUBSET pool] :
     /\ \A g \in Rows : Cardinality(f[g]) <= Len(Groups[g])
     /\ \A g, h \in Rows : g # h => f[g] \cap f[h] = {}}

LEMMA RowsAre == Rows = DOMAIN Groups /\ Len(Groups) \in Nat /\ IsFiniteSet(Rows)
<1>1. Groups \in Seq(Seq(Free))
  BY Grouped
<1>2. Rows = DOMAIN Groups /\ Len(Groups) \in Nat
  BY <1>1 DEF Rows
<1> QED  BY <1>2, FS_Interval DEF Rows

\* Equal keys: the same operators in each room.
LEMMA KeysHold ==
  ASSUME IInv, NEW a, Good(a), NEW b, Good(b), Canonical(a) = Canonical(b)
  PROVE  Held(a) = Held(b)
<1>1. ASSUME NEW c, NEW d, Good(c), Good(d), Canonical(c) = Canonical(d),
             NEW g \in DOMAIN Groups, NEW i \in DOMAIN Groups[g], c[Groups[g][i]] # Nobody
      PROVE  \E m \in DOMAIN Groups[g] : d[Groups[g][m]] = c[Groups[g][i]]
  <2>1. PICK t \in Slots : t = Groups[g][i]
    BY Grouped
  <2>2. Canonical(c) = Canonical(d)
    BY <1>1
  <2>3. /\ RoomOf[t] \in Training => c[t] = d[t]
        /\ RoomOf[t] \notin Training /\ c[t] # Nobody =>
             \E s \in Slots : RoomOf[s] = RoomOf[t] /\ d[s] = c[t]
    <3>1. t \in Slots
      BY <2>1
    <3> QED  BY ONLY <2>2, <3>1, KeySays
  <2>4. PICK s \in Slots : RoomOf[s] = RoomOf[t] /\ d[s] = c[t]
    BY <1>1, <2>1, <2>3
  <2>5. s \notin Locked
    <3>1. c[t] \in pool
      BY <1>1, <2>1, Grouped DEF Good
    <3> QED  BY <1>1, <2>4, <3>1 DEF Good, IInv, Valid
  <2> QED  BY <2>1, <2>4, <2>5, RoomIs
<1>2. ASSUME NEW g \in Rows PROVE Held(a)[g] = Held(b)[g]
  <2>1. g \in DOMAIN Groups
    BY RowsAre
  <2>2. \A i \in DOMAIN Groups[g] : a[Groups[g][i]] # Nobody =>
          \E m \in DOMAIN Groups[g] : b[Groups[g][m]] = a[Groups[g][i]]
    BY <1>1, <2>1
  <2>3. \A i \in DOMAIN Groups[g] : b[Groups[g][i]] # Nobody =>
          \E m \in DOMAIN Groups[g] : a[Groups[g][m]] = b[Groups[g][i]]
    <3>1. Canonical(b) = Canonical(a)
      OBVIOUS
    <3> QED  BY <1>1, <2>1, <3>1
  <2>4. /\ Held(a)[g] = {a[Groups[g][i]] : i \in DOMAIN Groups[g]} \ {Nobody}
        /\ Held(b)[g] = {b[Groups[g][i]] : i \in DOMAIN Groups[g]} \ {Nobody}
    BY DEF Held
  <2> QED  BY <2>2, <2>3, <2>4
<1>3. DOMAIN Held(a) = Rows /\ DOMAIN Held(b) = Rows
  BY DEF Held
<1>4. Held(a) = [g \in Rows |-> Held(a)[g]] /\ Held(b) = [g \in Rows |-> Held(b)[g]]
  BY <1>3 DEF Held
<1> QED  BY <1>2, <1>4

\* The same operators in each room: equal keys.
LEMMA HoldKeys ==
  ASSUME IInv, NEW a, Good(a), NEW b, Good(b), Held(a) = Held(b)
  PROVE  Canonical(a) = Canonical(b)
<1>1. ASSUME NEW c, NEW d, Good(c), Good(d), Held(c) = Held(d), NEW s \in Slots
      PROVE  /\ RoomOf[s] \in Training => c[s] = d[s]
             /\ c[s] # Nobody => \E t \in Slots : RoomOf[t] = RoomOf[s] /\ d[t] = c[s]
  <2>1. CASE s \in Locked
    <3>1. c[s] = d[s]
      BY <1>1, <2>1 DEF Good
    <3> QED  BY <3>1
  <2>2. CASE s \notin Locked
    <3>1. PICK g \in DOMAIN Groups : \E i \in DOMAIN Groups[g] : Groups[g][i] = s
      BY <2>2, Grouped DEF Free
    <3>2. PICK i \in DOMAIN Groups[g] : Groups[g][i] = s
      BY <3>1
    <3>3. {c[Groups[g][j]] : j \in DOMAIN Groups[g]} \ {Nobody} = {d[Groups[g][j]] : j \in DOMAIN Groups[g]} \ {Nobody}
      <4>1. g \in Rows
        BY RowsAre
      <4>2. Held(c)[g] = Held(d)[g]
        BY <1>1
      <4> QED  BY <4>1, <4>2 DEF Held
    <3>4. ASSUME c[s] # Nobody PROVE \E j \in DOMAIN Groups[g] : d[Groups[g][j]] = c[s]
      BY <3>2, <3>3, <3>4
    <3>5. ASSUME d[s] # Nobody PROVE \E j \in DOMAIN Groups[g] : c[Groups[g][j]] = d[s]
      BY <3>2, <3>3, <3>5
    <3>6. \A j \in DOMAIN Groups[g] : Groups[g][j] \in Slots
      BY Grouped
    <3>7. \A j \in DOMAIN Groups[g] : RoomOf[Groups[g][j]] = RoomOf[s]
      <4>1. \A x, y \in DOMAIN Groups : \A j \in DOMAIN Groups[x], k \in DOMAIN Groups[y] :
              x = y => RoomOf[Groups[x][j]] = RoomOf[Groups[y][k]]
        BY WalkAssumption
      <4> QED  BY <3>2, <4>1
    <3>8. ASSUME RoomOf[s] \in Training PROVE c[s] = d[s]
      <4>1. Ordered(g)
        BY <3>2, <3>8 DEF Ordered
      <4>2. DOMAIN Groups[g] \subseteq {1}
        BY <4>1, Grouped
      <4>3. \A j \in DOMAIN Groups[g] : Groups[g][j] = s
        BY <3>2, <4>2
      <4> QED  BY <3>4, <3>5, <4>3
    <3> QED  BY <3>4, <3>6, <3>7, <3>8
  <2> QED  BY <2>1, <2>2
<1>2. ASSUME NEW r \in Rooms PROVE Canonical(a)[r] = Canonical(b)[r]
  <2> DEFINE here == {s \in Slots : RoomOf[s] = r}
  <2>1. CASE r \in Training
    <3>1. \A s \in here : a[s] = b[s]
      BY <1>1, <2>1
    <3>2. [s \in here |-> a[s]] = [s \in here |-> b[s]]
      BY <3>1
    <3> QED  BY <2>1, <3>2 DEF Canonical
  <2>2. CASE r \notin Training
    <3>1. \A s \in Slots : a[s] # Nobody => \E t \in Slots : RoomOf[t] = RoomOf[s] /\ b[t] = a[s]
      BY <1>1
    <3>2. \A s \in Slots : b[s] # Nobody => \E t \in Slots : RoomOf[t] = RoomOf[s] /\ a[t] = b[s]
      <4>1. Held(b) = Held(a)
        OBVIOUS
      <4> QED  BY <1>1, <4>1
    <3>3. {a[s] : s \in here} \ {Nobody} = {b[s] : s \in here} \ {Nobody}
      BY <3>1, <3>2
    <3> QED  BY <2>2, <3>3 DEF Canonical
  <2> QED  BY <2>1, <2>2
<1>3. Canonical(a) = [r \in Rooms |-> Canonical(a)[r]] /\ Canonical(b) = [r \in Rooms |-> Canonical(b)[r]]
  BY DEF Canonical
<1> QED  BY <1>2, <1>3

\* A filling has no more in a room than it has free slots, and nobody twice.
LEMMA HeldTeams ==
  ASSUME IInv, NEW a, Good(a)
  PROVE  Held(a) \in Teams
<1>1. ASSUME NEW g \in Rows
      PROVE  Held(a)[g] \in SUBSET pool /\ Cardinality(Held(a)[g]) <= Len(Groups[g])
  <2> DEFINE G == Groups[g]
             here == {i \in DOMAIN G : a[G[i]] # Nobody}
             who == [i \in here |-> a[G[i]]]
  <2>1. g \in DOMAIN Groups /\ Len(G) \in Nat /\ DOMAIN G = 1 .. Len(G) /\ \A i \in DOMAIN G : G[i] \in Free
    BY RowsAre, Grouped
  <2>2. Held(a)[g] = {a[G[i]] : i \in DOMAIN G} \ {Nobody}
    BY DEF Held
  <2>3. Held(a)[g] \in SUBSET pool
    BY <2>1, <2>2 DEF Good
  <2>4. IsFiniteSet(DOMAIN G) /\ Cardinality(DOMAIN G) = Len(G)
    <3>1. PICK n \in Nat : n = Len(G)
      BY <2>1
    <3>2. IsFiniteSet(1 .. n) /\ Cardinality(1 .. n) = n
      <4>1. 1 \in Int /\ n \in Int
        OBVIOUS
      <4>2. /\ IsFiniteSet(1 .. n)
            /\ Cardinality(1 .. n) = IF 1 > n THEN 0 ELSE n - 1 + 1
        BY ONLY <4>1, FS_Interval
      <4> QED  BY <4>2
    <3> QED  BY <2>1, <3>1, <3>2
  <2>5. IsFiniteSet(here) /\ Cardinality(here) <= Len(G)
    <3>1. here \in SUBSET DOMAIN G
      OBVIOUS
    <3> HIDE DEF here, G
    <3> QED  BY <2>4, <3>1, FS_Subset
  <2>6. who \in Surjection(here, Held(a)[g])
    BY <2>2 DEF Surjection
  <2> HIDE DEF who, here
  <2>7. IsFiniteSet(Held(a)[g]) /\ Cardinality(Held(a)[g]) <= Cardinality(here)
    BY <2>5, <2>6, FS_Surjection
  <2>8. Cardinality(Held(a)[g]) \in Nat /\ Cardinality(here) \in Nat
    BY <2>5, <2>7, FS_CardinalityType
  <2> QED  BY <2>1, <2>3, <2>5, <2>7, <2>8
<1>2. ASSUME NEW g \in Rows, NEW h \in Rows, g # h PROVE Held(a)[g] \cap Held(a)[h] = {}
  <2> SUFFICES ASSUME NEW x, x \in Held(a)[g], x \in Held(a)[h] PROVE FALSE
    OBVIOUS
  <2>1. g \in DOMAIN Groups /\ h \in DOMAIN Groups
    BY RowsAre
  <2>2. PICK i \in DOMAIN Groups[g] : x = a[Groups[g][i]]
    BY DEF Held
  <2>3. PICK j \in DOMAIN Groups[h] : x = a[Groups[h][j]]
    BY DEF Held
  <2>4. x # Nobody
    BY DEF Held
  <2>5. Groups[g][i] \in Slots /\ Groups[h][j] \in Slots
    BY <2>1, Grouped
  <2>6. Groups[g][i] = Groups[h][j]
    BY <2>2, <2>3, <2>4, <2>5 DEF Good, NoDuplicates
  <2> QED  BY <1>2, <2>1, <2>6, Grouped
<1>3. Held(a) \in [Rows -> SUBSET pool]
  <2>1. Held(a) = [g \in Rows |-> Held(a)[g]]
    BY DEF Held
  <2> QED  BY <1>1, <2>1
<1> QED  BY <1>1, <1>2, <1>3 DEF Teams

\* Any operators can be put into the free slots of a room that are enough.
LEMMA TeamsHeld ==
  ASSUME IInv, NEW f \in Teams
  PROVE  \E a \in Fillings : Held(a) = f
<1>1. /\ f \in [Rows -> SUBSET pool]
      /\ \A g \in Rows : Cardinality(f[g]) <= Len(Groups[g])
      /\ \A g, h \in Rows : g # h => f[g] \cap f[h] = {}
  BY DEF Teams
<1>2. IsFiniteSet(pool) /\ Nobody \notin pool
  <2>1. pool \in SUBSET Operators /\ IsFiniteSet(Operators)
    BY WalkAssumption DEF IInv, TypeOK
  <2> QED  BY <2>1, FS_Subset, NobodyAssumption
<1> DEFINE Seats(c, g) ==
             /\ c \in [DOMAIN Groups[g] -> f[g] \cup {Nobody}]
             /\ \A i, j \in DOMAIN Groups[g] : c[i] # Nobody /\ c[i] = c[j] => i = j
             /\ \A x \in f[g] : \E i \in DOMAIN Groups[g] : c[i] = x
           in(s) == CHOOSE g \in DOMAIN Groups : \E i \in DOMAIN Groups[g] : Groups[g][i] = s
           at(s) == CHOOSE i \in DOMAIN Groups[in(s)] : Groups[in(s)][i] = s
           C(g) == CHOOSE c : Seats(c, g)
           b == [s \in Slots |-> IF s \in Free THEN C(in(s))[at(s)] ELSE initial[s]]
<1>3. ASSUME NEW g \in DOMAIN Groups PROVE \E c : Seats(c, g)
  <2> DEFINE n == Cardinality(f[g])
             D == DOMAIN Groups[g]
  <2>1. g \in Rows /\ f[g] \in SUBSET pool /\ n <= Len(Groups[g])
    BY <1>1, RowsAre
  <2>2. IsFiniteSet(f[g]) /\ n \in Nat /\ ExistsBijection(1 .. n, f[g])
    BY <1>2, <2>1, FS_Subset, FS_CardinalityType
  <2>3. PICK e : e \in Bijection(1 .. n, f[g])
    BY <2>2 DEF ExistsBijection
  <2>4. /\ e \in [1 .. n -> f[g]]
        /\ \A i, j \in 1 .. n : e[i] = e[j] => i = j
        /\ \A x \in f[g] : \E i \in 1 .. n : e[i] = x
    BY <2>3 DEF Bijection, Injection, Surjection, IsInjective
  <2>5. 1 .. n \subseteq D
    <3>1. D = 1 .. Len(Groups[g]) /\ Len(Groups[g]) \in Nat
      BY Grouped
    <3> QED  BY <2>1, <2>2, <3>1
  <2>6. \A i \in 1 .. n : e[i] # Nobody
    BY <1>2, <2>1, <2>4
  <2> DEFINE c == [i \in D |-> IF i \in 1 .. n THEN e[i] ELSE Nobody]
  <2> HIDE DEF n, D
  <2>7. Seats(c, g)
    <3>1. c \in [D -> f[g] \cup {Nobody}]
      BY <2>4
    <3>2. \A i, j \in D : c[i] # Nobody /\ c[i] = c[j] => i = j
      BY <2>4, <2>6
    <3>3. \A x \in f[g] : \E i \in D : c[i] = x
      BY <2>4, <2>5
    <3> HIDE DEF c
    <3> QED  BY <3>1, <3>2, <3>3 DEF D
  <2> HIDE DEF c, Seats
  <2> QED  BY <2>7
<1>4. \A g \in DOMAIN Groups : Seats(C(g), g)
  <2> HIDE DEF Seats
  <2> QED  BY <1>3
<1>5. \A s \in Free : in(s) \in DOMAIN Groups /\ at(s) \in DOMAIN Groups[in(s)] /\ Groups[in(s)][at(s)] = s
  <2> SUFFICES ASSUME NEW s \in Free
               PROVE  in(s) \in DOMAIN Groups /\ at(s) \in DOMAIN Groups[in(s)] /\ Groups[in(s)][at(s)] = s
    OBVIOUS
  <2>1. \E g \in DOMAIN Groups : \E i \in DOMAIN Groups[g] : Groups[g][i] = s
    BY Grouped
  <2>2. in(s) \in DOMAIN Groups /\ \E i \in DOMAIN Groups[in(s)] : Groups[in(s)][i] = s
    BY <2>1
  <2> HIDE DEF in
  <2> QED  BY <2>2
<1>6. \A g, h \in DOMAIN Groups : \A i \in DOMAIN Groups[g], j \in DOMAIN Groups[h] :
        Groups[g][i] = Groups[h][j] => g = h /\ i = j
  BY Grouped
<1> HIDE DEF in, at, C
<1>7. /\ \A s \in Locked : b[s] = initial[s] /\ initial[s] \notin pool /\ s \in Slots
      /\ \A s \in Slots : s \notin Locked <=> s \in Free
  BY SpaceAssumption DEF Free, IInv, Valid
<1>8. ASSUME NEW g \in DOMAIN Groups, NEW i \in DOMAIN Groups[g]
      PROVE  b[Groups[g][i]] = C(g)[i] /\ Groups[g][i] \in Free
  <2> DEFINE s == Groups[g][i]
  <2>1. s \in Free /\ s \in Slots
    BY Grouped
  <2>2. in(s) = g /\ at(s) = i
    <3>1. Groups[in(s)][at(s)] = s /\ in(s) \in DOMAIN Groups /\ at(s) \in DOMAIN Groups[in(s)]
      BY <1>5, <2>1
    <3> QED  BY <1>6, <3>1
  <2> QED  BY <2>1, <2>2
<1>9. ASSUME NEW s \in Free
      PROVE  \E g \in DOMAIN Groups : \E i \in DOMAIN Groups[g] : s = Groups[g][i] /\ b[s] = C(g)[i]
  BY <1>5, <1>8
<1>10. \A g \in DOMAIN Groups : g \in Rows /\ f[g] \in SUBSET pool
  BY <1>1, RowsAre
<1>11. b = [s \in Slots |-> b[s]]
  OBVIOUS
<1> HIDE DEF b
<1>12. ASSUME NEW g \in DOMAIN Groups, NEW i \in DOMAIN Groups[g] PROVE C(g)[i] \in f[g] \cup {Nobody}
  BY <1>4
<1>13. \A s \in Free : b[s] \in pool \cup {Nobody}
  BY <1>9, <1>10, <1>12
<1>14. ASSUME NEW s \in Slots, NEW t \in Slots, b[s] # Nobody, b[s] = b[t] PROVE s = t
  <2>1. CASE s \in Free /\ t \in Free
    <3>1. PICK g \in DOMAIN Groups : \E i \in DOMAIN Groups[g] : s = Groups[g][i] /\ b[s] = C(g)[i]
      BY <1>9, <2>1
    <3>2. PICK i \in DOMAIN Groups[g] : s = Groups[g][i] /\ b[s] = C(g)[i]
      BY <3>1
    <3>3. PICK h \in DOMAIN Groups : \E j \in DOMAIN Groups[h] : t = Groups[h][j] /\ b[t] = C(h)[j]
      BY <1>9, <2>1
    <3>4. PICK j \in DOMAIN Groups[h] : t = Groups[h][j] /\ b[t] = C(h)[j]
      BY <3>3
    <3>5. b[s] \in f[g] /\ b[s] \in f[h]
      BY <1>12, <1>14, <3>2, <3>4
    <3>6. g = h
      BY <1>1, <1>10, <3>5
    <3>7. i = j
      <4>1. \A k, m \in DOMAIN Groups[g] : C(g)[k] # Nobody /\ C(g)[k] = C(g)[m] => k = m
        BY <1>4
      <4> QED  BY <1>14, <3>2, <3>4, <3>6, <4>1
    <3> QED  BY <3>2, <3>4, <3>6, <3>7
  <2>2. CASE s \notin Free /\ t \notin Free
    BY <1>7, <1>14, <2>2 DEF IInv, NoDuplicates
  <2>3. CASE s \in Free /\ t \notin Free
    BY <1>7, <1>13, <1>14, <2>3
  <2>4. CASE s \notin Free /\ t \in Free
    BY <1>7, <1>13, <1>14, <2>4
  <2> QED  BY <2>1, <2>2, <2>3, <2>4
<1>15. Good(b)
  <2>1. b \in Assignments
    <3>1. \A s \in Slots : b[s] \in Operators \cup {Nobody}
      BY <1>7, <1>13 DEF IInv, TypeOK, Assignments
    <3> QED  BY <1>11, <3>1 DEF Assignments
  <2>2. NoDuplicates(b)
    BY <1>14 DEF NoDuplicates
  <2> QED  BY <1>7, <1>13, <2>1, <2>2 DEF Good
<1>16. b \in Fillings
  BY <1>15, FillingsAreGood
<1>17. ASSUME NEW g \in Rows PROVE Held(b)[g] = f[g]
  <2>1. g \in DOMAIN Groups
    BY RowsAre
  <2>2. Held(b)[g] = {b[Groups[g][i]] : i \in DOMAIN Groups[g]} \ {Nobody}
    BY DEF Held
  <2>3. {b[Groups[g][i]] : i \in DOMAIN Groups[g]} = {C(g)[i] : i \in DOMAIN Groups[g]}
    BY <1>8, <2>1
  <2>4. /\ \A i \in DOMAIN Groups[g] : C(g)[i] \in f[g] \cup {Nobody}
        /\ \A x \in f[g] : \E i \in DOMAIN Groups[g] : C(g)[i] = x
    BY <1>4, <2>1
  <2>5. Nobody \notin f[g]
    BY <1>1, <1>2
  <2> DEFINE all == {C(g)[i] : i \in DOMAIN Groups[g]}
  <2>6. all \subseteq f[g] \cup {Nobody}
    BY <2>4
  <2>7. f[g] \subseteq all
    BY <2>4
  <2>8. Held(b)[g] = all \ {Nobody}
    BY <2>2, <2>3
  <2> HIDE DEF all
  <2> QED  BY <2>5, <2>6, <2>7, <2>8
<1>18. Held(b) = [g \in Rows |-> Held(b)[g]]
  BY DEF Held
<1>19. Held(b) = f
  BY <1>1, <1>17, <1>18
<1> QED  BY <1>16, <1>19

-----------------------------------------------------------------------------
(* The teams are as many as the estimate says, and so are the keys.        *)

Who(f) == UNION {f[g] : g \in Rows}

\* Teams of all the rooms have no more operators than there are free slots.
LEMMA TeamsFit ==
  ASSUME IInv, NEW f \in Teams
  PROVE  /\ Who(f) \in SUBSET pool /\ IsFiniteSet(Who(f))
         /\ Cardinality(Who(f)) \in Nat
         /\ Cardinality(Who(f)) <= Capacity /\ Cardinality(Who(f)) <= Cardinality(pool)
<1>1. IsFiniteSet(pool) /\ Who(f) \in SUBSET pool
  <2>1. pool \in SUBSET Operators /\ IsFiniteSet(Operators)
    BY WalkAssumption DEF IInv, TypeOK
  <2>2. f \in [Rows -> SUBSET pool]
    BY DEF Teams
  <2>3. Who(f) \in SUBSET pool
    BY <2>2 DEF Who
  <2> QED  BY <2>1, <2>3, FS_Subset
<1>2. /\ IsFiniteSet(Who(f)) /\ Cardinality(Who(f)) \in Nat
      /\ Cardinality(Who(f)) <= Cardinality(pool)
  BY <1>1, FS_Subset, FS_CardinalityType
<1>3. Cardinality(Who(f)) <= Capacity
  <2>1. PICK a \in Fillings : Held(a) = f
    BY TeamsHeld
  <2> DEFINE busy == {s \in Free : a[s] \in Who(f)}
             at == [s \in busy |-> a[s]]
  <2>2. ASSUME NEW x \in Who(f) PROVE \E s \in busy : at[s] = x
    <3>1. PICK g \in Rows : x \in f[g]
      BY DEF Who
    <3>2. f[g] = {a[Groups[g][i]] : i \in DOMAIN Groups[g]} \ {Nobody}
      BY <2>1 DEF Held
    <3>3. PICK i \in DOMAIN Groups[g] : x = a[Groups[g][i]]
      BY <3>1, <3>2
    <3>4. Groups[g][i] \in Free
      BY <3>3, RowsAre, Grouped
    <3>5. Groups[g][i] \in busy
      BY <3>3, <3>4
    <3> QED  BY <3>3, <3>5
  <2>3. at \in [busy -> Who(f)]
    OBVIOUS
  <2> HIDE DEF at
  <2>4. at \in Surjection(busy, Who(f))
    BY <2>2, <2>3 DEF Surjection
  <2>5. busy \in SUBSET Free
    OBVIOUS
  <2> HIDE DEF busy
  <2>6. IsFiniteSet(busy) /\ Cardinality(busy) <= Capacity /\ Cardinality(busy) \in Nat
    BY <2>5, FreeFinite, FS_Subset, FS_CardinalityType DEF Capacity
  <2>7. Cardinality(Who(f)) <= Cardinality(busy)
    BY <2>4, <2>6, FS_Surjection
  <2> QED  BY <1>2, <2>6, <2>7, FreeFinite
<1> QED  BY <1>1, <1>2, <1>3

\* By how many operators work, then by who they are.
LEMMA TeamsCounted ==
  ASSUME IInv
  PROVE  IsFiniteSet(Teams) /\ Cardinality(Teams) = SizeEstimate
<1>1. PICK w : /\ Ways(w)
               /\ SizeEstimate = Total([k \in {n \in 0 .. Capacity : n <= Cardinality(pool)} |->
                                          choose(Cardinality(pool), k) * w[Len(Groups)][k]])
  BY WaysAre
<1>2. PICK m \in Nat : m = Len(Groups) /\ Rows = 1 .. m
  BY RowsAre DEF Rows
<1>3. IsFiniteSet(pool) /\ Capacity \in Nat
  <2>1. pool \in SUBSET Operators /\ IsFiniteSet(Operators)
    BY WalkAssumption DEF IInv, TypeOK
  <2> QED  BY <2>1, FS_Subset, FreeFinite
<1>4. PICK p \in Nat : p = Cardinality(pool)
  BY <1>3, FS_CardinalityType
<1>5. PICK I : I = {n \in 0 .. Capacity : n <= p}
  OBVIOUS
<1>6. IsFiniteSet(I)
  <2>1. I \in SUBSET (0 .. Capacity) /\ IsFiniteSet(0 .. Capacity)
    BY <1>3, <1>5, FS_Interval
  <2> QED  BY <2>1, FS_Subset
<1>7. PICK v \in Counts : v = w[m]
  BY <1>1, <1>2 DEF Ways
<1> DEFINE F == [k \in I |-> choose(p, k) * v[k]]
           many == [f \in Teams |-> Cardinality(Who(f))]
<1>8. SizeEstimate = Total(F)
  BY <1>1, <1>2, <1>4, <1>5, <1>7
<1>9. many \in [Teams -> I]
  <2>1. ASSUME NEW f \in Teams PROVE Cardinality(Who(f)) \in I
    BY <1>3, <1>4, <1>5, TeamsFit
  <2> QED  BY <2>1
<1>10. ASSUME NEW k \in I
       PROVE  /\ choose(p, k) = Cardinality(Sized(pool, k))
              /\ IsFiniteSet(Sized(pool, k)) /\ Cardinality(Sized(pool, k)) \in Nat
              /\ v[k] \in Nat
  <2>1. k \in 0 .. Capacity /\ k \in 0 .. p
    BY <1>5
  <2>2. v[k] \in Nat
    BY <2>1 DEF Counts
  <2>3. choose(p, k) = Cardinality(Sized(pool, k))
    BY <1>3, <1>4, <2>1, Chosen
  <2> QED  BY <1>3, <2>2, <2>3, SizedFinite
<1>11. F \in [I -> Nat]
  <2>1. ASSUME NEW k \in I PROVE choose(p, k) * v[k] \in Nat
    <3>1. PICK a \in Nat : a = choose(p, k)
      BY <1>10
    <3>2. PICK b \in Nat : b = v[k]
      BY <1>10
    <3> QED  BY <3>1, <3>2
  <2> QED  BY <2>1
<1>12. ASSUME NEW k \in I
       PROVE  IsFiniteSet(Over(Teams, many, {k})) /\ Cardinality(Over(Teams, many, {k})) = F[k]
  <2> DEFINE O == Over(Teams, many, {k})
             who == [f \in O |-> Who(f)]
  <2>1. \A f : f \in O <=> f \in Teams /\ Cardinality(Who(f)) = k
    BY DEF Over
  <2>2. who \in [O -> Sized(pool, k)]
    <3>1. ASSUME NEW f \in O PROVE Who(f) \in Sized(pool, k)
      BY <2>1, TeamsFit DEF Sized
    <3> QED  BY <3>1
  <2>3. PICK c \in Nat : c = v[k]
    BY <1>10
  <2>4. ASSUME NEW U \in Sized(pool, k)
        PROVE  IsFiniteSet(Over(O, who, {U})) /\ Cardinality(Over(O, who, {U})) = c
    <3>1. U \in SUBSET pool /\ Cardinality(U) = k
      BY DEF Sized
    <3>2. ASSUME NEW f \in O, Who(f) = U PROVE f \in Hands(m, U)
      <4>1. /\ f \in [1 .. m -> SUBSET pool]
            /\ \A g \in 1 .. m : Cardinality(f[g]) <= Len(Groups[g])
            /\ \A g, h \in 1 .. m : g # h => f[g] \cap f[h] = {}
        BY <1>2, <2>1 DEF Teams
      <4>2. U = UNION {f[g] : g \in 1 .. m}
        BY <1>2, <3>2 DEF Who
      <4>3. \A g \in 1 .. m : f[g] \subseteq U
        BY <4>2
      <4>4. \A x \in U : \E g \in 1 .. m : x \in f[g]
        BY <4>2
      <4>5. f \in [1 .. m -> SUBSET U]
        BY <4>1, <4>3
      <4> QED  BY <4>1, <4>4, <4>5 DEF Hands
    <3>3. ASSUME NEW f \in Hands(m, U) PROVE f \in O /\ Who(f) = U
      <4>1. /\ f \in [1 .. m -> SUBSET U]
            /\ \A g \in 1 .. m : Cardinality(f[g]) <= Len(Groups[g])
            /\ \A g, h \in 1 .. m : g # h => f[g] \cap f[h] = {}
            /\ \A x \in U : \E g \in 1 .. m : x \in f[g]
        BY DEF Hands
      <4>2. f \in [1 .. m -> SUBSET pool]
        BY <3>1, <4>1
      <4>3. f \in Teams
        BY <1>2, <4>1, <4>2 DEF Teams
      <4>4. Who(f) = UNION {f[g] : g \in 1 .. m}
        BY <1>2 DEF Who
      <4>5. Who(f) = U
        BY <4>1, <4>4
      <4> QED  BY <2>1, <3>1, <4>3, <4>5
    <3>4. Over(O, who, {U}) = Hands(m, U)
      <4>1. \A f : f \in Over(O, who, {U}) <=> f \in O /\ Who(f) = U
        BY DEF Over
      <4> HIDE DEF O, who
      <4> QED  BY <3>2, <3>3, <4>1
    <3>5. k <= Capacity /\ m \in 0 .. Len(Groups)
      BY <1>2, <1>5
    <3>6. IsFiniteSet(Hands(m, U)) /\ Cardinality(Hands(m, U)) = w[m][Cardinality(U)]
      BY <1>1, <1>3, <3>1, <3>5, HandsCounted
    <3> QED  BY <1>7, <2>3, <3>1, <3>4, <3>6
  <2>5. PICK a \in Nat : a = choose(p, k) /\ a = Cardinality(Sized(pool, k))
    BY <1>10
  <2>6. IsFiniteSet(O) /\ Cardinality(O) = Cardinality(Sized(pool, k)) * c
    <3>1. \A U \in Sized(pool, k) : IsFiniteSet(Over(O, who, {U})) /\ Cardinality(Over(O, who, {U})) = c
      BY <2>4
    <3>2. IsFiniteSet(Sized(pool, k)) /\ c \in Nat
      BY <1>10, <2>3
    <3> HIDE DEF O, who
    <3> QED  BY ONLY <2>2, <3>1, <3>2, Shared
  <2>7. F[k] = Cardinality(Sized(pool, k)) * c
    BY <2>3, <2>5
  <2> QED  BY <2>6, <2>7
<1>13. IsFiniteSet(Teams) /\ Cardinality(Teams) = Total(F)
  <2>1. \A k \in I : IsFiniteSet(Over(Teams, many, {k})) /\ Cardinality(Over(Teams, many, {k})) = F[k]
    BY <1>12
  <2> HIDE DEF F, many
  <2> QED  BY ONLY <1>6, <1>9, <1>11, <2>1, Summed
<1> QED  BY <1>8, <1>13

\* There is one key to each team, and one team to each key.
LEMMA KeysCounted ==
  ASSUME IInv
  PROVE  Cardinality({Canonical(a) : a \in Fillings}) = SizeEstimate
<1> DEFINE keys == {Canonical(a) : a \in Fillings}
           of(f) == CHOOSE a \in Fillings : Held(a) = f
           key == [f \in Teams |-> Canonical(of(f))]
<1>1. ASSUME NEW f \in Teams PROVE of(f) \in Fillings /\ Held(of(f)) = f
  <2>1. \E a \in Fillings : Held(a) = f
    BY TeamsHeld
  <2> QED  BY <2>1
<1> HIDE DEF of
<1>2. \A a \in Fillings : Good(a)
  BY FillingsAreGood
<1>3. key \in [Teams -> keys]
  BY <1>1
<1>4. ASSUME NEW f \in Teams, NEW h \in Teams, key[f] = key[h] PROVE f = h
  <2>1. Canonical(of(f)) = Canonical(of(h))
    BY <1>4
  <2>2. Good(of(f)) /\ Good(of(h))
    BY <1>1, <1>2
  <2>3. Held(of(f)) = Held(of(h))
    BY <2>1, <2>2, KeysHold
  <2> QED  BY <1>1, <2>3
<1>5. ASSUME NEW c \in keys PROVE \E f \in Teams : key[f] = c
  <2>1. PICK a \in Fillings : c = Canonical(a)
    OBVIOUS
  <2>2. Good(a)
    BY <1>2
  <2>3. Held(a) \in Teams
    BY <2>2, HeldTeams
  <2>4. Held(of(Held(a))) = Held(a) /\ Good(of(Held(a)))
    BY <1>1, <1>2, <2>3
  <2>5. Canonical(of(Held(a))) = Canonical(a)
    BY <2>2, <2>4, HoldKeys
  <2> QED  BY <2>1, <2>3, <2>5
<1> HIDE DEF key, keys
<1>6. key \in Bijection(Teams, keys)
  BY <1>3, <1>4, <1>5 DEF Bijection, Injection, Surjection, IsInjective
<1>7. ExistsBijection(Teams, keys)
  BY <1>6 DEF ExistsBijection
<1>8. Cardinality(Teams) = Cardinality(keys)
  BY <1>7, TeamsCounted, FS_Bijection
<1> QED  BY <1>8, TeamsCounted DEF keys

\* When a walk that nothing stopped is over, it has scored as many assignments
\* as size_estimate announced from the rooms and the pool alone, whatever the
\* rooms, the held slots and the pool are: what Strategy::Auto compares with
\* its limit is the number of leaves the walk will have
\* (Space::size_estimate, exhaustive::enumerate).
THEOREM SizeAlwaysExact == SolveSpec => []SizeIsExact
<1>1. SolveInit => IInv /\ WalkTyped /\ WalkInv
  BY InitIInv, InitWalkTyped, InitWalkInv DEF SolveInit
<1>2. IInv /\ WalkTyped /\ WalkInv /\ [SolveNext]_<<vars, walk>> => IInv' /\ WalkTyped' /\ WalkInv'
  BY NextIInv, StepsAreMoves, NextWalkTyped, NextWalkInv
<1>3. IInv /\ WalkInv => SizeIsExact
  <2> SUFFICES ASSUME IInv, WalkInv, phase = "walked", ~halted PROVE scored = SizeEstimate
    BY DEF SizeIsExact
  <2>1. Cardinality(visited) = scored /\ visited = {Canonical(a) : a \in Fillings}
    BY WalkedAll DEF WalkIsComplete
  <2> QED  BY <2>1, KeysCounted
<1> QED  BY <1>1, <1>2, <1>3, PTL DEF SolveSpec

=============================================================================
