---------------------------- MODULE RotationProofs ----------------------------
(***************************************************************************)
(* The rotation loses nobody and no slot, for any base, bench and morale.  *)
(*                                                                         *)
(* The plan is a copy of the assignment only when the policy is asked, and *)
(* the assignment catches up with it one action at a time.  Follows says   *)
(* that the actions not yet applied lead from the one to the other; it is  *)
(* what carries the facts about the plan from one tick to the next.        *)
(***************************************************************************)
EXTENDS Rotation, SequenceTheorems, TLAPS

-----------------------------------------------------------------------------
(* What the mutators of Assignment do to an assignment without duplicates. *)

\* A mutator gives an assignment: with_capacities fixed the slots, and no
\* mutator adds or drops one.
LEMMA MutatorsType ==
  ASSUME NEW a \in Assignments, NEW s \in Slots, NEW t \in Slots,
         NEW op \in Operators
  PROVE  /\ Lifted(a, op) \in Assignments
         /\ Placed(a, s, op) \in Assignments
         /\ Removed(a, s) \in Assignments
         /\ Moved(a, op, s) \in Assignments
         /\ Swapped(a, s, t) \in Assignments
<1>1. ASSUME NEW b \in Assignments, NEW x \in Slots
      PROVE  /\ Removed(b, x) \in Assignments
             /\ \A p \in Operators : Placed(b, x, p) \in Assignments
             /\ \A w \in Operators \cup {Nobody} : Seated(b, x, w) \in Assignments
  BY <1>1 DEF Assignments, Removed, Placed, Seated
<1>2. Lifted(a, op) \in Assignments
  BY DEF Assignments, Lifted
<1>3. Moved(a, op, s) \in Assignments
  BY <1>1, <1>2 DEF Moved
<1>4. a[s] \in Operators \cup {Nobody} /\ a[t] \in Operators \cup {Nobody}
  BY DEF Assignments
<1>5. Swapped(a, s, t) \in Assignments
  BY <1>1, <1>4 DEF Swapped
<1> QED  BY <1>1, <1>2, <1>3, <1>5

\* Assignment::swap exchanges two occupants: neither of its places is ever
\* refused, so that it never stops half way with an operator lost.
LEMMA SwapExchanges ==
  ASSUME NEW a \in Assignments, NoDuplicates(a), NEW s \in Slots, NEW t \in Slots
  PROVE  Swapped(a, s, t) = [a EXCEPT ![s] = a[t], ![t] = a[s]]
<1> DEFINE both == Removed(Removed(a, s), t)
           one  == Seated(both, s, a[t])
<1>1. CASE s = t
  BY <1>1 DEF Swapped, Assignments
<1>2. CASE s # t
  <2>1. both = [a EXCEPT ![s] = Nobody, ![t] = Nobody]
    BY <1>2 DEF Removed, Assignments
  <2>2. one = [a EXCEPT ![s] = a[t], ![t] = Nobody]
    <3>1. CASE a[t] = Nobody
      BY <2>1, <3>1, <1>2 DEF Seated, Assignments
    <3>2. CASE a[t] # Nobody
      <4>1. At(both, a[t]) = {}
        BY <2>1, <3>2, <1>2 DEF At, NoDuplicates, Assignments
      <4>2. CanPlace(both, s, a[t])
        BY <4>1 DEF CanPlace
      <4> QED  BY <4>2, <2>1, <3>2, <1>2 DEF Seated, Placed, Assignments
    <3> QED  BY <3>1, <3>2
  <2>3. Seated(one, t, a[s]) = [a EXCEPT ![s] = a[t], ![t] = a[s]]
    <3>1. CASE a[s] = Nobody
      BY <2>2, <3>1, <1>2 DEF Seated, Assignments
    <3>2. CASE a[s] # Nobody
      <4>1. At(one, a[s]) = {}
        BY <2>2, <3>2, <1>2 DEF At, NoDuplicates, Assignments
      <4>2. CanPlace(one, t, a[s])
        BY <4>1 DEF CanPlace
      <4> QED  BY <4>2, <2>2, <3>2, <1>2 DEF Seated, Placed, Assignments
    <3> QED  BY <3>1, <3>2
  <2> QED  BY <2>3, <1>2 DEF Swapped, CanSwap
<1> QED  BY <1>1, <1>2

\* Assignment::move_to takes the operator from wherever they are and puts
\* them at the slot: its place is never refused.
LEMMA MoveMoves ==
  ASSUME NEW a \in Assignments, NEW op \in Operators, NEW s \in Slots
  PROVE  Moved(a, op, s)
           = [x \in Slots |-> IF x = s THEN op
                              ELSE IF a[x] = op THEN Nobody ELSE a[x]]
<1>1. At(Lifted(a, op), op) = {}
  BY NobodyAssumption DEF At, Lifted
<1>2. CanPlace(Lifted(a, op), s, op)
  BY <1>1 DEF CanPlace
<1> QED  BY <1>2 DEF Moved, CanMove, Placed, Lifted

\* No mutator puts an operator in two slots.
LEMMA MutatorsKeepNoDuplicates ==
  ASSUME NEW a \in Assignments, NoDuplicates(a),
         NEW s \in Slots, NEW t \in Slots, NEW op \in Operators
  PROVE  /\ NoDuplicates(Placed(a, s, op))
         /\ NoDuplicates(Removed(a, s))
         /\ NoDuplicates(Moved(a, op, s))
         /\ NoDuplicates(Swapped(a, s, t))
<1>1. NoDuplicates(Placed(a, s, op))
  BY DEF Placed, CanPlace, At, NoDuplicates, Assignments
<1>2. NoDuplicates(Removed(a, s))
  BY DEF Removed, NoDuplicates, Assignments
<1>3. NoDuplicates(Moved(a, op, s))
  BY MoveMoves DEF NoDuplicates, Assignments
<1>4. NoDuplicates(Swapped(a, s, t))
  BY SwapExchanges DEF NoDuplicates, Assignments
<1> QED  BY <1>1, <1>2, <1>3, <1>4

-----------------------------------------------------------------------------
\* The actions asked for: see Move, Leave and Trade.
Acts == {Leave(op) : op \in Operators}
          \cup {Move(op, s) : op \in Operators, s \in Slots}
          \cup {Trade(s, t) : s \in Slots, t \in Slots}

\* A trail from one assignment to another: an assignment after each action.
IsTrail(trail, from, acts, to) ==
  /\ trail \in Seq(Assignments)
  /\ Len(trail) = Len(acts) + 1
  /\ trail[1] = from
  /\ trail[Len(trail)] = to
  /\ \A i \in 1 .. Len(trail) : NoDuplicates(trail[i])
  /\ \A i \in 1 .. Len(acts) : trail[i + 1] = Applied(trail[i], acts[i])

Leads(from, acts, to) == \E trail : IsTrail(trail, from, acts, to)

Follows == Leads(assignment, actions, plan)

ActionType ==
  /\ actions \in Seq(Acts)
  /\ pc \in {"tick", "ask"} => actions = <<>>

\* Who covers a slot owns none; the turns to come are those of operators who
\* sleep and have rested, or of workers at their slot who are tired.
CoversOwnNothing == \A op \in covering : \A s \in Work : ~IsOwner(op, s)

QueueOK ==
  /\ pc = "return" =>
       \A op \in queue : op \in Resting /\ IsRested(op)
  /\ pc = "rest" =>
       \A p \in queue : plan[p[1]] = p[2] /\ IsTired(p[2])
  /\ pc \in {"tick", "ask", "apply"} => queue = {}

Kept ==
  /\ NoDuplicates(crew)
  /\ OwnersKeepTheirSlots
  /\ CoversAreKnown
  /\ CoversOwnNothing
  /\ RestersSleep
  /\ Stationed(crew) \subseteq Stationed(plan)

IInv ==
  /\ TypeOK
  /\ ActionType
  /\ Kept
  /\ QueueOK
  /\ Follows

-----------------------------------------------------------------------------
(* What a turn of each loop does to who is where.                          *)

\* An action does to an assignment what its mutator does.
LEMMA ActsApply ==
  ASSUME NEW a, NEW op, NEW s, NEW t
  PROVE  /\ Applied(a, Move(op, s)) = Moved(a, op, s)
         /\ Applied(a, Leave(op)) = Lifted(a, op)
         /\ Applied(a, Trade(s, t)) = Swapped(a, s, t)
<1>1. Applied(a, Move(op, s)) = Moved(a, op, s)
  BY DEF Applied, Move
<1>2. Applied(a, Leave(op)) = Lifted(a, op)
  BY DEF Applied, Leave
<1>3. Applied(a, Trade(s, t)) = Swapped(a, s, t)
  BY DEF Applied, Trade
<1> QED  BY <1>1, <1>2, <1>3

\* With nothing asked for, there is nowhere to go.
LEMMA LeadsNowhere ==
  ASSUME NEW a \in Assignments, NoDuplicates(a)
  PROVE  Leads(a, <<>>, a)
<1>1. IsTrail(<<a>>, a, <<>>, a)
  BY DEF IsTrail
<1> QED  BY <1>1 DEF Leads

\* The ends of a trail.
LEMMA LeadsEnds ==
  ASSUME NEW a, NEW b, NEW acts \in Seq(Acts), Leads(a, acts, b)
  PROVE  /\ NoDuplicates(a) /\ NoDuplicates(b)
         /\ a \in Assignments /\ b \in Assignments
         /\ acts = <<>> => a = b
<1>1. PICK trail : IsTrail(trail, a, acts, b)
  BY DEF Leads
<1>2. Len(acts) \in Nat /\ Len(trail) \in Nat
  BY <1>1, LenProperties DEF IsTrail
<1>3. 1 \in 1 .. Len(trail) /\ Len(trail) \in 1 .. Len(trail)
  BY <1>1, <1>2 DEF IsTrail
<1>4. trail[1] \in Assignments /\ trail[Len(trail)] \in Assignments
  BY <1>1, <1>3, ElementOfSeq DEF IsTrail
<1>5. acts = <<>> => a = b
  BY <1>1 DEF IsTrail
<1> QED  BY <1>1, <1>3, <1>4, <1>5 DEF IsTrail

\* An action recorded for a change made to the plan goes on where the trail
\* ended.
LEMMA LeadsOn ==
  ASSUME NEW a, NEW b, NEW acts \in Seq(Acts), Leads(a, acts, b),
         NEW act \in Acts, NEW c \in Assignments, NoDuplicates(c),
         c = Applied(b, act)
  PROVE  Leads(a, Append(acts, act), c) /\ Append(acts, act) \in Seq(Acts)
<1>1. PICK trail : IsTrail(trail, a, acts, b)
  BY DEF Leads
<1> DEFINE longer == Append(trail, c)
           more == Append(acts, act)
           n == Len(acts)
<1>2. n \in Nat /\ trail \in Seq(Assignments) /\ Len(trail) = n + 1
  BY <1>1, LenProperties DEF IsTrail
<1>3. /\ longer \in Seq(Assignments) /\ Len(longer) = n + 2
      /\ \A i \in 1 .. n + 1 : longer[i] = trail[i]
      /\ longer[n + 2] = c
  BY <1>2, AppendProperties
<1>4. /\ more \in Seq(Acts) /\ Len(more) = n + 1
      /\ \A i \in 1 .. n : more[i] = acts[i]
      /\ more[n + 1] = act
  BY <1>2, AppendProperties
<1>5. \A i \in 1 .. n + 2 : NoDuplicates(longer[i])
  <2>1. ASSUME NEW i \in 1 .. n + 2 PROVE NoDuplicates(longer[i])
    <3>1. CASE i = n + 2
      BY <3>1, <1>3
    <3>2. CASE i # n + 2
      <4>1. i \in 1 .. n + 1
        BY <3>2, <1>2
      <4> QED  BY <4>1, <1>1, <1>2, <1>3 DEF IsTrail
    <3> QED  BY <3>1, <3>2
  <2> QED  BY <2>1
<1>6. \A i \in 1 .. n + 1 : longer[i + 1] = Applied(longer[i], more[i])
  <2>1. ASSUME NEW i \in 1 .. n + 1
        PROVE  longer[i + 1] = Applied(longer[i], more[i])
    <3>1. CASE i = n + 1
      <4>1. longer[i + 1] = c /\ longer[i] = b /\ more[i] = act
        BY <3>1, <1>1, <1>2, <1>3, <1>4 DEF IsTrail
      <4> QED  BY <4>1
    <3>2. CASE i # n + 1
      <4>1. i \in 1 .. n /\ i \in 1 .. n + 1 /\ i + 1 \in 1 .. n + 1
        BY <3>2, <1>2
      <4>2. longer[i + 1] = trail[i + 1] /\ longer[i] = trail[i] /\ more[i] = acts[i]
        BY <4>1, <1>3, <1>4
      <4> QED  BY <4>1, <4>2, <1>1 DEF IsTrail
    <3> QED  BY <3>1, <3>2
  <2> QED  BY <2>1
<1>7. longer[1] = a
  BY <1>1, <1>2, <1>3 DEF IsTrail
<1>8. IsTrail(longer, a, more, c)
  BY <1>2, <1>3, <1>4, <1>5, <1>6, <1>7 DEF IsTrail
<1> QED  BY <1>4, <1>8 DEF Leads

\* The first action applied, the rest of the trail remains.
LEMMA LeadsAfter ==
  ASSUME NEW a, NEW b, NEW acts \in Seq(Acts), acts # <<>>, Leads(a, acts, b)
  PROVE  Leads(Applied(a, Head(acts)), Tail(acts), b)
<1>1. PICK trail : IsTrail(trail, a, acts, b)
  BY DEF Leads
<1> DEFINE rest == Tail(trail)
           less == Tail(acts)
           n == Len(acts)
<1>2. n \in Nat /\ n > 0 /\ trail \in Seq(Assignments) /\ Len(trail) = n + 1
  BY <1>1, LenProperties, EmptySeq DEF IsTrail
<1>3. trail # <<>>
  BY <1>2
<1>4. /\ rest \in Seq(Assignments) /\ Len(rest) = n
      /\ \A i \in 1 .. n : rest[i] = trail[i + 1]
  BY <1>2, <1>3, HeadTailProperties
<1>5. /\ less \in Seq(Acts) /\ Len(less) = n - 1
      /\ \A i \in 1 .. n - 1 : less[i] = acts[i + 1]
      /\ Head(acts) = acts[1]
  BY <1>2, HeadTailProperties
<1>6. rest[1] = Applied(a, Head(acts)) /\ rest[n] = b
  <2>1. 1 \in 1 .. n /\ n \in 1 .. n
    BY <1>2
  <2> QED  BY <2>1, <1>1, <1>2, <1>4, <1>5 DEF IsTrail
<1>7. \A i \in 1 .. n : NoDuplicates(rest[i])
  <2>1. \A i \in 1 .. n : i + 1 \in 1 .. n + 1
    BY <1>2
  <2> QED  BY <2>1, <1>1, <1>2, <1>4 DEF IsTrail
<1>8. \A i \in 1 .. n - 1 : rest[i + 1] = Applied(rest[i], less[i])
  <2>1. \A i \in 1 .. n - 1 : i \in 1 .. n /\ i + 1 \in 1 .. n
    BY <1>2
  <2> QED  BY <2>1, <1>1, <1>4, <1>5 DEF IsTrail
<1>9. IsTrail(rest, Applied(a, Head(acts)), less, b)
  BY <1>2, <1>4, <1>5, <1>6, <1>7, <1>8 DEF IsTrail
<1> QED  BY <1>9 DEF Leads

LEMMA Basics ==
  ASSUME IInv
  PROVE  /\ plan \in Assignments /\ NoDuplicates(plan)
         /\ NoDuplicates(assignment)
         /\ Work \subseteq Slots /\ Beds \subseteq Slots
         /\ Work \cap Beds = {}
         /\ Resting \subseteq Operators /\ covering \subseteq Operators
         /\ Nobody \notin Resting \cup covering
<1>1. NoDuplicates(plan) /\ NoDuplicates(assignment)
  BY LeadsEnds DEF IInv, ActionType, Follows
<1> QED  BY <1>1, NobodyAssumption DEF IInv, TypeOK, Work, Beds

\* An owner is where they belong after a return to an empty slot or to one
\* whose occupant takes the bed.
LEMMA ReturnKeeps ==
  ASSUME IInv,
         NEW op \in Resting,
         plan' \in Assignments, NoDuplicates(plan'),
         plan'[home[op]] = op,
         \A x \in Work \ {home[op]} : plan'[x] = plan[x],
         \A x \in Slots : plan[x] \in Resting \ {op} => plan'[x] = plan[x],
         Stationed(plan) \subseteq Stationed(plan'),
         covering' = covering \ {plan[home[op]]},
         home' = Without(op), crew' = crew
  PROVE  Kept' /\ Resting' = Resting \ {op}
         /\ (\A r \in Resting' : home'[r] \in Work) /\ covering' \subseteq Operators
<1> DEFINE slot == home[op]
<1>1. Resting' = Resting \ {op} /\ \A r \in Resting' : home'[r] = home[r]
  BY DEF Resting, Without
<1>2. slot \in Work /\ IsOwner(op, slot) /\ op \in Operators
  BY DEF IInv, TypeOK, Kept, OwnersKeepTheirSlots
<1>3. \A r, s : IsOwner(r, s)' <=> IsOwner(r, s)
  BY DEF IsOwner
<1>4. OwnersKeepTheirSlots'
  <2>1. ASSUME NEW s \in Work, IsOwner(crew[s], s), plan'[s] # crew[s]
        PROVE  crew[s] \in Resting' /\ home'[crew[s]] = s
    <3>1. s # slot
      BY <2>1, <1>2 DEF IsOwner
    <3>2. crew[s] \in Resting /\ home[crew[s]] = s
      BY <2>1, <3>1 DEF IInv, Kept, OwnersKeepTheirSlots
    <3> QED  BY <3>1, <3>2, <1>1
  <2>2. \A r \in Resting' : IsOwner(r, home'[r])
    BY <1>1 DEF IInv, Kept, OwnersKeepTheirSlots
  <2> QED  BY <2>1, <2>2, <1>3 DEF OwnersKeepTheirSlots
<1>5. CoversAreKnown'
  <2>1. ASSUME NEW s \in Work
        PROVE  plan'[s] \in covering' \cup Bench \cup {Nobody, crew[s]}
    <3>1. CASE s = slot
      BY <3>1, <1>2 DEF IsOwner
    <3>2. CASE s # slot
      BY <3>2, <1>2, Basics DEF IInv, Kept, CoversAreKnown, NoDuplicates
    <3> QED  BY <3>1, <3>2
  <2>2. ASSUME NEW c \in covering'
        PROVE  At(plan', c) # {} /\ At(plan', c) \subseteq Work
    <3>1. At(plan, c) # {} /\ At(plan, c) \subseteq Work /\ c # plan[slot]
          /\ c # Nobody
      BY <2>2, Basics DEF IInv, Kept, CoversAreKnown
    <3>2. PICK x \in Work : plan[x] = c
      BY <3>1 DEF At
    <3>3. x # slot /\ plan'[x] = c /\ x \in Slots
      BY <3>1, <3>2, Basics
    <3> QED  BY <3>1, <3>2, <3>3 DEF At, NoDuplicates
  <2> QED  BY <2>1, <2>2 DEF CoversAreKnown, At
<1>6. CoversOwnNothing'
  BY <1>3 DEF IInv, Kept, CoversOwnNothing
<1>7. RestersSleep'
  <2>1. ASSUME NEW r \in Resting \ {op}
        PROVE  Sleeps(plan', r)
    <3>1. Sleeps(plan, r) /\ r # Nobody
      BY Basics DEF IInv, Kept, RestersSleep
    <3>2. PICK x \in Beds : plan[x] = r
      BY <3>1 DEF Sleeps, At
    <3>3. plan'[x] = r /\ x \in Slots
      BY <3>2, Basics
    <3> QED  BY <3>1, <3>2, <3>3 DEF Sleeps, At, NoDuplicates
  <2> QED  BY <1>1, <2>1 DEF RestersSleep, Sleeps, At
<1>8. (Stationed(crew) \subseteq Stationed(plan))'
  BY DEF IInv, Kept, Stationed
<1>9. NoDuplicates(crew)'
  BY DEF IInv, Kept, NoDuplicates
<1>10. \A r \in Resting' : home'[r] \in Work
  BY <1>1 DEF IInv, TypeOK
<1> QED  BY <1>1, <1>4, <1>5, <1>6, <1>7, <1>8, <1>9, <1>10, Basics DEF Kept

\* A tired worker leaves for a bed, and an operator who neither works nor has
\* a slot of their own takes over, or nobody does.
LEMMA ReliefKeeps ==
  ASSUME IInv,
         NEW op \in Operators, NEW s \in Work, plan[s] = op,
         NEW bed \in Beds, plan'[bed] = op,
         NEW covers,
         plan' \in Assignments, NoDuplicates(plan'),
         \A x \in Work \ {s} : plan'[x] = plan[x],
         \A x \in Slots : plan[x] \in Resting => plan'[x] = plan[x],
         Stationed(plan) \subseteq Stationed(plan'),
         plan'[s] # Nobody =>
           /\ plan'[s] \in Operators /\ plan'[s] \notin Resting
           /\ \A x \in Work : plan[x] # plan'[s] /\ ~IsOwner(plan'[s], x),
         covers = covering \cup ({plan'[s]} \ {Nobody}),
         Relieved(op, s, covers), crew' = crew
  PROVE  Kept' /\ Resting' \subseteq Operators
         /\ (\A r \in Resting' : home'[r] \in Work) /\ covering' \subseteq Operators
<1>1. op # Nobody /\ s \in Slots /\ bed \in Slots /\ bed # s /\ op # plan'[s]
  BY Basics, NobodyAssumption DEF Work, Beds, NoDuplicates
<1>2. op \notin Resting
  BY <1>1, Basics DEF IInv, Kept, RestersSleep, Sleeps, At
<1>3. covering' = covers \ {op}
  BY DEF Relieved
<1>4. \A r, x : IsOwner(r, x)' <=> IsOwner(r, x)
  BY DEF IsOwner
<1>5. \A c \in covers : c # Nobody /\ \A x \in Work : ~IsOwner(c, x)
  BY Basics DEF IInv, Kept, CoversOwnNothing
<1>6. /\ Resting' \subseteq Resting \cup {op}
      /\ \A r \in Resting : r \in Resting' /\ home'[r] = home[r]
      /\ op \in Resting' => home'[op] = s
      /\ op \in Resting' <=> op \notin covers \cup Bench
  BY <1>2 DEF Relieved, Resting
<1>7. op \notin covers \cup Bench => IsOwner(op, s)
  <2>1. plan[s] \in covering \cup Bench \cup {Nobody, crew[s]}
    BY DEF IInv, Kept, CoversAreKnown
  <2> QED  BY <1>1, <2>1 DEF IsOwner
<1>8. OwnersKeepTheirSlots'
  <2>1. ASSUME NEW x \in Work, IsOwner(crew[x], x), plan'[x] # crew[x]
        PROVE  crew[x] \in Resting' /\ home'[crew[x]] = x
    <3>1. CASE x = s
      <4>1. CASE plan[s] = crew[s]
        <5>1. crew[x] = op /\ op \notin covers \cup Bench
          BY <2>1, <3>1, <4>1, <1>5 DEF IsOwner
        <5> QED  BY <5>1, <1>6, <3>1
      <4>2. CASE plan[s] # crew[s]
        BY <4>2, <2>1, <3>1, <1>6 DEF IInv, Kept, OwnersKeepTheirSlots
      <4> QED  BY <4>1, <4>2
    <3>2. CASE x # s
      <4>1. plan'[x] = plan[x]
        BY <3>2
      <4> QED  BY <4>1, <2>1, <1>6 DEF IInv, Kept, OwnersKeepTheirSlots
    <3> QED  BY <3>1, <3>2
  <2>2. \A r \in Resting' : IsOwner(r, home'[r])
    <3>1. ASSUME NEW r \in Resting'
          PROVE  IsOwner(r, home'[r])
      <4>1. CASE r = op
        BY <4>1, <1>6, <1>7
      <4>2. CASE r # op
        BY <4>2, <1>6 DEF IInv, Kept, OwnersKeepTheirSlots
      <4> QED  BY <4>1, <4>2
    <3> QED  BY <3>1
  <2> QED  BY <2>1, <2>2, <1>4 DEF OwnersKeepTheirSlots
<1>9. CoversAreKnown'
  <2>1. ASSUME NEW x \in Work
        PROVE  plan'[x] \in covering' \cup Bench \cup {Nobody, crew[x]}
    <3>1. CASE x = s
      BY <3>1, <1>1, <1>3
    <3>2. CASE x # s
      <4>1. plan'[x] = plan[x] /\ x \in Slots
        BY <3>2, Basics
      <4>2. plan[x] # op
        BY <3>2, <4>1, <1>1, Basics DEF NoDuplicates
      <4> QED  BY <4>1, <4>2, <1>3 DEF IInv, Kept, CoversAreKnown
    <3> QED  BY <3>1, <3>2
  <2>2. ASSUME NEW c \in covering'
        PROVE  At(plan', c) # {} /\ At(plan', c) \subseteq Work
    <3>1. PICK x \in Work : plan'[x] = c
      <4>1. CASE c = plan'[s]
        BY <4>1
      <4>2. CASE c # plan'[s]
        <5>1. c \in covering /\ c # op
          BY <2>2, <4>2, <1>3
        <5>2. PICK x \in Work : plan[x] = c
          BY <5>1 DEF IInv, Kept, CoversAreKnown, At
        <5> QED  BY <5>1, <5>2
      <4> QED  BY <4>1, <4>2
    <3>2. c # Nobody /\ x \in Slots
      BY <2>2, <1>3, <1>5, Basics
    <3> QED  BY <3>1, <3>2 DEF At, NoDuplicates
  <2> QED  BY <2>1, <2>2 DEF CoversAreKnown, At
<1>10. CoversOwnNothing'
  BY <1>3, <1>4, <1>5 DEF CoversOwnNothing
<1>11. RestersSleep'
  <2>1. ASSUME NEW r \in Resting'
        PROVE  Sleeps(plan', r)
    <3>1. r # Nobody
      BY <1>1, <1>6, Basics
    <3>2. PICK x \in Beds : plan'[x] = r
      <4>1. CASE r = op
        BY <4>1
      <4>2. CASE r # op
        <5>1. r \in Resting /\ Sleeps(plan, r)
          BY <4>2, <1>6 DEF IInv, Kept, RestersSleep
        <5>2. PICK x \in Beds : plan[x] = r
          BY <5>1 DEF Sleeps, At
        <5> QED  BY <5>1, <5>2, Basics
      <4> QED  BY <4>1, <4>2
    <3>3. x \in Slots
      BY Basics
    <3> QED  BY <3>1, <3>2, <3>3 DEF Sleeps, At, NoDuplicates
  <2> QED  BY <2>1 DEF RestersSleep, Sleeps, At
<1>12. (Stationed(crew) \subseteq Stationed(plan))'
  BY DEF IInv, Kept, Stationed
<1>13. NoDuplicates(crew)'
  BY DEF IInv, Kept, NoDuplicates
<1>14. \A r \in Resting' : home'[r] \in Work
  BY <1>6 DEF IInv, TypeOK
<1>15. covering' \subseteq Operators /\ Resting' \subseteq Operators
  BY <1>3, <1>6, Basics
<1> QED
  BY <1>8, <1>9, <1>10, <1>11, <1>12, <1>13, <1>14, <1>15 DEF Kept
-----------------------------------------------------------------------------
(* The turns, one by one.                                                  *)

\* Nothing of what is kept is disturbed by a step that moves nobody in the
\* plan and writes to no record.
LEMMA Untouched ==
  ASSUME IInv, plan' = plan, home' = home, covering' = covering, crew' = crew
  PROVE  Kept'
<1>1. Resting' = Resting
  BY DEF Resting
<1>2. OwnersKeepTheirSlots' /\ CoversOwnNothing'
  BY <1>1 DEF IInv, Kept, OwnersKeepTheirSlots, CoversOwnNothing, IsOwner
<1>3. CoversAreKnown' /\ RestersSleep'
  BY <1>1 DEF IInv, Kept, CoversAreKnown, RestersSleep, Sleeps, At
<1>4. NoDuplicates(crew)' /\ (Stationed(crew) \subseteq Stationed(plan))'
  BY DEF IInv, Kept, NoDuplicates, Stationed
<1> QED  BY <1>2, <1>3, <1>4 DEF Kept

\* Whoever is taken as a substitute neither works nor owns a slot.
LEMMA SubstitutesAreFree ==
  ASSUME IInv, NEW inDorm \in BOOLEAN, NEW sub \in Substitutes(plan, inDorm)
  PROVE  /\ sub \in Operators /\ sub \notin Resting /\ sub # Nobody
         /\ \A x \in Work : plan[x] # sub /\ ~IsOwner(sub, x)
         /\ inDorm => Sleeps(plan, sub)
<1>1. sub \in BenchPool(plan, inDorm) \cup Residents(plan)
  BY DEF Substitutes
<1>2. CASE sub \in BenchPool(plan, inDorm)
  <2>1. sub \in Bench /\ (Sleeps(plan, sub) \/ (~inDorm /\ At(plan, sub) = {}))
    BY <1>2 DEF BenchPool
  <2>2. sub \in Operators /\ sub # Nobody
    BY <2>1, RotationAssumption, NobodyAssumption
  <2>3. \A x \in Work : ~IsOwner(sub, x)
    BY <2>1 DEF IsOwner
  <2>4. sub \notin Resting
    BY <2>1 DEF IInv, Kept, OwnersKeepTheirSlots, IsOwner
  <2>5. \A x \in Work : plan[x] # sub
    BY <2>1, Basics DEF Sleeps, At
  <2> QED  BY <2>1, <2>2, <2>3, <2>4, <2>5
<1>3. CASE sub \in Residents(plan)
  <2>1. sub \in Operators /\ sub \notin Resting /\ Sleeps(plan, sub)
    BY <1>3 DEF Residents
  <2>2. sub # Nobody
    BY <2>1, NobodyAssumption
  <2>3. \A x \in Work : plan[x] # sub
    BY <2>1, Basics DEF Sleeps, At
  <2>4. \A x \in Work : ~IsOwner(sub, x)
    BY <2>1, <2>3 DEF IInv, Kept, OwnersKeepTheirSlots, IsOwner
  <2> QED  BY <2>1, <2>2, <2>3, <2>4
<1> QED  BY <1>1, <1>2, <1>3

\* An operator on record sleeps in one bed.
LEMMA ResterInBed ==
  ASSUME IInv, NEW op \in Resting
  PROVE  /\ op \in Operators /\ op # Nobody
         /\ home[op] \in Work /\ home[op] \in Slots
         /\ At(plan, op) # {} /\ At(plan, op) \subseteq Beds
         /\ plan[home[op]] \notin Resting
<1>1. op \in Operators /\ op # Nobody /\ home[op] \in Work /\ home[op] \in Slots
  BY Basics DEF IInv, TypeOK
<1>2. \A r \in Resting : At(plan, r) # {} /\ At(plan, r) \subseteq Beds
  BY DEF IInv, Kept, RestersSleep, Sleeps
<1>3. plan[home[op]] \notin Resting
  BY <1>1, <1>2, Basics DEF At
<1> QED  BY <1>1, <1>2, <1>3

LEMMA TradeBackKeeps ==
  ASSUME IInv, NEW op \in Operators, TradeBack(op)
  PROVE  IInv'
<1> DEFINE slot == home[op]
           sub == plan[slot]
<1>1. op \in Resting /\ pc = "return" /\ pc' = "return" /\ op \in queue
  BY DEF TradeBack, Turn, IInv, QueueOK
<1>2. PICK bed \in At(plan, op) : /\ plan' = Swapped(plan, slot, bed)
                                  /\ actions' = Append(actions, Trade(slot, bed))
  BY DEF TradeBack
<1>3. /\ slot \in Slots /\ slot \in Work /\ bed \in Slots /\ bed \in Beds
      /\ plan[bed] = op /\ slot # bed
      /\ plan \in Assignments /\ NoDuplicates(plan)
  BY <1>1, ResterInBed, Basics DEF At
<1>4. plan' = [plan EXCEPT ![slot] = op, ![bed] = sub]
  BY <1>2, <1>3, SwapExchanges
<1>5. plan' \in Assignments /\ NoDuplicates(plan')
  BY <1>2, <1>3, MutatorsType, MutatorsKeepNoDuplicates
<1>6. /\ plan'[slot] = op /\ plan'[bed] = sub
      /\ \A x \in Slots \ {slot, bed} : plan'[x] = plan[x]
  BY <1>3, <1>4 DEF Assignments
<1>7. Stationed(plan) \subseteq Stationed(plan')
  BY <1>3, <1>6 DEF Stationed
<1>8. \A x \in Work \ {slot} : plan'[x] = plan[x]
  BY <1>3, <1>6, Basics
<1>9. \A x \in Slots : plan[x] \in Resting \ {op} => plan'[x] = plan[x]
  BY <1>1, <1>3, <1>6, ResterInBed
<1>10. covering' = covering \ {sub} /\ home' = Without(op) /\ crew' = crew
  BY DEF TradeBack, Turn, view
<1>11. /\ Kept' /\ Resting' = Resting \ {op}
       /\ (\A r \in Resting' : home'[r] \in Work) /\ covering' \subseteq Operators
  BY <1>1, <1>5, <1>6, <1>7, <1>8, <1>9, <1>10, ReturnKeeps
<1>12. /\ UNCHANGED <<crew, mood, supports, assignment>>
       /\ queue' = queue \ {op}
  BY DEF TradeBack, Turn, view
<1>13. TypeOK'
  BY <1>1, <1>5, <1>11, <1>12 DEF IInv, TypeOK, Moods
<1>14. QueueOK'
  BY <1>1, <1>11, <1>12 DEF IInv, QueueOK, IsRested, IsFull
<1>15. Trade(slot, bed) \in Acts
  BY <1>3 DEF Acts
<1>16. Leads(assignment, actions', plan') /\ actions' \in Seq(Acts)
  BY <1>2, <1>5, <1>15, LeadsOn, ActsApply DEF IInv, ActionType, Follows
<1>17. ActionType' /\ Follows'
  BY <1>1, <1>12, <1>16 DEF ActionType, Follows
<1> QED  BY <1>11, <1>13, <1>14, <1>17 DEF IInv

\* Who is on record sleeps in a bed, so that the branch for operators who are
\* already back, and the one for operators who are off the base, never run.
LEMMA TakeBackKeeps ==
  ASSUME IInv, NEW op \in Operators, TakeBack(op)
  PROVE  IInv'
<1> DEFINE slot == home[op]
<1>1. op \in Resting /\ pc = "return" /\ pc' = "return" /\ op \in queue
  BY DEF TakeBack, Turn, IInv, QueueOK
<1>2. /\ slot \in Slots /\ slot \in Work
      /\ plan \in Assignments /\ NoDuplicates(plan)
      /\ At(plan, op) # {} /\ At(plan, op) \subseteq Beds
      /\ plan[slot] # op /\ Nobody # op
  BY <1>1, ResterInBed, Basics DEF At
<1>3. plan[slot] = Nobody
  BY <1>2 DEF TakeBack
<1>4. /\ covering' = covering \ {plan[slot]}
      /\ plan' = Moved(plan, op, slot)
      /\ actions' = actions \o <<>> \o <<Move(op, slot)>>
  BY <1>2, <1>3 DEF TakeBack
<1>5. Move(op, slot) \in Acts
  BY <1>2 DEF Acts
<1>6. actions' = Append(actions, Move(op, slot))
  BY <1>4, <1>5 DEF IInv, ActionType
<1>7. plan' \in Assignments /\ NoDuplicates(plan')
  BY <1>2, <1>4, MutatorsType, MutatorsKeepNoDuplicates
<1>8. \A x \in Slots :
        plan'[x] = IF x = slot THEN op ELSE IF plan[x] = op THEN Nobody ELSE plan[x]
  BY <1>2, <1>4, MoveMoves
<1>9. Stationed(plan) \subseteq Stationed(plan')
  BY <1>2, <1>3, <1>8 DEF Stationed
<1>10. plan'[slot] = op /\ \A x \in Work \ {slot} : plan'[x] = plan[x]
  BY <1>2, <1>8, Basics DEF At
<1>11. \A x \in Slots : plan[x] \in Resting \ {op} => plan'[x] = plan[x]
  BY <1>1, <1>3, <1>8, Basics
<1>12. home' = Without(op) /\ crew' = crew
  BY DEF TakeBack, Turn, view
<1>13. /\ Kept' /\ Resting' = Resting \ {op}
       /\ (\A r \in Resting' : home'[r] \in Work) /\ covering' \subseteq Operators
  BY <1>1, <1>4, <1>7, <1>9, <1>10, <1>11, <1>12, ReturnKeeps
<1>14. /\ UNCHANGED <<crew, mood, supports, assignment>>
       /\ queue' = queue \ {op}
  BY DEF TakeBack, Turn, view
<1>15. TypeOK'
  BY <1>1, <1>7, <1>13, <1>14 DEF IInv, TypeOK, Moods
<1>16. QueueOK'
  BY <1>1, <1>13, <1>14 DEF IInv, QueueOK, IsRested, IsFull
<1>17. Leads(assignment, actions', plan') /\ actions' \in Seq(Acts)
  BY <1>4, <1>5, <1>6, <1>7, LeadsOn, ActsApply DEF IInv, ActionType, Follows
<1>18. ActionType' /\ Follows'
  BY <1>1, <1>14, <1>17 DEF ActionType, Follows
<1> QED  BY <1>13, <1>15, <1>16, <1>18 DEF IInv

\* What the two turns of the second loop that relieve a worker share: one turn
\* less to come, and the facts of ReliefKeeps.
LEMMA ReliefStep ==
  ASSUME IInv,
         NEW op \in Operators, NEW s \in Work, NextTired(op, s),
         queue' = queue \ {<<s, op>>},
         plan' \in Assignments,
         \A x \in Work \ {s} : plan'[x] = plan[x],
         Kept', Resting' \subseteq Operators,
         \A r \in Resting' : home'[r] \in Work,
         covering' \subseteq Operators,
         actions' \in Seq(Acts), Leads(assignment, actions', plan')
  PROVE  IInv'
<1>1. /\ UNCHANGED <<crew, mood, supports, assignment>>
      /\ pc = "rest" /\ pc' = "rest" /\ <<s, op>> \in queue
  BY DEF NextTired, view
<1>2. TypeOK'
  BY <1>1 DEF IInv, TypeOK, Moods
<1>3. QueueOK'
  <2>1. ASSUME NEW p \in queue'
        PROVE  plan'[p[1]] = p[2] /\ IsTired(p[2])'
    <3>1. /\ p \in Work \X Operators /\ p # <<s, op>>
          /\ plan[p[1]] = p[2] /\ IsTired(p[2]) /\ plan[s] = op
      BY <1>1, <2>1 DEF IInv, TypeOK, QueueOK
    <3>2. p[1] \in Work \ {s}
      BY <3>1
    <3> QED  BY <1>1, <3>1, <3>2 DEF IsTired
  <2> QED  BY <1>1, <2>1 DEF QueueOK
<1>4. ActionType' /\ Follows'
  BY <1>1 DEF ActionType, Follows
<1> QED  BY <1>2, <1>3, <1>4 DEF IInv

LEMMA RestInBedKeeps ==
  ASSUME IInv, NEW op \in Operators, NEW s \in Work, RestInBed(op, s)
  PROVE  IInv'
<1>1. /\ NextTired(op, s) /\ queue' = queue \ {<<s, op>>}
      /\ crew' = crew /\ plan[s] = op
  BY DEF RestInBed, NextTired, view, IInv, QueueOK
<1> DEFINE subs == Substitutes(plan, FALSE)
<1>2. PICK bed \in VacantBeds(plan) :
        LET asleep == Moved(plan, op, bed)
        IN \/ /\ subs = {}
              /\ plan' = asleep
              /\ actions' = Append(actions, Move(op, bed))
              /\ Relieved(op, s, covering)
           \/ \E sub \in subs :
                /\ plan' = Moved(asleep, sub, s)
                /\ actions' = actions \o <<Move(op, bed), Move(sub, s)>>
                /\ Relieved(op, s, covering \cup {sub})
  BY DEF RestInBed
<1> DEFINE asleep == Moved(plan, op, bed)
<1>3. /\ bed \in Beds /\ bed \in Slots /\ bed \notin Work /\ s \in Slots
      /\ plan[bed] = Nobody /\ op # Nobody /\ op \notin Resting
      /\ plan \in Assignments /\ NoDuplicates(plan)
  BY <1>1, Basics, NobodyAssumption, ResterInBed DEF VacantBeds, Vacancies, At
<1>4. /\ asleep \in Assignments /\ NoDuplicates(asleep)
      /\ \A x \in Slots :
           asleep[x] = IF x = bed THEN op
                       ELSE IF plan[x] = op THEN Nobody ELSE plan[x]
  BY <1>3, MutatorsType, MutatorsKeepNoDuplicates, MoveMoves, SMTT(30)
<1>5. /\ asleep[bed] = op /\ asleep[s] = Nobody
      /\ \A x \in Slots \ {s, bed} : asleep[x] = plan[x]
  BY <1>1, <1>3, <1>4 DEF NoDuplicates
<1>6. /\ Move(op, bed) \in Acts
      /\ Append(actions, Move(op, bed)) \in Seq(Acts)
      /\ Leads(assignment, Append(actions, Move(op, bed)), asleep)
  <2>1. Move(op, bed) \in Acts
    BY <1>3 DEF Acts
  <2> QED  BY <2>1, <1>4, LeadsOn, ActsApply DEF IInv, ActionType, Follows
<1>7. CASE /\ plan' = asleep
           /\ actions' = Append(actions, Move(op, bed))
           /\ Relieved(op, s, covering)
  <2>1. /\ plan' \in Assignments /\ NoDuplicates(plan') /\ plan'[bed] = op
        /\ plan'[s] = Nobody
        /\ \A x \in Work \ {s} : plan'[x] = plan[x]
    BY <1>3, <1>4, <1>5, <1>7, Basics
  <2>2. \A x \in Slots : plan[x] \in Resting => plan'[x] = plan[x]
    BY <1>1, <1>3, <1>5, <1>7, Basics
  <2>3. Stationed(plan) \subseteq Stationed(plan')
    BY <1>1, <1>3, <1>5, <1>7 DEF Stationed
  <2>4. covering = covering \cup ({plan'[s]} \ {Nobody})
    BY <2>1
  <2>5. /\ Kept' /\ Resting' \subseteq Operators
        /\ (\A r \in Resting' : home'[r] \in Work) /\ covering' \subseteq Operators
    BY <1>1, <1>3, <1>7, <2>1, <2>2, <2>3, <2>4, ReliefKeeps
  <2> QED  BY <1>1, <1>6, <1>7, <2>1, <2>5, ReliefStep
<1>8. ASSUME NEW sub \in subs,
             plan' = Moved(asleep, sub, s),
             actions' = actions \o <<Move(op, bed), Move(sub, s)>>,
             Relieved(op, s, covering \cup {sub})
      PROVE  IInv'
  <2>1. /\ sub \in Operators /\ sub \notin Resting /\ sub # Nobody /\ sub # op
        /\ \A x \in Work : plan[x] # sub /\ ~IsOwner(sub, x)
    BY <1>1, <1>8, SubstitutesAreFree
  <2>2. /\ plan' \in Assignments /\ NoDuplicates(plan')
        /\ \A x \in Slots :
             plan'[x] = IF x = s THEN sub
                        ELSE IF asleep[x] = sub THEN Nobody ELSE asleep[x]
    <3> HIDE DEF asleep
    <3>1. Moved(asleep, sub, s) \in Assignments
      BY <1>3, <1>4, <2>1, MutatorsType
    <3>2. NoDuplicates(Moved(asleep, sub, s))
      BY <1>3, <1>4, <2>1, MutatorsKeepNoDuplicates
    <3>3. Moved(asleep, sub, s)
            = [x \in Slots |-> IF x = s THEN sub
                               ELSE IF asleep[x] = sub THEN Nobody ELSE asleep[x]]
      BY <1>3, <1>4, <2>1, MoveMoves
    <3> QED  BY <1>8, <3>1, <3>2, <3>3
  <2>3. plan'[s] = sub /\ plan'[bed] = op
    BY <1>3, <1>5, <2>1, <2>2
  <2>4. \A x \in Work \ {s} : plan'[x] = plan[x]
    BY <1>3, <1>5, <2>1, <2>2, Basics
  <2>5. \A x \in Slots : plan[x] \in Resting => plan'[x] = plan[x]
    BY <1>1, <1>3, <1>5, <2>1, <2>2, Basics
  <2>6. Stationed(plan) \subseteq Stationed(plan')
    <3>1. ASSUME NEW x \in Slots, plan[x] # Nobody
          PROVE  \E y \in Slots : plan'[y] = plan[x]
      <4>1. CASE plan[x] \in {op, sub}
        BY <4>1, <1>3, <2>3
      <4>2. CASE plan[x] \notin {op, sub}
        <5>1. x # s /\ x # bed
          BY <4>2, <3>1, <1>1, <1>3
        <5> QED  BY <5>1, <4>2, <1>5, <2>2
      <4> QED  BY <4>1, <4>2
    <3> QED  BY <3>1 DEF Stationed
  <2>7. covering \cup {sub} = covering \cup ({plan'[s]} \ {Nobody})
    BY <2>1, <2>3
  <2>8. /\ Kept' /\ Resting' \subseteq Operators
        /\ (\A r \in Resting' : home'[r] \in Work) /\ covering' \subseteq Operators
    BY <1>1, <1>3, <1>8, <2>1, <2>2, <2>3, <2>4, <2>5, <2>6, <2>7, ReliefKeeps, SMTT(30)
  <2>9. Move(sub, s) \in Acts
    BY <1>3, <2>1 DEF Acts
  <2>10. actions' = Append(Append(actions, Move(op, bed)), Move(sub, s))
    BY <1>6, <1>8, <2>9 DEF IInv, ActionType
  <2>11. actions' \in Seq(Acts) /\ Leads(assignment, actions', plan')
    <3> HIDE DEF asleep
    <3>1. plan' = Applied(asleep, Move(sub, s))
      BY <1>8, ActsApply
    <3> QED  BY <1>6, <2>2, <2>9, <2>10, <3>1, LeadsOn
  <2> QED  BY <1>1, <2>2, <2>4, <2>8, <2>11, ReliefStep
<1> QED  BY <1>2, <1>7, <1>8

LEMMA RestInTradeKeeps ==
  ASSUME IInv, NEW op \in Operators, NEW s \in Work, RestInTrade(op, s)
  PROVE  IInv'
<1>1. /\ NextTired(op, s) /\ queue' = queue \ {<<s, op>>}
      /\ crew' = crew /\ plan[s] = op
  BY DEF RestInTrade, NextTired, view, IInv, QueueOK
<1>2. PICK sub \in Substitutes(plan, TRUE) : \E bed \in At(plan, sub) :
         /\ plan' = Swapped(plan, s, bed)
         /\ actions' = Append(actions, Trade(s, bed))
         /\ Relieved(op, s, covering \cup {sub})
  BY DEF RestInTrade
<1>3. PICK bed \in At(plan, sub) :
         /\ plan' = Swapped(plan, s, bed)
         /\ actions' = Append(actions, Trade(s, bed))
         /\ Relieved(op, s, covering \cup {sub})
  BY <1>2
<1>4. /\ sub \in Operators /\ sub \notin Resting /\ sub # Nobody /\ sub # op
      /\ \A x \in Work : plan[x] # sub /\ ~IsOwner(sub, x)
      /\ Sleeps(plan, sub)
  BY <1>1, SubstitutesAreFree
<1>5. /\ bed \in Beds /\ bed \in Slots /\ bed \notin Work /\ s \in Slots
      /\ plan[bed] = sub /\ op # Nobody /\ op \notin Resting
      /\ plan \in Assignments /\ NoDuplicates(plan)
  BY <1>1, <1>4, Basics, NobodyAssumption, ResterInBed DEF At, Sleeps
<1>6. /\ plan' \in Assignments /\ NoDuplicates(plan')
      /\ plan' = [plan EXCEPT ![s] = sub, ![bed] = op]
  BY <1>1, <1>3, <1>5, SwapExchanges, MutatorsType, MutatorsKeepNoDuplicates
<1>7. /\ plan'[s] = sub /\ plan'[bed] = op
      /\ \A x \in Slots \ {s, bed} : plan'[x] = plan[x]
  BY <1>5, <1>6 DEF Assignments
<1>8. \A x \in Work \ {s} : plan'[x] = plan[x]
  BY <1>5, <1>7, Basics
<1>9. \A x \in Slots : plan[x] \in Resting => plan'[x] = plan[x]
  BY <1>1, <1>4, <1>5, <1>7
<1>10. Stationed(plan) \subseteq Stationed(plan')
  BY <1>1, <1>5, <1>7 DEF Stationed
<1>11. covering \cup {sub} = covering \cup ({plan'[s]} \ {Nobody})
  BY <1>4, <1>7
<1>12. /\ Kept' /\ Resting' \subseteq Operators
       /\ (\A r \in Resting' : home'[r] \in Work) /\ covering' \subseteq Operators
  <2>1. plan'[s] # Nobody =>
          /\ plan'[s] \in Operators /\ plan'[s] \notin Resting
          /\ \A x \in Work : plan[x] # plan'[s] /\ ~IsOwner(plan'[s], x)
    BY <1>4, <1>7
  <2>2. Relieved(op, s, covering \cup {sub}) /\ NoDuplicates(plan')
        /\ plan' \in Assignments
    BY <1>3, <1>6
  <2> QED
    BY <1>1, <1>5, <1>7, <1>8, <1>9, <1>10, <1>11, <2>1, <2>2, ReliefKeeps
<1>13. Trade(s, bed) \in Acts
  BY <1>5 DEF Acts
<1>14. actions' \in Seq(Acts) /\ Leads(assignment, actions', plan')
  BY <1>3, <1>6, <1>13, LeadsOn, ActsApply, Zenon DEF IInv, ActionType, Follows
<1> QED  BY <1>1, <1>6, <1>8, <1>12, <1>14, ReliefStep

\* The steps that move nobody in the plan: the tick, the start and the end of
\* the loops, giving up, and the actions carried out.
LEMMA OtherStepsKeep ==
  ASSUME IInv,
         \/ Tick \/ Ask \/ BeginRest \/ EndRest \/ Apply \/ EndTick
         \/ \E op \in Operators : \E s \in Work : NowhereToRest(op, s)
         \/ UNCHANGED vars
  PROVE  IInv' /\ plan' = plan
<1>1. CASE Tick
  <2>1. supports' \subseteq Operators \X {RoomOf[s] : s \in Slots}
    <3>1. PICK more \in SUBSET {s \in Slots : assignment[s] \in Supporting} :
            supports' = supports \cup {<<assignment[s], RoomOf[s]>> : s \in more}
      BY <1>1 DEF Tick
    <3> QED  BY <3>1, RotationAssumption DEF IInv, TypeOK
  <2>2. Kept' /\ plan' = plan
    BY <1>1, Untouched DEF Tick
  <2>3. TypeOK'
    BY <1>1, <2>1 DEF Tick, IInv, TypeOK, Resting
  <2>4. ActionType' /\ QueueOK' /\ Follows'
    BY <1>1 DEF Tick, IInv, ActionType, QueueOK, Follows
  <2> QED  BY <2>2, <2>3, <2>4 DEF IInv
<1>2. CASE Ask
  <2>1. plan' = plan
    BY <1>2, LeadsEnds DEF Ask, IInv, ActionType, Follows
  <2>2. Kept'
    BY <1>2, <2>1, Untouched DEF Ask, view
  <2>3. TypeOK'
    BY <1>2, <2>1 DEF Ask, view, IInv, TypeOK, Resting
  <2>4. QueueOK'
    BY <1>2 DEF Ask, view, QueueOK, Resting, IsRested, IsFull
  <2>5. ActionType' /\ Follows'
    BY <1>2, <2>1 DEF Ask, IInv, ActionType, Follows
  <2> QED  BY <2>1, <2>2, <2>3, <2>4, <2>5 DEF IInv
<1>3. CASE BeginRest
  <2>1. Kept'
    BY <1>3, Untouched DEF BeginRest, view
  <2>2. TypeOK'
    BY <1>3 DEF BeginRest, view, IInv, TypeOK, Resting
  <2>3. QueueOK'
    BY <1>3 DEF BeginRest, view, QueueOK, IsTired
  <2>4. ActionType' /\ Follows' /\ plan' = plan
    BY <1>3 DEF BeginRest, IInv, ActionType, Follows
  <2> QED  BY <2>1, <2>2, <2>3, <2>4 DEF IInv
<1>4. CASE EndRest
  <2>1. Kept'
    BY <1>4, Untouched DEF EndRest, view
  <2>2. TypeOK'
    BY <1>4 DEF EndRest, view, IInv, TypeOK, Resting
  <2>3. ActionType' /\ Follows' /\ plan' = plan /\ QueueOK'
    BY <1>4 DEF EndRest, IInv, ActionType, Follows, QueueOK
  <2> QED  BY <2>1, <2>2, <2>3 DEF IInv
<1>5. CASE Apply
  <2>1. Leads(assignment', actions', plan') /\ actions' \in Seq(Acts)
    BY <1>5, LeadsAfter, HeadTailProperties DEF Apply, IInv, ActionType, Follows
  <2>2. assignment' \in Assignments
    BY <2>1, LeadsEnds
  <2>3. Kept'
    BY <1>5, Untouched DEF Apply, view
  <2>4. TypeOK'
    BY <1>5, <2>2 DEF Apply, view, IInv, TypeOK, Resting
  <2>5. ActionType' /\ Follows' /\ plan' = plan /\ QueueOK'
    BY <1>5, <2>1 DEF Apply, IInv, ActionType, Follows, QueueOK
  <2> QED  BY <2>3, <2>4, <2>5 DEF IInv
<1>6. CASE EndTick
  <2>1. Kept'
    BY <1>6, Untouched DEF EndTick, view
  <2>2. TypeOK'
    BY <1>6 DEF EndTick, view, IInv, TypeOK, Resting
  <2>3. ActionType' /\ Follows' /\ plan' = plan /\ QueueOK'
    BY <1>6 DEF EndTick, IInv, ActionType, Follows, QueueOK
  <2> QED  BY <2>1, <2>2, <2>3 DEF IInv
<1>7. ASSUME NEW op \in Operators, NEW s \in Work, NowhereToRest(op, s)
      PROVE  IInv' /\ plan' = plan
  <2>1. Kept'
    BY <1>7, Untouched DEF NowhereToRest, NextTired, view
  <2>2. TypeOK'
    BY <1>7 DEF NowhereToRest, NextTired, view, IInv, TypeOK, Resting
  <2>3. ActionType' /\ Follows' /\ plan' = plan /\ QueueOK'
    BY <1>7 DEF NowhereToRest, NextTired, IInv, ActionType, Follows, QueueOK
  <2> QED  BY <2>1, <2>2, <2>3 DEF IInv
<1>8. CASE UNCHANGED vars
  <2>1. Kept'
    BY <1>8, Untouched DEF vars, view
  <2>2. TypeOK'
    BY <1>8 DEF vars, view, IInv, TypeOK, Resting
  <2>3. ActionType' /\ Follows' /\ plan' = plan
    BY <1>8 DEF vars, IInv, ActionType, Follows
  <2>4. QueueOK'
    BY <1>8 DEF vars, view, IInv, QueueOK, Resting, IsRested, IsFull, IsTired
  <2> QED  BY <2>1, <2>2, <2>3, <2>4 DEF IInv
<1> QED  BY <1>1, <1>2, <1>3, <1>4, <1>5, <1>6, <1>7, <1>8

-----------------------------------------------------------------------------
(* The shifts.                                                             *)

\* Who has rested has a turn to come, and after the first loop is back; a tired
\* worker has one in the second loop, or covers, or the loop was given up with
\* nowhere to rest.
ShiftsInv ==
  /\ pc = "return" => \A op \in Resting : IsRested(op) => op \in queue
  /\ pc \in {"rest", "apply"} =>
       /\ \A op \in Resting : IsRested(op) => IsTired(op)
       /\ \A s \in Work : plan[s] # Nobody /\ IsTired(plan[s]) =>
            \/ <<s, plan[s]>> \in queue
            \/ mood[plan[s]] >= SwapIn
            \/ queue = {} /\ VacantBeds(plan) = {} /\ Substitutes(plan, TRUE) = {}

\* A shift is changed at one work slot, to a rested substitute or to nobody.
LEMMA ShiftMoves ==
  ASSUME IInv, NEW op \in Operators, NEW s \in Work,
         RestInBed(op, s) \/ RestInTrade(op, s)
  PROVE  /\ \A x \in Work \ {s} : plan'[x] = plan[x]
         /\ plan'[s] = Nobody \/ mood[plan'[s]] >= SwapIn
         /\ Resting' \subseteq Resting \cup {op}
<1>1. /\ plan[s] = op /\ op # Nobody /\ s \in Slots /\ s \notin Beds
      /\ plan \in Assignments /\ NoDuplicates(plan)
  BY Basics, NobodyAssumption DEF RestInBed, RestInTrade, NextTired, IInv, QueueOK
<1>2. ASSUME NEW covers, Relieved(op, s, covers)
      PROVE  Resting' \subseteq Resting \cup {op}
  BY <1>2 DEF Relieved, Resting
<1>3. ASSUME RestInBed(op, s)
      PROVE  /\ \A x \in Work \ {s} : plan'[x] = plan[x]
             /\ plan'[s] = Nobody \/ mood[plan'[s]] >= SwapIn
             /\ Resting' \subseteq Resting \cup {op}
  <2>1. PICK bed \in VacantBeds(plan) :
          \/ /\ plan' = Moved(plan, op, bed)
             /\ Relieved(op, s, covering)
          \/ \E sub \in Substitutes(plan, FALSE) :
               /\ plan' = Moved(Moved(plan, op, bed), sub, s)
               /\ Relieved(op, s, covering \cup {sub})
    BY <1>3 DEF RestInBed
  <2>2. bed \in Beds /\ bed \in Slots /\ bed # s
    BY <1>1, Basics DEF VacantBeds, Vacancies
  <2>3. PICK asleep : asleep = Moved(plan, op, bed)
    OBVIOUS
  <2>4. /\ asleep \in Assignments /\ asleep[s] = Nobody
        /\ \A x \in Work \ {s} : asleep[x] = plan[x]
    <3>1. asleep = [x \in Slots |-> IF x = bed THEN op
                                    ELSE IF plan[x] = op THEN Nobody ELSE plan[x]]
      BY <1>1, <2>2, <2>3, MoveMoves
    <3>2. \A x \in Work \ {s} : x \in Slots /\ x # bed /\ plan[x] # op
      BY <1>1, <2>2, Basics DEF NoDuplicates
    <3>3. asleep \in Assignments
      BY <1>1, <2>2, <2>3, MutatorsType
    <3> QED  BY <1>1, <2>2, <3>1, <3>2, <3>3
  <2>5. CASE plan' = asleep /\ Relieved(op, s, covering)
    BY <1>2, <2>4, <2>5
  <2>6. ASSUME NEW sub \in Substitutes(plan, FALSE),
               plan' = Moved(asleep, sub, s), Relieved(op, s, covering \cup {sub})
        PROVE  /\ \A x \in Work \ {s} : plan'[x] = plan[x]
               /\ plan'[s] = Nobody \/ mood[plan'[s]] >= SwapIn
               /\ Resting' \subseteq Resting \cup {op}
    <3>1. sub \in Operators /\ sub # op /\ \A x \in Work : plan[x] # sub
      BY <1>1, <2>6, SubstitutesAreFree
    <3>2. plan' = [x \in Slots |-> IF x = s THEN sub
                                   ELSE IF asleep[x] = sub THEN Nobody ELSE asleep[x]]
      BY <1>1, <2>4, <2>6, <3>1, MoveMoves
    <3>3. plan'[s] = sub /\ \A x \in Work \ {s} : plan'[x] = plan[x]
      BY <1>1, <2>4, <3>1, <3>2, Basics
    <3>4. mood[sub] >= SwapIn /\ Resting' \subseteq Resting \cup {op}
      BY <1>2, <2>6 DEF Substitutes
    <3> QED  BY <3>1, <3>3, <3>4
  <2> QED  BY <2>1, <2>3, <2>5, <2>6
<1>4. ASSUME RestInTrade(op, s)
      PROVE  /\ \A x \in Work \ {s} : plan'[x] = plan[x]
             /\ plan'[s] = Nobody \/ mood[plan'[s]] >= SwapIn
             /\ Resting' \subseteq Resting \cup {op}
  <2>1. PICK sub \in Substitutes(plan, TRUE) : \E bed \in At(plan, sub) :
          plan' = Swapped(plan, s, bed) /\ Relieved(op, s, covering \cup {sub})
    BY <1>4 DEF RestInTrade
  <2>2. PICK bed \in At(plan, sub) :
          plan' = Swapped(plan, s, bed) /\ Relieved(op, s, covering \cup {sub})
    BY <2>1
  <2>3. /\ sub # op /\ bed \in Beds /\ bed \in Slots /\ bed # s /\ plan[bed] = sub
    BY <1>1, SubstitutesAreFree DEF Sleeps, At
  <2>4. plan' = [plan EXCEPT ![s] = plan[bed], ![bed] = plan[s]]
    BY <1>1, <2>2, <2>3, SwapExchanges
  <2>5. plan'[s] = sub /\ \A x \in Work \ {s} : plan'[x] = plan[x]
    <3>1. \A x \in Work : x \in Slots /\ x # bed
      BY <2>3, Basics
    <3> QED  BY <1>1, <2>3, <2>4, <3>1 DEF Assignments
  <2>6. mood[sub] >= SwapIn /\ Resting' \subseteq Resting \cup {op}
    BY <1>2, <2>2 DEF Substitutes
  <2> QED  BY <2>3, <2>5, <2>6
<1> QED  BY <1>3, <1>4

LEMMA ShiftsStep ==
  ASSUME IInv, ShiftsInv, [Next]_vars
  PROVE  ShiftsInv'
<1>1. CASE Tick
  BY <1>1 DEF Tick, ShiftsInv
<1>2. CASE Ask
  BY <1>2 DEF Ask, ShiftsInv, Resting, view, IsRested, IsFull
<1>3. ASSUME NEW op \in Operators, TradeBack(op) \/ TakeBack(op)
      PROVE  ShiftsInv'
  <2>1. /\ pc = "return" /\ pc' = pc /\ queue' = queue \ {op} /\ mood' = mood
        /\ Resting' = Resting \ {op}
    BY <1>3 DEF TradeBack, TakeBack, Turn, view, Without, Resting
  <2> QED  BY <2>1 DEF ShiftsInv, IsRested, IsFull
<1>4. CASE BeginRest
  <2>1. /\ pc = "return" /\ pc' = "rest" /\ queue = {} /\ mood' = mood
        /\ plan' = plan /\ covering' = covering /\ Resting' = Resting
        /\ queue' = {p \in Work \X Operators : plan[p[1]] = p[2] /\ IsTired(p[2])}
    BY <1>4 DEF BeginRest, view, Resting
  <2>2. \A s \in Work : plan[s] # Nobody => plan[s] \in Operators
    BY Basics DEF Assignments
  <2>3. \A s \in Work : plan'[s] # Nobody /\ IsTired(plan[s]) => <<s, plan[s]>> \in queue'
    BY <2>1, <2>2
  <2>4. \A op \in Operators : (IsRested(op)' <=> IsRested(op)) /\ (IsTired(op)' <=> IsTired(op))
    BY <2>1 DEF IsRested, IsFull, IsTired
  <2> QED  BY <2>1, <2>2, <2>3, <2>4, Basics DEF ShiftsInv
<1>5. ASSUME NEW op \in Operators, NEW s \in Work, RestInBed(op, s) \/ RestInTrade(op, s)
      PROVE  ShiftsInv'
  <2>1. /\ pc = "rest" /\ pc' = pc /\ <<s, op>> \in queue /\ queue' = queue \ {<<s, op>>}
        /\ mood' = mood
    BY <1>5 DEF RestInBed, RestInTrade, NextTired, view
  <2>2. plan[s] = op /\ IsTired(op) /\ NoDuplicates(plan) /\ s \in Slots
    BY <2>1, Basics DEF IInv, QueueOK
  <2>3. /\ \A x \in Work \ {s} : plan'[x] = plan[x]
        /\ plan'[s] = Nobody \/ mood[plan'[s]] >= SwapIn
        /\ Resting' \subseteq Resting \cup {op}
    BY <1>5, ShiftMoves
  <2>4. \A r : (IsRested(r)' <=> IsRested(r)) /\ (IsTired(r)' <=> IsTired(r))
    BY <2>1 DEF IsRested, IsFull, IsTired
  <2>5. \A r \in Resting' : IsRested(r)' => IsTired(r)'
    BY <2>1, <2>2, <2>3, <2>4 DEF ShiftsInv
  <2>6. ASSUME NEW x \in Work, plan'[x] # Nobody, IsTired(plan'[x])
        PROVE  <<x, plan'[x]>> \in queue' \/ mood[plan'[x]] >= SwapIn
    <3>1. CASE x = s
      BY <2>3, <2>6, <3>1
    <3>2. CASE x # s
      <4>1. plan'[x] = plan[x] /\ plan[x] # op
        BY <2>2, <2>3, <2>6, <3>2, NobodyAssumption, Basics DEF NoDuplicates
      <4>2. <<x, plan[x]>> \in queue \/ mood[plan[x]] >= SwapIn
        BY <2>1, <2>6, <4>1 DEF ShiftsInv
      <4> QED  BY <2>1, <2>3, <3>2, <4>1, <4>2
    <3> QED  BY <3>1, <3>2
  <2> QED  BY <2>1, <2>5, <2>6 DEF ShiftsInv, IsRested, IsFull, IsTired
<1>6. ASSUME NEW op \in Operators, NEW s \in Work, NowhereToRest(op, s)
      PROVE  ShiftsInv'
  <2>1. /\ pc = "rest" /\ pc' = pc /\ queue' = {}
        /\ UNCHANGED <<mood, supports, home, covering, plan>>
        /\ VacantBeds(plan) = {} /\ Substitutes(plan, TRUE) = {}
    BY <1>6 DEF NowhereToRest, NextTired, view
  <2>2. /\ VacantBeds(plan)' = {} /\ Substitutes(plan, TRUE)' = {}
        /\ Resting' = Resting
    BY <2>1 DEF VacantBeds, Substitutes, BenchPool, Residents, Resting, Sleeps
  <2> QED  BY <2>1, <2>2 DEF ShiftsInv, IsRested, IsFull, IsTired
<1>7. CASE EndRest \/ Apply
  <2>1. /\ pc \in {"rest", "apply"} /\ pc' = "apply" /\ queue' = queue
        /\ UNCHANGED <<mood, supports, home, covering, plan>>
    BY <1>7 DEF EndRest, Apply, view
  <2>2. /\ VacantBeds(plan)' = VacantBeds(plan) /\ Resting' = Resting
        /\ Substitutes(plan, TRUE)' = Substitutes(plan, TRUE)
    BY <2>1 DEF VacantBeds, Substitutes, BenchPool, Residents, Resting, Sleeps
  <2> QED  BY <2>1, <2>2 DEF ShiftsInv, IsRested, IsFull, IsTired
<1>8. CASE EndTick
  BY <1>8 DEF EndTick, ShiftsInv
<1>9. CASE UNCHANGED vars
  <2>1. UNCHANGED <<pc, queue, mood, supports, home, covering, plan>>
    BY <1>9 DEF vars, view
  <2>2. /\ VacantBeds(plan)' = VacantBeds(plan) /\ Resting' = Resting
        /\ Substitutes(plan, TRUE)' = Substitutes(plan, TRUE)
    BY <2>1 DEF VacantBeds, Substitutes, BenchPool, Residents, Resting, Sleeps
  <2> QED  BY <2>1, <2>2 DEF ShiftsInv, IsRested, IsFull, IsTired
<1> QED  BY <1>1, <1>2, <1>3, <1>4, <1>5, <1>6, <1>7, <1>8, <1>9 DEF Next

-----------------------------------------------------------------------------
(* The theorems.                                                           *)

LEMMA InitEstablishes == Init => IInv
<1> SUFFICES ASSUME Init PROVE IInv
  OBVIOUS
<1>1. /\ crew \in Assignments /\ NoDuplicates(crew)
      /\ assignment = crew /\ plan = crew
      /\ Resting = {} /\ covering = {} /\ actions = <<>> /\ queue = {}
      /\ pc = "tick" /\ supports = {} /\ mood = MaxMood
  BY DEF Init, Resting
<1>2. mood \in Moods
  <2>1. DOMAIN mood = Operators /\ \A op \in Operators : mood[op] \in 0 .. MaxMood[op]
    BY <1>1, RotationAssumption
  <2>2. mood \in [Operators -> UNION {0 .. MaxMood[op] : op \in Operators}]
    BY <1>1, <2>1, RotationAssumption
  <2> QED  BY <2>1, <2>2, RotationAssumption DEF Moods
<1>3. TypeOK
  BY <1>1, <1>2 DEF TypeOK
<1>4. Leads(assignment, <<>>, plan)
  BY <1>1, LeadsNowhere
<1>5. ActionType /\ Follows
  BY <1>1, <1>4, EmptySeq DEF ActionType, Follows
<1>6. Kept /\ QueueOK
  BY <1>1 DEF Kept, QueueOK, OwnersKeepTheirSlots, IsOwner, CoversAreKnown,
              CoversOwnNothing, RestersSleep
<1> QED  BY <1>3, <1>5, <1>6 DEF IInv

LEMMA StepPreserves == IInv /\ [Next]_vars => IInv'
<1> SUFFICES ASSUME IInv, [Next]_vars PROVE IInv'
  OBVIOUS
<1>1. ASSUME NEW op \in Operators, TradeBack(op) \/ TakeBack(op)
      PROVE  IInv'
  BY <1>1, TradeBackKeeps, TakeBackKeeps
<1>2. ASSUME NEW op \in Operators, NEW s \in Work,
             RestInBed(op, s) \/ RestInTrade(op, s)
      PROVE  IInv'
  BY <1>2, RestInBedKeeps, RestInTradeKeeps
<1> QED  BY <1>1, <1>2, OtherStepsKeep DEF Next

\* The inductive invariant: the plan's facts, and the trail that leads the
\* assignment to it.
THEOREM RotationInvariance == Spec => []IInv
<1> QED  BY InitEstablishes, StepPreserves, PTL DEF Spec

\* Every variable of the rotation keeps its type, whatever the base.
THEOREM AlwaysTyped == Spec => []TypeOK
<1>1. IInv => TypeOK
  BY DEF IInv
<1> QED  BY <1>1, RotationInvariance, PTL

\* An owner works at their slot or is on record to return to it, after any
\* sequence of shifts.
THEOREM OwnersReturn == Spec => []OwnersKeepTheirSlots
<1>1. IInv => OwnersKeepTheirSlots
  BY DEF IInv, Kept
<1> QED  BY <1>1, RotationInvariance, PTL

\* Who stands at another's slot is covering it, and who covers works.
THEOREM CoversStayKnown == Spec => []CoversAreKnown
<1>1. IInv => CoversAreKnown
  BY DEF IInv, Kept
<1> QED  BY <1>1, RotationInvariance, PTL

\* Nobody is sent off the base, or is planned for two places.
THEOREM NobodyEverLost == Spec => []NobodyIsLost
<1>1. IInv => NobodyIsLost
  BY Basics DEF IInv, Kept, NobodyIsLost
<1> QED  BY <1>1, RotationInvariance, PTL

\* Who is on record to return sleeps in a bed.
THEOREM RestersStaySleeping == Spec => []RestersSleep
<1>1. IInv => RestersSleep
  BY DEF IInv, Kept
<1> QED  BY <1>1, RotationInvariance, PTL

\* The simulator carries out every action of the plan: none is refused.
THEOREM PlanAlwaysFollowed == Spec => []PlanIsFollowed
<1>1. IInv => PlanIsFollowed
  BY LeadsEnds DEF IInv, ActionType, Follows, PlanIsFollowed
<1> QED  BY <1>1, RotationInvariance, PTL

\* After next_actions, who has rested is back, and a tired worker who still
\* works, owner or cover, has nowhere to rest and nobody to trade with, unless
\* the thresholds overlap and they count as rested too.
THEOREM ShiftsAlwaysChanged == Spec => []ShiftsAreChanged
<1>1. Init => ShiftsInv
  BY DEF Init, ShiftsInv
<1>2. IInv /\ ShiftsInv /\ [Next]_vars => ShiftsInv'
  BY ShiftsStep
<1>3. IInv /\ ShiftsInv => ShiftsAreChanged
  BY DEF IInv, QueueOK, ShiftsInv, ShiftsAreChanged
<1> QED  BY <1>1, <1>2, <1>3, RotationInvariance, PTL DEF Spec

\* A worker leaves their slot only when they are tired, or for its owner when
\* the owner has rested.
THEOREM OnlyShiftsEverMove == Spec => OnlyShiftsMove
<1> DEFINE Shift(s) == plan[s] # Nobody /\ plan'[s] # plan[s] =>
                         \/ IsTired(plan[s])
                         \/ plan'[s] = crew[s] /\ IsRested(crew[s])
<1>1. ASSUME IInv, [Next]_vars, NEW s \in Work PROVE Shift(s)
  <2>1. ASSUME NEW op \in Operators, TradeBack(op) PROVE Shift(s)
    <3>1. op \in Resting /\ IsRested(op) /\ home[op] \in Work
      BY <1>1, <2>1, ResterInBed DEF TradeBack, Turn, IInv, QueueOK
    <3>2. PICK bed \in At(plan, op) : plan' = Swapped(plan, home[op], bed)
      BY <2>1 DEF TradeBack
    <3>3. /\ bed \in Beds /\ bed \in Slots /\ home[op] \in Slots /\ plan[bed] = op
          /\ plan \in Assignments /\ NoDuplicates(plan)
      BY <1>1, <3>1, ResterInBed, Basics DEF At
    <3>4. plan' = [plan EXCEPT ![home[op]] = plan[bed], ![bed] = plan[home[op]]]
      BY <3>2, <3>3, SwapExchanges
    <3>5. s # home[op] => plan'[s] = plan[s]
      <4>1. s \in Slots /\ s # bed
        BY <1>1, <3>3, Basics
      <4> QED  BY <3>3, <3>4, <4>1 DEF Assignments
    <3>6. s = home[op] => plan'[s] = op
      BY <1>1, <3>1, <3>3, <3>4, Basics DEF Assignments
    <3>7. crew[home[op]] = op
      BY <1>1, <3>1 DEF IInv, Kept, OwnersKeepTheirSlots, IsOwner
    <3> QED  BY <3>1, <3>5, <3>6, <3>7
  <2>2. ASSUME NEW op \in Operators, TakeBack(op) PROVE Shift(s)
    <3>1. /\ op \in Resting /\ op \in Operators /\ home[op] \in Slots
          /\ At(plan, op) # {} /\ At(plan, op) \subseteq Beds
          /\ plan \in Assignments
      BY <1>1, <2>2, ResterInBed, Basics DEF TakeBack, Turn, IInv, QueueOK
    <3>2. plan[home[op]] = Nobody
      <4>1. plan[home[op]] \in {Nobody, op} \/ At(plan, op) = {}
        BY <2>2 DEF TakeBack
      <4>2. plan[home[op]] # op
        BY <1>1, <3>1, ResterInBed
      <4> QED  BY <3>1, <4>1, <4>2
    <3>3. plan' = Moved(plan, op, home[op])
      BY <2>2, <3>1, <3>2, NobodyAssumption DEF TakeBack
    <3>4. s # home[op] => plan'[s] = plan[s]
      BY <1>1, <3>1, <3>3, MoveMoves, Basics DEF At
    <3> QED  BY <3>2, <3>4
  <2>3. ASSUME NEW op \in Operators, NEW t \in Work,
               RestInBed(op, t) \/ RestInTrade(op, t)
        PROVE  Shift(s)
    <3>1. plan[t] = op /\ IsTired(op)
      BY <1>1, <2>3 DEF RestInBed, RestInTrade, NextTired, IInv, QueueOK
    <3>2. s # t => plan'[s] = plan[s]
      BY <1>1, <2>3, ShiftMoves
    <3> QED  BY <3>1, <3>2
  <2> QED  BY <1>1, <2>1, <2>2, <2>3, OtherStepsKeep DEF Next
<1>2. IInv /\ [Next]_vars => [\A s \in Work : Shift(s)]_vars
  BY <1>1
<1> QED  BY <1>2, RotationInvariance, PTL DEF Spec, OnlyShiftsMove

=============================================================================
