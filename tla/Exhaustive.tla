----------------------------- MODULE Exhaustive -------------------------------
(***************************************************************************)
(* The two strategies of the solver over one search space: the moves of    *)
(* the annealing (Space), and the exhaustive walk that small spaces get    *)
(* instead (ak-solver/src/exhaustive.rs), which must score each assignment *)
(* once, not counting the order within a room.                             *)
(*                                                                         *)
(* The walk is a recursive function, Walk::group: its calls are the frames *)
(* of a stack, each with the room and the slot it fills and the operators  *)
(* it has yet to try.  What a leaf is scored is left open; that the        *)
(* tracker may stop the walk is a choice at each of its checkpoints.       *)
(***************************************************************************)
EXTENDS Space, Integers, Sequences, SequencesExt, FiniteSets, Combinatorics

CONSTANTS Groups,     \* the free slots of each room, in order (Space::groups)
          CheckEvery  \* how many assignments are scored between checkpoints

\* A slot of the Training Room's is always held fixed, the trainee's: the room
\* has one free slot at most, which is why it makes no difference to the walk
\* that it fills a room from the front.
ASSUME WalkAssumption ==
  /\ IsFiniteSet(Operators)
  /\ Groups \in Seq(Seq(Free))
  /\ \A s \in Free :
       \E g \in DOMAIN Groups : \E i \in DOMAIN Groups[g] : Groups[g][i] = s
  /\ \A g, h \in DOMAIN Groups : \A i \in DOMAIN Groups[g], j \in DOMAIN Groups[h] :
       /\ Groups[g][i] = Groups[h][j] => g = h /\ i = j
       /\ RoomOf[Groups[g][i]] = RoomOf[Groups[h][j]] => g = h
       /\ g = h => RoomOf[Groups[g][i]] = RoomOf[Groups[h][j]]
       /\ g = h /\ RoomOf[Groups[g][i]] \in Training => i = j
  /\ CheckEvery \in Nat \ {0}

VARIABLES phase,    \* "annealing", or "exhaustive", "walking" and "walked"
          order,    \* Space::pool as the walk indexes it
          stack,    \* the calls of Walk::group that have not returned
          used,     \* Walk::used
          scored,   \* Walk::scored
          halted,   \* Walk::halted
          visited   \* the keys that were offered to the list of finalists

walk == <<phase, order, stack, used, scored, halted, visited>>

-----------------------------------------------------------------------------
(* The size of the space, from which Strategy::Auto chooses.               *)

Ordered(g) == \E i \in DOMAIN Groups[g] : RoomOf[Groups[g][i]] \in Training

\* falling(n, k) = n (n-1) ... (n-k+1)
\* Mutant: one factor too high.
Falling_From(n, k) == choose(n + 1, k) * factorial[k]

Falling(n, k) == choose(n, k) * factorial[k]

\* Space::size_estimate: ways[k] counts the ways to place k given operators
\* into the rooms seen so far.  The code computes in floating point and stops
\* at 1e300; the numbers here are exact.
SizeEstimate ==
  LET capacity == Cardinality(Free)
      into(ways, g) ==
        [k \in 0..capacity |->
           FoldFunction(+, 0,
             [j \in 0..Len(Groups[g]) |->
                IF j > k THEN 0
                ELSE ways[k - j]
                       * IF Ordered(g) THEN Falling(k, j) ELSE choose(k, j)])]
      none == [k \in 0..capacity |-> IF k = 0 THEN 1 ELSE 0]
      all == FoldLeft(into, none, [g \in DOMAIN Groups |-> g])
      p == Cardinality(pool)
  IN FoldFunction(+, 0,
       [k \in {n \in 0..capacity : n <= p} |-> choose(p, k) * all[k]])

-----------------------------------------------------------------------------
(* The walk.                                                               *)

\* A call of Walk::group: it has not yet left its slot empty, and has placed
\* nobody.  next is the first operator it may still try.
Call(g, i, min) ==
  [g |-> g, i |-> i, next |-> min, left |-> FALSE, placing |-> FALSE]

Top == Last(stack)
AtLeaf == Top.g > Len(Groups)
RoomDone == Top.i > Len(Groups[Top.g])
SlotOf(f) == Groups[f.g][f.i]

Walking == phase = "walking" /\ UNCHANGED <<initial, pool, order>>

\* The call at the top returns; the walk is over with the first of them.
Return ==
  /\ stack' = Front(stack)
  /\ phase' = IF Len(stack) = 1 THEN "walked" ELSE "walking"

\* An unordered room is filled in the order of the pool only.
\* Mutant: in every order.
NextMin_Any(g, p) == 1

NextMin(g, p) == IF Ordered(g) THEN 1 ELSE p + 1

SolveInit ==
  /\ Init
  /\ phase \in {"annealing", "exhaustive"}
  /\ order = <<>>
  /\ stack = <<>>
  /\ used = {}
  /\ scored = 0
  /\ halted = FALSE
  /\ visited = {}

\* solve_with empties the free slots and enumerates.
Begin ==
  /\ phase = "exhaustive"
  /\ ClearAll
  /\ phase' = "walking"
  /\ order' \in {o \in [1..Cardinality(pool) -> pool] : \A p \in pool : \E i \in DOMAIN o : o[i] = p}
  /\ stack' = <<Call(1, 1, 1)>>
  /\ UNCHANGED <<used, scored, halted, visited>>

\* Every room is settled: the assignment is scored, unless a checkpoint, one
\* in CheckEvery, stops the walk.
Score ==
  /\ Walking /\ AtLeaf
  /\ scored' = scored + 1
  /\ visited' = visited \cup {Canonical(current)}
  /\ Return
  /\ UNCHANGED <<current, used, halted>>

Halt ==
  /\ Walking /\ AtLeaf
  /\ scored % CheckEvery = 0
  /\ halted' = TRUE
  /\ Return
  /\ UNCHANGED <<current, used, scored, visited>>

\* The last slot of the room is filled; the call of the next room takes the
\* place of this one, which does nothing more.
NextRoom ==
  /\ Walking /\ ~AtLeaf
  /\ RoomDone
  /\ stack' = Append(Front(stack), Call(Top.g + 1, 1, 1))
  /\ UNCHANGED <<current, used, scored, halted, visited, phase>>

\* First the slot, and the rest of the room, stay empty.
LeaveEmpty ==
  /\ Walking /\ ~AtLeaf /\ ~RoomDone
  /\ ~Top.left
  /\ stack' = Append(Append(Front(stack), [Top EXCEPT !.left = TRUE]),
                     Call(Top.g + 1, 1, 1))
  /\ UNCHANGED <<current, used, scored, halted, visited, phase>>

InLoop ==
  /\ Walking /\ ~AtLeaf /\ ~RoomDone
  /\ Top.left /\ ~Top.placing

\* Then each operator from next on who is not used further up.
Untried == {p \in DOMAIN order : p >= Top.next /\ p \notin used}

\* The next of them is placed, if the assignment lets them be.
Try ==
  /\ InLoop
  /\ ~halted
  /\ \E p \in Untried :
       LET placed == CanPlace(current, SlotOf(Top), order[p])
       IN /\ \A q \in Untried : p <= q
          /\ current' = Placed(current, SlotOf(Top), order[p])
          /\ used' = IF placed THEN used \cup {p} ELSE used
          /\ stack' =
               IF placed
               THEN Append(Append(Front(stack),
                                  [Top EXCEPT !.next = p, !.placing = TRUE]),
                           Call(Top.g, Top.i + 1, NextMin(Top.g, p)))
               ELSE Append(Front(stack), [Top EXCEPT !.next = p + 1])
  /\ UNCHANGED <<scored, halted, visited, phase>>

\* The call for the rest of the room is back.
TakeBack ==
  /\ Walking /\ ~AtLeaf /\ ~RoomDone
  /\ Top.placing
  /\ current' = Removed(current, SlotOf(Top))
  /\ used' = used \ {Top.next}
  /\ stack' = Append(Front(stack),
                     [Top EXCEPT !.next = Top.next + 1, !.placing = FALSE])
  /\ UNCHANGED <<scored, halted, visited, phase>>

\* Nobody is left to try, or the walk unwinds.
GiveUp ==
  /\ InLoop
  /\ halted \/ Untried = {}
  /\ Return
  /\ UNCHANGED <<current, used, scored, halted, visited>>

Anneal ==
  /\ phase = "annealing"
  /\ Swap \/ Replace \/ Fill \/ Clear \/ Fallback \/ Restart
  /\ UNCHANGED walk

\* The walk is over: enumerate returns.
Enumerated == phase = "walked" /\ UNCHANGED <<vars, walk>>

SolveNext ==
  \/ Anneal \/ Begin
  \/ Score \/ Halt \/ NextRoom \/ LeaveEmpty \/ Try \/ TakeBack \/ GiveUp
  \/ Enumerated

SolveSpec == SolveInit /\ [][SolveNext]_<<vars, walk>>

-----------------------------------------------------------------------------
(* What a caller of enumerate relies on.                                   *)

\* Every valid way to fill the free slots from the pool.
Fillings ==
  {a \in {[s \in Slots |-> IF s \in Free THEN f[s] ELSE initial[s]] :
            f \in [Free -> pool \cup {Nobody}]} : NoDuplicates(a)}

\* The walk scores nothing twice, not even rearranged within a room, leaves
\* the free slots empty as it found them, and unless it was stopped has
\* scored every assignment there is: the ground truth the annealing is tested
\* against (exhaustive.rs:1).
WalkIsComplete ==
  /\ Cardinality(visited) = scored
  /\ phase = "walked" =>
       /\ \A s \in Slots : current[s] = IF s \in Free THEN Nobody ELSE initial[s]
       /\ used = {}
       /\ ~halted => visited = {Canonical(a) : a \in Fillings}

\* size_estimate, from which Strategy::Auto chooses the walk, announces how
\* many assignments a walk scores that is not stopped (Space::size_estimate).
SizeIsExact == phase = "walked" /\ ~halted => scored = SizeEstimate

=============================================================================
