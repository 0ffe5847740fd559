------------------------------- MODULE MCSearch -------------------------------
(* Four assignments, two of which differ by the order within a room only, in
   a base where any of them is one move from any other, or in one where
   nobody is there to move.                                                 *)
EXTENDS Search, TLC

CONSTANTS start, turned, other, third

MCSolutions == {start, turned, other, third}
MCKey == [s \in MCSolutions |-> IF s = turned THEN start ELSE s]
\* A move never keeps the key (see Space).
MCMoves ==
  [open  |-> [s \in MCSolutions |-> {t \in MCSolutions : MCKey[t] # MCKey[s]}],
   fixed |-> [s \in MCSolutions |-> {}]]
\* The walk fills a room in one order, which need not be the starting one.
MCWalks == [open |-> {turned, other, third}, fixed |-> {start}]
\* Two solutions that the base, the keys and the walk do not tell apart.
Symmetry == Permutations({other, third})
=============================================================================
