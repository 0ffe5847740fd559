------------------------------ MODULE MCSpace -------------------------------
(* A base of three rooms: a factory with two slots, a power plant with one,
   and a training room whose trainee's slot is fixed.  Four operators, one of
   them not in the pool.                                                    *)
EXTENDS Exhaustive, TLC

CONSTANTS f1, f2, p1, t1, t2, ash, bob, cat, dog

MCSlots == {f1, f2, p1, t1, t2}
MCRooms == {"factory", "power", "training"}
MCRoomOf == (f1 :> "factory") @@ (f2 :> "factory") @@ (p1 :> "power")
              @@ (t1 :> "training") @@ (t2 :> "training")
MCPreceding == (f1 :> {}) @@ (f2 :> {f1}) @@ (p1 :> {f1, f2})
                 @@ (t1 :> {f1, f2, p1}) @@ (t2 :> {f1, f2, p1, t1})
\* The free slots, but for the power plant's, which is locked.
MCGroups == <<<<f1, f2>>, <<>>, <<t1>>>>

\* The candidates can be exchanged for one another.
MCSymmetry == Permutations(Candidates)
=============================================================================
