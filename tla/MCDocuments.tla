---------------------------- MODULE MCDocuments ----------------------------
(* A base, a roster and a finished solve; two accounts.                    *)
EXTENDS Documents, TLC

MCKindOf == [d \in Docs |-> CASE d \in {"b1", "b2"} -> "base" [] d = "t1" -> "roster" [] OTHER -> "solve"]
MCInitial == [d \in {"b1", "t1", "s1"} |-> "ann"]
MCSymmetry == Permutations(Requests) \cup Permutations(Contents)
=============================================================================
