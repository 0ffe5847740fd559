------------------------------ MODULE MCSignIn ------------------------------
(* Two spellings of one name, a stored account, and a slot they share.     *)
EXTENDS SignIn, TLC

MCFold == [n \in Names |-> CASE n \in {"ash", "Ash"} -> "ash" [] n = "?" -> NoName [] OTHER -> n]
MCSlotOf == [a \in {"ash", "amiya"} |-> 1]
MCAccepted == [n \in Names |-> IF n = "ash" THEN {"q"} ELSE {"p"}]
MCSymmetry == Permutations(Requests)
MCStored == [a \in {"amiya"} |-> "p"]
=============================================================================
