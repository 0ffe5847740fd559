----------------------------- MODULE MCKrooster -----------------------------
(* Two users, one of them typed in two ways, and a name that is refused.   *)
EXTENDS Krooster

MCFold == [n \in Names |-> CASE n = "Doc" -> "doc" [] n = "?" -> NoName [] OTHER -> n]
=============================================================================
