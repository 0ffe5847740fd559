--------------------------- MODULE SolveLifecycle ---------------------------
(***************************************************************************)
(* What the solves API promises about a stored solve: the diagram at the   *)
(* head of crates/ak-api/src/jobs.rs, with deletion and restarts.          *)
(*                                                                         *)
(*   new --> pending --> running --> done | failed                         *)
(*              |            \ (restart) --> pending, or failed for good   *)
(*              +--> cancelled                   after MaxAttempts         *)
(*                                                                         *)
(* Anything stored can be deleted, and then it stays gone.                 *)
(***************************************************************************)
EXTENDS Naturals

CONSTANTS
    Jobs,
    MaxAttempts,
    Reliable      \* no store call fails, so each start is on record

VARIABLES
    status,       \* where each solve is in its life
    attempts,     \* how many of its starts are on record
    restarting    \* the server is not running, or has not resumed yet

vars == <<status, attempts, restarting>>

Stored == {"pending", "running", "done", "failed", "cancelled"}

Init ==
    /\ status = [j \in Jobs |-> "new"]
    /\ attempts = [j \in Jobs |-> 0]
    /\ restarting = TRUE

Becomes(j, from, to, n) ==
    /\ status[j] \in from
    /\ status' = [status EXCEPT ![j] = to]
    /\ attempts' = [attempts EXCEPT ![j] = n]
    /\ UNCHANGED restarting

Submit(j) == ~restarting /\ Becomes(j, {"new"}, "pending", 0)

Begin(j) ==
    /\ ~restarting
    /\ attempts[j] < MaxAttempts
    /\ Becomes(j, {"pending"}, "running", attempts[j] + 1)

Finish(j) ==
    /\ ~restarting
    /\ \E to \in {"done", "failed"} : Becomes(j, {"running"}, to, attempts[j])

\* The start of a search could not be recorded, its end could.
FinishUnrecorded(j) ==
    /\ ~restarting /\ ~Reliable
    /\ \E to \in {"done", "failed"}, n \in {attempts[j], attempts[j] + 1} :
          n <= MaxAttempts /\ Becomes(j, {"pending"}, to, n)

Cancel(j) == ~restarting /\ Becomes(j, {"pending"}, "cancelled", attempts[j])

Delete(j) == ~restarting /\ Becomes(j, Stored, "gone", 0)

Requeue(j) ==
    /\ restarting
    /\ attempts[j] < MaxAttempts
    /\ Becomes(j, {"running"}, "pending", attempts[j])

GiveUp(j) ==
    /\ restarting
    /\ attempts[j] >= MaxAttempts
    /\ Becomes(j, {"pending", "running"}, "failed", attempts[j])

\* Submissions that came to nothing: the store refused them, or the server
\* went down under them.
Abandon(lost) ==
    /\ \A j \in lost : status[j] = "new"
    /\ status' = [j \in Jobs |-> IF j \in lost THEN "gone" ELSE status[j]]
    /\ UNCHANGED attempts

StopServer  == ~restarting /\ restarting' = TRUE /\ \E lost \in SUBSET Jobs : Abandon(lost)
StartServer == restarting /\ restarting' = FALSE /\ UNCHANGED <<status, attempts>>

Next ==
    \/ \E j \in Jobs :
          \/ Submit(j) \/ Begin(j) \/ Finish(j) \/ FinishUnrecorded(j)
          \/ Cancel(j) \/ Delete(j) \/ Requeue(j) \/ GiveUp(j)
          \/ Abandon({j}) /\ UNCHANGED restarting
    \/ StopServer
    \/ StartServer

Spec == Init /\ [][Next]_vars
=============================================================================
