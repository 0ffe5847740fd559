------------------------------ MODULE SolveJobs ------------------------------
(***************************************************************************)
(* The background solves of the HTTP server (crates/ak-api/src/jobs.rs,    *)
(* the handlers of solves.rs that drive it, the server's start and stop in *)
(* main.rs).                                                               *)
(*                                                                         *)
(* A solve is a document in the store (status, attempts) plus, while it is *)
(* queued or running on this server, an in-memory entry (stage, deleted,   *)
(* stop flag, wake-up) and a runner task.  Creators, runners and the       *)
(* owner's stop and delete requests interleave at every await; the server  *)
(* shuts down cleanly or crashes, and resumes what the store still holds   *)
(* as pending or running.                                                  *)
(*                                                                         *)
(* Jobs are numbered in the order of their documents' created_at.  The     *)
(* async lock around an entry's state is not a variable: whoever is        *)
(* between taking and dropping it (LockFree) holds it.  Requests of        *)
(* accounts other than the owner never pass the owner filter and change    *)
(* nothing, so only the owner's requests appear.                           *)
(***************************************************************************)
EXTENDS Naturals, FiniteSets

CONSTANTS
    Jobs,            \* the solves ever submitted, numbered by created_at
    Accounts,        \* who can own one
    OwnerOf,         \* whose each is
    Requests,        \* stop and delete requests that may be under way at once
    MaxRunning,      \* Limits::max_running_solves
    MaxPerAccount,   \* Limits::max_solves_per_account
    MaxAttempts,     \* MAX_ATTEMPTS
    MaxBoots,        \* bound: times the server starts
    MaxFailures,     \* bound: store calls that fail
    Faults,          \* how one fails: not applied, or applied but reported lost
    CanCrash         \* whether the process may also die without a shutdown

ASSUME JobsAssumption == Jobs \subseteq Nat \ {0} /\ IsFiniteSet(Jobs)
ASSUME OwnersAssumption == OwnerOf \in [Jobs -> Accounts]
ASSUME LimitsAssumption ==
    /\ MaxRunning \in Nat \ {0}
    /\ MaxPerAccount \in Nat \ {0}
    /\ MaxAttempts \in Nat \ {0}
ASSUME BoundsAssumption ==
    /\ MaxBoots \in Nat
    /\ MaxFailures \in Nat
    /\ Faults \subseteq {"refused", "lost"}
    /\ CanCrash \in BOOLEAN

VARIABLES
    status,     \* the stored status of each solve, or "absent"
    attempts,   \* the stored number of attempts
    live,       \* the keys of Jobs::live
    stage,      \* LiveState::stage
    deleted,    \* LiveState::deleted
    stop,       \* Live::stop
    notified,   \* a permit is stored in Live::cancelled
    runner,     \* where each job's runner task is
    copy,       \* the attempts in the runner's own copy of the job
    outcome,    \* what the runner's search returned
    holders,    \* the runners holding a slot of Jobs::permits
    ahead,      \* for each waiter, the waiters before it in the slot queue
    creator,    \* where the request that creates each job is
    at,         \* where each stop or delete request is
    target,     \* the job it is about
    phase,      \* where the server process is
    todo,       \* the documents resume has still to handle
    resumed,    \* the jobs resume has queued since the server started
    boots,      \* times the server has started
    failures,   \* store calls that have failed
    starts,     \* history: searches begun for each job
    answers     \* history: what the owner has been told about each job

store   == <<status, attempts>>
entry   == <<stage, deleted, stop, notified>>
running == <<runner, copy, outcome>>
slots   == <<holders, ahead>>
asked   == <<at, target>>
server  == <<phase, todo, resumed, boots>>
history == <<starts, answers>>
vars    == <<store, live, entry, running, slots, creator, asked, server,
             failures, history>>

-----------------------------------------------------------------------------
(* Types                                                                   *)

Finished   == {"done", "failed", "cancelled"}
Unfinished == {"pending", "running"}
Statuses   == {"absent"} \cup Unfinished \cup Finished
Stages     == {"queued", "running", "cancelled"}

\* A runner's program points, in order.
BeforeRun  == {"spawned", "waiting", "granted"}
InRun      == {"recordStart", "writeStart", "searching", "deciding",
               "recordEnd", "writeEnd"}
RunnerAt   == {"none"} \cup BeforeRun \cup InRun \cup {"forgetting", "releasing"}
Outcomes   == {"none", "done", "failed", "crashed", "requested"}

CreatorAt  == {"new", "inserting", "starting", "done"}
RequestAt  == {"idle", "lockToStop", "cancelling", "forgetCancelled", "reading",
               "lockToDelete", "deleting", "forgetDeleted", "erasing"}
Answers    == {"cancelled", "stopping", "stoppingLate", "deleted"}
Phases     == {"down", "resuming", "serving", "stopping", "draining", "drained"}

Drain   == 0
Waiters == Jobs \cup {Drain}

TypeOK ==
    /\ status \in [Jobs -> Statuses]
    /\ attempts \in [Jobs -> 0..MaxAttempts]
    /\ live \subseteq Jobs
    /\ stage \in [Jobs -> Stages]
    /\ deleted \in [Jobs -> BOOLEAN]
    /\ stop \in [Jobs -> BOOLEAN]
    /\ notified \in [Jobs -> BOOLEAN]
    /\ runner \in [Jobs -> RunnerAt]
    /\ copy \in [Jobs -> 0..MaxAttempts]
    /\ outcome \in [Jobs -> Outcomes]
    /\ holders \subseteq Jobs
    /\ ahead \in [Waiters -> SUBSET Waiters]
    /\ creator \in [Jobs -> CreatorAt]
    /\ at \in [Requests -> RequestAt]
    /\ target \in [Requests -> Jobs]
    /\ phase \in Phases
    /\ todo \subseteq Jobs
    /\ resumed \subseteq Jobs
    /\ boots \in Nat
    /\ failures \in Nat
    /\ starts \in [Jobs -> Nat]
    /\ answers \in [Jobs -> SUBSET Answers]

-----------------------------------------------------------------------------
(* State formulae                                                          *)

ShuttingDown == phase \in {"stopping", "draining", "drained"}

\* Handlers run while the server accepts requests, and those already accepted
\* run on while it stops.
Handling == phase \in {"serving", "stopping"}

\* Tasks run whenever the process does (resume is alone until it ends).
Up == phase \notin {"down", "resuming"}

\* Mutant: a stop or delete does not hold the lock across its write.
LockFree_RunnerOnly(j) == runner[j] \notin {"writeStart", "writeEnd"}

\* Nobody is between taking and dropping the job's state lock.
LockFree(j) ==
    /\ runner[j] \notin {"writeStart", "writeEnd"}
    /\ \A r \in Requests :
          target[r] = j => at[r] \notin {"cancelling", "deleting"}

LiveOf(a) == {j \in live : OwnerOf[j] = a}

Waiting == {j \in Jobs : runner[j] = "waiting"}
             \cup (IF phase = "draining" THEN {Drain} ELSE {})

\* The slot queue once w has left it.
Leave(w) == [v \in Waiters |-> ahead[v] \ {w}]

-----------------------------------------------------------------------------
(* The store.  A call that fails with "lost" was applied all the same.     *)

Call(o) ==
    \/ o = "ok" /\ UNCHANGED failures
    \/ o \in Faults /\ failures < MaxFailures /\ failures' = failures + 1

Applied(o) == o # "refused"

Calls == {"ok"} \cup Faults

\* An update touches only a row that is there.
Update(j, o, st, n) ==
    IF Applied(o) /\ status[j] # "absent"
    THEN /\ status' = [status EXCEPT ![j] = st]
         /\ attempts' = [attempts EXCEPT ![j] = n]
    ELSE UNCHANGED store

Remove(j, o) ==
    IF Applied(o)
    THEN /\ status' = [status EXCEPT ![j] = "absent"]
         /\ attempts' = [attempts EXCEPT ![j] = 0]
    ELSE UNCHANGED store

-----------------------------------------------------------------------------
(* Creating a solve                                                        *)

\* Mutant: the limit is off by one.
HasRoom_OneMore(a) == Cardinality(LiveOf(a)) <= MaxPerAccount

HasRoom(a) == Cardinality(LiveOf(a)) < MaxPerAccount

\* create, as far as the answer: a place is taken under the map's lock.
Admit(j) ==
    /\ Handling
    /\ creator[j] = "new"
    /\ HasRoom(OwnerOf[j])
    /\ live' = live \cup {j}
    /\ creator' = [creator EXCEPT ![j] = "inserting"]
    /\ UNCHANGED <<store, entry, running, slots, asked, server, failures, history>>

\* The detached task stores the document, or gives the place back.
Insert(j, o) ==
    /\ Up
    /\ creator[j] = "inserting"
    /\ Call(o)
    /\ status' = [status EXCEPT ![j] = IF Applied(o) THEN "pending" ELSE @]
    /\ IF o = "ok"
       THEN /\ creator' = [creator EXCEPT ![j] = "starting"]
            /\ UNCHANGED live
       ELSE /\ creator' = [creator EXCEPT ![j] = "done"]
            /\ live' = live \ {j}
    /\ UNCHANGED <<attempts, entry, running, slots, asked, server, history>>

\* ... and spawns its runner, unless a stop or a delete came first.
Start(j) ==
    /\ Up
    /\ creator[j] = "starting"
    /\ creator' = [creator EXCEPT ![j] = "done"]
    /\ runner' = [runner EXCEPT ![j] = IF j \in live THEN "spawned" ELSE @]
    /\ UNCHANGED <<store, live, entry, copy, outcome, slots, asked, server,
                   failures, history>>

-----------------------------------------------------------------------------
(* The runner                                                              *)

Queue(j) ==
    /\ Up
    /\ runner[j] = "spawned"
    /\ runner' = [runner EXCEPT ![j] = "waiting"]
    /\ ahead' = [ahead EXCEPT ![j] = Waiting]
    /\ UNCHANGED <<store, live, entry, copy, outcome, holders, creator, asked,
                   server, failures, history>>

\* The select's first branch: a slot, in the order of the queue.
TakeSlot(j) ==
    /\ Up
    /\ runner[j] = "waiting"
    /\ ahead[j] = {}
    /\ Cardinality(holders) < MaxRunning
    /\ runner' = [runner EXCEPT ![j] = "granted"]
    /\ holders' = holders \cup {j}
    /\ ahead' = Leave(j)
    /\ UNCHANGED <<store, live, entry, copy, outcome, creator, asked, server,
                   failures, history>>

\* Its second branch: stopped or deleted while waiting.
GiveUpWaiting(j) ==
    /\ Up
    /\ runner[j] = "waiting"
    /\ notified[j]
    /\ notified' = [notified EXCEPT ![j] = FALSE]
    /\ runner' = [runner EXCEPT ![j] = "none"]
    /\ ahead' = Leave(j)
    /\ UNCHANGED <<store, live, stage, deleted, stop, copy, outcome, holders,
                   creator, asked, server, failures, history>>

\* Mutant: a runner that gets its slot as the job is cancelled runs all the same.
MustNotRun_Cancelled(j) == deleted[j] \/ ShuttingDown

MustNotRun(j) == stage[j] = "cancelled" \/ deleted[j] \/ ShuttingDown

\* Mutant: a start is not counted.
NextAttempt_Same(n) == n

NextAttempt(n) == n + 1

\* With a slot, under the state lock: run, unless it must not any more.
Begin(j) ==
    /\ Up
    /\ runner[j] = "granted"
    /\ LockFree(j)
    /\ IF MustNotRun(j)
       THEN /\ runner' = [runner EXCEPT ![j] = "forgetting"]
            /\ UNCHANGED <<stage, copy>>
       ELSE /\ runner' = [runner EXCEPT ![j] = "recordStart"]
            /\ stage' = [stage EXCEPT ![j] = "running"]
            /\ copy' = [copy EXCEPT ![j] = NextAttempt(@)]
    /\ UNCHANGED <<store, live, deleted, stop, notified, outcome, slots, creator,
                   asked, server, failures, history>>

\* record takes the state lock, and writes nothing for a deleted job.
Record(j, from, write, next) ==
    /\ Up
    /\ runner[j] = from
    /\ LockFree(j)
    /\ runner' = [runner EXCEPT ![j] = IF deleted[j] THEN next ELSE write]
    /\ UNCHANGED <<store, live, entry, copy, outcome, slots, creator, asked,
                   server, failures, answers>>

RecordStart(j) ==
    /\ Record(j, "recordStart", "writeStart", "searching")
    /\ starts' = [starts EXCEPT ![j] = IF deleted[j] THEN @ + 1 ELSE @]

\* The search begins whether or not the write succeeded.
WriteStart(j, o) ==
    /\ Up
    /\ runner[j] = "writeStart"
    /\ Call(o)
    /\ Update(j, o, "running", copy[j])
    /\ runner' = [runner EXCEPT ![j] = "searching"]
    /\ starts' = [starts EXCEPT ![j] = @ + 1]
    /\ UNCHANGED <<live, entry, copy, outcome, slots, creator, asked, server,
                   answers>>

ShouldStop(j) == stop[j] \/ ShuttingDown

\* The search on the blocking thread ends: by itself, with an error, by a
\* panic, or at a checkpoint at which it was told to stop.
EndSearch(j, how) ==
    /\ Up
    /\ runner[j] = "searching"
    /\ how = "requested" => ShouldStop(j)
    /\ outcome' = [outcome EXCEPT ![j] = how]
    /\ runner' = [runner EXCEPT ![j] = IF how = "requested" THEN "deciding"
                                                          ELSE "recordEnd"]
    /\ UNCHANGED <<store, live, entry, copy, slots, creator, asked, server,
                   failures, history>>

\* Mutant: every search told to stop counts as interrupted.
ByShutdown_Always(j) == TRUE

\* A search told to stop but not by its owner was interrupted by the shutdown.
ByShutdown(j) == ~stop[j]

\* The document of an interrupted job is left as it is.
Decide(j) ==
    /\ Up
    /\ runner[j] = "deciding"
    /\ IF ByShutdown(j)
       THEN /\ runner' = [runner EXCEPT ![j] = "forgetting"]
            /\ UNCHANGED outcome
       ELSE /\ runner' = [runner EXCEPT ![j] = "recordEnd"]
            /\ outcome' = [outcome EXCEPT ![j] = "done"]
    /\ UNCHANGED <<store, live, entry, copy, slots, creator, asked, server,
                   failures, history>>

RecordEnd(j) ==
    /\ Record(j, "recordEnd", "writeEnd", "forgetting")
    /\ UNCHANGED starts

\* A crashed search changes the stored job; a finished one replaces it.
WriteEnd(j, o) ==
    /\ Up
    /\ runner[j] = "writeEnd"
    /\ Call(o)
    /\ IF outcome[j] = "crashed"
       THEN Update(j, o, "failed", attempts[j])
       ELSE Update(j, o, outcome[j], copy[j])
    /\ runner' = [runner EXCEPT ![j] = "forgetting"]
    /\ UNCHANGED <<live, entry, copy, outcome, slots, creator, asked, server,
                   history>>

\* Mutant: a job that did not run keeps its place.
Forgotten_IfRun(j) == IF stage[j] = "running" THEN live \ {j} ELSE live

Forgotten(j) == live \ {j}

Forget(j) ==
    /\ Up
    /\ runner[j] = "forgetting"
    /\ live' = Forgotten(j)
    /\ runner' = [runner EXCEPT ![j] = "releasing"]
    /\ UNCHANGED <<store, entry, copy, outcome, slots, creator, asked, server,
                   failures, history>>

\* Mutant: the permit is not given back.
Released_Not(j) == holders

Released(j) == holders \ {j}

\* The task ends; its locals go with it.
ReleaseSlot(j) ==
    /\ Up
    /\ runner[j] = "releasing"
    /\ holders' = Released(j)
    /\ runner' = [runner EXCEPT ![j] = "none"]
    /\ copy' = [copy EXCEPT ![j] = 0]
    /\ outcome' = [outcome EXCEPT ![j] = "none"]
    /\ UNCHANGED <<store, live, entry, ahead, creator, asked, server, failures,
                   history>>

-----------------------------------------------------------------------------
(* The owner's stop and delete requests                                    *)

\* An owner knows an id once its document can be listed or was answered.
Known(j) == status[j] # "absent" \/ creator[j] = "done"

Ask(r, j, ifLive, ifNot) ==
    /\ Handling
    /\ at[r] = "idle"
    /\ Known(j)
    /\ target' = [target EXCEPT ![r] = j]
    /\ at' = [at EXCEPT ![r] = IF j \in live THEN ifLive ELSE ifNot]
    /\ UNCHANGED <<store, live, entry, running, slots, creator, server, failures,
                   history>>

AskStop(r, j)   == Ask(r, j, "lockToStop", "reading")
AskDelete(r, j) == Ask(r, j, "lockToDelete", "erasing")

Step(r, from, to) ==
    /\ Up
    /\ at[r] = from
    /\ at' = [at EXCEPT ![r] = to]
    /\ UNCHANGED <<target, creator, running, slots, server, starts>>

Answer(j, a) == answers' = [answers EXCEPT ![j] = @ \cup {a}]

\* Mutant: stop waits for the search to be under way.
Stoppable_Searching(j) == stage[j] = "running" /\ runner[j] = "searching"

Stoppable(j) == stage[j] = "running"

\* stop of a running job: raise its flag and answer 202.
StopRunning(r) ==
    LET j == target[r] IN
    /\ Step(r, "lockToStop", "idle")
    /\ LockFree(j)
    /\ Stoppable(j)
    /\ stop' = [stop EXCEPT ![j] = TRUE]
    /\ Answer(j, IF ShuttingDown THEN "stoppingLate" ELSE "stopping")
    /\ UNCHANGED <<store, live, stage, deleted, notified, failures>>

\* stop of a job another request cancelled or deleted first.
StopCancelled(r) ==
    LET j == target[r] IN
    /\ Step(r, "lockToStop", "idle")
    /\ LockFree(j)
    /\ stage[j] = "cancelled"
    /\ Answer(j, "cancelled")
    /\ UNCHANGED <<store, live, entry, failures>>

\* stop of a queued job: the document first, with the lock held, ...
StopQueued(r) ==
    LET j == target[r] IN
    /\ Step(r, "lockToStop", "cancelling")
    /\ LockFree(j)
    /\ stage[j] = "queued"
    /\ UNCHANGED <<store, live, entry, failures, answers>>

\* ... then, only if that succeeded, the entry and its runner's wake-up.
Cancel(r, o) ==
    LET j == target[r] IN
    /\ Step(r, "cancelling", IF o = "ok" THEN "forgetCancelled" ELSE "idle")
    /\ Call(o)
    /\ IF deleted[j] THEN UNCHANGED store
                     ELSE Update(j, o, "cancelled", attempts[j])
    /\ IF o = "ok"
       THEN /\ stage' = [stage EXCEPT ![j] = "cancelled"]
            /\ notified' = [notified EXCEPT ![j] = TRUE]
       ELSE UNCHANGED <<stage, notified>>
    /\ UNCHANGED <<live, deleted, stop, answers>>

ForgetCancelled(r) ==
    /\ Step(r, "forgetCancelled", "idle")
    /\ live' = live \ {target[r]}
    /\ Answer(target[r], "cancelled")
    /\ UNCHANGED <<store, entry, failures>>

\* stop of a job that is not live: 409, or 404 if there is no document.
ReadForConflict(r) ==
    /\ Step(r, "reading", "idle")
    /\ UNCHANGED <<store, live, entry, failures, answers>>

\* delete of a live job takes the lock before the document goes.
LockToDelete(r) ==
    /\ Step(r, "lockToDelete", "deleting")
    /\ LockFree(target[r])
    /\ UNCHANGED <<store, live, entry, failures, answers>>

Queued(j) == stage[j] = "queued"

\* A running job keeps its place; a queued one is given up.
Delete(r, o) ==
    LET j == target[r]
        queued == Queued(j)
    IN
    /\ Step(r, "deleting", IF o = "ok" /\ queued THEN "forgetDeleted" ELSE "idle")
    /\ Call(o)
    /\ Remove(j, o)
    /\ IF o = "ok"
       THEN /\ deleted' = [deleted EXCEPT ![j] = TRUE]
            /\ stop' = [stop EXCEPT ![j] = TRUE]
            /\ stage' = [stage EXCEPT ![j] = IF queued THEN "cancelled" ELSE @]
            /\ notified' = [notified EXCEPT ![j] = @ \/ queued]
       ELSE UNCHANGED entry
    /\ IF o = "ok" /\ ~queued THEN Answer(j, "deleted") ELSE UNCHANGED answers
    /\ UNCHANGED live

ForgetDeleted(r) ==
    /\ Step(r, "forgetDeleted", "idle")
    /\ live' = live \ {target[r]}
    /\ Answer(target[r], "deleted")
    /\ UNCHANGED <<store, entry, failures>>

\* delete of a job that is not live goes straight to the store.
Erase(r, o) ==
    LET j == target[r] IN
    /\ Step(r, "erasing", "idle")
    /\ Call(o)
    /\ Remove(j, o)
    /\ IF o = "ok" THEN Answer(j, "deleted") ELSE UNCHANGED answers
    /\ UNCHANGED <<live, entry>>

-----------------------------------------------------------------------------
(* The server process                                                      *)

\* What every task knew is gone.
LoseMemory ==
    /\ live' = {}
    /\ stage' = [j \in Jobs |-> "queued"]
    /\ deleted' = [j \in Jobs |-> FALSE]
    /\ stop' = [j \in Jobs |-> FALSE]
    /\ notified' = [j \in Jobs |-> FALSE]
    /\ runner' = [j \in Jobs |-> "none"]
    /\ copy' = [j \in Jobs |-> 0]
    /\ outcome' = [j \in Jobs |-> "none"]
    /\ holders' = {}
    /\ ahead' = [w \in Waiters |-> {}]
    /\ creator' = [j \in Jobs |-> IF creator[j] = "new" THEN "new" ELSE "done"]
    /\ at' = [r \in Requests |-> "idle"]
    /\ todo' = {}
    /\ resumed' = {}
    /\ UNCHANGED target

\* Mutant: running documents are skipped.
ToResume_Pending == {j \in Jobs : status[j] = "pending"}

ToResume == {j \in Jobs : status[j] \in Unfinished}

\* The server starts and reads every document.
Boot ==
    /\ phase = "down"
    /\ boots < MaxBoots
    /\ boots' = boots + 1
    /\ phase' = "resuming"
    /\ todo' = ToResume
    /\ UNCHANGED <<store, live, entry, running, slots, creator, asked, resumed,
                   failures, history>>

Spent(n) == n >= MaxAttempts

\* resume handles one of them, oldest first; an error ends the process (such
\* a start does not count towards MaxBoots).
Resume(j, o) ==
    /\ phase = "resuming"
    /\ j \in todo
    /\ \A k \in todo : j <= k
    /\ Call(o)
    /\ IF Spent(attempts[j])
       THEN Update(j, o, "failed", attempts[j])
       ELSE Update(j, o, "pending", attempts[j])
    /\ IF o = "ok"
       THEN /\ todo' = todo \ {j}
            /\ resumed' = IF Spent(attempts[j]) THEN resumed
                                                ELSE resumed \cup {j}
            /\ UNCHANGED <<phase, boots>>
       ELSE /\ phase' = "down"
            /\ todo' = {}
            /\ resumed' = {}
            /\ boots' = boots - 1
    /\ UNCHANGED <<live, entry, running, slots, creator, asked, history>>

\* ... and queues the unfinished ones once all are read; then it serves.
EnqueueAll ==
    /\ phase = "resuming"
    /\ todo = {}
    /\ live' = live \cup resumed
    /\ runner' = [j \in Jobs |-> IF j \in resumed THEN "spawned" ELSE runner[j]]
    /\ copy' = [j \in Jobs |-> IF j \in resumed THEN attempts[j] ELSE copy[j]]
    /\ phase' = "serving"
    /\ UNCHANGED <<store, entry, outcome, slots, creator, asked, todo, resumed,
                   boots, failures, history>>

\* Ctrl-C.  The last start is left to run on, for MaxBoots to bound the runs.
Shutdown ==
    /\ phase = "serving"
    /\ boots < MaxBoots
    /\ phase' = "stopping"
    /\ UNCHANGED <<store, live, entry, running, slots, creator, asked, todo,
                   resumed, boots, failures, history>>

\* The graceful shutdown is over: drain queues for every slot.  Handlers are
\* done, but the tasks detached from dropped requests may still run.
BeginDrain ==
    /\ phase = "stopping"
    /\ phase' = "draining"
    /\ ahead' = [ahead EXCEPT ![Drain] = Waiting]
    /\ UNCHANGED <<store, live, entry, running, holders, creator, asked, todo,
                   resumed, boots, failures, history>>

\* Mutant: drain waits for its turn, not for every slot.
AllFree_Turn == TRUE

AllFree == holders = {}

EndDrain ==
    /\ phase = "draining"
    /\ ahead[Drain] = {}
    /\ AllFree
    /\ phase' = "drained"
    /\ ahead' = Leave(Drain)
    /\ UNCHANGED <<store, live, entry, running, holders, creator, asked, todo,
                   resumed, boots, failures, history>>

\* The store closes and the process ends.
Exit ==
    /\ phase = "drained"
    /\ phase' = "down"
    /\ LoseMemory
    /\ UNCHANGED <<store, boots, failures, history>>

Crash ==
    /\ CanCrash
    /\ phase # "down"
    /\ boots < MaxBoots
    /\ phase' = "down"
    /\ LoseMemory
    /\ UNCHANGED <<store, boots, failures, history>>

-----------------------------------------------------------------------------
Init ==
    /\ status = [j \in Jobs |-> "absent"]
    /\ attempts = [j \in Jobs |-> 0]
    /\ live = {}
    /\ stage = [j \in Jobs |-> "queued"]
    /\ deleted = [j \in Jobs |-> FALSE]
    /\ stop = [j \in Jobs |-> FALSE]
    /\ notified = [j \in Jobs |-> FALSE]
    /\ runner = [j \in Jobs |-> "none"]
    /\ copy = [j \in Jobs |-> 0]
    /\ outcome = [j \in Jobs |-> "none"]
    /\ holders = {}
    /\ ahead = [w \in Waiters |-> {}]
    /\ creator = [j \in Jobs |-> "new"]
    /\ at = [r \in Requests |-> "idle"]
    /\ target \in [Requests -> {j \in Jobs : \A k \in Jobs : j <= k}]
    /\ phase = "down"
    /\ todo = {}
    /\ resumed = {}
    /\ boots = 0
    /\ failures = 0
    /\ starts = [j \in Jobs |-> 0]
    /\ answers = [j \in Jobs |-> {}]

Creating(j) == Admit(j) \/ (\E o \in Calls : Insert(j, o)) \/ Start(j)

\* The steps of a runner that wait for no lock and no slot.
Running(j) ==
    \/ Queue(j)
    \/ GiveUpWaiting(j)
    \/ \E o \in Calls : WriteStart(j, o) \/ WriteEnd(j, o)
    \/ \E how \in Outcomes \ {"none"} : EndSearch(j, how)
    \/ Decide(j)
    \/ Forget(j)
    \/ ReleaseSlot(j)

Locking(j) == Begin(j) \/ RecordStart(j) \/ RecordEnd(j)

\* A request that has the lock, or needs none.
Serving(r) ==
    \/ \E o \in Calls : Cancel(r, o) \/ Delete(r, o) \/ Erase(r, o)
    \/ ForgetCancelled(r)
    \/ ForgetDeleted(r)
    \/ ReadForConflict(r)

Acquiring(r) == StopRunning(r) \/ StopCancelled(r) \/ StopQueued(r) \/ LockToDelete(r)

Starting == Boot \/ (\E j \in Jobs, o \in Calls : Resume(j, o)) \/ EnqueueAll

Stopping == BeginDrain \/ EndDrain \/ Exit

Next ==
    \/ \E j \in Jobs : Creating(j) \/ Running(j) \/ TakeSlot(j) \/ Locking(j)
    \/ \E r \in Requests :
          \/ \E j \in Jobs : AskStop(r, j) \/ AskDelete(r, j)
          \/ Serving(r)
          \/ Acquiring(r)
    \/ Starting \/ Shutdown \/ Stopping \/ Crash

Spec == Init /\ [][Next]_vars

\* Every task that can run does: tokio polls ready tasks, store calls return,
\* a search ends (it has a time or step limit, and checkpoints).  The state
\* lock is a fair FIFO mutex, so a task that keeps finding it free gets it.
Fairness ==
    /\ \A j \in Jobs :
          /\ WF_vars(\E o \in Calls : Insert(j, o))
          /\ WF_vars(Start(j))
          /\ WF_vars(Running(j))
          /\ WF_vars(TakeSlot(j))
          /\ SF_vars(Locking(j))
    /\ \A r \in Requests : WF_vars(Serving(r)) /\ SF_vars(Acquiring(r))
    /\ WF_vars(Starting)
    /\ WF_vars(Stopping)

FairSpec == Spec /\ Fairness

-----------------------------------------------------------------------------
(* What must hold                                                          *)

\* A stop that answered 200 and a delete that answered 204 are kept: the
\* solve never runs again and nothing is written back, whatever its runner,
\* other requests, crashes and restarts do (jobs.rs, Live and Jobs::delete).
AnswersAreKept ==
    \A j \in Jobs :
        /\ "deleted" \in answers[j] => status[j] = "absent"
        /\ "cancelled" \in answers[j] =>
              /\ status[j] \in {"cancelled", "absent"}
              /\ runner[j] \notin InRun

\* A finished document never changes again, except to be deleted: neither
\* the runner, nor a stop, nor resume overwrites it (the diagram in jobs.rs).
FinishedIsFinal ==
    [][\A j \in Jobs : status[j] \in Finished => status'[j] \in {status[j], "absent"}]_vars

\* Between a job's place being taken (Jobs::admit, enqueue) and given back
\* somebody is always left who will give it back, whichever of the creator,
\* the runner, a stop and a delete comes first, and whatever fails: a leaked
\* place would lock the account out of solving until the next restart.
EveryPlaceHasAnOwner ==
    \A j \in live :
        \/ creator[j] \in {"inserting", "starting"}
        \/ runner[j] \in BeforeRun \cup InRun \cup {"forgetting"}
        \/ \E r \in Requests :
              target[r] = j /\ at[r] \in {"forgetCancelled", "forgetDeleted"}

\* While the server serves and no store call has failed, every pending or
\* running document has its entry and somebody who will run it.
UnfinishedIsLive ==
    (phase = "serving" /\ failures = 0) =>
        \A j \in Jobs : status[j] \in Unfinished =>
            /\ j \in live
            /\ creator[j] = "starting" \/ runner[j] \in BeforeRun \cup InRun

\* An account with a solve admitted since the server started has at most
\* MaxPerAccount queued or running (only resume may queue more).
QuotaHolds ==
    \A a \in Accounts :
        LiveOf(a) \subseteq resumed \/ Cardinality(LiveOf(a)) <= MaxPerAccount

\* A job that runs, deleted or not, holds a slot and keeps its place among
\* its account's solves until its search has wound down (Jobs::delete).
RunningKeepsItsPlace ==
    \A j \in Jobs : runner[j] \in InRun => j \in live /\ j \in holders

\* When drain returns every runner has written its last change, so the store
\* may close (Jobs::drain).
DrainedIsQuiet ==
    phase = "drained" => \A j \in Jobs : runner[j] \notin InRun

\* A solve is searched at most MaxAttempts times across restarts, and once
\* more for each store call that failed to count an attempt.
StartsAreBounded == \A j \in Jobs : starts[j] <= MaxAttempts + failures

\* A stop of a running job that was answered before the shutdown began is on
\* record when the store closes: the search's result is kept, not thrown away
\* as interrupted (the module doc of jobs.rs, 23-26).  A crash before it or a
\* failed store call may lose the stop.
StopIsRecorded ==
    (phase = "drained" /\ boots = 1 /\ failures = 0) =>
        \A j \in Jobs : "stopping" \in answers[j] => status[j] \notin Unfinished

\* A stop is refused with 409 only for a finished solve (solves.rs, stop),
\* while the server serves and no store call has failed.
ConflictMeansFinished ==
    [][\A r \in Requests :
          (at[r] = "reading" /\ phase = "serving" /\ phase' = "serving"
            /\ at'[r] = "idle" /\ failures = 0)
          => status[target[r]] \notin Unfinished]_vars

\* The life the API promises a solve, seen from its document: an id whose
\* creation was never stored, or whose document is deleted, is gone.
Life == [j \in Jobs |->
           IF status[j] # "absent" THEN status[j]
           ELSE IF creator[j] \in {"new", "inserting"} THEN "new"
           ELSE "gone"]

Lifecycle == INSTANCE SolveLifecycle WITH
    status <- Life,
    restarting <- phase \in {"down", "resuming"},
    Reliable <- MaxFailures = 0

\* Every document lives the life of SolveLifecycle, whatever the interleaving
\* of its runner with stops, deletes, crashes and restarts.
ImplementsLifecycle == Lifecycle!Spec

\* As the module doc of jobs.rs has it, of every stop that was answered before
\* the server exits: a solve "stopped by request ... is recorded before the
\* server exits".
LateStopIsRecorded ==
    phase = "drained" =>
        \A j \in Jobs : "stoppingLate" \in answers[j] => status[j] \notin Unfinished

\* As the comment in resume has it: "oldest first, so they run in the order
\* they were submitted".
ResumedRunInOrder ==
    [][\A j, k \in resumed :
          (j < k /\ runner[j] \in {"spawned", "waiting"})
          => ~(k \notin holders /\ k \in holders')]_vars

\* Every stored solve is finished or deleted in the end, if store calls do
\* not fail and the server is started again.
EverySolveSettles ==
    \A j \in Jobs : status[j] \in Unfinished ~> status[j] \notin Unfinished

\* A shutdown ends: drain is not kept waiting by queued or running jobs.
ShutdownEnds == phase = "stopping" ~> phase = "down"

\* Every stop and delete is answered: none waits for the lock for ever.
RequestsAreAnswered == \A r \in Requests : at[r] # "idle" ~> at[r] = "idle"
=============================================================================
