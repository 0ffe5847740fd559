--------------------------- MODULE SolveJobsProofs ---------------------------
(***************************************************************************)
(* Theorems about SolveJobs, for every number of jobs, requests, slots,    *)
(* starts and failures.                                                    *)
(*                                                                         *)
(* The invariants the server relies on are not inductive: why a runner may *)
(* run without looking at the map again follows from what its creator, the *)
(* requests that may still hold its entry and resume can have done.  Inv   *)
(* names those facts, and the later parts of this module rest on it:       *)
(*                                                                         *)
(*   - Inv: types, promises, places and the drain;                         *)
(*   - OpenInv, GoneInv, StartsInv: finished documents, counted searches,  *)
(*     an account's places;                                                *)
(*   - StopInv: a stop answered before the shutdown is on record after it; *)
(*   - KeptInv: an unfinished solve is never left alone;                   *)
(*   - FoundInv, RecordInv: each step is one of SolveLifecycle.            *)
(***************************************************************************)
EXTENDS SolveJobs, FiniteSetTheorems, TLAPS

Quiet == phase \in {"down", "resuming"}

\* What the types alone do not give: a search's end is recorded with an
\* outcome, and a start that is still to come will be counted in range.
RangeInv ==
    /\ \A j \in Jobs :
          /\ runner[j] \in {"recordEnd", "writeEnd"} =>
                outcome[j] \in {"done", "failed", "crashed"}
          /\ runner[j] \in BeforeRun => copy[j] < MaxAttempts
          /\ creator[j] # "done" => copy[j] = 0
    /\ phase = "resuming" =>
          boots > 0 /\ \A j \in resumed : attempts[j] < MaxAttempts

\* No task outlives the process, and resume runs before any task.
QuietInv ==
    Quiet => /\ live = {}
             /\ \A j \in Jobs :
                   /\ runner[j] = "none" /\ stage[j] = "queued" /\ ~notified[j]
                   /\ creator[j] \in {"new", "done"}
             /\ \A r \in Requests : at[r] = "idle"

\* Only stored documents are resumed, and only unfinished ones.
ResumeInv ==
    phase = "resuming" =>
        /\ todo \cap resumed = {}
        /\ \A j \in todo \cup resumed :
              creator[j] = "done" /\ status[j] \in Unfinished

DownInv == phase = "down" => todo = {} /\ resumed = {}

\* A solve has no document and no runner before its creator made them, and
\* nobody can ask about it.
CreatorInv ==
    \A j \in Jobs :
        /\ creator[j] \in {"new", "inserting"} =>
              /\ status[j] = "absent" /\ stage[j] = "queued" /\ ~notified[j]
              /\ answers[j] = {}
              /\ j \notin resumed
        /\ creator[j] # "done" => runner[j] = "none"

RequestInv ==
    \A r \in Requests : at[r] # "idle" =>
        creator[target[r]] \in {"starting", "done"}

\* Who has the lock.
LockInv ==
    \A r \in Requests : at[r] \in {"cancelling", "deleting"} =>
        /\ runner[target[r]] \notin {"writeStart", "writeEnd"}
        /\ \A q \in Requests :
              (at[q] \in {"cancelling", "deleting"} /\ target[q] = target[r]) => q = r

\* What the lock protects: a queued job stays queued while a stop cancels its
\* document, and a request forgets only a cancelled one.
StageInv ==
    /\ \A r \in Requests :
          /\ at[r] = "cancelling" => stage[target[r]] = "queued"
          /\ at[r] \in {"forgetCancelled", "forgetDeleted"} =>
                stage[target[r]] = "cancelled"
    /\ \A j \in Jobs :
          /\ runner[j] \in InRun => stage[j] = "running"
          /\ runner[j] \in BeforeRun => stage[j] # "running"
          /\ creator[j] # "done" => stage[j] # "running"
          /\ deleted[j] => stage[j] # "queued"

\* Where places and slots are.
PlaceInv ==
    /\ \A j \in Jobs :
          /\ runner[j] \in InRun => j \in live
          /\ runner[j] \in BeforeRun => j \in live \/ stage[j] = "cancelled"
          /\ runner[j] \in {"granted", "forgetting", "releasing"} \cup InRun =>
                j \in holders

\* A runner that is woken up from waiting is not the last to know its entry.
WakeInv ==
    \A j \in live : notified[j] =>
        \E r \in Requests :
            target[r] = j /\ at[r] \in {"forgetCancelled", "forgetDeleted"}

\* What has been promised of a solve is true of its document, and nothing is
\* left that could change it.
AnswerInv ==
    /\ \A j \in Jobs :
          /\ stage[j] = "cancelled" => status[j] \in {"cancelled", "absent"}
          /\ "deleted" \in answers[j] => status[j] = "absent"
          /\ "cancelled" \in answers[j] =>
                /\ status[j] \in {"cancelled", "absent"}
                /\ \/ stage[j] = "cancelled"
                   \/ runner[j] = "none" /\ creator[j] = "done" /\ j \notin resumed
    /\ \A r \in Requests : at[r] = "forgetDeleted" => status[target[r]] = "absent"

Inv ==
    /\ TypeOK
    /\ RangeInv
    /\ QuietInv
    /\ ResumeInv
    /\ DownInv
    /\ CreatorInv
    /\ RequestInv
    /\ LockInv
    /\ StageInv
    /\ PlaceInv
    /\ WakeInv
    /\ EveryPlaceHasAnOwner
    /\ AnswerInv
    /\ DrainedIsQuiet

-----------------------------------------------------------------------------

LEMMA CallFails ==
    ASSUME TypeOK, NEW o \in Calls, Call(o)
    PROVE  failures' \in Nat /\ failures' >= failures
  BY DEF TypeOK, Call

LEMMA TypeStep == Inv /\ [Next]_vars => TypeOK'
<1>. USE DEF Inv, TypeOK, store, entry, running, slots, asked, server, history,
             Statuses, Stages, RunnerAt, BeforeRun, InRun, Outcomes, CreatorAt,
             RequestAt, Answers, Phases, Waiters, Drain, Finished, Unfinished
<1>1. ASSUME Inv, NEW j \in Jobs, Creating(j) PROVE TypeOK'
  <2>1. CASE Admit(j)
    BY <1>1, <2>1 DEF Admit
  <2>2. ASSUME NEW o \in Calls, Insert(j, o) PROVE TypeOK'
    BY <1>1, <2>2, CallFails DEF Insert
  <2>3. CASE Start(j)
    BY <1>1, <2>3 DEF Start
  <2>. QED BY <1>1, <2>1, <2>2, <2>3 DEF Creating
<1>2. ASSUME Inv, NEW j \in Jobs, Running(j) PROVE TypeOK'
  <2>1. CASE Queue(j)
    BY <1>2, <2>1 DEF Queue, Waiting
  <2>2. CASE GiveUpWaiting(j)
    BY <1>2, <2>2 DEF GiveUpWaiting, Leave
  <2>3. ASSUME NEW o \in Calls, WriteStart(j, o) PROVE TypeOK'
    BY <1>2, <2>3, CallFails, SMTT(20) DEF WriteStart, Update
  <2>4. ASSUME NEW o \in Calls, WriteEnd(j, o) PROVE TypeOK'
    BY <1>2, <2>4, CallFails, LimitsAssumption DEF WriteEnd, Update, RangeInv
  <2>5. ASSUME NEW how \in Outcomes \ {"none"}, EndSearch(j, how) PROVE TypeOK'
    BY <1>2, <2>5 DEF EndSearch
  <2>6. CASE Decide(j)
    BY <1>2, <2>6, SMTT(20) DEF Decide
  <2>7. CASE Forget(j)
    BY <1>2, <2>7 DEF Forget, Forgotten
  <2>8. CASE ReleaseSlot(j)
    BY <1>2, <2>8, LimitsAssumption DEF ReleaseSlot, Released
  <2>. QED BY <1>2, <2>1, <2>2, <2>3, <2>4, <2>5, <2>6, <2>7, <2>8 DEF Running
<1>3. ASSUME Inv, NEW j \in Jobs, TakeSlot(j) PROVE TypeOK'
  <2>1. /\ runner \in [Jobs -> RunnerAt] /\ holders \subseteq Jobs
        /\ ahead \in [Waiters -> SUBSET Waiters]
    BY <1>3
  <2>2. /\ runner' \in [Jobs -> RunnerAt] /\ holders' \subseteq Jobs
        /\ ahead' \in [Waiters -> SUBSET Waiters]
    BY <1>3, <2>1 DEF TakeSlot, Leave
  <2>. QED BY <1>3, <2>2 DEF TakeSlot
<1>4. ASSUME Inv, NEW j \in Jobs, Locking(j) PROVE TypeOK'
  <2>1. CASE Begin(j)
    <3>1. /\ runner \in [Jobs -> RunnerAt] /\ stage \in [Jobs -> Stages]
          /\ copy \in [Jobs -> 0..MaxAttempts] /\ copy[j] < MaxAttempts
      BY <1>4, <2>1 DEF Begin, RangeInv
    <3>2. /\ runner' \in [Jobs -> RunnerAt] /\ stage' \in [Jobs -> Stages]
          /\ copy' \in [Jobs -> 0..MaxAttempts]
      BY <2>1, <3>1, LimitsAssumption DEF Begin, NextAttempt
    <3>. QED BY <1>4, <2>1, <3>2 DEF Begin
  <2>2. CASE RecordStart(j)
    BY <1>4, <2>2 DEF RecordStart, Record
  <2>3. CASE RecordEnd(j)
    BY <1>4, <2>3 DEF RecordEnd, Record
  <2>. QED BY <1>4, <2>1, <2>2, <2>3 DEF Locking
<1>5. ASSUME Inv, NEW r \in Requests, NEW j \in Jobs, AskStop(r, j) \/ AskDelete(r, j)
      PROVE TypeOK'
  <2>1. CASE AskStop(r, j)
    BY <1>5, <2>1 DEF AskStop, Ask
  <2>2. CASE AskDelete(r, j)
    BY <1>5, <2>2 DEF AskDelete, Ask
  <2>. QED BY <1>5, <2>1, <2>2
<1>6. ASSUME Inv, NEW r \in Requests, Serving(r) PROVE TypeOK'
  <2>1. ASSUME NEW o \in Calls, Cancel(r, o) PROVE TypeOK'
    <3>1. status' \in [Jobs -> Statuses] /\ attempts' \in [Jobs -> 0..MaxAttempts]
      BY <1>6, <2>1 DEF Cancel, Update, Step
    <3>2. at' \in [Requests -> RequestAt]
      BY <1>6, <2>1 DEF Cancel, Step
    <3>a. stage \in [Jobs -> Stages] /\ notified \in [Jobs -> BOOLEAN]
      BY <1>6
    <3>3. stage' \in [Jobs -> Stages] /\ notified' \in [Jobs -> BOOLEAN]
      BY <2>1, <3>a DEF Cancel
    <3>. QED BY <1>6, <2>1, <3>1, <3>2, <3>3, CallFails DEF Cancel, Step
  <2>2. ASSUME NEW o \in Calls, Delete(r, o) PROVE TypeOK'
    <3>1. status' \in [Jobs -> Statuses] /\ attempts' \in [Jobs -> 0..MaxAttempts]
      BY <1>6, <2>2, LimitsAssumption DEF Delete, Remove
    <3>2. at' \in [Requests -> RequestAt]
      BY <1>6, <2>2 DEF Delete, Step
    <3>3. answers' \in [Jobs -> SUBSET Answers]
      BY <1>6, <2>2 DEF Delete, Answer
    <3>4. CASE o = "ok"
      <4>a. /\ stage \in [Jobs -> Stages] /\ notified \in [Jobs -> BOOLEAN]
            /\ deleted \in [Jobs -> BOOLEAN] /\ stop \in [Jobs -> BOOLEAN]
        BY <1>6
      <4>1. stage' \in [Jobs -> Stages]
        BY <4>a, <2>2, <3>4 DEF Delete, Queued
      <4>2. notified' \in [Jobs -> BOOLEAN]
        BY <4>a, <2>2, <3>4 DEF Delete, Queued
      <4>3. deleted' \in [Jobs -> BOOLEAN] /\ stop' \in [Jobs -> BOOLEAN]
        BY <4>a, <2>2, <3>4 DEF Delete
      <4>4. /\ failures' \in Nat /\ target' = target
            /\ UNCHANGED <<live, creator, running, slots, server, starts>>
        BY <1>6, <2>2, CallFails DEF Delete, Step
      <4>. QED BY <1>6, <2>2, <3>1, <3>2, <3>3, <4>1, <4>2, <4>3, <4>4
    <3>5. CASE o # "ok"
      BY <1>6, <2>2, <3>1, <3>2, <3>3, <3>5, CallFails DEF Delete, Step
    <3>. QED BY <3>4, <3>5
  <2>3. ASSUME NEW o \in Calls, Erase(r, o) PROVE TypeOK'
    <3>1. store' \in [Jobs -> Statuses] \X [Jobs -> 0..MaxAttempts]
      BY <1>6, <2>3, LimitsAssumption DEF Erase, Remove, Statuses
    <3>2. answers' \in [Jobs -> SUBSET Answers]
      BY <1>6, <2>3 DEF Erase, Answer, Answers
    <3>3. /\ at' \in [Requests -> RequestAt]
          /\ UNCHANGED <<target, creator, running, slots, server, starts, live, entry>>
          /\ failures' \in Nat
      BY <1>6, <2>3, CallFails DEF Erase, Step, RequestAt
    <3>. QED BY <1>6, <3>1, <3>2, <3>3
  <2>4. CASE ForgetCancelled(r)
    BY <1>6, <2>4 DEF ForgetCancelled, Step, Answer
  <2>5. CASE ForgetDeleted(r)
    BY <1>6, <2>5 DEF ForgetDeleted, Step, Answer
  <2>6. CASE ReadForConflict(r)
    BY <1>6, <2>6 DEF ReadForConflict, Step
  <2>. QED BY <1>6, <2>1, <2>2, <2>3, <2>4, <2>5, <2>6 DEF Serving
<1>7. ASSUME Inv, NEW r \in Requests, Acquiring(r) PROVE TypeOK'
  <2>1. CASE StopRunning(r)
    BY <1>7, <2>1 DEF StopRunning, Step, Answer
  <2>2. CASE StopCancelled(r)
    BY <1>7, <2>2 DEF StopCancelled, Step, Answer
  <2>3. CASE StopQueued(r)
    BY <1>7, <2>3 DEF StopQueued, Step
  <2>4. CASE LockToDelete(r)
    BY <1>7, <2>4 DEF LockToDelete, Step
  <2>. QED BY <1>7, <2>1, <2>2, <2>3, <2>4 DEF Acquiring
<1>8. ASSUME Inv, Starting PROVE TypeOK'
  <2>1. CASE Boot
    BY <1>8, <2>1 DEF Boot, ToResume
  <2>2. ASSUME NEW j \in Jobs, NEW o \in Calls, Resume(j, o) PROVE TypeOK'
    BY <1>8, <2>2, CallFails DEF Resume, Update, RangeInv
  <2>3. CASE EnqueueAll
    BY <1>8, <2>3 DEF EnqueueAll, RangeInv
  <2>. QED BY <1>8, <2>1, <2>2, <2>3 DEF Starting
<1>9. ASSUME Inv, Stopping PROVE TypeOK'
  <2>1. CASE BeginDrain
    BY <1>9, <2>1 DEF BeginDrain, Waiting
  <2>2. CASE EndDrain
    BY <1>9, <2>2 DEF EndDrain, Leave
  <2>3. CASE Exit
    BY <1>9, <2>3, LimitsAssumption DEF Exit, LoseMemory
  <2>. QED BY <1>9, <2>1, <2>2, <2>3 DEF Stopping
<1>10. ASSUME Inv, Shutdown PROVE TypeOK'
  BY <1>10 DEF Shutdown
<1>11. ASSUME Inv, Crash PROVE TypeOK'
  BY <1>11, LimitsAssumption DEF Crash, LoseMemory
<1>12. ASSUME Inv, UNCHANGED vars PROVE TypeOK'
  BY <1>12 DEF vars
<1>. QED BY <1>1, <1>2, <1>3, <1>4, <1>5, <1>6, <1>7, <1>8, <1>9, <1>10,
     <1>11, <1>12 DEF Next

LEMMA RangeStep == Inv /\ [Next]_vars => RangeInv'
<1>. USE DEF Inv, RangeInv, TypeOK, store, entry, running, slots, asked,
             server, history, BeforeRun, Up
<1>1. ASSUME Inv, NEW j \in Jobs, Creating(j) PROVE RangeInv'
  <2>1. CASE Admit(j)
    BY <1>1, <2>1 DEF Admit
  <2>2. ASSUME NEW o \in Calls, Insert(j, o) PROVE RangeInv'
    BY <1>1, <2>2 DEF Insert
  <2>3. CASE Start(j)
    BY <1>1, <2>3, LimitsAssumption DEF Start, CreatorInv
  <2>. QED BY <1>1, <2>1, <2>2, <2>3 DEF Creating
<1>2. ASSUME Inv, NEW j \in Jobs, Running(j) PROVE RangeInv'
  <2>1. CASE Queue(j)
    BY <1>2, <2>1 DEF Queue
  <2>2. CASE GiveUpWaiting(j)
    BY <1>2, <2>2 DEF GiveUpWaiting
  <2>3. ASSUME NEW o \in Calls, WriteStart(j, o) PROVE RangeInv'
    BY <1>2, <2>3 DEF WriteStart, InRun
  <2>4. ASSUME NEW o \in Calls, WriteEnd(j, o) PROVE RangeInv'
    BY <1>2, <2>4 DEF WriteEnd
  <2>5. ASSUME NEW how \in Outcomes \ {"none"}, EndSearch(j, how) PROVE RangeInv'
    BY <1>2, <2>5 DEF EndSearch, Outcomes
  <2>6. CASE Decide(j)
    BY <1>2, <2>6 DEF Decide
  <2>7. CASE Forget(j)
    BY <1>2, <2>7 DEF Forget, Forgotten
  <2>8. CASE ReleaseSlot(j)
    BY <1>2, <2>8 DEF ReleaseSlot, Released
  <2>. QED BY <1>2, <2>1, <2>2, <2>3, <2>4, <2>5, <2>6, <2>7, <2>8 DEF Running
<1>3. ASSUME Inv, NEW j \in Jobs, TakeSlot(j) PROVE RangeInv'
  BY <1>3 DEF TakeSlot
<1>4. ASSUME Inv, NEW j \in Jobs, Locking(j) PROVE RangeInv'
  <2>1. CASE Begin(j)
    BY <1>4, <2>1 DEF Begin, NextAttempt, CreatorInv, InRun
  <2>2. CASE RecordStart(j)
    BY <1>4, <2>2 DEF RecordStart, Record, InRun
  <2>3. CASE RecordEnd(j)
    BY <1>4, <2>3 DEF RecordEnd, Record
  <2>. QED BY <1>4, <2>1, <2>2, <2>3 DEF Locking
<1>5. ASSUME Inv, NEW r \in Requests, NEW j \in Jobs, AskStop(r, j) \/ AskDelete(r, j)
      PROVE RangeInv'
  BY <1>5 DEF AskStop, AskDelete, Ask
<1>6. ASSUME Inv, NEW r \in Requests, Serving(r) PROVE RangeInv'
  <2>1. ASSUME NEW o \in Calls, Cancel(r, o) PROVE RangeInv'
    BY <1>6, <2>1 DEF Cancel, Step
  <2>2. ASSUME NEW o \in Calls, Delete(r, o) PROVE RangeInv'
    BY <1>6, <2>2 DEF Delete, Step
  <2>3. ASSUME NEW o \in Calls, Erase(r, o) PROVE RangeInv'
    BY <1>6, <2>3 DEF Erase, Step
  <2>4. CASE ForgetCancelled(r)
    BY <1>6, <2>4 DEF ForgetCancelled, Step
  <2>5. CASE ForgetDeleted(r)
    BY <1>6, <2>5 DEF ForgetDeleted, Step
  <2>6. CASE ReadForConflict(r)
    BY <1>6, <2>6 DEF ReadForConflict, Step
  <2>. QED BY <1>6, <2>1, <2>2, <2>3, <2>4, <2>5, <2>6 DEF Serving
<1>7. ASSUME Inv, NEW r \in Requests, Acquiring(r) PROVE RangeInv'
  BY <1>7 DEF Acquiring, StopRunning, Step, StopCancelled, StopQueued,
     LockToDelete
<1>8. ASSUME Inv, Starting PROVE RangeInv'
  <2>1. CASE Boot
    BY <1>8, <2>1, BoundsAssumption DEF Boot, ToResume, DownInv
  <2>2. ASSUME NEW j \in Jobs, NEW o \in Calls, Resume(j, o) PROVE RangeInv'
    <3>1. ASSUME NEW k \in Jobs PROVE attempts'[k] = attempts[k]
      BY <1>8, <2>2 DEF Resume, Update
    <3>2. CASE o = "ok" /\ ~Spent(attempts[j])
      BY <1>8, <2>2, <3>1, <3>2, LimitsAssumption DEF Resume, Spent
    <3>3. CASE o = "ok" /\ Spent(attempts[j])
      BY <1>8, <2>2, <3>1, <3>3 DEF Resume
    <3>4. CASE o # "ok"
      BY <1>8, <2>2, <3>1, <3>4 DEF Resume
    <3>. QED BY <3>2, <3>3, <3>4
  <2>3. CASE EnqueueAll
    BY <1>8, <2>3 DEF EnqueueAll, ResumeInv
  <2>. QED BY <1>8, <2>1, <2>2, <2>3 DEF Starting
<1>9. ASSUME Inv, Stopping PROVE RangeInv'
  BY <1>9 DEF Stopping, BeginDrain, EndDrain, Exit, LoseMemory
<1>10. ASSUME Inv, Shutdown PROVE RangeInv'
  BY <1>10 DEF Shutdown
<1>11. ASSUME Inv, Crash PROVE RangeInv'
  BY <1>11 DEF Crash, LoseMemory
<1>12. ASSUME Inv, UNCHANGED vars PROVE RangeInv'
  BY <1>12 DEF vars
<1>. QED BY <1>1, <1>2, <1>3, <1>4, <1>5, <1>6, <1>7, <1>8, <1>9, <1>10,
     <1>11, <1>12 DEF Next

LEMMA QuietStep == Inv /\ [Next]_vars => QuietInv'
<1>. USE DEF Inv, QuietInv, Quiet, store, entry, running, slots, asked,
             server, history, Up, Handling
<1>1. ASSUME Inv, NEW j \in Jobs, Creating(j) PROVE QuietInv'
  BY <1>1 DEF Creating, Admit, Insert, Start
<1>2. ASSUME Inv, NEW j \in Jobs, Running(j) PROVE QuietInv'
  BY <1>2 DEF Running, Queue, GiveUpWaiting, WriteStart, WriteEnd, EndSearch,
     Decide, Forget, Forgotten, ReleaseSlot, Released
<1>3. ASSUME Inv, NEW j \in Jobs, TakeSlot(j) PROVE QuietInv'
  BY <1>3 DEF TakeSlot
<1>4. ASSUME Inv, NEW j \in Jobs, Locking(j) PROVE QuietInv'
  BY <1>4 DEF Locking, Begin, RecordStart, Record, RecordEnd
<1>5. ASSUME Inv, NEW r \in Requests, NEW j \in Jobs, AskStop(r, j) \/ AskDelete(r, j)
      PROVE QuietInv'
  BY <1>5 DEF AskStop, AskDelete, Ask
<1>6. ASSUME Inv, NEW r \in Requests, Serving(r) PROVE QuietInv'
  BY <1>6 DEF Serving, Cancel, Step, Delete, Erase, ForgetCancelled,
     ForgetDeleted, ReadForConflict
<1>7. ASSUME Inv, NEW r \in Requests, Acquiring(r) PROVE QuietInv'
  BY <1>7 DEF Acquiring, StopRunning, Step, StopCancelled, StopQueued,
     LockToDelete
<1>8. ASSUME Inv, Starting PROVE QuietInv'
  BY <1>8 DEF Starting, Boot, ToResume, Resume, EnqueueAll
<1>9. ASSUME Inv, Stopping PROVE QuietInv'
  <2>1. CASE BeginDrain
    BY <1>9, <2>1 DEF BeginDrain
  <2>2. CASE EndDrain
    BY <1>9, <2>2 DEF EndDrain
  <2>3. CASE Exit
    BY <1>9, <2>3 DEF Exit, LoseMemory
  <2>. QED BY <1>9, <2>1, <2>2, <2>3 DEF Stopping
<1>10. ASSUME Inv, Shutdown PROVE QuietInv'
  BY <1>10 DEF Shutdown
<1>11. ASSUME Inv, Crash PROVE QuietInv'
  BY <1>11 DEF Crash, LoseMemory
<1>12. ASSUME Inv, UNCHANGED vars PROVE QuietInv'
  BY <1>12 DEF vars
<1>. QED BY <1>1, <1>2, <1>3, <1>4, <1>5, <1>6, <1>7, <1>8, <1>9, <1>10,
     <1>11, <1>12 DEF Next

LEMMA ResumeStep == Inv /\ [Next]_vars => ResumeInv'
<1>. USE DEF Inv, ResumeInv, TypeOK, store, entry, running, slots, asked,
             server, history, Up, Handling, Unfinished
<1>1. ASSUME Inv, NEW j \in Jobs, Creating(j) PROVE ResumeInv'
  BY <1>1 DEF Creating, Admit, Insert, Start
<1>2. ASSUME Inv, NEW j \in Jobs, Running(j) PROVE ResumeInv'
  BY <1>2 DEF Running, Queue, GiveUpWaiting, WriteStart, WriteEnd, EndSearch,
     Decide, Forget, Forgotten, ReleaseSlot, Released
<1>3. ASSUME Inv, NEW j \in Jobs, TakeSlot(j) PROVE ResumeInv'
  BY <1>3 DEF TakeSlot
<1>4. ASSUME Inv, NEW j \in Jobs, Locking(j) PROVE ResumeInv'
  BY <1>4 DEF Locking, Begin, RecordStart, Record, RecordEnd
<1>5. ASSUME Inv, NEW r \in Requests, NEW j \in Jobs, AskStop(r, j) \/ AskDelete(r, j)
      PROVE ResumeInv'
  BY <1>5 DEF AskStop, AskDelete, Ask
<1>6. ASSUME Inv, NEW r \in Requests, Serving(r) PROVE ResumeInv'
  BY <1>6 DEF Serving, Cancel, Step, Delete, Erase, ForgetCancelled,
     ForgetDeleted, ReadForConflict
<1>7. ASSUME Inv, NEW r \in Requests, Acquiring(r) PROVE ResumeInv'
  BY <1>7 DEF Acquiring, StopRunning, Step, StopCancelled, StopQueued,
     LockToDelete
<1>8. ASSUME Inv, Starting PROVE ResumeInv'
  <2>1. CASE Boot
    BY <1>8, <2>1 DEF Boot, ToResume, DownInv, QuietInv, Quiet, CreatorInv
  <2>2. ASSUME NEW j \in Jobs, NEW o \in Calls, Resume(j, o) PROVE ResumeInv'
    <3>1. CASE o = "ok"
      <4>1. ASSUME NEW k \in todo' \cup resumed' PROVE k \in todo \cup resumed
        BY <1>8, <2>2, <3>1 DEF Resume
      <4>2. ASSUME NEW k \in (todo \cup resumed) \ {j} PROVE status'[k] = status[k]
        BY <1>8, <2>2 DEF Resume, Update
      <4>3. CASE Spent(attempts[j])
        BY <1>8, <2>2, <3>1, <4>1, <4>2, <4>3 DEF Resume
      <4>4. CASE ~Spent(attempts[j])
        <5>1. status'[j] = "pending"
          BY <1>8, <2>2, <4>4, BoundsAssumption, <3>1 DEF Resume, Update, Applied
        <5>. QED BY <1>8, <2>2, <3>1, <4>1, <4>2, <4>4, <5>1 DEF Resume
      <4>. QED BY <4>3, <4>4
    <3>2. CASE o # "ok"
      BY <1>8, <2>2, <3>2 DEF Resume
    <3>. QED BY <3>1, <3>2
  <2>3. CASE EnqueueAll
    BY <1>8, <2>3 DEF EnqueueAll
  <2>. QED BY <1>8, <2>1, <2>2, <2>3 DEF Starting
<1>9. ASSUME Inv, Stopping PROVE ResumeInv'
  BY <1>9 DEF Stopping, BeginDrain, EndDrain, Exit, LoseMemory
<1>10. ASSUME Inv, Shutdown PROVE ResumeInv'
  BY <1>10 DEF Shutdown
<1>11. ASSUME Inv, Crash PROVE ResumeInv'
  BY <1>11 DEF Crash, LoseMemory
<1>12. ASSUME Inv, UNCHANGED vars PROVE ResumeInv'
  BY <1>12 DEF vars
<1>. QED BY <1>1, <1>2, <1>3, <1>4, <1>5, <1>6, <1>7, <1>8, <1>9, <1>10,
     <1>11, <1>12 DEF Next

LEMMA DownStep == Inv /\ [Next]_vars => DownInv'
<1>. USE DEF Inv, DownInv, TypeOK, store, entry, running, slots, asked,
             server, history, Up, Handling
<1>1. ASSUME Inv, NEW j \in Jobs, Creating(j) PROVE DownInv'
  BY <1>1 DEF Creating, Admit, Insert, Start
<1>2. ASSUME Inv, NEW j \in Jobs, Running(j) PROVE DownInv'
  BY <1>2 DEF Running, Queue, GiveUpWaiting, WriteStart, WriteEnd, EndSearch,
     Decide, Forget, Forgotten, ReleaseSlot, Released
<1>3. ASSUME Inv, NEW j \in Jobs, TakeSlot(j) PROVE DownInv'
  BY <1>3 DEF TakeSlot
<1>4. ASSUME Inv, NEW j \in Jobs, Locking(j) PROVE DownInv'
  BY <1>4 DEF Locking, Begin, RecordStart, Record, RecordEnd
<1>5. ASSUME Inv, NEW r \in Requests, NEW j \in Jobs, AskStop(r, j) \/ AskDelete(r, j)
      PROVE DownInv'
  BY <1>5 DEF AskStop, AskDelete, Ask
<1>6. ASSUME Inv, NEW r \in Requests, Serving(r) PROVE DownInv'
  BY <1>6 DEF Serving, Cancel, Step, Delete, Erase, ForgetCancelled,
     ForgetDeleted, ReadForConflict
<1>7. ASSUME Inv, NEW r \in Requests, Acquiring(r) PROVE DownInv'
  BY <1>7 DEF Acquiring, StopRunning, Step, StopCancelled, StopQueued,
     LockToDelete
<1>8. ASSUME Inv, Starting PROVE DownInv'
  BY <1>8 DEF Starting, Boot, ToResume, Resume, EnqueueAll
<1>9. ASSUME Inv, Stopping PROVE DownInv'
  BY <1>9 DEF Stopping, BeginDrain, EndDrain, Exit, LoseMemory
<1>10. ASSUME Inv, Shutdown PROVE DownInv'
  BY <1>10 DEF Shutdown
<1>11. ASSUME Inv, Crash PROVE DownInv'
  BY <1>11 DEF Crash, LoseMemory
<1>12. ASSUME Inv, UNCHANGED vars PROVE DownInv'
  BY <1>12 DEF vars
<1>. QED BY <1>1, <1>2, <1>3, <1>4, <1>5, <1>6, <1>7, <1>8, <1>9, <1>10,
     <1>11, <1>12 DEF Next

LEMMA CreatorStep == Inv /\ [Next]_vars => CreatorInv'
<1>. USE DEF Inv, CreatorInv, TypeOK, store, entry, running, slots, asked,
             server, history, RequestInv
<1>1. ASSUME Inv, NEW j \in Jobs, Creating(j) PROVE CreatorInv'
  BY <1>1 DEF Creating, Admit, Insert, Start
<1>2. ASSUME Inv, NEW j \in Jobs, Running(j) PROVE CreatorInv'
  <2>1. CASE Queue(j)
    BY <1>2, <2>1 DEF Queue
  <2>2. CASE GiveUpWaiting(j)
    BY <1>2, <2>2 DEF GiveUpWaiting
  <2>3. ASSUME NEW o \in Calls, WriteStart(j, o) PROVE CreatorInv'
    BY <1>2, <2>3 DEF WriteStart, Update
  <2>4. ASSUME NEW o \in Calls, WriteEnd(j, o) PROVE CreatorInv'
    BY <1>2, <2>4 DEF WriteEnd, Update
  <2>5. ASSUME NEW how \in Outcomes \ {"none"}, EndSearch(j, how) PROVE CreatorInv'
    BY <1>2, <2>5 DEF EndSearch
  <2>6. CASE Decide(j)
    BY <1>2, <2>6 DEF Decide
  <2>7. CASE Forget(j)
    BY <1>2, <2>7 DEF Forget, Forgotten
  <2>8. CASE ReleaseSlot(j)
    BY <1>2, <2>8 DEF ReleaseSlot, Released
  <2>. QED BY <1>2, <2>1, <2>2, <2>3, <2>4, <2>5, <2>6, <2>7, <2>8 DEF Running
<1>3. ASSUME Inv, NEW j \in Jobs, TakeSlot(j) PROVE CreatorInv'
  BY <1>3 DEF TakeSlot
<1>4. ASSUME Inv, NEW j \in Jobs, Locking(j) PROVE CreatorInv'
  BY <1>4 DEF Locking, Begin, RecordStart, Record, RecordEnd
<1>5. ASSUME Inv, NEW r \in Requests, NEW j \in Jobs, AskStop(r, j) \/ AskDelete(r, j)
      PROVE CreatorInv'
  BY <1>5 DEF AskStop, AskDelete, Ask
<1>6. ASSUME Inv, NEW r \in Requests, Serving(r) PROVE CreatorInv'
  <2>1. ASSUME NEW o \in Calls, Cancel(r, o) PROVE CreatorInv'
    BY <1>6, <2>1 DEF Cancel, Step, Update
  <2>2. ASSUME NEW o \in Calls, Delete(r, o) PROVE CreatorInv'
    BY <1>6, <2>2 DEF Delete, Step, Remove, Answer
  <2>3. ASSUME NEW o \in Calls, Erase(r, o) PROVE CreatorInv'
    BY <1>6, <2>3 DEF Erase, Step, Remove, Answer
  <2>4. CASE ForgetCancelled(r)
    BY <1>6, <2>4 DEF ForgetCancelled, Step, Answer
  <2>5. CASE ForgetDeleted(r)
    BY <1>6, <2>5 DEF ForgetDeleted, Step, Answer
  <2>6. CASE ReadForConflict(r)
    BY <1>6, <2>6 DEF ReadForConflict, Step
  <2>. QED BY <1>6, <2>1, <2>2, <2>3, <2>4, <2>5, <2>6 DEF Serving
<1>7. ASSUME Inv, NEW r \in Requests, Acquiring(r) PROVE CreatorInv'
  <2>1. CASE StopRunning(r)
    BY <1>7, <2>1 DEF StopRunning, Step, Answer
  <2>2. CASE StopCancelled(r)
    BY <1>7, <2>2 DEF StopCancelled, Step, Answer
  <2>3. CASE StopQueued(r)
    BY <1>7, <2>3 DEF StopQueued, Step
  <2>4. CASE LockToDelete(r)
    BY <1>7, <2>4 DEF LockToDelete, Step
  <2>. QED BY <1>7, <2>1, <2>2, <2>3, <2>4 DEF Acquiring
<1>8. ASSUME Inv, Starting PROVE CreatorInv'
  <2>1. CASE Boot
    BY <1>8, <2>1 DEF Boot, ToResume
  <2>2. ASSUME NEW j \in Jobs, NEW o \in Calls, Resume(j, o) PROVE CreatorInv'
    BY <1>8, <2>2 DEF Resume, Update, ResumeInv
  <2>3. CASE EnqueueAll
    BY <1>8, <2>3 DEF EnqueueAll, ResumeInv
  <2>. QED BY <1>8, <2>1, <2>2, <2>3 DEF Starting
<1>9. ASSUME Inv, Stopping PROVE CreatorInv'
  BY <1>9 DEF Stopping, BeginDrain, EndDrain, Exit, LoseMemory
<1>10. ASSUME Inv, Shutdown PROVE CreatorInv'
  BY <1>10 DEF Shutdown
<1>11. ASSUME Inv, Crash PROVE CreatorInv'
  BY <1>11 DEF Crash, LoseMemory, QuietInv, Quiet
<1>12. ASSUME Inv, UNCHANGED vars PROVE CreatorInv'
  BY <1>12 DEF vars
<1>. QED BY <1>1, <1>2, <1>3, <1>4, <1>5, <1>6, <1>7, <1>8, <1>9, <1>10,
     <1>11, <1>12 DEF Next

LEMMA RequestStep == Inv /\ [Next]_vars => RequestInv'
<1>. USE DEF Inv, RequestInv, TypeOK, store, entry, running, slots, asked,
             server, history, Known, CreatorInv, CreatorAt
<1>1. ASSUME Inv, NEW j \in Jobs, Creating(j) PROVE RequestInv'
  BY <1>1 DEF Creating, Admit, Insert, Start
<1>2. ASSUME Inv, NEW j \in Jobs, Running(j) PROVE RequestInv'
  BY <1>2 DEF Running, Queue, GiveUpWaiting, WriteStart, WriteEnd, EndSearch,
     Decide, Forget, Forgotten, ReleaseSlot, Released
<1>3. ASSUME Inv, NEW j \in Jobs, TakeSlot(j) PROVE RequestInv'
  BY <1>3 DEF TakeSlot
<1>4. ASSUME Inv, NEW j \in Jobs, Locking(j) PROVE RequestInv'
  BY <1>4 DEF Locking, Begin, RecordStart, Record, RecordEnd
<1>5. ASSUME Inv, NEW r \in Requests, NEW j \in Jobs, AskStop(r, j) \/ AskDelete(r, j)
      PROVE RequestInv'
  BY <1>5 DEF AskStop, AskDelete, Ask
<1>6. ASSUME Inv, NEW r \in Requests, Serving(r) PROVE RequestInv'
  BY <1>6 DEF Serving, Cancel, Step, Delete, Erase, ForgetCancelled,
     ForgetDeleted, ReadForConflict
<1>7. ASSUME Inv, NEW r \in Requests, Acquiring(r) PROVE RequestInv'
  BY <1>7 DEF Acquiring, StopRunning, Step, StopCancelled, StopQueued,
     LockToDelete
<1>8. ASSUME Inv, Starting PROVE RequestInv'
  BY <1>8 DEF Starting, Boot, ToResume, Resume, EnqueueAll
<1>9. ASSUME Inv, Stopping PROVE RequestInv'
  BY <1>9 DEF Stopping, BeginDrain, EndDrain, Exit, LoseMemory
<1>10. ASSUME Inv, Shutdown PROVE RequestInv'
  BY <1>10 DEF Shutdown
<1>11. ASSUME Inv, Crash PROVE RequestInv'
  BY <1>11 DEF Crash, LoseMemory
<1>12. ASSUME Inv, UNCHANGED vars PROVE RequestInv'
  BY <1>12 DEF vars
<1>. QED BY <1>1, <1>2, <1>3, <1>4, <1>5, <1>6, <1>7, <1>8, <1>9, <1>10,
     <1>11, <1>12 DEF Next

LEMMA LockStep == Inv /\ [Next]_vars => LockInv'
<1>. USE DEF Inv, LockInv, TypeOK, store, entry, running, slots, asked,
             server, history, LockFree
<1>1. ASSUME Inv, NEW j \in Jobs, Creating(j) PROVE LockInv'
  <2>1. CASE Admit(j)
    BY <1>1, <2>1 DEF Admit
  <2>2. ASSUME NEW o \in Calls, Insert(j, o) PROVE LockInv'
    BY <1>1, <2>2 DEF Insert
  <2>3. CASE Start(j)
    BY <1>1, <2>3 DEF Start, CreatorInv
  <2>. QED BY <1>1, <2>1, <2>2, <2>3 DEF Creating
<1>2. ASSUME Inv, NEW j \in Jobs, Running(j) PROVE LockInv'
  BY <1>2 DEF Running, Queue, GiveUpWaiting, WriteStart, WriteEnd, EndSearch,
     Decide, Forget, Forgotten, ReleaseSlot, Released
<1>3. ASSUME Inv, NEW j \in Jobs, TakeSlot(j) PROVE LockInv'
  BY <1>3 DEF TakeSlot
<1>4. ASSUME Inv, NEW j \in Jobs, Locking(j) PROVE LockInv'
  BY <1>4 DEF Locking, Begin, RecordStart, Record, RecordEnd
<1>5. ASSUME Inv, NEW r \in Requests, NEW j \in Jobs, AskStop(r, j) \/ AskDelete(r, j)
      PROVE LockInv'
  BY <1>5 DEF AskStop, AskDelete, Ask
<1>6. ASSUME Inv, NEW r \in Requests, Serving(r) PROVE LockInv'
  BY <1>6 DEF Serving, Cancel, Step, Delete, Erase, ForgetCancelled,
     ForgetDeleted, ReadForConflict
<1>7. ASSUME Inv, NEW r \in Requests, Acquiring(r) PROVE LockInv'
  BY <1>7 DEF Acquiring, StopRunning, Step, StopCancelled, StopQueued,
     LockToDelete
<1>8. ASSUME Inv, Starting PROVE LockInv'
  <2>1. CASE Boot
    BY <1>8, <2>1 DEF Boot, ToResume
  <2>2. ASSUME NEW j \in Jobs, NEW o \in Calls, Resume(j, o) PROVE LockInv'
    BY <1>8, <2>2 DEF Resume
  <2>3. CASE EnqueueAll
    BY <1>8, <2>3 DEF EnqueueAll, QuietInv, Quiet
  <2>. QED BY <1>8, <2>1, <2>2, <2>3 DEF Starting
<1>9. ASSUME Inv, Stopping PROVE LockInv'
  BY <1>9 DEF Stopping, BeginDrain, EndDrain, Exit, LoseMemory
<1>10. ASSUME Inv, Shutdown PROVE LockInv'
  BY <1>10 DEF Shutdown
<1>11. ASSUME Inv, Crash PROVE LockInv'
  BY <1>11 DEF Crash, LoseMemory
<1>12. ASSUME Inv, UNCHANGED vars PROVE LockInv'
  BY <1>12 DEF vars
<1>. QED BY <1>1, <1>2, <1>3, <1>4, <1>5, <1>6, <1>7, <1>8, <1>9, <1>10,
     <1>11, <1>12 DEF Next

LEMMA StageStep == Inv /\ [Next]_vars => StageInv'
<1>. USE DEF Inv, StageInv, TypeOK, store, entry, running, slots, asked,
             server, history, BeforeRun, InRun, LockFree, LockInv, CreatorInv
<1>1. ASSUME Inv, NEW j \in Jobs, Creating(j) PROVE StageInv'
  <2>1. CASE Admit(j)
    BY <1>1, <2>1 DEF Admit
  <2>2. ASSUME NEW o \in Calls, Insert(j, o) PROVE StageInv'
    BY <1>1, <2>2 DEF Insert, RequestInv
  <2>3. CASE Start(j)
    BY <1>1, <2>3 DEF Start
  <2>. QED BY <1>1, <2>1, <2>2, <2>3 DEF Creating
<1>2. ASSUME Inv, NEW j \in Jobs, Running(j) PROVE StageInv'
  BY <1>2 DEF Running, Queue, GiveUpWaiting, WriteStart, WriteEnd, EndSearch,
     Decide, Forget, Forgotten, ReleaseSlot, Released
<1>3. ASSUME Inv, NEW j \in Jobs, TakeSlot(j) PROVE StageInv'
  BY <1>3 DEF TakeSlot
<1>4. ASSUME Inv, NEW j \in Jobs, Locking(j) PROVE StageInv'
  <2>1. CASE Begin(j)
    BY <1>4, <2>1 DEF Begin, MustNotRun
  <2>2. CASE RecordStart(j)
    BY <1>4, <2>2 DEF RecordStart, Record
  <2>3. CASE RecordEnd(j)
    BY <1>4, <2>3 DEF RecordEnd, Record
  <2>. QED BY <1>4, <2>1, <2>2, <2>3 DEF Locking
<1>5. ASSUME Inv, NEW r \in Requests, NEW j \in Jobs, AskStop(r, j) \/ AskDelete(r, j)
      PROVE StageInv'
  BY <1>5 DEF AskStop, AskDelete, Ask
<1>6. ASSUME Inv, NEW r \in Requests, Serving(r) PROVE StageInv'
  <2>1. ASSUME NEW o \in Calls, Cancel(r, o) PROVE StageInv'
    BY <1>6, <2>1 DEF Cancel, Step
  <2>2. ASSUME NEW o \in Calls, Delete(r, o) PROVE StageInv'
    BY <1>6, <2>2, SMTT(20) DEF Delete, Step, Queued
  <2>3. ASSUME NEW o \in Calls, Erase(r, o) PROVE StageInv'
    BY <1>6, <2>3 DEF Erase, Step
  <2>4. CASE ForgetCancelled(r)
    BY <1>6, <2>4 DEF ForgetCancelled, Step
  <2>5. CASE ForgetDeleted(r)
    BY <1>6, <2>5 DEF ForgetDeleted, Step
  <2>6. CASE ReadForConflict(r)
    BY <1>6, <2>6 DEF ReadForConflict, Step
  <2>. QED BY <1>6, <2>1, <2>2, <2>3, <2>4, <2>5, <2>6 DEF Serving
<1>7. ASSUME Inv, NEW r \in Requests, Acquiring(r) PROVE StageInv'
  BY <1>7 DEF Acquiring, StopRunning, Step, StopCancelled, StopQueued,
     LockToDelete
<1>8. ASSUME Inv, Starting PROVE StageInv'
  <2>1. CASE Boot
    BY <1>8, <2>1 DEF Boot, ToResume
  <2>2. ASSUME NEW j \in Jobs, NEW o \in Calls, Resume(j, o) PROVE StageInv'
    BY <1>8, <2>2 DEF Resume
  <2>3. CASE EnqueueAll
    BY <1>8, <2>3 DEF EnqueueAll, QuietInv, Quiet
  <2>. QED BY <1>8, <2>1, <2>2, <2>3 DEF Starting
<1>9. ASSUME Inv, Stopping PROVE StageInv'
  BY <1>9 DEF Stopping, BeginDrain, EndDrain, Exit, LoseMemory
<1>10. ASSUME Inv, Shutdown PROVE StageInv'
  BY <1>10 DEF Shutdown
<1>11. ASSUME Inv, Crash PROVE StageInv'
  BY <1>11 DEF Crash, LoseMemory
<1>12. ASSUME Inv, UNCHANGED vars PROVE StageInv'
  BY <1>12 DEF vars
<1>. QED BY <1>1, <1>2, <1>3, <1>4, <1>5, <1>6, <1>7, <1>8, <1>9, <1>10,
     <1>11, <1>12 DEF Next

LEMMA PlaceStep == Inv /\ [Next]_vars => PlaceInv'
<1>. USE DEF Inv, PlaceInv, TypeOK, store, entry, running, slots, asked,
             server, history, BeforeRun, InRun, StageInv, CreatorInv
<1>1. ASSUME Inv, NEW j \in Jobs, Creating(j) PROVE PlaceInv'
  BY <1>1 DEF Creating, Admit, Insert, Start
<1>2. ASSUME Inv, NEW j \in Jobs, Running(j) PROVE PlaceInv'
  BY <1>2 DEF Running, Queue, GiveUpWaiting, WriteStart, WriteEnd, EndSearch,
     Decide, Forget, Forgotten, ReleaseSlot, Released
<1>3. ASSUME Inv, NEW j \in Jobs, TakeSlot(j) PROVE PlaceInv'
  BY <1>3 DEF TakeSlot
<1>4. ASSUME Inv, NEW j \in Jobs, Locking(j) PROVE PlaceInv'
  <2>1. CASE Begin(j)
    BY <1>4, <2>1 DEF Begin, MustNotRun
  <2>2. CASE RecordStart(j)
    BY <1>4, <2>2 DEF RecordStart, Record
  <2>3. CASE RecordEnd(j)
    BY <1>4, <2>3 DEF RecordEnd, Record
  <2>. QED BY <1>4, <2>1, <2>2, <2>3 DEF Locking
<1>5. ASSUME Inv, NEW r \in Requests, NEW j \in Jobs, AskStop(r, j) \/ AskDelete(r, j)
      PROVE PlaceInv'
  BY <1>5 DEF AskStop, AskDelete, Ask
<1>6. ASSUME Inv, NEW r \in Requests, Serving(r) PROVE PlaceInv'
  <2>1. ASSUME NEW o \in Calls, Cancel(r, o) PROVE PlaceInv'
    BY <1>6, <2>1 DEF Cancel, Step
  <2>2. ASSUME NEW o \in Calls, Delete(r, o) PROVE PlaceInv'
    BY <1>6, <2>2 DEF Delete, Step, Queued
  <2>3. ASSUME NEW o \in Calls, Erase(r, o) PROVE PlaceInv'
    BY <1>6, <2>3 DEF Erase, Step
  <2>4. CASE ForgetCancelled(r)
    BY <1>6, <2>4 DEF ForgetCancelled, Step
  <2>5. CASE ForgetDeleted(r)
    BY <1>6, <2>5 DEF ForgetDeleted, Step
  <2>6. CASE ReadForConflict(r)
    BY <1>6, <2>6 DEF ReadForConflict, Step
  <2>. QED BY <1>6, <2>1, <2>2, <2>3, <2>4, <2>5, <2>6 DEF Serving
<1>7. ASSUME Inv, NEW r \in Requests, Acquiring(r) PROVE PlaceInv'
  BY <1>7 DEF Acquiring, StopRunning, Step, StopCancelled, StopQueued,
     LockToDelete
<1>8. ASSUME Inv, Starting PROVE PlaceInv'
  <2>1. CASE Boot
    BY <1>8, <2>1 DEF Boot, ToResume
  <2>2. ASSUME NEW j \in Jobs, NEW o \in Calls, Resume(j, o) PROVE PlaceInv'
    BY <1>8, <2>2 DEF Resume
  <2>3. CASE EnqueueAll
    BY <1>8, <2>3 DEF EnqueueAll, QuietInv, Quiet
  <2>. QED BY <1>8, <2>1, <2>2, <2>3 DEF Starting
<1>9. ASSUME Inv, Stopping PROVE PlaceInv'
  BY <1>9 DEF Stopping, BeginDrain, EndDrain, Exit, LoseMemory
<1>10. ASSUME Inv, Shutdown PROVE PlaceInv'
  BY <1>10 DEF Shutdown
<1>11. ASSUME Inv, Crash PROVE PlaceInv'
  BY <1>11 DEF Crash, LoseMemory
<1>12. ASSUME Inv, UNCHANGED vars PROVE PlaceInv'
  BY <1>12 DEF vars
<1>. QED BY <1>1, <1>2, <1>3, <1>4, <1>5, <1>6, <1>7, <1>8, <1>9, <1>10,
     <1>11, <1>12 DEF Next

LEMMA WakeStep == Inv /\ [Next]_vars => WakeInv'
<1>. USE DEF Inv, WakeInv, TypeOK, store, entry, running, slots, asked,
             server, history, CreatorInv
<1>1. ASSUME Inv, NEW j \in Jobs, Creating(j) PROVE WakeInv'
  BY <1>1 DEF Creating, Admit, Insert, Start
<1>2. ASSUME Inv, NEW j \in Jobs, Running(j) PROVE WakeInv'
  BY <1>2 DEF Running, Queue, GiveUpWaiting, WriteStart, WriteEnd, EndSearch,
     Decide, Forget, Forgotten, ReleaseSlot, Released
<1>3. ASSUME Inv, NEW j \in Jobs, TakeSlot(j) PROVE WakeInv'
  BY <1>3 DEF TakeSlot
<1>4. ASSUME Inv, NEW j \in Jobs, Locking(j) PROVE WakeInv'
  BY <1>4 DEF Locking, Begin, RecordStart, Record, RecordEnd
<1>5. ASSUME Inv, NEW r \in Requests, NEW j \in Jobs, AskStop(r, j) \/ AskDelete(r, j)
      PROVE WakeInv'
  BY <1>5 DEF AskStop, AskDelete, Ask
<1>6. ASSUME Inv, NEW r \in Requests, Serving(r) PROVE WakeInv'
  <2>1. ASSUME NEW o \in Calls, Cancel(r, o) PROVE WakeInv'
    BY <1>6, <2>1 DEF Cancel, Step
  <2>2. ASSUME NEW o \in Calls, Delete(r, o) PROVE WakeInv'
    BY <1>6, <2>2 DEF Delete, Step, Queued
  <2>3. ASSUME NEW o \in Calls, Erase(r, o) PROVE WakeInv'
    BY <1>6, <2>3 DEF Erase, Step
  <2>4. CASE ForgetCancelled(r)
    BY <1>6, <2>4 DEF ForgetCancelled, Step
  <2>5. CASE ForgetDeleted(r)
    BY <1>6, <2>5 DEF ForgetDeleted, Step
  <2>6. CASE ReadForConflict(r)
    BY <1>6, <2>6 DEF ReadForConflict, Step
  <2>. QED BY <1>6, <2>1, <2>2, <2>3, <2>4, <2>5, <2>6 DEF Serving
<1>7. ASSUME Inv, NEW r \in Requests, Acquiring(r) PROVE WakeInv'
  BY <1>7 DEF Acquiring, StopRunning, Step, StopCancelled, StopQueued,
     LockToDelete
<1>8. ASSUME Inv, Starting PROVE WakeInv'
  <2>1. CASE Boot
    BY <1>8, <2>1 DEF Boot, ToResume
  <2>2. ASSUME NEW j \in Jobs, NEW o \in Calls, Resume(j, o) PROVE WakeInv'
    BY <1>8, <2>2 DEF Resume
  <2>3. CASE EnqueueAll
    BY <1>8, <2>3 DEF EnqueueAll, QuietInv, Quiet
  <2>. QED BY <1>8, <2>1, <2>2, <2>3 DEF Starting
<1>9. ASSUME Inv, Stopping PROVE WakeInv'
  BY <1>9 DEF Stopping, BeginDrain, EndDrain, Exit, LoseMemory
<1>10. ASSUME Inv, Shutdown PROVE WakeInv'
  BY <1>10 DEF Shutdown
<1>11. ASSUME Inv, Crash PROVE WakeInv'
  BY <1>11 DEF Crash, LoseMemory
<1>12. ASSUME Inv, UNCHANGED vars PROVE WakeInv'
  BY <1>12 DEF vars
<1>. QED BY <1>1, <1>2, <1>3, <1>4, <1>5, <1>6, <1>7, <1>8, <1>9, <1>10,
     <1>11, <1>12 DEF Next

LEMMA OwnerStep == Inv /\ [Next]_vars => EveryPlaceHasAnOwner'
<1>. USE DEF Inv, EveryPlaceHasAnOwner, TypeOK, store, entry, running, slots,
             asked, server, history, BeforeRun, InRun
<1>1. ASSUME Inv, NEW j \in Jobs, Creating(j) PROVE EveryPlaceHasAnOwner'
  <2>1. CASE Admit(j)
    BY <1>1, <2>1 DEF Admit
  <2>2. ASSUME NEW o \in Calls, Insert(j, o) PROVE EveryPlaceHasAnOwner'
    BY <1>1, <2>2 DEF Insert
  <2>3. CASE Start(j)
    BY <1>1, <2>3 DEF Start
  <2>. QED BY <1>1, <2>1, <2>2, <2>3 DEF Creating
<1>2. ASSUME Inv, NEW j \in Jobs, Running(j) PROVE EveryPlaceHasAnOwner'
  <2>1. CASE Queue(j)
    BY <1>2, <2>1 DEF Queue
  <2>2. CASE GiveUpWaiting(j)
    BY <1>2, <2>2 DEF GiveUpWaiting, WakeInv
  <2>3. ASSUME NEW o \in Calls, WriteStart(j, o) PROVE EveryPlaceHasAnOwner'
    BY <1>2, <2>3 DEF WriteStart
  <2>4. ASSUME NEW o \in Calls, WriteEnd(j, o) PROVE EveryPlaceHasAnOwner'
    BY <1>2, <2>4 DEF WriteEnd
  <2>5. ASSUME NEW how \in Outcomes \ {"none"}, EndSearch(j, how) PROVE EveryPlaceHasAnOwner'
    BY <1>2, <2>5 DEF EndSearch
  <2>6. CASE Decide(j)
    BY <1>2, <2>6 DEF Decide
  <2>7. CASE Forget(j)
    BY <1>2, <2>7 DEF Forget, Forgotten
  <2>8. CASE ReleaseSlot(j)
    BY <1>2, <2>8 DEF ReleaseSlot, Released
  <2>. QED BY <1>2, <2>1, <2>2, <2>3, <2>4, <2>5, <2>6, <2>7, <2>8 DEF Running
<1>3. ASSUME Inv, NEW j \in Jobs, TakeSlot(j) PROVE EveryPlaceHasAnOwner'
  BY <1>3 DEF TakeSlot
<1>4. ASSUME Inv, NEW j \in Jobs, Locking(j) PROVE EveryPlaceHasAnOwner'
  <2>1. CASE Begin(j)
    BY <1>4, <2>1 DEF Begin
  <2>2. CASE RecordStart(j)
    BY <1>4, <2>2 DEF RecordStart, Record
  <2>3. CASE RecordEnd(j)
    BY <1>4, <2>3 DEF RecordEnd, Record
  <2>. QED BY <1>4, <2>1, <2>2, <2>3 DEF Locking
<1>5. ASSUME Inv, NEW r \in Requests, NEW j \in Jobs, AskStop(r, j) \/ AskDelete(r, j)
      PROVE EveryPlaceHasAnOwner'
  BY <1>5 DEF AskStop, AskDelete, Ask
<1>6. ASSUME Inv, NEW r \in Requests, Serving(r) PROVE EveryPlaceHasAnOwner'
  <2>1. ASSUME NEW o \in Calls, Cancel(r, o) PROVE EveryPlaceHasAnOwner'
    BY <1>6, <2>1 DEF Cancel, Step
  <2>2. ASSUME NEW o \in Calls, Delete(r, o) PROVE EveryPlaceHasAnOwner'
    BY <1>6, <2>2 DEF Delete, Step, Queued
  <2>3. ASSUME NEW o \in Calls, Erase(r, o) PROVE EveryPlaceHasAnOwner'
    BY <1>6, <2>3 DEF Erase, Step
  <2>4. CASE ForgetCancelled(r)
    BY <1>6, <2>4 DEF ForgetCancelled, Step
  <2>5. CASE ForgetDeleted(r)
    BY <1>6, <2>5 DEF ForgetDeleted, Step
  <2>6. CASE ReadForConflict(r)
    BY <1>6, <2>6 DEF ReadForConflict, Step
  <2>. QED BY <1>6, <2>1, <2>2, <2>3, <2>4, <2>5, <2>6 DEF Serving
<1>7. ASSUME Inv, NEW r \in Requests, Acquiring(r) PROVE EveryPlaceHasAnOwner'
  BY <1>7 DEF Acquiring, StopRunning, Step, StopCancelled, StopQueued,
     LockToDelete
<1>8. ASSUME Inv, Starting PROVE EveryPlaceHasAnOwner'
  <2>1. CASE Boot
    BY <1>8, <2>1 DEF Boot, ToResume
  <2>2. ASSUME NEW j \in Jobs, NEW o \in Calls, Resume(j, o) PROVE EveryPlaceHasAnOwner'
    BY <1>8, <2>2 DEF Resume
  <2>3. CASE EnqueueAll
    BY <1>8, <2>3 DEF EnqueueAll, QuietInv, Quiet
  <2>. QED BY <1>8, <2>1, <2>2, <2>3 DEF Starting
<1>9. ASSUME Inv, Stopping PROVE EveryPlaceHasAnOwner'
  BY <1>9 DEF Stopping, BeginDrain, EndDrain, Exit, LoseMemory
<1>10. ASSUME Inv, Shutdown PROVE EveryPlaceHasAnOwner'
  BY <1>10 DEF Shutdown
<1>11. ASSUME Inv, Crash PROVE EveryPlaceHasAnOwner'
  BY <1>11 DEF Crash, LoseMemory
<1>12. ASSUME Inv, UNCHANGED vars PROVE EveryPlaceHasAnOwner'
  BY <1>12 DEF vars
<1>. QED BY <1>1, <1>2, <1>3, <1>4, <1>5, <1>6, <1>7, <1>8, <1>9, <1>10,
     <1>11, <1>12 DEF Next

LEMMA AnswerStep == Inv /\ [Next]_vars => AnswerInv'
<1>. USE DEF Inv, AnswerInv, TypeOK, store, entry, running, slots, asked,
             server, history, CreatorInv, StageInv, RequestInv
<1>1. ASSUME Inv, NEW j \in Jobs, Creating(j) PROVE AnswerInv'
  BY <1>1 DEF Creating, Admit, Insert, Start
<1>2. ASSUME Inv, NEW j \in Jobs, Running(j) PROVE AnswerInv'
  <2>1. CASE Queue(j)
    BY <1>2, <2>1 DEF Queue
  <2>2. CASE GiveUpWaiting(j)
    BY <1>2, <2>2 DEF GiveUpWaiting
  <2>3. ASSUME NEW o \in Calls, WriteStart(j, o) PROVE AnswerInv'
    BY <1>2, <2>3 DEF WriteStart, Update, InRun
  <2>4. ASSUME NEW o \in Calls, WriteEnd(j, o) PROVE AnswerInv'
    BY <1>2, <2>4 DEF WriteEnd, Update, InRun
  <2>5. ASSUME NEW how \in Outcomes \ {"none"}, EndSearch(j, how) PROVE AnswerInv'
    BY <1>2, <2>5 DEF EndSearch
  <2>6. CASE Decide(j)
    BY <1>2, <2>6 DEF Decide
  <2>7. CASE Forget(j)
    BY <1>2, <2>7 DEF Forget, Forgotten
  <2>8. CASE ReleaseSlot(j)
    BY <1>2, <2>8 DEF ReleaseSlot, Released
  <2>. QED BY <1>2, <2>1, <2>2, <2>3, <2>4, <2>5, <2>6, <2>7, <2>8 DEF Running
<1>3. ASSUME Inv, NEW j \in Jobs, TakeSlot(j) PROVE AnswerInv'
  BY <1>3 DEF TakeSlot
<1>4. ASSUME Inv, NEW j \in Jobs, Locking(j) PROVE AnswerInv'
  <2>1. CASE Begin(j)
    BY <1>4, <2>1 DEF Begin, MustNotRun
  <2>2. CASE RecordStart(j)
    BY <1>4, <2>2 DEF RecordStart, Record
  <2>3. CASE RecordEnd(j)
    BY <1>4, <2>3 DEF RecordEnd, Record
  <2>. QED BY <1>4, <2>1, <2>2, <2>3 DEF Locking
<1>5. ASSUME Inv, NEW r \in Requests, NEW j \in Jobs, AskStop(r, j) \/ AskDelete(r, j)
      PROVE AnswerInv'
  BY <1>5 DEF AskStop, AskDelete, Ask
<1>6. ASSUME Inv, NEW r \in Requests, Serving(r) PROVE AnswerInv'
  <2>1. ASSUME NEW o \in Calls, Cancel(r, o) PROVE AnswerInv'
    <3>. DEFINE k == target[r]
    <3>1. /\ status[k] = "absent" => status'[k] = "absent"
          /\ status'[k] \in {status[k], "cancelled"}
      BY <1>6, <2>1 DEF Cancel, Step, Update
    <3>2. o = "ok" => status'[k] \in {"cancelled", "absent"}
      BY <1>6, <2>1 DEF Cancel, Step, Update, Applied
    <3>3. \A i \in Jobs \ {k} : status'[i] = status[i]
      BY <1>6, <2>1 DEF Cancel, Step, Update
    <3>4. \A i \in Jobs : stage'[i] = IF o = "ok" /\ i = k THEN "cancelled" ELSE stage[i]
      BY <1>6, <2>1 DEF Cancel, Step
    <3>5. \A q \in Requests :
             at'[q] = "forgetDeleted" => at[q] = "forgetDeleted" /\ target'[q] = target[q]
      BY <1>6, <2>1 DEF Cancel, Step
    <3>. QED BY <1>6, <2>1, <3>1, <3>2, <3>3, <3>4, <3>5 DEF Cancel, Step
  <2>2. ASSUME NEW o \in Calls, Delete(r, o) PROVE AnswerInv'
    <3>. DEFINE k == target[r]
    <3>1. /\ status'[k] \in {status[k], "absent"}
          /\ o = "ok" => status'[k] = "absent"
          /\ \A i \in Jobs \ {k} : status'[i] = status[i]
      BY <1>6, <2>2 DEF Delete, Step, Remove, Applied
    <3>2. \A i \in Jobs : \/ stage'[i] = stage[i]
                          \/ o = "ok" /\ i = k /\ stage'[i] = "cancelled"
      BY <1>6, <2>2 DEF Delete, Queued
    <3>3. \A i \in Jobs : \/ answers'[i] = answers[i]
                          \/ o = "ok" /\ i = k /\ answers'[i] = answers[i] \cup {"deleted"}
      BY <1>6, <2>2 DEF Delete, Answer
    <3>4. \A q \in Requests : at'[q] = "forgetDeleted" =>
             /\ target'[q] = target[q]
             /\ at[q] = "forgetDeleted" \/ (target[q] = k /\ o = "ok")
      BY <1>6, <2>2 DEF Delete, Step
    <3>. QED BY <1>6, <2>2, <3>1, <3>2, <3>3, <3>4 DEF Delete, Step
  <2>3. ASSUME NEW o \in Calls, Erase(r, o) PROVE AnswerInv'
    <3>. DEFINE k == target[r]
    <3>1. /\ status'[k] \in {status[k], "absent"}
          /\ o = "ok" => status'[k] = "absent"
          /\ \A i \in Jobs \ {k} : status'[i] = status[i]
      BY <1>6, <2>3 DEF Erase, Step, Remove, Applied
    <3>2. \A i \in Jobs : \/ answers'[i] = answers[i]
                          \/ o = "ok" /\ i = k /\ answers'[i] = answers[i] \cup {"deleted"}
      BY <1>6, <2>3 DEF Erase, Answer
    <3>3. \A q \in Requests : at'[q] = "forgetDeleted" =>
             at[q] = "forgetDeleted" /\ target'[q] = target[q]
      BY <1>6, <2>3 DEF Erase, Step
    <3>. QED BY <1>6, <2>3, <3>1, <3>2, <3>3 DEF Erase, Step
  <2>4. CASE ForgetCancelled(r)
    BY <1>6, <2>4 DEF ForgetCancelled, Step, Answer
  <2>5. CASE ForgetDeleted(r)
    BY <1>6, <2>5 DEF ForgetDeleted, Step, Answer
  <2>6. CASE ReadForConflict(r)
    BY <1>6, <2>6 DEF ReadForConflict, Step
  <2>. QED BY <1>6, <2>1, <2>2, <2>3, <2>4, <2>5, <2>6 DEF Serving
<1>7. ASSUME Inv, NEW r \in Requests, Acquiring(r) PROVE AnswerInv'
  <2>1. CASE StopRunning(r)
    BY <1>7, <2>1 DEF StopRunning, Step, Answer
  <2>2. CASE StopCancelled(r)
    BY <1>7, <2>2 DEF StopCancelled, Step, Answer
  <2>3. CASE StopQueued(r)
    BY <1>7, <2>3 DEF StopQueued, Step
  <2>4. CASE LockToDelete(r)
    BY <1>7, <2>4 DEF LockToDelete, Step
  <2>. QED BY <1>7, <2>1, <2>2, <2>3, <2>4 DEF Acquiring
<1>8. ASSUME Inv, Starting PROVE AnswerInv'
  <2>1. CASE Boot
    BY <1>8, <2>1 DEF Boot, ToResume
  <2>2. ASSUME NEW j \in Jobs, NEW o \in Calls, Resume(j, o) PROVE AnswerInv'
    BY <1>8, <2>2 DEF Resume, Update, ResumeInv, Unfinished
  <2>3. CASE EnqueueAll
    BY <1>8, <2>3 DEF EnqueueAll, ResumeInv, Unfinished, QuietInv, Quiet
  <2>. QED BY <1>8, <2>1, <2>2, <2>3 DEF Starting
<1>9. ASSUME Inv, Stopping PROVE AnswerInv'
  BY <1>9 DEF Stopping, BeginDrain, EndDrain, Exit, LoseMemory
<1>10. ASSUME Inv, Shutdown PROVE AnswerInv'
  BY <1>10 DEF Shutdown
<1>11. ASSUME Inv, Crash PROVE AnswerInv'
  BY <1>11 DEF Crash, LoseMemory
<1>12. ASSUME Inv, UNCHANGED vars PROVE AnswerInv'
  BY <1>12 DEF vars
<1>. QED BY <1>1, <1>2, <1>3, <1>4, <1>5, <1>6, <1>7, <1>8, <1>9, <1>10,
     <1>11, <1>12 DEF Next

LEMMA DrainedStep == Inv /\ [Next]_vars => DrainedIsQuiet'
<1>. USE DEF Inv, DrainedIsQuiet, TypeOK, store, entry, running, slots, asked,
             server, history, InRun
<1>1. ASSUME Inv, NEW j \in Jobs, Creating(j) PROVE DrainedIsQuiet'
  <2>1. CASE Admit(j)
    BY <1>1, <2>1 DEF Admit
  <2>2. ASSUME NEW o \in Calls, Insert(j, o) PROVE DrainedIsQuiet'
    BY <1>1, <2>2 DEF Insert
  <2>3. CASE Start(j)
    BY <1>1, <2>3 DEF Start
  <2>. QED BY <1>1, <2>1, <2>2, <2>3 DEF Creating
<1>2. ASSUME Inv, NEW j \in Jobs, Running(j) PROVE DrainedIsQuiet'
  BY <1>2 DEF Running, Queue, GiveUpWaiting, WriteStart, WriteEnd, EndSearch,
     Decide, Forget, Forgotten, ReleaseSlot, Released
<1>3. ASSUME Inv, NEW j \in Jobs, TakeSlot(j) PROVE DrainedIsQuiet'
  BY <1>3 DEF TakeSlot
<1>4. ASSUME Inv, NEW j \in Jobs, Locking(j) PROVE DrainedIsQuiet'
  <2>1. CASE Begin(j)
    BY <1>4, <2>1 DEF Begin, MustNotRun, ShuttingDown
  <2>2. CASE RecordStart(j)
    BY <1>4, <2>2 DEF RecordStart, Record
  <2>3. CASE RecordEnd(j)
    BY <1>4, <2>3 DEF RecordEnd, Record
  <2>. QED BY <1>4, <2>1, <2>2, <2>3 DEF Locking
<1>5. ASSUME Inv, NEW r \in Requests, NEW j \in Jobs, AskStop(r, j) \/ AskDelete(r, j)
      PROVE DrainedIsQuiet'
  BY <1>5 DEF AskStop, AskDelete, Ask
<1>6. ASSUME Inv, NEW r \in Requests, Serving(r) PROVE DrainedIsQuiet'
  BY <1>6 DEF Serving, Cancel, Step, Delete, Erase, ForgetCancelled,
     ForgetDeleted, ReadForConflict
<1>7. ASSUME Inv, NEW r \in Requests, Acquiring(r) PROVE DrainedIsQuiet'
  BY <1>7 DEF Acquiring, StopRunning, Step, StopCancelled, StopQueued,
     LockToDelete
<1>8. ASSUME Inv, Starting PROVE DrainedIsQuiet'
  BY <1>8 DEF Starting, Boot, ToResume, Resume, EnqueueAll
<1>9. ASSUME Inv, Stopping PROVE DrainedIsQuiet'
  <2>1. CASE BeginDrain
    BY <1>9, <2>1 DEF BeginDrain
  <2>2. CASE EndDrain
    BY <1>9, <2>2 DEF EndDrain, AllFree, PlaceInv
  <2>3. CASE Exit
    BY <1>9, <2>3 DEF Exit, LoseMemory
  <2>. QED BY <1>9, <2>1, <2>2, <2>3 DEF Stopping
<1>10. ASSUME Inv, Shutdown PROVE DrainedIsQuiet'
  BY <1>10 DEF Shutdown
<1>11. ASSUME Inv, Crash PROVE DrainedIsQuiet'
  BY <1>11 DEF Crash, LoseMemory
<1>12. ASSUME Inv, UNCHANGED vars PROVE DrainedIsQuiet'
  BY <1>12 DEF vars
<1>. QED BY <1>1, <1>2, <1>3, <1>4, <1>5, <1>6, <1>7, <1>8, <1>9, <1>10,
     <1>11, <1>12 DEF Next

-----------------------------------------------------------------------------

LEMMA InitInv == Init => Inv
<1>. SUFFICES ASSUME Init PROVE Inv
  OBVIOUS
<1>. USE DEF Init
<1>1. TypeOK
  <2>1. 0 \in 0..MaxAttempts
    BY LimitsAssumption
  <2>2. target \in [Requests -> Jobs]
    OBVIOUS
  <2>. QED BY <2>1, <2>2 DEF TypeOK, Statuses, Stages, RunnerAt, Outcomes, CreatorAt,
                            RequestAt, Phases
<1>2. RangeInv /\ QuietInv /\ ResumeInv /\ DownInv
  BY LimitsAssumption DEF RangeInv, QuietInv, ResumeInv, DownInv, Quiet, BeforeRun
<1>3. CreatorInv /\ RequestInv /\ LockInv
  BY DEF CreatorInv, RequestInv, LockInv
<1>4. StageInv /\ PlaceInv /\ WakeInv
  BY DEF StageInv, PlaceInv, WakeInv, InRun, BeforeRun
<1>5. EveryPlaceHasAnOwner /\ AnswerInv /\ DrainedIsQuiet
  BY DEF EveryPlaceHasAnOwner, AnswerInv, DrainedIsQuiet
<1>. QED BY <1>1, <1>2, <1>3, <1>4, <1>5 DEF Inv

LEMMA InvStep == Inv /\ [Next]_vars => Inv'
  BY TypeStep, RangeStep, QuietStep, ResumeStep, DownStep, CreatorStep,
     RequestStep, LockStep, StageStep, PlaceStep, WakeStep, OwnerStep,
     AnswerStep, DrainedStep DEF Inv

\* The invariants of the solves' runners, requests and entries that the other
\* theorems rest on hold in every state of the server.
THEOREM Invariance == Spec => []Inv
  BY InitInv, InvStep, PTL DEF Spec

\* Every variable keeps its type, and no document and no runner's copy ever
\* counts more than MAX_ATTEMPTS attempts (resume, jobs.rs).
THEOREM TypeCorrect == Spec => []TypeOK
<1>1. Inv => TypeOK
  BY DEF Inv
<1>. QED BY <1>1, Invariance, PTL

\* A stop answered 200 and a delete answered 204 are kept: whatever the runner,
\* other requests, crashes and restarts do, the document is cancelled or gone
\* and its job is not run (Jobs::cancel, Jobs::delete and record in jobs.rs).
THEOREM AnswersKept == Spec => []AnswersAreKept
<1>1. Inv => AnswersAreKept
  BY DEF Inv, AnswersAreKept, AnswerInv, StageInv, InRun
<1>. QED BY <1>1, Invariance, PTL

\* Of the creator, the runner and the requests, one that will forget the job is
\* always left, so no account loses a place for good (Jobs::forget, jobs.rs).
THEOREM PlacesOwned == Spec => []EveryPlaceHasAnOwner
<1>1. Inv => EveryPlaceHasAnOwner
  BY DEF Inv
<1>. QED BY <1>1, Invariance, PTL

\* A job that runs has its slot and its place, deleted or not (Jobs::delete
\* keeps a running job's place until its search has wound down).
THEOREM RunningPlaced == Spec => []RunningKeepsItsPlace
<1>1. Inv => RunningKeepsItsPlace
  BY DEF Inv, RunningKeepsItsPlace, PlaceInv, InRun
<1>. QED BY <1>1, Invariance, PTL

\* When drain has every slot no runner is left that could write, so main may
\* close the store (Jobs::drain, main.rs).
THEOREM DrainQuiet == Spec => []DrainedIsQuiet
<1>1. Inv => DrainedIsQuiet
  BY DEF Inv
<1>. QED BY <1>1, Invariance, PTL

-----------------------------------------------------------------------------
(* A finished document is final as long as no store call is applied and    *)
(* reported lost, searches are bounded across restarts, and so are the     *)
(* places of an account.                                                   *)

\* A job that may still run or be cancelled is not finished.
OpenInv ==
    /\ \A j \in Jobs :
          /\ runner[j] \in InRun => status[j] \notin Finished
          /\ (stage[j] = "queued" /\ (\/ j \in live
                                     \/ runner[j] \in BeforeRun
                                     \/ creator[j] = "starting"))
                => status[j] \notin Finished
    /\ \A r \in Requests :
          (at[r] \in {"lockToStop", "cancelling"} /\ stage[target[r]] = "queued")
                => status[target[r]] \notin Finished

\* What has been deleted stays so: its document is not created after that.
GoneInv ==
    \A j \in Jobs :
        deleted[j] => status[j] = "absent" /\ creator[j] \in {"starting", "done"}

\* Every search begun is on record in the document or in its runner's copy,
\* but for one for each failed store call.
Counted(j) ==
    /\ starts[j] <= MaxAttempts + failures
    /\ creator[j] # "done" => starts[j] = 0
    /\ status[j] # "absent" => starts[j] <= attempts[j] + failures
    /\ runner[j] \in BeforeRun \cup InRun => starts[j] <= copy[j] + failures
    /\ runner[j] \in {"recordStart", "writeStart"} => starts[j] < copy[j] + failures

StartsInv == \A j \in Jobs : Counted(j)

-----------------------------------------------------------------------------

LEMMA OpenStep == Inv /\ OpenInv /\ "lost" \notin Faults /\ [Next]_vars => OpenInv'
<1>. USE DEF Inv, OpenInv, TypeOK, store, entry, running, slots, asked,
             server, history, BeforeRun, InRun, StageInv, CreatorInv, LockInv
<1>1. ASSUME Inv /\ OpenInv /\ "lost" \notin Faults, NEW j \in Jobs, Creating(j)
      PROVE OpenInv'
  <2>1. CASE Admit(j)
    BY <1>1, <2>1 DEF Admit, Finished
  <2>2. ASSUME NEW o \in Calls, Insert(j, o) PROVE OpenInv'
    BY <1>1, <2>2 DEF Insert, Finished, Calls
  <2>3. CASE Start(j)
    BY <1>1, <2>3 DEF Start
  <2>. QED BY <1>1, <2>1, <2>2, <2>3 DEF Creating
<1>2. ASSUME Inv /\ OpenInv /\ "lost" \notin Faults, NEW j \in Jobs, Running(j)
      PROVE OpenInv'
  <2>1. CASE Queue(j)
    BY <1>2, <2>1 DEF Queue
  <2>2. CASE GiveUpWaiting(j)
    BY <1>2, <2>2 DEF GiveUpWaiting
  <2>3. ASSUME NEW o \in Calls, WriteStart(j, o) PROVE OpenInv'
    BY <1>2, <2>3 DEF WriteStart, Update, Finished, Calls
  <2>4. ASSUME NEW o \in Calls, WriteEnd(j, o) PROVE OpenInv'
    BY <1>2, <2>4 DEF WriteEnd, Update, Calls
  <2>5. ASSUME NEW how \in Outcomes \ {"none"}, EndSearch(j, how) PROVE OpenInv'
    BY <1>2, <2>5 DEF EndSearch
  <2>6. CASE Decide(j)
    BY <1>2, <2>6 DEF Decide
  <2>7. CASE Forget(j)
    BY <1>2, <2>7 DEF Forget, Forgotten
  <2>8. CASE ReleaseSlot(j)
    BY <1>2, <2>8 DEF ReleaseSlot, Released
  <2>. QED BY <1>2, <2>1, <2>2, <2>3, <2>4, <2>5, <2>6, <2>7, <2>8 DEF Running
<1>3. ASSUME Inv /\ OpenInv /\ "lost" \notin Faults, NEW j \in Jobs, TakeSlot(j)
      PROVE OpenInv'
  BY <1>3 DEF TakeSlot
<1>4. ASSUME Inv /\ OpenInv /\ "lost" \notin Faults, NEW j \in Jobs, Locking(j)
      PROVE OpenInv'
  <2>1. CASE Begin(j)
    <3>1. /\ stage[j] \in Stages
          /\ runner[j] \in BeforeRun
      BY <1>4, <2>1 DEF Begin
    <3>2. CASE MustNotRun(j)
      BY <1>4, <2>1, <3>2 DEF Begin
    <3>3. CASE ~MustNotRun(j)
      <4>1. stage[j] = "queued" /\ status[j] \notin Finished
        BY <1>4, <2>1, <3>1, <3>3 DEF MustNotRun, Stages
      <4>. QED BY <1>4, <2>1, <3>3, <4>1 DEF Begin
    <3>. QED BY <3>2, <3>3
  <2>2. CASE RecordStart(j)
    BY <1>4, <2>2 DEF RecordStart, Record
  <2>3. CASE RecordEnd(j)
    BY <1>4, <2>3 DEF RecordEnd, Record
  <2>. QED BY <1>4, <2>1, <2>2, <2>3 DEF Locking
<1>5. ASSUME Inv /\ OpenInv /\ "lost" \notin Faults, NEW r \in Requests, NEW j \in Jobs, AskStop(r, j) \/ AskDelete(r, j)
      PROVE OpenInv'
  BY <1>5 DEF AskStop, AskDelete, Ask
<1>6. ASSUME Inv /\ OpenInv /\ "lost" \notin Faults, NEW r \in Requests, Serving(r)
      PROVE OpenInv'
  <2>1. ASSUME NEW o \in Calls, Cancel(r, o) PROVE OpenInv'
    <3>1. CASE o = "ok"
      BY <1>6, <2>1, <3>1 DEF Cancel, Step, Update, Finished
    <3>2. CASE o # "ok"
      <4>1. ~Applied(o)
        BY <1>6, <2>1, <3>2, BoundsAssumption DEF Calls, Applied
      <4>. QED BY <1>6, <2>1, <3>2, <4>1 DEF Cancel, Step, Update
    <3>. QED BY <3>1, <3>2
  <2>2. ASSUME NEW o \in Calls, Delete(r, o) PROVE OpenInv'
    BY <1>6, <2>2 DEF Delete, Step, Remove, Queued, Finished
  <2>3. ASSUME NEW o \in Calls, Erase(r, o) PROVE OpenInv'
    BY <1>6, <2>3 DEF Erase, Step, Remove, Finished
  <2>4. CASE ForgetCancelled(r)
    BY <1>6, <2>4 DEF ForgetCancelled, Step
  <2>5. CASE ForgetDeleted(r)
    BY <1>6, <2>5 DEF ForgetDeleted, Step
  <2>6. CASE ReadForConflict(r)
    BY <1>6, <2>6 DEF ReadForConflict, Step
  <2>. QED BY <1>6, <2>1, <2>2, <2>3, <2>4, <2>5, <2>6 DEF Serving
<1>7. ASSUME Inv /\ OpenInv /\ "lost" \notin Faults, NEW r \in Requests, Acquiring(r)
      PROVE OpenInv'
  BY <1>7 DEF Acquiring, StopRunning, Step, StopCancelled, StopQueued,
     LockToDelete
<1>8. ASSUME Inv /\ OpenInv /\ "lost" \notin Faults, Starting PROVE OpenInv'
  <2>1. CASE Boot
    BY <1>8, <2>1 DEF Boot, ToResume
  <2>2. ASSUME NEW j \in Jobs, NEW o \in Calls, Resume(j, o) PROVE OpenInv'
    <3>1. /\ status[j] \in Unfinished
          /\ \A k \in Jobs : runner[k] = "none" /\ creator[k] # "starting"
          /\ live = {}
          /\ \A r \in Requests : at[r] = "idle"
      BY <1>8, <2>2 DEF Resume, ResumeInv, QuietInv, Quiet
    <3>2. UNCHANGED <<live, stage, runner, creator, at>>
      BY <1>8, <2>2 DEF Resume
    <3>. QED BY <3>1, <3>2
  <2>3. CASE EnqueueAll
    BY <1>8, <2>3 DEF EnqueueAll, ResumeInv, QuietInv, Quiet, Finished,
       Unfinished
  <2>. QED BY <1>8, <2>1, <2>2, <2>3 DEF Starting
<1>9. ASSUME Inv /\ OpenInv /\ "lost" \notin Faults, Stopping PROVE OpenInv'
  BY <1>9 DEF Stopping, BeginDrain, EndDrain, Exit, LoseMemory
<1>10. ASSUME Inv /\ OpenInv /\ "lost" \notin Faults, Shutdown PROVE OpenInv'
  BY <1>10 DEF Shutdown
<1>11. ASSUME Inv /\ OpenInv /\ "lost" \notin Faults, Crash PROVE OpenInv'
  BY <1>11 DEF Crash, LoseMemory
<1>12. ASSUME Inv /\ OpenInv /\ "lost" \notin Faults, UNCHANGED vars
      PROVE OpenInv'
  BY <1>12 DEF vars
<1>. QED BY <1>1, <1>2, <1>3, <1>4, <1>5, <1>6, <1>7, <1>8, <1>9, <1>10,
     <1>11, <1>12 DEF Next

\* What a step may do to a finished document.
KeepsFinished ==
    \A j \in Jobs : status[j] \in Finished => status'[j] \in {status[j], "absent"}


LEMMA FinalStep == Inv /\ OpenInv /\ [Next]_vars => KeepsFinished
<1>. USE DEF Inv, KeepsFinished, TypeOK, Finished, store, entry, running,
             slots, asked, server, history
<1>1. ASSUME Inv /\ OpenInv, NEW j \in Jobs, Creating(j) PROVE KeepsFinished
  <2>1. CASE Admit(j)
    BY <1>1, <2>1 DEF Admit
  <2>2. ASSUME NEW o \in Calls, Insert(j, o) PROVE KeepsFinished
    <3>1. status[j] = "absent"
      BY <1>1, <2>2 DEF Insert, CreatorInv
    <3>. QED BY <1>1, <2>2, <3>1 DEF Insert
  <2>3. CASE Start(j)
    BY <1>1, <2>3 DEF Start
  <2>. QED BY <1>1, <2>1, <2>2, <2>3 DEF Creating
<1>2. ASSUME Inv /\ OpenInv, NEW j \in Jobs, Running(j) PROVE KeepsFinished
  <2>1. CASE Queue(j)
    BY <1>2, <2>1 DEF Queue
  <2>2. CASE GiveUpWaiting(j)
    BY <1>2, <2>2 DEF GiveUpWaiting
  <2>3. ASSUME NEW o \in Calls, WriteStart(j, o) PROVE KeepsFinished
    <3>1. status[j] \notin Finished
      BY <1>2, <2>3 DEF WriteStart, OpenInv, InRun
    <3>. QED BY <1>2, <2>3, <3>1 DEF WriteStart, Update
  <2>4. ASSUME NEW o \in Calls, WriteEnd(j, o) PROVE KeepsFinished
    <3>1. status[j] \notin Finished
      BY <1>2, <2>4 DEF WriteEnd, OpenInv, InRun
    <3>. QED BY <1>2, <2>4, <3>1 DEF WriteEnd, Update
  <2>5. ASSUME NEW how \in Outcomes \ {"none"}, EndSearch(j, how) PROVE KeepsFinished
    BY <1>2, <2>5 DEF EndSearch
  <2>6. CASE Decide(j)
    BY <1>2, <2>6 DEF Decide
  <2>7. CASE Forget(j)
    BY <1>2, <2>7 DEF Forget, Forgotten
  <2>8. CASE ReleaseSlot(j)
    BY <1>2, <2>8 DEF ReleaseSlot, Released
  <2>. QED BY <1>2, <2>1, <2>2, <2>3, <2>4, <2>5, <2>6, <2>7, <2>8 DEF Running
<1>3. ASSUME Inv /\ OpenInv, NEW j \in Jobs, TakeSlot(j) PROVE KeepsFinished
  BY <1>3 DEF TakeSlot
<1>4. ASSUME Inv /\ OpenInv, NEW j \in Jobs, Locking(j) PROVE KeepsFinished
  BY <1>4 DEF Locking, Begin, RecordStart, Record, RecordEnd
<1>5. ASSUME Inv /\ OpenInv, NEW r \in Requests, NEW j \in Jobs, AskStop(r, j) \/ AskDelete(r, j)
      PROVE KeepsFinished
  BY <1>5 DEF AskStop, AskDelete, Ask
<1>6. ASSUME Inv /\ OpenInv, NEW r \in Requests, Serving(r)
      PROVE KeepsFinished
  <2>1. ASSUME NEW o \in Calls, Cancel(r, o) PROVE KeepsFinished
    <3>1. status[target[r]] \notin Finished
      BY <1>6, <2>1 DEF Cancel, Step, OpenInv, StageInv
    <3>. QED BY <1>6, <2>1, <3>1 DEF Cancel, Update
  <2>2. ASSUME NEW o \in Calls, Delete(r, o) PROVE KeepsFinished
    BY <1>6, <2>2 DEF Delete, Step, Remove
  <2>3. ASSUME NEW o \in Calls, Erase(r, o) PROVE KeepsFinished
    BY <1>6, <2>3 DEF Erase, Step, Remove
  <2>4. CASE ForgetCancelled(r)
    BY <1>6, <2>4 DEF ForgetCancelled, Step
  <2>5. CASE ForgetDeleted(r)
    BY <1>6, <2>5 DEF ForgetDeleted, Step
  <2>6. CASE ReadForConflict(r)
    BY <1>6, <2>6 DEF ReadForConflict, Step
  <2>. QED BY <1>6, <2>1, <2>2, <2>3, <2>4, <2>5, <2>6 DEF Serving
<1>7. ASSUME Inv /\ OpenInv, NEW r \in Requests, Acquiring(r)
      PROVE KeepsFinished
  BY <1>7 DEF Acquiring, StopRunning, Step, StopCancelled, StopQueued,
     LockToDelete
<1>8. ASSUME Inv /\ OpenInv, Starting PROVE KeepsFinished
  <2>1. CASE Boot
    BY <1>8, <2>1 DEF Boot, ToResume
  <2>2. ASSUME NEW j \in Jobs, NEW o \in Calls, Resume(j, o) PROVE KeepsFinished
    <3>1. status[j] \notin Finished
      BY <1>8, <2>2 DEF Resume, ResumeInv, Unfinished, Finished
    <3>. QED BY <1>8, <2>2, <3>1 DEF Resume, Update
  <2>3. CASE EnqueueAll
    BY <1>8, <2>3 DEF EnqueueAll
  <2>. QED BY <1>8, <2>1, <2>2, <2>3 DEF Starting
<1>9. ASSUME Inv /\ OpenInv, Stopping PROVE KeepsFinished
  BY <1>9 DEF Stopping, BeginDrain, EndDrain, Exit, LoseMemory
<1>10. ASSUME Inv /\ OpenInv, Shutdown PROVE KeepsFinished
  BY <1>10 DEF Shutdown
<1>11. ASSUME Inv /\ OpenInv, Crash PROVE KeepsFinished
  BY <1>11 DEF Crash, LoseMemory
<1>12. ASSUME Inv /\ OpenInv, UNCHANGED vars PROVE KeepsFinished
  BY <1>12 DEF vars
<1>. QED BY <1>1, <1>2, <1>3, <1>4, <1>5, <1>6, <1>7, <1>8, <1>9, <1>10,
     <1>11, <1>12 DEF Next

LEMMA GoneStep == Inv /\ GoneInv /\ [Next]_vars => GoneInv'
<1>. USE DEF Inv, GoneInv, TypeOK, store, entry, running, slots, asked,
             server, history, CreatorInv, RequestInv
<1>1. ASSUME Inv /\ GoneInv, NEW j \in Jobs, Creating(j) PROVE GoneInv'
  BY <1>1 DEF Creating, Admit, Insert, Start
<1>2. ASSUME Inv /\ GoneInv, NEW j \in Jobs, Running(j) PROVE GoneInv'
  <2>1. CASE Queue(j)
    BY <1>2, <2>1 DEF Queue
  <2>2. CASE GiveUpWaiting(j)
    BY <1>2, <2>2 DEF GiveUpWaiting
  <2>3. ASSUME NEW o \in Calls, WriteStart(j, o) PROVE GoneInv'
    BY <1>2, <2>3 DEF WriteStart, Update
  <2>4. ASSUME NEW o \in Calls, WriteEnd(j, o) PROVE GoneInv'
    BY <1>2, <2>4 DEF WriteEnd, Update
  <2>5. ASSUME NEW how \in Outcomes \ {"none"}, EndSearch(j, how) PROVE GoneInv'
    BY <1>2, <2>5 DEF EndSearch
  <2>6. CASE Decide(j)
    BY <1>2, <2>6 DEF Decide
  <2>7. CASE Forget(j)
    BY <1>2, <2>7 DEF Forget, Forgotten
  <2>8. CASE ReleaseSlot(j)
    BY <1>2, <2>8 DEF ReleaseSlot, Released
  <2>. QED BY <1>2, <2>1, <2>2, <2>3, <2>4, <2>5, <2>6, <2>7, <2>8 DEF Running
<1>3. ASSUME Inv /\ GoneInv, NEW j \in Jobs, TakeSlot(j) PROVE GoneInv'
  BY <1>3 DEF TakeSlot
<1>4. ASSUME Inv /\ GoneInv, NEW j \in Jobs, Locking(j) PROVE GoneInv'
  BY <1>4 DEF Locking, Begin, RecordStart, Record, RecordEnd
<1>5. ASSUME Inv /\ GoneInv, NEW r \in Requests, NEW j \in Jobs, AskStop(r, j) \/ AskDelete(r, j)
      PROVE GoneInv'
  BY <1>5 DEF AskStop, AskDelete, Ask
<1>6. ASSUME Inv /\ GoneInv, NEW r \in Requests, Serving(r) PROVE GoneInv'
  <2>1. ASSUME NEW o \in Calls, Cancel(r, o) PROVE GoneInv'
    BY <1>6, <2>1 DEF Cancel, Step, Update
  <2>2. ASSUME NEW o \in Calls, Delete(r, o) PROVE GoneInv'
    BY <1>6, <2>2 DEF Delete, Step, Remove, Applied
  <2>3. ASSUME NEW o \in Calls, Erase(r, o) PROVE GoneInv'
    BY <1>6, <2>3 DEF Erase, Step, Remove
  <2>4. CASE ForgetCancelled(r)
    BY <1>6, <2>4 DEF ForgetCancelled, Step
  <2>5. CASE ForgetDeleted(r)
    BY <1>6, <2>5 DEF ForgetDeleted, Step
  <2>6. CASE ReadForConflict(r)
    BY <1>6, <2>6 DEF ReadForConflict, Step
  <2>. QED BY <1>6, <2>1, <2>2, <2>3, <2>4, <2>5, <2>6 DEF Serving
<1>7. ASSUME Inv /\ GoneInv, NEW r \in Requests, Acquiring(r) PROVE GoneInv'
  BY <1>7 DEF Acquiring, StopRunning, Step, StopCancelled, StopQueued,
     LockToDelete
<1>8. ASSUME Inv /\ GoneInv, Starting PROVE GoneInv'
  <2>1. CASE Boot
    BY <1>8, <2>1 DEF Boot, ToResume
  <2>2. ASSUME NEW j \in Jobs, NEW o \in Calls, Resume(j, o) PROVE GoneInv'
    BY <1>8, <2>2 DEF Resume, Update, ResumeInv, Unfinished
  <2>3. CASE EnqueueAll
    BY <1>8, <2>3 DEF EnqueueAll
  <2>. QED BY <1>8, <2>1, <2>2, <2>3 DEF Starting
<1>9. ASSUME Inv /\ GoneInv, Stopping PROVE GoneInv'
  BY <1>9 DEF Stopping, BeginDrain, EndDrain, Exit, LoseMemory
<1>10. ASSUME Inv /\ GoneInv, Shutdown PROVE GoneInv'
  BY <1>10 DEF Shutdown
<1>11. ASSUME Inv /\ GoneInv, Crash PROVE GoneInv'
  BY <1>11 DEF Crash, LoseMemory
<1>12. ASSUME Inv /\ GoneInv, UNCHANGED vars PROVE GoneInv'
  BY <1>12 DEF vars
<1>. QED BY <1>1, <1>2, <1>3, <1>4, <1>5, <1>6, <1>7, <1>8, <1>9, <1>10,
     <1>11, <1>12 DEF Next

LEMMA StartsStep == Inv /\ GoneInv /\ StartsInv /\ [Next]_vars => StartsInv'
<1>. USE DEF Inv, StartsInv, Counted, TypeOK, store, entry, running, slots,
             asked, server, history, BeforeRun, InRun, CreatorInv
<1>1. ASSUME Inv /\ GoneInv /\ StartsInv, NEW j \in Jobs, Creating(j)
      PROVE StartsInv'
  <2>1. CASE Admit(j)
    BY <1>1, <2>1 DEF Admit
  <2>2. ASSUME NEW o \in Calls, Insert(j, o) PROVE StartsInv'
    <3>. SUFFICES ASSUME NEW k \in Jobs PROVE Counted(k)'
      BY DEF StartsInv
    <3>1. Counted(k)
      BY <1>1, <2>2 DEF StartsInv
    <3>2. /\ starts[k] \in Nat /\ attempts[k] \in Nat /\ copy[k] \in 0..MaxAttempts
          /\ failures \in Nat /\ failures' \in Nat /\ failures' >= failures
          /\ MaxAttempts \in Nat
      BY <1>1, <2>2, CallFails, LimitsAssumption DEF TypeOK, Insert
    <3>3. /\ UNCHANGED <<starts, copy, runner, attempts>>
          /\ status'[k] # status[k] => k = j
          /\ creator'[k] # creator[k] => k = j
          /\ creator[j] = "inserting"
      BY <1>1, <2>2 DEF Insert, TypeOK
    <3>. QED BY <3>1, <3>2, <3>3 DEF Counted, BeforeRun, InRun
  <2>3. CASE Start(j)
    BY <1>1, <2>3 DEF Start
  <2>. QED BY <1>1, <2>1, <2>2, <2>3 DEF Creating
<1>2. ASSUME Inv /\ GoneInv /\ StartsInv, NEW j \in Jobs, Running(j)
      PROVE StartsInv'
  <2>1. CASE Queue(j)
    BY <1>2, <2>1 DEF Queue
  <2>2. CASE GiveUpWaiting(j)
    BY <1>2, <2>2 DEF GiveUpWaiting
  <2>3. ASSUME NEW o \in Calls, WriteStart(j, o) PROVE StartsInv'
    <3>. SUFFICES ASSUME NEW k \in Jobs PROVE Counted(k)'
      BY DEF StartsInv
    <3>1. Counted(k)
      BY <1>2, <2>3 DEF StartsInv
    <3>2. /\ starts[k] \in Nat /\ attempts[k] \in Nat /\ copy[k] \in 0..MaxAttempts
          /\ failures \in Nat /\ failures' \in Nat /\ failures' >= failures
          /\ MaxAttempts \in Nat
      BY <1>2, <2>3, CallFails, LimitsAssumption DEF TypeOK, WriteStart, Update, CreatorInv, Call, Applied
    <3>3. /\ UNCHANGED <<copy, creator>>
          /\ starts'[k] = IF k = j THEN starts[k] + 1 ELSE starts[k]
          /\ runner[j] = "writeStart" /\ creator[j] = "done"
          /\ runner'[k] = IF k = j THEN "searching" ELSE runner[k]
          /\ status'[k] # "absent" =>
                /\ status[k] # "absent"
                /\ \/ attempts'[k] = attempts[k] /\ (k = j => failures' = failures + 1)
                   \/ k = j /\ attempts'[k] = copy[k]
      BY <1>2, <2>3 DEF WriteStart, Update, CreatorInv, Call, Applied, TypeOK
    <3>. QED BY <3>1, <3>2, <3>3 DEF Counted, BeforeRun, InRun
  <2>4. ASSUME NEW o \in Calls, WriteEnd(j, o) PROVE StartsInv'
    <3>. SUFFICES ASSUME NEW k \in Jobs PROVE Counted(k)'
      BY DEF StartsInv
    <3>1. Counted(k)
      BY <1>2, <2>4 DEF StartsInv
    <3>2. /\ starts[k] \in Nat /\ attempts[k] \in Nat /\ copy[k] \in 0..MaxAttempts
          /\ failures \in Nat /\ failures' \in Nat /\ failures' >= failures
          /\ MaxAttempts \in Nat
      BY <1>2, <2>4, CallFails, LimitsAssumption DEF TypeOK, WriteEnd, Update
    <3>3. /\ UNCHANGED <<copy, creator, starts>>
          /\ runner[j] = "writeEnd"
          /\ runner'[k] = IF k = j THEN "forgetting" ELSE runner[k]
          /\ status'[k] # "absent" =>
                /\ status[k] # "absent"
                /\ attempts'[k] = attempts[k] \/ (k = j /\ attempts'[k] = copy[k])
      <4>1. CASE outcome[j] = "crashed"
        BY <1>2, <2>4, <4>1 DEF WriteEnd, Update
      <4>2. CASE outcome[j] # "crashed"
        BY <1>2, <2>4, <4>2 DEF WriteEnd, Update
      <4>. QED BY <4>1, <4>2
    <3>. QED BY <3>1, <3>2, <3>3 DEF Counted, BeforeRun, InRun
  <2>5. ASSUME NEW how \in Outcomes \ {"none"}, EndSearch(j, how) PROVE StartsInv'
    BY <1>2, <2>5 DEF EndSearch
  <2>6. CASE Decide(j)
    BY <1>2, <2>6 DEF Decide
  <2>7. CASE Forget(j)
    BY <1>2, <2>7 DEF Forget, Forgotten
  <2>8. CASE ReleaseSlot(j)
    BY <1>2, <2>8 DEF ReleaseSlot, Released
  <2>. QED BY <1>2, <2>1, <2>2, <2>3, <2>4, <2>5, <2>6, <2>7, <2>8 DEF Running
<1>3. ASSUME Inv /\ GoneInv /\ StartsInv, NEW j \in Jobs, TakeSlot(j)
      PROVE StartsInv'
  BY <1>3 DEF TakeSlot
<1>4. ASSUME Inv /\ GoneInv /\ StartsInv, NEW j \in Jobs, Locking(j)
      PROVE StartsInv'
  <2>1. CASE Begin(j)
    BY <1>4, <2>1 DEF Begin, NextAttempt, RangeInv
  <2>2. CASE RecordStart(j)
    <3>. SUFFICES ASSUME NEW k \in Jobs PROVE Counted(k)'
      BY DEF StartsInv
    <3>1. Counted(k)
      BY <1>4, <2>2 DEF StartsInv
    <3>2. /\ starts[k] \in Nat /\ attempts[k] \in Nat /\ copy[k] \in 0..MaxAttempts
          /\ failures \in Nat /\ failures' \in Nat /\ failures' >= failures
          /\ MaxAttempts \in Nat
      BY <1>4, <2>2,  LimitsAssumption DEF TypeOK, RecordStart, Record
    <3>3. /\ UNCHANGED <<copy, creator, status, attempts>>
          /\ runner[j] = "recordStart" /\ creator[j] = "done"
          /\ starts'[k] = starts[k] \/ (k = j /\ starts'[k] = starts[k] + 1)
          /\ k = j /\ status[j] # "absent" => starts'[k] = starts[k]
          /\ runner'[k] = runner[k] \/ (k = j /\ runner'[k] \in {"writeStart", "searching"})
          /\ starts'[k] # starts[k] => runner'[k] = "searching"
          /\ failures' = failures
      <4>1. creator[j] = "done" /\ (deleted[j] => status[j] = "absent")
        BY <1>4, <2>2 DEF CreatorInv, GoneInv, RecordStart, Record
      <4>2. CASE deleted[j]
        BY <1>4, <2>2, <4>1, <4>2 DEF RecordStart, Record
      <4>3. CASE ~deleted[j]
        BY <1>4, <2>2, <4>1, <4>3 DEF RecordStart, Record
      <4>. QED BY <4>2, <4>3
    <3>. QED BY <3>1, <3>2, <3>3 DEF Counted, BeforeRun, InRun
  <2>3. CASE RecordEnd(j)
    BY <1>4, <2>3 DEF RecordEnd, Record
  <2>. QED BY <1>4, <2>1, <2>2, <2>3 DEF Locking
<1>5. ASSUME Inv /\ GoneInv /\ StartsInv, NEW r \in Requests, NEW j \in Jobs, AskStop(r, j) \/ AskDelete(r, j)
      PROVE StartsInv'
  BY <1>5 DEF AskStop, AskDelete, Ask
<1>6. ASSUME Inv /\ GoneInv /\ StartsInv, NEW r \in Requests, Serving(r)
      PROVE StartsInv'
  <2>1. ASSUME NEW o \in Calls, Cancel(r, o) PROVE StartsInv'
    <3>. SUFFICES ASSUME NEW k \in Jobs PROVE Counted(k)'
      BY DEF StartsInv
    <3>1. Counted(k)
      BY <1>6, <2>1 DEF StartsInv
    <3>2. /\ starts[k] \in Nat /\ attempts[k] \in Nat /\ copy[k] \in 0..MaxAttempts
          /\ failures \in Nat /\ failures' \in Nat /\ failures' >= failures
          /\ MaxAttempts \in Nat
      BY <1>6, <2>1, CallFails, LimitsAssumption DEF TypeOK, Cancel, Step, Update
    <3>3. /\ UNCHANGED <<starts, copy, runner, creator>>
          /\ status'[k] # "absent" => status[k] # "absent" /\ attempts'[k] = attempts[k]
      BY <1>6, <2>1 DEF Cancel, Step, Update, TypeOK
    <3>. QED BY <3>1, <3>2, <3>3 DEF Counted, BeforeRun, InRun
  <2>2. ASSUME NEW o \in Calls, Delete(r, o) PROVE StartsInv'
    <3>. SUFFICES ASSUME NEW k \in Jobs PROVE Counted(k)'
      BY DEF StartsInv
    <3>1. Counted(k)
      BY <1>6, <2>2 DEF StartsInv
    <3>2. /\ starts[k] \in Nat /\ attempts[k] \in Nat /\ copy[k] \in 0..MaxAttempts
          /\ failures \in Nat /\ failures' \in Nat /\ failures' >= failures
          /\ MaxAttempts \in Nat
      BY <1>6, <2>2, CallFails, LimitsAssumption DEF TypeOK, Delete, Step, Remove
    <3>3. /\ UNCHANGED <<starts, copy, runner, creator>>
          /\ status'[k] # "absent" => status[k] # "absent" /\ attempts'[k] = attempts[k]
      BY <1>6, <2>2 DEF Delete, Step, Remove, TypeOK
    <3>. QED BY <3>1, <3>2, <3>3 DEF Counted, BeforeRun, InRun
  <2>3. ASSUME NEW o \in Calls, Erase(r, o) PROVE StartsInv'
    <3>. SUFFICES ASSUME NEW k \in Jobs PROVE Counted(k)'
      BY DEF StartsInv
    <3>1. Counted(k)
      BY <1>6, <2>3 DEF StartsInv
    <3>2. /\ starts[k] \in Nat /\ attempts[k] \in Nat /\ copy[k] \in 0..MaxAttempts
          /\ failures \in Nat /\ failures' \in Nat /\ failures' >= failures
          /\ MaxAttempts \in Nat
      BY <1>6, <2>3, CallFails, LimitsAssumption DEF TypeOK, Erase, Step, Remove
    <3>3. /\ UNCHANGED <<starts, copy, runner, creator>>
          /\ status'[k] # "absent" => status[k] # "absent" /\ attempts'[k] = attempts[k]
      BY <1>6, <2>3 DEF Erase, Step, Remove, TypeOK
    <3>. QED BY <3>1, <3>2, <3>3 DEF Counted, BeforeRun, InRun
  <2>4. CASE ForgetCancelled(r)
    BY <1>6, <2>4 DEF ForgetCancelled, Step
  <2>5. CASE ForgetDeleted(r)
    BY <1>6, <2>5 DEF ForgetDeleted, Step
  <2>6. CASE ReadForConflict(r)
    BY <1>6, <2>6 DEF ReadForConflict, Step
  <2>. QED BY <1>6, <2>1, <2>2, <2>3, <2>4, <2>5, <2>6 DEF Serving
<1>7. ASSUME Inv /\ GoneInv /\ StartsInv, NEW r \in Requests, Acquiring(r)
      PROVE StartsInv'
  BY <1>7 DEF Acquiring, StopRunning, Step, StopCancelled, StopQueued,
     LockToDelete
<1>8. ASSUME Inv /\ GoneInv /\ StartsInv, Starting PROVE StartsInv'
  <2>1. CASE Boot
    BY <1>8, <2>1 DEF Boot, ToResume
  <2>2. ASSUME NEW j \in Jobs, NEW o \in Calls, Resume(j, o) PROVE StartsInv'
    <3>. SUFFICES ASSUME NEW k \in Jobs PROVE Counted(k)'
      BY DEF StartsInv
    <3>1. Counted(k)
      BY <1>8, <2>2 DEF StartsInv
    <3>2. /\ starts[k] \in Nat /\ attempts[k] \in Nat /\ copy[k] \in 0..MaxAttempts
          /\ failures \in Nat /\ failures' \in Nat /\ failures' >= failures
          /\ MaxAttempts \in Nat
      BY <1>8, <2>2, CallFails, LimitsAssumption DEF TypeOK, Resume, Update
    <3>3. /\ UNCHANGED <<starts, copy, runner, creator>>
          /\ status'[k] # "absent" => status[k] # "absent" /\ attempts'[k] = attempts[k]
      BY <1>8, <2>2 DEF Resume, Update, TypeOK
    <3>. QED BY <3>1, <3>2, <3>3 DEF Counted, BeforeRun, InRun
  <2>3. CASE EnqueueAll
    BY <1>8, <2>3 DEF EnqueueAll, ResumeInv, Unfinished
  <2>. QED BY <1>8, <2>1, <2>2, <2>3 DEF Starting
<1>9. ASSUME Inv /\ GoneInv /\ StartsInv, Stopping PROVE StartsInv'
  BY <1>9 DEF Stopping, BeginDrain, EndDrain, Exit, LoseMemory
<1>10. ASSUME Inv /\ GoneInv /\ StartsInv, Shutdown PROVE StartsInv'
  BY <1>10 DEF Shutdown
<1>11. ASSUME Inv /\ GoneInv /\ StartsInv, Crash PROVE StartsInv'
  BY <1>11 DEF Crash, LoseMemory
<1>12. ASSUME Inv /\ GoneInv /\ StartsInv, UNCHANGED vars PROVE StartsInv'
  BY <1>12 DEF vars
<1>. QED BY <1>1, <1>2, <1>3, <1>4, <1>5, <1>6, <1>7, <1>8, <1>9, <1>10,
     <1>11, <1>12 DEF Next

LEMMA LiveFinite ==
    ASSUME TypeOK, NEW a PROVE IsFiniteSet(LiveOf(a))
<1>1. IsFiniteSet(Jobs)
  BY JobsAssumption
<1>2. LiveOf(a) \subseteq Jobs
  BY DEF LiveOf, TypeOK
<1>. QED BY <1>1, <1>2, FS_Subset

\* Giving places back, and starting afresh, keep the limit.
LEMMA QuotaShrinks ==
    ASSUME TypeOK, QuotaHolds, live' \subseteq live, resumed' = resumed
    PROVE  QuotaHolds'
<1>. SUFFICES ASSUME NEW a \in Accounts
              PROVE  LiveOf(a)' \subseteq resumed' \/ Cardinality(LiveOf(a)') <= MaxPerAccount
  BY DEF QuotaHolds
<1>1. LiveOf(a)' \subseteq LiveOf(a)
  BY DEF LiveOf
<1>2. IsFiniteSet(LiveOf(a))
  BY LiveFinite
<1>3. /\ Cardinality(LiveOf(a)') <= Cardinality(LiveOf(a))
      /\ Cardinality(LiveOf(a)') \in Nat /\ Cardinality(LiveOf(a)) \in Nat
  BY <1>1, <1>2, FS_Subset, FS_CardinalityType
<1>4. LiveOf(a) \subseteq resumed \/ Cardinality(LiveOf(a)) <= MaxPerAccount
  BY DEF QuotaHolds
<1>. QED BY <1>1, <1>3, <1>4, LimitsAssumption

LEMMA QuotaEmpty == live' \subseteq resumed' => QuotaHolds'
  BY DEF QuotaHolds, LiveOf


LEMMA QuotaStep == Inv /\ QuotaHolds /\ [Next]_vars => QuotaHolds'
<1>. USE DEF Inv, store, entry, running, slots, asked, server, history
<1>1. ASSUME Inv, QuotaHolds, NEW j \in Jobs, Creating(j) PROVE QuotaHolds'
  <2>1. CASE Admit(j)
    <3>. SUFFICES ASSUME NEW a \in Accounts
                  PROVE  LiveOf(a)' \subseteq resumed' \/ Cardinality(LiveOf(a)') <= MaxPerAccount
      BY DEF QuotaHolds
    <3>1. live' = live \cup {j} /\ resumed' = resumed /\ HasRoom(OwnerOf[j])
      BY <1>1, <2>1 DEF Admit
    <3>2. CASE OwnerOf[j] = a
      <4>1. LiveOf(a)' = LiveOf(a) \cup {j}
        BY <3>1, <3>2 DEF LiveOf
      <4>2. IsFiniteSet(LiveOf(a))
        BY <1>1, <2>1, LiveFinite
      <4>3. /\ IsFiniteSet(LiveOf(a) \cup {j})
            /\ Cardinality(LiveOf(a) \cup {j}) =
                 IF j \in LiveOf(a) THEN Cardinality(LiveOf(a)) ELSE Cardinality(LiveOf(a)) + 1
        BY <4>2, FS_AddElement
      <4>5. Cardinality(LiveOf(a)) \in Nat
        BY <4>2, FS_CardinalityType
      <4>4. Cardinality(LiveOf(a)) < MaxPerAccount
        BY <3>1, <3>2 DEF HasRoom
      <4>. QED BY <4>1, <4>3, <4>5, <4>4, LimitsAssumption
    <3>3. CASE OwnerOf[j] # a
      <4>1. LiveOf(a)' = LiveOf(a)
        BY <3>1, <3>3 DEF LiveOf
      <4>. QED BY <1>1, <2>1, <3>1, <4>1 DEF QuotaHolds
    <3>. QED BY <3>2, <3>3
  <2>2. ASSUME NEW o \in Calls, Insert(j, o) PROVE QuotaHolds'
    BY <1>1, <2>2, QuotaShrinks DEF Insert
  <2>3. CASE Start(j)
    BY <1>1, <2>3, QuotaShrinks DEF Start
  <2>. QED BY <1>1, <2>1, <2>2, <2>3 DEF Creating
<1>2. ASSUME Inv, QuotaHolds, NEW j \in Jobs, Running(j) PROVE QuotaHolds'
  BY <1>2, QuotaShrinks DEF Running, Queue, GiveUpWaiting, WriteStart,
     WriteEnd, EndSearch, Decide, Forget, Forgotten, ReleaseSlot, Released
<1>3. ASSUME Inv, QuotaHolds, NEW j \in Jobs, TakeSlot(j) PROVE QuotaHolds'
  BY <1>3, QuotaShrinks DEF TakeSlot
<1>4. ASSUME Inv, QuotaHolds, NEW j \in Jobs, Locking(j) PROVE QuotaHolds'
  BY <1>4, QuotaShrinks DEF Locking, Begin, RecordStart, Record, RecordEnd
<1>5. ASSUME Inv, QuotaHolds, NEW r \in Requests, NEW j \in Jobs, AskStop(r, j) \/ AskDelete(r, j)
      PROVE QuotaHolds'
  BY <1>5, QuotaShrinks DEF AskStop, AskDelete, Ask
<1>6. ASSUME Inv, QuotaHolds, NEW r \in Requests, Serving(r)
      PROVE QuotaHolds'
  BY <1>6, QuotaShrinks DEF Serving, Cancel, Step, Delete, Erase,
     ForgetCancelled, ForgetDeleted, ReadForConflict
<1>7. ASSUME Inv, QuotaHolds, NEW r \in Requests, Acquiring(r)
      PROVE QuotaHolds'
  BY <1>7, QuotaShrinks DEF Acquiring, StopRunning, Step, StopCancelled,
     StopQueued, LockToDelete
<1>8. ASSUME Inv, QuotaHolds, Starting PROVE QuotaHolds'
  <2>1. CASE Boot
    BY <1>8, <2>1, QuotaShrinks DEF Boot, ToResume
  <2>2. ASSUME NEW j \in Jobs, NEW o \in Calls, Resume(j, o) PROVE QuotaHolds'
    <3>1. live = {}
      BY <1>8, <2>2 DEF Resume, QuietInv, Quiet
    <3>. QED BY <1>8, <2>2, <3>1, QuotaEmpty DEF Resume
  <2>3. CASE EnqueueAll
    <3>1. live = {}
      BY <1>8, <2>3 DEF EnqueueAll, QuietInv, Quiet
    <3>. QED BY <1>8, <2>3, <3>1, QuotaEmpty DEF EnqueueAll
  <2>. QED BY <1>8, <2>1, <2>2, <2>3 DEF Starting
<1>9. ASSUME Inv, QuotaHolds, Stopping PROVE QuotaHolds'
  <2>1. CASE BeginDrain
    BY <1>9, <2>1, QuotaShrinks DEF BeginDrain
  <2>2. CASE EndDrain
    BY <1>9, <2>2, QuotaShrinks DEF EndDrain
  <2>3. CASE Exit
    BY <1>9, <2>3, QuotaEmpty DEF Exit, LoseMemory
  <2>. QED BY <1>9, <2>1, <2>2, <2>3 DEF Stopping
<1>10. ASSUME Inv, QuotaHolds, Shutdown PROVE QuotaHolds'
  BY <1>10, QuotaShrinks DEF Shutdown
<1>11. ASSUME Inv, QuotaHolds, Crash PROVE QuotaHolds'
  BY <1>11, QuotaEmpty, QuotaShrinks DEF Crash, LoseMemory
<1>12. ASSUME Inv, QuotaHolds, UNCHANGED vars PROVE QuotaHolds'
  BY <1>12, QuotaEmpty, QuotaShrinks DEF vars
<1>. QED BY <1>1, <1>2, <1>3, <1>4, <1>5, <1>6, <1>7, <1>8, <1>9, <1>10,
     <1>11, <1>12 DEF Next

-----------------------------------------------------------------------------

\* No finished document changes again but to be deleted, if no store call is
\* applied and reported lost (the diagram at the top of jobs.rs).
THEOREM FinishedFinal ==
    ASSUME "lost" \notin Faults PROVE Spec => FinishedIsFinal
<1>1. Init => OpenInv
  BY DEF Init, OpenInv, InRun, BeforeRun, Finished
<1>2. Inv /\ OpenInv /\ [Next]_vars => OpenInv'
  BY OpenStep
<1>3. Inv /\ OpenInv /\ [Next]_vars =>
        [\A j \in Jobs : status[j] \in Finished => status'[j] \in {status[j], "absent"}]_vars
  BY FinalStep DEF KeepsFinished
<1>. QED BY <1>1, <1>2, <1>3, Invariance, PTL DEF Spec, FinishedIsFinal

\* A solve is searched at most MAX_ATTEMPTS times however often the server is
\* restarted, and once more for each store call that failed (resume and
\* start in jobs.rs).
THEOREM StartsBounded == Spec => []StartsAreBounded
<1>1. Init => GoneInv /\ StartsInv
  BY LimitsAssumption, BoundsAssumption
     DEF Init, GoneInv, StartsInv, Counted, InRun, BeforeRun
<1>2. Inv /\ GoneInv /\ StartsInv /\ [Next]_vars => GoneInv' /\ StartsInv'
  BY GoneStep, StartsStep
<1>3. StartsInv => StartsAreBounded
  BY DEF StartsInv, Counted, StartsAreBounded
<1>. QED BY <1>1, <1>2, <1>3, Invariance, PTL DEF Spec

\* Without what resume queued again, no account ever has more than
\* max_solves_per_account solves queued or running (Jobs::admit).
THEOREM QuotaBounded == Spec => []QuotaHolds
<1>1. Init => QuotaHolds
  BY DEF Init, QuotaHolds, LiveOf
<1>2. Inv /\ QuotaHolds /\ [Next]_vars => QuotaHolds'
  BY QuotaStep
<1>. QED BY <1>1, <1>2, Invariance, PTL DEF Spec

-----------------------------------------------------------------------------
(* A stop answered before the shutdown.                                    *)

\* Nothing will make the document of j unfinished again.
Settled(j) ==
    creator[j] = "done" /\ runner[j] \notin BeforeRun \cup InRun /\ status[j] \notin Unfinished

\* In the first run of the server: a search under way or wound down stands
\* behind every running entry, and a flag no shutdown can outrun behind every
\* stop that was answered.
StopInv ==
    failures = 0 =>
        /\ boots = 0 => phase = "down"
        /\ boots = 0 \/ (boots = 1 /\ phase = "resuming") =>
              \A j \in Jobs : answers[j] = {}
        /\ boots = 1 /\ phase = "serving" => \A j \in Jobs :
              /\ stage[j] = "running" => runner[j] \in InRun \/ Settled(j)
              /\ runner[j] = "deciding" => stop[j]
        /\ boots = 1 /\ ~Quiet => \A j \in Jobs :
              "stopping" \in answers[j] =>
                  (runner[j] \in InRun /\ stop[j]) \/ Settled(j)

LEMMA StopStep == Inv /\ GoneInv /\ StopInv /\ [Next]_vars => StopInv'
<1>. USE DEF Inv, GoneInv, StopInv, Settled, Quiet, TypeOK, store, entry,
             running, slots, asked, server, history, BeforeRun, InRun, Up,
             CreatorInv, StageInv
<1>1. ASSUME Inv, GoneInv, StopInv, NEW j \in Jobs, Creating(j) PROVE StopInv'
  <2>1. CASE Admit(j)
    BY <1>1, <2>1 DEF Admit
  <2>2. ASSUME NEW o \in Calls, Insert(j, o) PROVE StopInv'
    BY <1>1, <2>2, CallFails DEF Insert
  <2>3. CASE Start(j)
    BY <1>1, <2>3 DEF Start
  <2>. QED BY <1>1, <2>1, <2>2, <2>3 DEF Creating
<1>2. ASSUME Inv, GoneInv, StopInv, NEW j \in Jobs, Running(j) PROVE StopInv'
  <2>1. CASE Queue(j)
    BY <1>2, <2>1 DEF Queue
  <2>2. CASE GiveUpWaiting(j)
    BY <1>2, <2>2 DEF GiveUpWaiting
  <2>3. ASSUME NEW o \in Calls, WriteStart(j, o) PROVE StopInv'
    BY <1>2, <2>3, CallFails DEF WriteStart, Update
  <2>4. ASSUME NEW o \in Calls, WriteEnd(j, o) PROVE StopInv'
    <3>1. failures' = 0 => failures = 0 /\ Applied(o)
      BY <1>2, <2>4 DEF WriteEnd, Call, Applied
    <3>2. outcome[j] \in {"done", "failed", "crashed"}
      BY <1>2, <2>4 DEF WriteEnd, RangeInv
    <3>3. failures' = 0 => status'[j] \notin Unfinished
      BY <1>2, <2>4, <3>1, <3>2 DEF WriteEnd, Update, Unfinished
    <3>4. \A k \in Jobs : k # j => status'[k] = status[k]
      BY <1>2, <2>4 DEF WriteEnd, Update
    <3>. QED BY <1>2, <2>4, <3>1, <3>3, <3>4 DEF WriteEnd
  <2>5. ASSUME NEW how \in Outcomes \ {"none"}, EndSearch(j, how) PROVE StopInv'
    BY <1>2, <2>5 DEF EndSearch, ShouldStop, ShuttingDown
  <2>6. CASE Decide(j)
    BY <1>2, <2>6 DEF Decide, ByShutdown
  <2>7. CASE Forget(j)
    BY <1>2, <2>7 DEF Forget, Forgotten
  <2>8. CASE ReleaseSlot(j)
    BY <1>2, <2>8 DEF ReleaseSlot, Released
  <2>. QED BY <1>2, <2>1, <2>2, <2>3, <2>4, <2>5, <2>6, <2>7, <2>8 DEF Running
<1>3. ASSUME Inv, GoneInv, StopInv, NEW j \in Jobs, TakeSlot(j) PROVE StopInv'
  BY <1>3 DEF TakeSlot
<1>4. ASSUME Inv, GoneInv, StopInv, NEW j \in Jobs, Locking(j) PROVE StopInv'
  <2>1. CASE Begin(j)
    BY <1>4, <2>1 DEF Begin
  <2>2. CASE RecordStart(j)
    BY <1>4, <2>2 DEF RecordStart, Record
  <2>3. CASE RecordEnd(j)
    BY <1>4, <2>3 DEF RecordEnd, Record, Unfinished
  <2>. QED BY <1>4, <2>1, <2>2, <2>3 DEF Locking
<1>5. ASSUME Inv, GoneInv, StopInv, NEW r \in Requests, NEW j \in Jobs,
             AskStop(r, j) \/ AskDelete(r, j)
      PROVE StopInv'
  BY <1>5 DEF AskStop, AskDelete, Ask
<1>6. ASSUME Inv, GoneInv, StopInv, NEW r \in Requests, Serving(r) PROVE StopInv'
  <2>1. ASSUME NEW o \in Calls, Cancel(r, o) PROVE StopInv'
    <3>1. failures' = 0 => failures = 0
      BY <1>6, <2>1, CallFails DEF Cancel
    <3>2. \A k \in Jobs : status[k] \notin Unfinished => status'[k] \notin Unfinished
      BY <1>6, <2>1 DEF Cancel, Update, Unfinished
    <3>3. /\ UNCHANGED <<boots, phase, runner, creator, answers, stop>>
          /\ \A k \in Jobs : stage'[k] = "running" => stage[k] = "running"
      BY <1>6, <2>1 DEF Cancel, Step
    <3>. QED BY <1>6, <3>1, <3>2, <3>3
  <2>2. ASSUME NEW o \in Calls, Delete(r, o) PROVE StopInv'
    <3>1. failures' = 0 => failures = 0
      BY <1>6, <2>2, CallFails DEF Delete
    <3>2. \A k \in Jobs : status[k] \notin Unfinished => status'[k] \notin Unfinished
      BY <1>6, <2>2 DEF Delete, Remove, Unfinished
    <3>3. /\ UNCHANGED <<boots, phase, runner, creator>>
          /\ \A k \in Jobs : /\ stage'[k] = "running" => stage[k] = "running"
                             /\ stop[k] => stop'[k]
                             /\ "stopping" \in answers'[k] => "stopping" \in answers[k]
      BY <1>6, <2>2 DEF Delete, Step, Queued, Answer
    <3>4. (boots # 0 /\ phase # "resuming") \/ failures' # 0
      BY <1>6, <2>2, <3>1 DEF Delete, Step
    <3>. QED BY <1>6, <3>1, <3>2, <3>3, <3>4
  <2>3. ASSUME NEW o \in Calls, Erase(r, o) PROVE StopInv'
    <3>1. failures' = 0 => failures = 0
      BY <1>6, <2>3, CallFails DEF Erase
    <3>2. \A k \in Jobs : status[k] \notin Unfinished => status'[k] \notin Unfinished
      BY <1>6, <2>3 DEF Erase, Remove, Unfinished
    <3>3. /\ UNCHANGED <<boots, phase, runner, creator, stage, stop>>
          /\ \A k \in Jobs : "stopping" \in answers'[k] => "stopping" \in answers[k]
      BY <1>6, <2>3 DEF Erase, Step, Answer
    <3>4. (boots # 0 /\ phase # "resuming") \/ failures' # 0
      BY <1>6, <2>3, <3>1 DEF Erase, Step
    <3>. QED BY <1>6, <3>1, <3>2, <3>3, <3>4
  <2>4. CASE ForgetCancelled(r)
    BY <1>6, <2>4 DEF ForgetCancelled, Step, Answer
  <2>5. CASE ForgetDeleted(r)
    BY <1>6, <2>5 DEF ForgetDeleted, Step, Answer
  <2>6. CASE ReadForConflict(r)
    BY <1>6, <2>6 DEF ReadForConflict, Step
  <2>. QED BY <1>6, <2>1, <2>2, <2>3, <2>4, <2>5, <2>6 DEF Serving
<1>7. ASSUME Inv, GoneInv, StopInv, NEW r \in Requests, Acquiring(r) PROVE StopInv'
  <2>1. CASE StopRunning(r)
    <3>1. PICK j \in Jobs : j = target[r]
      BY <1>7
    <3>2. /\ stage[j] = "running" /\ phase \notin {"down", "resuming"}
          /\ stop' = [stop EXCEPT ![j] = TRUE]
          /\ UNCHANGED <<failures, boots, phase, runner, creator, status, stage>>
      BY <1>7, <2>1, <3>1 DEF StopRunning, Step, Stoppable
    <3>3. /\ \A k \in Jobs : k # j => answers'[k] = answers[k]
          /\ "stopping" \in answers'[j] => "stopping" \in answers[j] \/ phase = "serving"
      <4>1. answers' = [answers EXCEPT ![j] = answers[j] \cup
                          {IF ShuttingDown THEN "stoppingLate" ELSE "stopping"}]
        BY <2>1, <3>1 DEF StopRunning, Answer
      <4>2. phase = "serving" \/ ShuttingDown
        BY <1>7, <3>2 DEF ShuttingDown, Phases
      <4>. QED BY <1>7, <4>1, <4>2
    <3>. QED BY <1>7, <3>2, <3>3
  <2>2. CASE StopCancelled(r)
    BY <1>7, <2>2 DEF StopCancelled, Step, Answer
  <2>3. CASE StopQueued(r)
    BY <1>7, <2>3 DEF StopQueued, Step
  <2>4. CASE LockToDelete(r)
    BY <1>7, <2>4 DEF LockToDelete, Step
  <2>. QED BY <1>7, <2>1, <2>2, <2>3, <2>4 DEF Acquiring
<1>8. ASSUME Inv, GoneInv, StopInv, Starting PROVE StopInv'
  <2>1. CASE Boot
    BY <1>8, <2>1 DEF Boot
  <2>2. ASSUME NEW j \in Jobs, NEW o \in Calls, Resume(j, o) PROVE StopInv'
    BY <1>8, <2>2, CallFails DEF Resume, Call
  <2>3. CASE EnqueueAll
    BY <1>8, <2>3 DEF EnqueueAll, QuietInv
  <2>. QED BY <1>8, <2>1, <2>2, <2>3 DEF Starting
<1>9. ASSUME Inv, GoneInv, StopInv, Stopping PROVE StopInv'
  BY <1>9 DEF Stopping, BeginDrain, EndDrain, Exit, LoseMemory
<1>10. ASSUME Inv, GoneInv, StopInv, Shutdown PROVE StopInv'
  BY <1>10 DEF Shutdown
<1>11. ASSUME Inv, GoneInv, StopInv, Crash PROVE StopInv'
  BY <1>11 DEF Crash, LoseMemory
<1>12. ASSUME Inv, GoneInv, StopInv, UNCHANGED vars PROVE StopInv'
  BY <1>12 DEF vars
<1>. QED BY <1>1, <1>2, <1>3, <1>4, <1>5, <1>6, <1>7, <1>8, <1>9, <1>10,
     <1>11, <1>12 DEF Next

\* A stop answered before the shutdown is on record when the store closes, if
\* the server was not restarted and no store call failed (jobs.rs, 23-26).
THEOREM StopRecorded == Spec => []StopIsRecorded
<1>1. Init => GoneInv /\ StopInv
  BY DEF Init, GoneInv, StopInv, Settled, Quiet
<1>2. Inv /\ GoneInv /\ StopInv /\ [Next]_vars => GoneInv' /\ StopInv'
  BY GoneStep, StopStep
<1>3. Inv /\ StopInv => StopIsRecorded
  BY DEF Inv, StopInv, Settled, Quiet, DrainedIsQuiet, StopIsRecorded
<1>. QED BY <1>1, <1>2, <1>3, Invariance, PTL DEF Spec

-----------------------------------------------------------------------------
(* Without a failed store call no unfinished solve is ever left alone.     *)

\* Somebody will go on with j.
Carried(j) ==
    j \in live /\ (creator[j] = "starting" \/ runner[j] \in BeforeRun \cup InRun)

\* resume finds every unfinished document and queues it again; from then on
\* each has a creator or a runner.  A runner is told to stop only by a request
\* while the server serves, and a request that found no entry will find none.
\* A document is stored only while its creator holds a place.
KeptInv ==
    failures = 0 =>
        /\ phase = "resuming" =>
              \A j \in Jobs : status[j] \in Unfinished => j \in todo \cup resumed
        /\ phase = "serving" =>
              /\ \A j \in Jobs :
                    /\ status[j] \in Unfinished => Carried(j)
                    /\ runner[j] = "deciding" => stop[j]
                    /\ creator[j] = "inserting" => j \in live
              /\ \A r \in Requests : at[r] = "reading" => target[r] \notin live

LEMMA KeptStep == Inv /\ GoneInv /\ KeptInv /\ [Next]_vars => KeptInv'
<1>. USE DEF Inv, GoneInv, KeptInv, Carried, TypeOK, store, entry, running, slots,
             asked, server, history, Unfinished
<1>1. ASSUME Inv, GoneInv, KeptInv, NEW j \in Jobs, Creating(j) PROVE KeptInv'
  <2>1. CASE Admit(j)
    BY <1>1, <2>1 DEF Admit, RequestInv
  <2>2. ASSUME NEW o \in Calls, Insert(j, o) PROVE KeptInv'
    <3>a. phase' = phase /\ phase # "resuming"
      BY <2>2 DEF Insert, Up
    <3>. SUFFICES ASSUME failures' = 0, phase = "serving" PROVE KeptInv'
      BY <3>a
    <3>1. failures = 0 /\ o = "ok"
      BY <1>1, <2>2 DEF Insert, Call
    <3>2. j \in live
      BY <1>1, <2>2, <3>1 DEF Insert
    <3>3. creator' = [creator EXCEPT ![j] = "starting"] /\ live' = live
      BY <2>2, <3>1 DEF Insert
    <3>4. status' = [status EXCEPT ![j] = "pending"]
      BY <2>2, <3>1 DEF Insert, Applied
    <3>. QED BY <1>1, <2>2, <3>a, <3>1, <3>2, <3>3, <3>4 DEF Insert
  <2>3. CASE Start(j)
    BY <1>1, <2>3 DEF Start, BeforeRun, InRun, CreatorInv
  <2>. QED BY <1>1, <2>1, <2>2, <2>3 DEF Creating
<1>2. ASSUME Inv, GoneInv, KeptInv, NEW j \in Jobs, Running(j) PROVE KeptInv'
  <2>1. CASE Queue(j)
    BY <1>2, <2>1 DEF Queue, BeforeRun, InRun
  <2>2. CASE GiveUpWaiting(j)
    <3>1. j \in live => status[j] \notin Unfinished
      BY <1>2, <2>2 DEF GiveUpWaiting, WakeInv, StageInv, AnswerInv
    <3>. QED BY <1>2, <2>2, <3>1 DEF GiveUpWaiting
  <2>3. ASSUME NEW o \in Calls, WriteStart(j, o) PROVE KeptInv'
    <3>1. j \in live
      BY <1>2, <2>3 DEF WriteStart, PlaceInv, InRun
    <3>2. CASE failures' = 0
      <4>1. failures = 0
        BY <1>2, <2>3, <3>2 DEF WriteStart, Call
      <4>2. /\ \A k \in Jobs \ {j} : status'[k] = status[k] /\ runner'[k] = runner[k]
            /\ runner'[j] = "searching"
        BY <1>2, <2>3 DEF WriteStart, Update
      <4>3. \A k \in Jobs : status'[k] \in Unfinished /\ phase = "serving" => Carried(k)'
        BY <1>2, <2>3, <3>1, <4>1, <4>2 DEF WriteStart, InRun
      <4>4. phase = "resuming" => FALSE
        BY <1>2, <2>3 DEF WriteStart, Up
      <4>. QED BY <1>2, <2>3, <4>1, <4>2, <4>3, <4>4 DEF WriteStart
    <3>. QED BY <3>2
  <2>4. ASSUME NEW o \in Calls, WriteEnd(j, o) PROVE KeptInv'
    <3>1. CASE failures' = 0
      <4>1. failures = 0 /\ Applied(o)
        BY <1>2, <2>4, <3>1 DEF WriteEnd, Call, Applied
      <4>2. outcome[j] \in {"done", "failed", "crashed"}
        BY <1>2, <2>4 DEF WriteEnd, RangeInv
      <4>3. status'[j] \notin Unfinished
        BY <1>2, <2>4, <4>1, <4>2 DEF WriteEnd, Update
      <4>. QED BY <1>2, <2>4, <4>1, <4>3 DEF WriteEnd, Update
    <3>. QED BY <3>1
  <2>5. ASSUME NEW how \in Outcomes \ {"none"}, EndSearch(j, how) PROVE KeptInv'
    BY <1>2, <2>5 DEF EndSearch, ShouldStop, ShuttingDown, InRun, BeforeRun
  <2>6. CASE Decide(j)
    BY <1>2, <2>6 DEF Decide, ByShutdown, InRun, BeforeRun
  <2>7. CASE Forget(j)
    <3>1. runner[j] = "forgetting" /\ creator[j] = "done"
      BY <1>2, <2>7 DEF Forget, CreatorInv
    <3>. QED BY <1>2, <2>7, <3>1 DEF Forget, Forgotten, BeforeRun, InRun
  <2>8. CASE ReleaseSlot(j)
    BY <1>2, <2>8 DEF ReleaseSlot, Released, BeforeRun, InRun
  <2>. QED BY <1>2, <2>1, <2>2, <2>3, <2>4, <2>5, <2>6, <2>7, <2>8 DEF Running
<1>3. ASSUME Inv, GoneInv, KeptInv, NEW j \in Jobs, TakeSlot(j) PROVE KeptInv'
  BY <1>3 DEF TakeSlot, BeforeRun, InRun
<1>4. ASSUME Inv, GoneInv, KeptInv, NEW j \in Jobs, Locking(j) PROVE KeptInv'
  <2>1. CASE Begin(j)
    <3>1. CASE MustNotRun(j)
      <4>1. phase = "serving" => status[j] \notin Unfinished
        BY <1>4, <3>1 DEF MustNotRun, ShuttingDown, AnswerInv
      <4>. QED BY <1>4, <2>1, <3>1, <4>1 DEF Begin
    <3>2. CASE ~MustNotRun(j)
      BY <1>4, <2>1, <3>2 DEF Begin, BeforeRun, InRun
    <3>. QED BY <3>1, <3>2
  <2>2. CASE RecordStart(j)
    BY <1>4, <2>2 DEF RecordStart, Record, InRun
  <2>3. CASE RecordEnd(j)
    <3>1. deleted[j] => status[j] = "absent"
      BY <1>4
    <3>. QED BY <1>4, <2>3, <3>1 DEF RecordEnd, Record, InRun
  <2>. QED BY <1>4, <2>1, <2>2, <2>3 DEF Locking
<1>5. ASSUME Inv, GoneInv, KeptInv, NEW r \in Requests, NEW j \in Jobs,
             AskStop(r, j) \/ AskDelete(r, j)
      PROVE KeptInv'
  BY <1>5 DEF AskStop, AskDelete, Ask
<1>6. ASSUME Inv, GoneInv, KeptInv, NEW r \in Requests, Serving(r) PROVE KeptInv'
  <2>1. ASSUME NEW o \in Calls, Cancel(r, o) PROVE KeptInv'
    BY <1>6, <2>1 DEF Cancel, Step, Update, Call
  <2>2. ASSUME NEW o \in Calls, Delete(r, o) PROVE KeptInv'
    BY <1>6, <2>2 DEF Delete, Step, Remove, Call
  <2>3. ASSUME NEW o \in Calls, Erase(r, o) PROVE KeptInv'
    BY <1>6, <2>3 DEF Erase, Step, Remove, Call
  <2>4. CASE ForgetCancelled(r)
    <3>1. status[target[r]] \notin Unfinished /\ creator[target[r]] # "inserting"
      BY <1>6, <2>4 DEF RequestInv, ForgetCancelled, Step, StageInv, AnswerInv
    <3>. QED BY <1>6, <2>4, <3>1 DEF ForgetCancelled, Step
  <2>5. CASE ForgetDeleted(r)
    <3>1. status[target[r]] \notin Unfinished /\ creator[target[r]] # "inserting"
      BY <1>6, <2>5 DEF RequestInv, ForgetDeleted, Step, StageInv, AnswerInv
    <3>. QED BY <1>6, <2>5, <3>1 DEF ForgetDeleted, Step
  <2>6. CASE ReadForConflict(r)
    BY <1>6, <2>6 DEF ReadForConflict, Step
  <2>. QED BY <1>6, <2>1, <2>2, <2>3, <2>4, <2>5, <2>6 DEF Serving
<1>7. ASSUME Inv, GoneInv, KeptInv, NEW r \in Requests, Acquiring(r) PROVE KeptInv'
  BY <1>7 DEF Acquiring, StopRunning, Step, StopCancelled, StopQueued, LockToDelete
<1>8. ASSUME Inv, GoneInv, KeptInv, Starting PROVE KeptInv'
  <2>1. CASE Boot
    BY <1>8, <2>1 DEF Boot, ToResume
  <2>2. ASSUME NEW j \in Jobs, NEW o \in Calls, Resume(j, o) PROVE KeptInv'
    BY <1>8, <2>2 DEF Resume, Update, Call, Applied
  <2>3. CASE EnqueueAll
    <3>1. \A r \in Requests : at'[r] = "idle"
      BY <1>8, <2>3 DEF EnqueueAll, QuietInv, Quiet
    <3>2. \A k \in Jobs : runner'[k] # "deciding"
      BY <1>8, <2>3 DEF EnqueueAll, QuietInv, Quiet
    <3>3. \A k \in Jobs : creator'[k] # "inserting"
      BY <1>8, <2>3 DEF EnqueueAll, QuietInv, Quiet
    <3>. QED BY <1>8, <2>3, <3>1, <3>2, <3>3 DEF EnqueueAll, BeforeRun
  <2>. QED BY <1>8, <2>1, <2>2, <2>3 DEF Starting
<1>9. ASSUME Inv, GoneInv, KeptInv, Stopping PROVE KeptInv'
  BY <1>9 DEF Stopping, BeginDrain, EndDrain, Exit, LoseMemory
<1>10. ASSUME Inv, GoneInv, KeptInv, Shutdown PROVE KeptInv'
  BY <1>10 DEF Shutdown
<1>11. ASSUME Inv, GoneInv, KeptInv, Crash PROVE KeptInv'
  BY <1>11 DEF Crash, LoseMemory
<1>12. ASSUME Inv, GoneInv, KeptInv, UNCHANGED vars PROVE KeptInv'
  BY <1>12 DEF vars
<1>. QED BY <1>1, <1>2, <1>3, <1>4, <1>5, <1>6, <1>7, <1>8, <1>9, <1>10,
     <1>11, <1>12 DEF Next

LEMMA InitKept == Init => GoneInv /\ KeptInv
  BY DEF Init, GoneInv, KeptInv

\* While the server serves and no store call has failed, every pending or
\* running document has its entry and a creator or runner that will go on with
\* it, also after any number of crashes and restarts: no solve is left in the
\* store for a client to poll for ever (Jobs::enqueue, resume and start in
\* jobs.rs).
THEOREM UnfinishedLive == Spec => []UnfinishedIsLive
<1>1. Inv /\ GoneInv /\ KeptInv /\ [Next]_vars => GoneInv' /\ KeptInv'
  BY GoneStep, KeptStep
<1>2. KeptInv => UnfinishedIsLive
  BY DEF KeptInv, Carried, UnfinishedIsLive
<1>. QED BY InitKept, <1>1, <1>2, Invariance, PTL DEF Spec

\* A stop is refused as a conflict only for a solve that is finished or gone,
\* although the answer reads the document after the entry was found missing
\* (stop in solves.rs).
THEOREM ConflictsFinished == Spec => ConflictMeansFinished
<1>1. Inv /\ GoneInv /\ KeptInv /\ [Next]_vars => GoneInv' /\ KeptInv'
  BY GoneStep, KeptStep
<1>2. Inv /\ KeptInv =>
        [\A r \in Requests :
           (at[r] = "reading" /\ phase = "serving" /\ phase' = "serving"
             /\ at'[r] = "idle" /\ failures = 0)
           => status[target[r]] \notin Unfinished]_vars
  BY DEF Inv, TypeOK, KeptInv, Carried
<1>. QED BY InitKept, <1>1, <1>2, Invariance, PTL DEF Spec, ConflictMeansFinished

-----------------------------------------------------------------------------
(* The refinement: each step of a solve's tasks is a step of SolveLifecycle *)
(* or one that does not show.                                              *)

\* resume will queue every unfinished document it found, as pending.
FoundInv ==
    phase = "resuming" => \A j \in Jobs :
        /\ status[j] \in Unfinished => j \in todo \cup resumed
        /\ j \in resumed => status[j] = "pending"

\* What the document says of the start its runner is at.
RecordInv ==
    /\ failures <= MaxFailures
    /\ \A j \in Jobs :
          /\ creator[j] # "done" \/ status[j] = "absent" => attempts[j] = 0
          /\ ~Quiet /\ stage[j] = "queued" => status[j] # "running"
          /\ status[j] # "absent" =>
                /\ runner[j] \in BeforeRun => copy[j] = attempts[j]
                /\ runner[j] \in {"recordStart", "writeStart"} =>
                      status[j] = "pending" /\ copy[j] = attempts[j] + 1
                /\ runner[j] \in {"searching", "deciding", "recordEnd", "writeEnd"} =>
                      \/ status[j] = "running" /\ copy[j] = attempts[j]
                      \/ status[j] = "pending" /\ copy[j] = attempts[j] + 1 /\ failures > 0

LEMMA FoundStep == Inv /\ FoundInv /\ [Next]_vars => FoundInv'
<1>. USE DEF Inv, FoundInv, TypeOK, store, entry, running, slots, asked, server,
             history, Up, Handling
<1>1. ASSUME FoundInv, NEW j \in Jobs,
             Creating(j) \/ Running(j) \/ TakeSlot(j) \/ Locking(j)
      PROVE FoundInv'
  BY <1>1 DEF Creating, Running, Locking, Admit, Insert, Start, Queue,
     GiveUpWaiting, WriteStart, WriteEnd, EndSearch, Decide, Forget, ReleaseSlot,
     TakeSlot, Begin, RecordStart, RecordEnd, Record
<1>2. ASSUME FoundInv, NEW r \in Requests,
             \/ \E j \in Jobs : AskStop(r, j) \/ AskDelete(r, j)
             \/ Serving(r)
             \/ Acquiring(r)
      PROVE FoundInv'
  BY <1>2 DEF AskStop, AskDelete, Ask, Serving, Acquiring, Step, Cancel, Delete,
     Erase, ForgetCancelled, ForgetDeleted, ReadForConflict, StopRunning,
     StopCancelled, StopQueued, LockToDelete
<1>3. ASSUME Inv, FoundInv, Starting PROVE FoundInv'
  <2>1. CASE Boot
    BY <1>3, <2>1 DEF Boot, ToResume, DownInv
  <2>2. ASSUME NEW j \in Jobs, NEW o \in Calls, Resume(j, o) PROVE FoundInv'
    <3>1. CASE o = "ok"
      <4>1. /\ \A k \in Jobs : k # j => status'[k] = status[k]
            /\ status'[j] = IF Spent(attempts[j]) THEN "failed" ELSE "pending"
            /\ todo' = todo \ {j}
            /\ resumed' = IF Spent(attempts[j]) THEN resumed ELSE resumed \cup {j}
        BY <1>3, <2>2, <3>1 DEF Resume, Update, Applied, ResumeInv, Unfinished
      <4>2. "failed" \notin Unfinished /\ phase = "resuming"
        BY <2>2 DEF Resume, Unfinished
      <4>3. j \notin resumed
        BY <1>3, <2>2 DEF Resume, ResumeInv
      <4>4. ASSUME NEW k \in Jobs
            PROVE  /\ status'[k] \in Unfinished => k \in todo' \cup resumed'
                   /\ k \in resumed' => status'[k] = "pending"
        <5>1. CASE k = j
          BY <4>1, <4>2, <4>3, <5>1
        <5>2. CASE k # j
          BY <1>3, <4>1, <4>2, <5>2
        <5>. QED BY <5>1, <5>2
      <4>. QED BY <4>4
    <3>2. CASE o # "ok"
      BY <2>2, <3>2 DEF Resume
    <3>. QED BY <3>1, <3>2
  <2>3. CASE EnqueueAll
    BY <2>3 DEF EnqueueAll
  <2>. QED BY <1>3, <2>1, <2>2, <2>3 DEF Starting
<1>4. ASSUME FoundInv, Stopping \/ Shutdown \/ Crash \/ UNCHANGED vars PROVE FoundInv'
  BY <1>4 DEF Stopping, BeginDrain, EndDrain, Exit, Shutdown, Crash, LoseMemory, vars
<1>. QED BY <1>1, <1>2, <1>3, <1>4 DEF Next

LEMMA RecordStep ==
    Inv /\ OpenInv /\ GoneInv /\ FoundInv /\ RecordInv /\ "lost" \notin Faults
      /\ [Next]_vars => RecordInv'
<1>. USE BoundsAssumption
         DEF Inv, RecordInv, Quiet, TypeOK, store, entry, running, slots, asked,
             server, history, BeforeRun, InRun, Up, CreatorInv, StageInv
<1>1. ASSUME Inv, RecordInv, NEW j \in Jobs, Creating(j) PROVE RecordInv'
  <2>1. CASE Admit(j)
    BY <1>1, <2>1 DEF Admit
  <2>2. ASSUME NEW o \in Calls, Insert(j, o) PROVE RecordInv'
    BY <1>1, <2>2 DEF Insert, Call
  <2>3. CASE Start(j)
    BY <1>1, <2>3, LimitsAssumption DEF Start, RangeInv
  <2>. QED BY <1>1, <2>1, <2>2, <2>3 DEF Creating
<1>2. ASSUME Inv, OpenInv, RecordInv, "lost" \notin Faults, NEW j \in Jobs, Running(j)
      PROVE RecordInv'
  <2>1. CASE Queue(j)
    BY <1>2, <2>1 DEF Queue
  <2>2. CASE GiveUpWaiting(j)
    BY <1>2, <2>2 DEF GiveUpWaiting
  <2>3. ASSUME NEW o \in Calls, WriteStart(j, o) PROVE RecordInv'
    BY <1>2, <2>3 DEF WriteStart, Update, Call, Applied
  <2>4. ASSUME NEW o \in Calls, WriteEnd(j, o) PROVE RecordInv'
    BY <1>2, <2>4 DEF WriteEnd, Update, Call, Applied, RangeInv
  <2>5. ASSUME NEW how \in Outcomes \ {"none"}, EndSearch(j, how) PROVE RecordInv'
    BY <1>2, <2>5 DEF EndSearch
  <2>6. CASE Decide(j)
    BY <1>2, <2>6 DEF Decide
  <2>7. CASE Forget(j)
    BY <1>2, <2>7 DEF Forget, Forgotten
  <2>8. CASE ReleaseSlot(j)
    BY <1>2, <2>8 DEF ReleaseSlot, Released
  <2>. QED BY <1>2, <2>1, <2>2, <2>3, <2>4, <2>5, <2>6, <2>7, <2>8 DEF Running
<1>3. ASSUME Inv, RecordInv, NEW j \in Jobs, TakeSlot(j) PROVE RecordInv'
  BY <1>3 DEF TakeSlot
<1>4. ASSUME Inv, OpenInv, GoneInv, RecordInv, NEW j \in Jobs, Locking(j) PROVE RecordInv'
  <2>1. CASE Begin(j)
    BY <1>4, <2>1 DEF Begin, MustNotRun, NextAttempt, OpenInv, Statuses, Stages,
       Unfinished, Finished
  <2>2. CASE RecordStart(j)
    BY <1>4, <2>2 DEF RecordStart, Record, GoneInv
  <2>3. CASE RecordEnd(j)
    BY <1>4, <2>3 DEF RecordEnd, Record
  <2>. QED BY <1>4, <2>1, <2>2, <2>3 DEF Locking
<1>5. ASSUME Inv, RecordInv, NEW r \in Requests, NEW j \in Jobs,
             AskStop(r, j) \/ AskDelete(r, j)
      PROVE RecordInv'
  BY <1>5 DEF AskStop, AskDelete, Ask
<1>6. ASSUME Inv, RecordInv, NEW r \in Requests, Serving(r) PROVE RecordInv'
  <2>1. ASSUME NEW o \in Calls, Cancel(r, o) PROVE RecordInv'
    BY <1>6, <2>1 DEF Cancel, Update, Step, Call
  <2>2. ASSUME NEW o \in Calls, Delete(r, o) PROVE RecordInv'
    BY <1>6, <2>2 DEF Delete, Remove, Step, Call, Queued
  <2>3. ASSUME NEW o \in Calls, Erase(r, o) PROVE RecordInv'
    BY <1>6, <2>3 DEF Erase, Remove, Step, Call
  <2>4. CASE ForgetCancelled(r)
    BY <1>6, <2>4 DEF ForgetCancelled, Step, Answer
  <2>5. CASE ForgetDeleted(r)
    BY <1>6, <2>5 DEF ForgetDeleted, Step, Answer
  <2>6. CASE ReadForConflict(r)
    BY <1>6, <2>6 DEF ReadForConflict, Step
  <2>. QED BY <1>6, <2>1, <2>2, <2>3, <2>4, <2>5, <2>6 DEF Serving
<1>7. ASSUME Inv, RecordInv, NEW r \in Requests, Acquiring(r) PROVE RecordInv'
  <2>1. CASE StopRunning(r)
    BY <1>7, <2>1 DEF StopRunning, Step, Answer
  <2>2. CASE StopCancelled(r)
    BY <1>7, <2>2 DEF StopCancelled, Step, Answer
  <2>3. CASE StopQueued(r)
    BY <1>7, <2>3 DEF StopQueued, Step
  <2>4. CASE LockToDelete(r)
    BY <1>7, <2>4 DEF LockToDelete, Step
  <2>. QED BY <1>7, <2>1, <2>2, <2>3, <2>4 DEF Acquiring
<1>8. ASSUME Inv, FoundInv, RecordInv, Starting PROVE RecordInv'
  <2>1. CASE Boot
    BY <1>8, <2>1 DEF Boot
  <2>2. ASSUME NEW j \in Jobs, NEW o \in Calls, Resume(j, o) PROVE RecordInv'
    BY <1>8, <2>2 DEF Resume, Update, Call, QuietInv, ResumeInv
  <2>3. CASE EnqueueAll
    BY <1>8, <2>3 DEF EnqueueAll, QuietInv, FoundInv, ResumeInv, Unfinished
  <2>. QED BY <1>8, <2>1, <2>2, <2>3 DEF Starting
<1>9. ASSUME Inv, RecordInv, Stopping PROVE RecordInv'
  BY <1>9, SMTT(30) DEF Stopping, BeginDrain, EndDrain, Exit, LoseMemory
<1>10. ASSUME Inv, RecordInv, Shutdown PROVE RecordInv'
  BY <1>10 DEF Shutdown
<1>11. ASSUME Inv, RecordInv, Crash PROVE RecordInv'
  BY <1>11 DEF Crash, LoseMemory
<1>12. ASSUME Inv, RecordInv, UNCHANGED vars PROVE RecordInv'
  BY <1>12 DEF vars
<1>. QED BY <1>1, <1>2, <1>3, <1>4, <1>5, <1>6, <1>7, <1>8, <1>9, <1>10,
     <1>11, <1>12 DEF Next

\* A step that leaves the documents and the server's phase alone, and gives up
\* no creation of a solve not stored yet, does not show.
LEMMA Hidden ==
    ASSUME TypeOK, UNCHANGED store, Quiet' = Quiet,
           \A j \in Jobs : status[j] = "absent" =>
              (creator'[j] \in {"new", "inserting"} <=> creator[j] \in {"new", "inserting"})
    PROVE  UNCHANGED Lifecycle!vars
<1>1. Life' = Life
  BY DEF Life, TypeOK, store
<1>. QED BY <1>1 DEF Lifecycle!vars, Quiet, store

\* A step that changes one document, and nobody's creation, moves one solve.
LEMMA OneMoves ==
    ASSUME TypeOK, NEW j \in Jobs, status[j] # "absent", NEW st, NEW n,
           status' = [status EXCEPT ![j] = st], st # "absent",
           attempts' = [attempts EXCEPT ![j] = n],
           creator' = creator, Quiet' = Quiet
    PROVE  Lifecycle!Becomes(j, {status[j]}, st, n)
<1>1. Life[j] = status[j]
  BY DEF Life, TypeOK
<1>2. Life' = [Life EXCEPT ![j] = st]
  BY DEF Life, TypeOK
<1>. QED BY <1>1, <1>2 DEF Lifecycle!Becomes, Quiet

\* A document that is there no more cannot be deleted again.
LEMMA OneGoes ==
    ASSUME TypeOK, RecordInv, NEW j \in Jobs, creator[j] \in {"starting", "done"},
           status' = [status EXCEPT ![j] = "absent"],
           attempts' = [attempts EXCEPT ![j] = 0],
           creator' = creator, Quiet' = Quiet, ~Quiet
    PROVE  Lifecycle!Delete(j) \/ UNCHANGED Lifecycle!vars
<1>1. CASE status[j] = "absent"
  <2>1. UNCHANGED store
    BY <1>1 DEF RecordInv, TypeOK, store
  <2>. QED BY <2>1, Hidden
<1>2. CASE status[j] # "absent"
  <2>1. Life[j] = status[j] /\ status[j] \in Lifecycle!Stored
    BY <1>2 DEF Life, TypeOK, Statuses, Unfinished, Finished, Lifecycle!Stored
  <2>2. Life' = [Life EXCEPT ![j] = "gone"]
    BY DEF Life, TypeOK
  <2>. QED BY <2>1, <2>2 DEF Lifecycle!Delete, Lifecycle!Becomes, Quiet
<1>. QED BY <1>1, <1>2

\* Under the invariants every step shows as a step of SolveLifecycle.
LEMMA Simulates ==
    Inv /\ OpenInv /\ FoundInv /\ RecordInv /\ "lost" \notin Faults /\ [Next]_vars
        => [Lifecycle!Next]_Lifecycle!vars
<1>. DEFINE Shows == [Lifecycle!Next]_Lifecycle!vars
<1>. USE DEF Inv
<1>0. ASSUME UNCHANGED Lifecycle!vars PROVE Shows
  BY <1>0
<1>1. ASSUME Inv, RecordInv, "lost" \notin Faults, NEW j \in Jobs, Creating(j)
      PROVE Shows
  <2>1. CASE Admit(j)
    <3>1. UNCHANGED Lifecycle!vars
      BY <1>1, <2>1, Hidden DEF Admit, server, Quiet, TypeOK
    <3>. QED BY <3>1
  <2>2. ASSUME NEW o \in Calls, Insert(j, o) PROVE Shows
    <3>1. /\ status[j] = "absent" /\ attempts[j] = 0 /\ creator[j] = "inserting"
          /\ Life[j] = "new" /\ ~Quiet /\ ~Quiet'
          /\ attempts' = attempts
      BY <1>1, <2>2 DEF Insert, CreatorInv, RecordInv, Life, Up, Quiet, server
    <3>2. CASE o = "ok"
      <4>1. Life' = [Life EXCEPT ![j] = "pending"]
        BY <1>1, <2>2, <3>1, <3>2 DEF Insert, Applied, Life, TypeOK
      <4>2. attempts' = [attempts EXCEPT ![j] = 0]
        BY <1>1, <3>1 DEF TypeOK
      <4>3. Lifecycle!Becomes(j, {"new"}, "pending", 0)
        <5>1. Quiet' = Quiet
          BY <3>1 DEF Quiet
        <5>. QED BY <3>1, <4>1, <4>2, <5>1 DEF Lifecycle!Becomes, Quiet
      <4>4. Lifecycle!Submit(j)
        BY <3>1, <4>3 DEF Lifecycle!Submit, Quiet
      <4>. QED BY <4>4 DEF Lifecycle!Next
    <3>3. CASE o # "ok"
      <4>1. Life' = [k \in Jobs |-> IF k \in {j} THEN "gone" ELSE Life[k]]
        <5>1. ~Applied(o)
          BY <1>1, <3>3, BoundsAssumption DEF Calls, Applied
        <5>. QED BY <1>1, <2>2, <3>1, <3>3, <5>1 DEF Insert, Life, TypeOK
      <4>2. Lifecycle!Abandon({j})
        BY <3>1, <4>1 DEF Lifecycle!Abandon
      <4>. QED BY <3>1, <4>2, SMTT(30) DEF Lifecycle!Next, Quiet
    <3>. QED BY <3>2, <3>3
  <2>3. CASE Start(j)
    <3>1. UNCHANGED Lifecycle!vars
      BY <1>1, <2>3, Hidden DEF Start, server, Quiet, TypeOK
    <3>. QED BY <3>1
  <2>. QED BY <1>1, <2>1, <2>2, <2>3 DEF Creating
<1>2. ASSUME Inv, RecordInv, "lost" \notin Faults, NEW j \in Jobs, Running(j) PROVE Shows
  <2>1. ASSUME \/ Queue(j) \/ GiveUpWaiting(j) \/ Decide(j) \/ Forget(j)
               \/ ReleaseSlot(j) \/ \E how \in Outcomes : EndSearch(j, how)
        PROVE Shows
    <3>1. UNCHANGED <<store, creator, phase>>
      BY <2>1 DEF Queue, GiveUpWaiting, Decide, Forget, ReleaseSlot, EndSearch, server
    <3>2. UNCHANGED Lifecycle!vars
      BY <1>2, <3>1, Hidden DEF Quiet
    <3>. QED BY <3>2
  <2>2. ASSUME NEW o \in Calls, WriteStart(j, o) PROVE Shows
    <3>1. UNCHANGED <<creator, phase>> /\ ~Quiet
      BY <2>2 DEF WriteStart, server, Up, Quiet
    <3>2. CASE Applied(o) /\ status[j] # "absent"
      <4>1. status[j] = "pending" /\ copy[j] = attempts[j] + 1
        BY <1>2, <2>2, <3>2 DEF WriteStart, RecordInv
      <4>2. /\ status' = [status EXCEPT ![j] = "running"]
            /\ attempts' = [attempts EXCEPT ![j] = attempts[j] + 1]
        BY <2>2, <3>2, <4>1 DEF WriteStart, Update
      <4>3. Lifecycle!Becomes(j, {"pending"}, "running", attempts[j] + 1)
        BY <1>2, <3>1, <4>1, <4>2, OneMoves DEF Quiet
      <4>4. attempts[j] < MaxAttempts
        BY <1>2, <4>1, LimitsAssumption DEF TypeOK
      <4>5. Lifecycle!Begin(j)
        BY <3>1, <4>3, <4>4 DEF Lifecycle!Begin, Quiet
      <4>. QED BY <4>5 DEF Lifecycle!Next
    <3>3. CASE ~(Applied(o) /\ status[j] # "absent")
      <4>1. UNCHANGED store
        BY <2>2, <3>3 DEF WriteStart, Update
      <4>2. UNCHANGED Lifecycle!vars
        BY <1>2, <3>1, <4>1, Hidden DEF Quiet
      <4>. QED BY <4>2
    <3>. QED BY <3>2, <3>3
  <2>3. ASSUME NEW o \in Calls, WriteEnd(j, o) PROVE Shows
    <3>1. UNCHANGED <<creator, phase>> /\ ~Quiet
      BY <2>3 DEF WriteEnd, server, Up, Quiet
    <3>2. CASE Applied(o) /\ status[j] # "absent"
      <4>. DEFINE to == IF outcome[j] = "crashed" THEN "failed" ELSE outcome[j]
                  n  == IF outcome[j] = "crashed" THEN attempts[j] ELSE copy[j]
      <4>1. PICK st \in {"done", "failed"} : st = to
        BY <1>2, <2>3 DEF WriteEnd, RangeInv
      <4>2. PICK m \in 0..MaxAttempts : m = n
        BY <1>2 DEF TypeOK
      <4>3. /\ status' = [status EXCEPT ![j] = st]
            /\ attempts' = [attempts EXCEPT ![j] = m]
        BY <2>3, <3>2, <4>1, <4>2 DEF WriteEnd, Update
      <4>4. Lifecycle!Becomes(j, {status[j]}, st, m)
        BY <1>2, <3>1, <3>2, <4>3, OneMoves DEF Quiet
      <4>5. CASE status[j] = "running"
        <5>1. m = attempts[j]
          BY <1>2, <2>3, <3>2, <4>2, <4>5 DEF WriteEnd, RecordInv
        <5>2. Lifecycle!Finish(j)
          BY <3>1, <4>4, <4>5, <5>1 DEF Lifecycle!Finish, Quiet
        <5>. QED BY <5>2 DEF Lifecycle!Next
      <4>6. CASE status[j] # "running"
        <5>1. /\ status[j] = "pending" /\ m \in {attempts[j], attempts[j] + 1}
              /\ failures > 0 /\ failures <= MaxFailures
          BY <1>2, <2>3, <3>2, <4>2, <4>6 DEF WriteEnd, RecordInv
        <5>2. MaxFailures # 0
          BY <1>2, <5>1, BoundsAssumption DEF TypeOK
        <5>3. Lifecycle!FinishUnrecorded(j)
          BY <3>1, <4>4, <5>1, <5>2, LimitsAssumption DEF Lifecycle!FinishUnrecorded, Quiet
        <5>. QED BY <5>3 DEF Lifecycle!Next
      <4>. QED BY <4>5, <4>6
    <3>3. CASE ~(Applied(o) /\ status[j] # "absent")
      <4>1. UNCHANGED store
        BY <2>3, <3>3 DEF WriteEnd, Update
      <4>2. UNCHANGED Lifecycle!vars
        BY <1>2, <3>1, <4>1, Hidden DEF Quiet
      <4>. QED BY <4>2
    <3>. QED BY <3>2, <3>3
  <2>. QED BY <1>2, <2>1, <2>2, <2>3 DEF Running
<1>3. ASSUME Inv, NEW j \in Jobs, TakeSlot(j) \/ Locking(j) PROVE Shows
  <2>1. UNCHANGED <<store, creator, phase>>
    BY <1>3 DEF TakeSlot, Locking, Begin, RecordStart, RecordEnd, Record, server
  <2>2. UNCHANGED Lifecycle!vars
    BY <1>3, <2>1, Hidden DEF Quiet
  <2>. QED BY <2>2
<1>4. ASSUME Inv, NEW r \in Requests, NEW j \in Jobs, AskStop(r, j) \/ AskDelete(r, j)
      PROVE Shows
  <2>1. UNCHANGED <<store, creator, phase>>
    BY <1>4 DEF AskStop, AskDelete, Ask, server
  <2>2. UNCHANGED Lifecycle!vars
    BY <1>4, <2>1, Hidden DEF Quiet
  <2>. QED BY <2>2
<1>5. ASSUME Inv, OpenInv, RecordInv, "lost" \notin Faults, NEW r \in Requests, Serving(r)
      PROVE Shows
  <2>0. PICK j \in Jobs : j = target[r]
    BY <1>5 DEF TypeOK
  <2>1. ASSUME NEW o \in Calls, Cancel(r, o) PROVE Shows
    <3>1. UNCHANGED <<creator, phase>> /\ ~Quiet
      BY <2>1 DEF Cancel, Step, server, Up, Quiet
    <3>2. CASE ~deleted[j] /\ Applied(o) /\ status[j] # "absent"
      <4>1. stage[j] = "queued" /\ status[j] = "pending"
        BY <1>5, <2>0, <2>1, <3>1, <3>2 DEF Cancel, Step, StageInv, OpenInv, RecordInv,
           TypeOK, Statuses, Unfinished, Finished
      <4>2. /\ status' = [status EXCEPT ![j] = "cancelled"]
            /\ attempts' = [attempts EXCEPT ![j] = attempts[j]]
        BY <2>0, <2>1, <3>2 DEF Cancel, Update
      <4>3. Lifecycle!Becomes(j, {"pending"}, "cancelled", attempts[j])
        BY <1>5, <3>1, <4>1, <4>2, OneMoves DEF Quiet
      <4>4. Lifecycle!Cancel(j)
        BY <3>1, <4>3 DEF Lifecycle!Cancel, Quiet
      <4>. QED BY <4>4 DEF Lifecycle!Next
    <3>3. CASE ~(~deleted[j] /\ Applied(o) /\ status[j] # "absent")
      <4>1. UNCHANGED store
        BY <2>0, <2>1, <3>3 DEF Cancel, Update
      <4>2. UNCHANGED Lifecycle!vars
        BY <1>5, <3>1, <4>1, Hidden DEF Quiet
      <4>. QED BY <4>2
    <3>. QED BY <3>2, <3>3
  <2>2. ASSUME NEW o \in Calls, Delete(r, o) \/ Erase(r, o) PROVE Shows
    <3>1. /\ UNCHANGED <<creator, phase>> /\ ~Quiet
          /\ Remove(j, o)
          /\ creator[j] \in {"starting", "done"}
      BY <1>5, <2>0, <2>2 DEF Delete, Erase, Step, server, Up, Quiet, RequestInv
    <3>2. Lifecycle!Delete(j) \/ UNCHANGED Lifecycle!vars
      <4>1. CASE Applied(o)
        BY <1>5, <3>1, <4>1, OneGoes DEF Remove, Quiet
      <4>2. CASE ~Applied(o)
        BY <1>5, <3>1, <4>2, Hidden DEF Remove, Quiet
      <4>. QED BY <4>1, <4>2
    <3>. QED BY <3>2 DEF Lifecycle!Next
  <2>3. ASSUME ForgetCancelled(r) \/ ForgetDeleted(r) \/ ReadForConflict(r) PROVE Shows
    <3>1. UNCHANGED <<store, creator, phase>>
      BY <2>3 DEF ForgetCancelled, ForgetDeleted, ReadForConflict, Step, server
    <3>2. UNCHANGED Lifecycle!vars
      BY <1>5, <3>1, Hidden DEF Quiet
    <3>. QED BY <3>2
  <2>. QED BY <1>5, <2>1, <2>2, <2>3 DEF Serving
<1>6. ASSUME Inv, NEW r \in Requests, Acquiring(r) PROVE Shows
  <2>1. UNCHANGED <<store, creator, phase>>
    BY <1>6 DEF Acquiring, StopRunning, StopCancelled, StopQueued, LockToDelete, Step, server
  <2>2. UNCHANGED Lifecycle!vars
    BY <1>6, <2>1, Hidden DEF Quiet
  <2>. QED BY <2>2
<1>7. ASSUME Inv, FoundInv, "lost" \notin Faults, Starting PROVE Shows
  <2>1. CASE Boot
    <3>1. UNCHANGED <<store, creator>> /\ Quiet /\ Quiet'
      BY <2>1 DEF Boot, Quiet
    <3>2. UNCHANGED Lifecycle!vars
      BY <1>7, <3>1, Hidden
    <3>. QED BY <3>2
  <2>2. ASSUME NEW j \in Jobs, NEW o \in Calls, Resume(j, o) PROVE Shows
    <3>1. UNCHANGED creator /\ Quiet /\ Quiet' /\ status[j] \in Unfinished
      BY <1>7, <2>2 DEF Resume, Quiet, ResumeInv
    <3>2. CASE Applied(o) /\ Spent(attempts[j])
      <4>1. /\ status' = [status EXCEPT ![j] = "failed"]
            /\ attempts' = [attempts EXCEPT ![j] = attempts[j]]
        BY <2>2, <3>1, <3>2 DEF Resume, Update, Unfinished
      <4>2. Lifecycle!Becomes(j, {status[j]}, "failed", attempts[j])
        BY <1>7, <3>1, <4>1, OneMoves DEF Unfinished
      <4>3. Lifecycle!GiveUp(j)
        BY <3>1, <3>2, <4>2 DEF Lifecycle!GiveUp, Lifecycle!Becomes, Spent, Quiet, Unfinished
      <4>. QED BY <4>3 DEF Lifecycle!Next
    <3>3. CASE Applied(o) /\ ~Spent(attempts[j])
      <4>1. /\ status' = [status EXCEPT ![j] = "pending"]
            /\ attempts' = [attempts EXCEPT ![j] = attempts[j]]
        BY <2>2, <3>1, <3>3 DEF Resume, Update, Unfinished
      <4>2. CASE status[j] = "pending"
        <5>1. UNCHANGED store
          BY <1>7, <4>1, <4>2 DEF TypeOK, store
        <5>2. UNCHANGED Lifecycle!vars
          BY <1>7, <3>1, <5>1, Hidden
        <5>. QED BY <5>2
      <4>3. CASE status[j] = "running"
        <5>1. Lifecycle!Becomes(j, {"running"}, "pending", attempts[j])
          BY <1>7, <3>1, <4>1, <4>3, OneMoves
        <5>2. attempts[j] < MaxAttempts
          BY <1>7, <3>3, LimitsAssumption DEF TypeOK, Spent
        <5>3. Lifecycle!Requeue(j)
          BY <3>1, <5>1, <5>2 DEF Lifecycle!Requeue, Quiet
        <5>. QED BY <5>3 DEF Lifecycle!Next
      <4>. QED BY <3>1, <4>2, <4>3 DEF Unfinished
    <3>4. CASE ~Applied(o)
      <4>1. UNCHANGED store
        BY <2>2, <3>4 DEF Resume, Update
      <4>2. UNCHANGED Lifecycle!vars
        BY <1>7, <3>1, <4>1, Hidden
      <4>. QED BY <4>2
    <3>. QED BY <3>2, <3>3, <3>4
  <2>3. CASE EnqueueAll
    <3>1. Life' = Life /\ attempts' = attempts /\ Quiet /\ ~Quiet'
      BY <2>3 DEF EnqueueAll, Life, Quiet, store
    <3>2. Lifecycle!StartServer
      BY <3>1 DEF Lifecycle!StartServer, Quiet
    <3>. QED BY <3>2 DEF Lifecycle!Next
  <2>. QED BY <1>7, <2>1, <2>2, <2>3 DEF Starting
<1>8. ASSUME Inv, Shutdown \/ BeginDrain \/ EndDrain \/ UNCHANGED vars PROVE Shows
  <2>1. UNCHANGED <<store, creator>> /\ Quiet' = Quiet
    BY <1>8 DEF Shutdown, BeginDrain, EndDrain, vars, server, Quiet
  <2>2. UNCHANGED Lifecycle!vars
    BY <1>8, <2>1, Hidden
  <2>. QED BY <2>2
<1>9. ASSUME Inv, Exit \/ Crash PROVE Shows
  <2>1. /\ UNCHANGED store /\ Quiet'
        /\ creator' = [j \in Jobs |-> IF creator[j] = "new" THEN "new" ELSE "done"]
    BY <1>9 DEF Exit, Crash, LoseMemory, Quiet
  <2>2. CASE Quiet
    <3>1. UNCHANGED Lifecycle!vars
      BY <1>9, <2>1, <2>2, Hidden DEF QuietInv, Quiet
    <3>. QED BY <3>1
  <2>3. CASE ~Quiet
    <3>. DEFINE lost == {j \in Jobs : creator[j] = "inserting"}
    <3>1. /\ Life' = [j \in Jobs |-> IF j \in lost THEN "gone" ELSE Life[j]]
          /\ \A j \in lost : Life[j] = "new"
      BY <1>9, <2>1 DEF Life, TypeOK, CreatorInv, store, CreatorAt
    <3>2. Lifecycle!Abandon(lost)
      BY <2>1, <3>1 DEF Lifecycle!Abandon, store
    <3>3. Lifecycle!StopServer
      BY <2>1, <2>3, <3>2 DEF Lifecycle!StopServer, Quiet
    <3>. QED BY <3>3 DEF Lifecycle!Next
  <2>. QED BY <2>2, <2>3
<1>. QED BY <1>1, <1>2, <1>3, <1>4, <1>5, <1>6, <1>7, <1>8, <1>9 DEF Next, Stopping

LEMMA StartsTheSame == Init => Lifecycle!Init
  BY DEF Init, Lifecycle!Init, Life

\* SolveJobs implements SolveLifecycle: whatever the interleaving of creators,
\* runners, stops, deletes, crashes and restarts, each document lives the life
\* of the diagram at the top of jobs.rs, as long as no store call is applied
\* and reported lost.
THEOREM LifecycleImplemented ==
    ASSUME "lost" \notin Faults PROVE Spec => ImplementsLifecycle
<1>1. Init => OpenInv /\ GoneInv /\ FoundInv /\ RecordInv
  BY BoundsAssumption DEF Init, OpenInv, GoneInv, FoundInv, RecordInv, Quiet, InRun, BeforeRun, Finished
<1>2. /\ Inv /\ OpenInv /\ GoneInv /\ FoundInv /\ RecordInv
      /\ [Next]_vars
      => OpenInv' /\ GoneInv' /\ FoundInv' /\ RecordInv'
  BY OpenStep, GoneStep, FoundStep, RecordStep
<1>3. Inv /\ OpenInv /\ FoundInv /\ RecordInv /\ [Next]_vars => [Lifecycle!Next]_Lifecycle!vars
  BY Simulates
<1>. QED BY <1>1, <1>2, <1>3, StartsTheSame, Invariance, PTL
         DEF Spec, ImplementsLifecycle, Lifecycle!Spec
=============================================================================
