-------------------------------- MODULE Search --------------------------------
(***************************************************************************)
(* A solve of ak-solver (solve_with in lib.rs): the search with the inner  *)
(* evaluator, by annealing (anneal.rs) or by exhaustive walk               *)
(* (exhaustive.rs), the bounded set of finalists both feed, the tracker    *)
(* that reports progress and stops the search (control.rs), and the final  *)
(* scoring.                                                                *)
(*                                                                         *)
(* What an assignment is does not matter here (see Space): a solution has  *)
(* a key, the solutions one move away, and a score, which the model        *)
(* chooses.  The observer may ask for a stop, and the time budget may run  *)
(* out, between any two steps.                                             *)
(***************************************************************************)
EXTENDS Integers, FiniteSets

CONSTANTS Solutions,   \* the assignments of the space
          Key,         \* Space::canonical
          Moves,       \* what Space::propose may return from each, in several bases
          Walks,       \* what the exhaustive walk visits in each base
          Initial,     \* the starting assignment
          Scores,      \* the scores there are
          TopK,        \* SolverConfig::top_k
          Tolerance,   \* how close two scores are to count as one
          Strategies,  \* the strategies a request may ask for
          Restarts, Iterations,
          CheckEvery,  \* evaluations between two consultations
          Draws        \* the moves an estimate of the temperature takes,
                       \* none when the request gives the temperature

ASSUME SearchAssumption ==
  /\ Initial \in Solutions
  /\ \A b \in DOMAIN Moves : Moves[b] \in [Solutions -> SUBSET Solutions]
  /\ DOMAIN Walks = DOMAIN Moves
  /\ \A b \in DOMAIN Walks : Walks[b] \subseteq Solutions /\ IsFiniteSet(Walks[b])
  /\ Scores \subseteq Int
  /\ TopK \in Nat \ {0} /\ Tolerance \in Nat
  /\ Strategies \subseteq {"annealing", "exhaustive"}
  /\ Restarts \in Nat \ {0} /\ Iterations \in Nat \ {0}
  /\ CheckEvery \in Nat \ {0} /\ Draws \in Nat

VARIABLES base,               \* of the request: a member of DOMAIN Moves
          strategy,           \* of the request, Strategy::Auto resolved
          rescore,            \* of the request: it searches with snapshots and
                              \* has the finalists simulated once more
          inner, full,        \* what the two evaluators make of a solution
          top,                \* TopK::entries: finalists are told by solution
          seen,               \* every solution scored so far
          pc,                 \* where solve_with is
          current,            \* the assignment the annealing is at
          restart, count,     \* the loop's indices: restart, and step or leaf
          left,               \* the leaves the walk has not come to
          best,               \* Tracker::best_score
          stopped,            \* Tracker::stopped
          asked, expired,     \* the observer's stop, and the deadline passed
          late,               \* the evaluations since one of the two
          progress,           \* the last report to the observer
          finalists, answer   \* the candidates of the result, and the first

request == <<base, strategy, rescore, inner>>
search == <<top, seen, best, current, restart, count, left>>
result == <<full, finalists, answer>>
vars == <<request, search, result, pc, stopped, asked, expired, late, progress>>

Neighbours == Moves[base]
Walk == Walks[base]

-----------------------------------------------------------------------------
(* TopK::insert.  The list is kept sorted, best first: it is the set.      *)

Near(s, t) == inner[s] - inner[t] \in -Tolerance .. Tolerance

Twins(s) == {e \in top : Key[e] = Key[s]}

\* Mutant: the list loses its head, not its tail, to a better candidate.
Worst_First == {e \in top : \A f \in top : inner[e] >= inner[f]}

Worst == {e \in top : \A f \in top : inner[e] <= inner[f]}

\* The list with s for its entry e, if s scores better.
Improved(e, s) == IF inner[s] > inner[e] THEN (top \ {e}) \cup {s} ELSE top

\* s is offered: an entry with its key gives way to a better arrangement, a
\* near equal keeps s out, and in a full list a worst entry gives way.
Insert(s) ==
  \/ \E e \in Twins(s) : top' = Improved(e, s)
  \/ /\ Twins(s) = {}
     /\ IF \E e \in top : Near(e, s) THEN UNCHANGED top
        ELSE IF Cardinality(top) < TopK THEN top' = top \cup {s}
        ELSE \E e \in Worst : top' = Improved(e, s)

\* The inner evaluator scores s: Tracker::saw and TopK::insert.
Evaluate(s) ==
  /\ seen' = seen \cup {s}
  /\ best' = IF inner[s] > best THEN inner[s] ELSE best
  /\ Insert(s)
  /\ late' = IF asked \/ expired THEN late + 1 ELSE 0

-----------------------------------------------------------------------------
(* The tracker.                                                            *)

Planned == IF strategy = "annealing" THEN Restarts * Iterations
           ELSE Cardinality(Walk)

\* Tracker::report.
Report(phase, done, total) ==
  progress' = [phase |-> phase, done |-> done, total |-> total]

\* Tracker::checkpoint: once it has said stop, it keeps saying stop.
Verdict == IF stopped # "no" THEN stopped
           ELSE IF asked THEN "requested"
           ELSE IF expired THEN "budget" ELSE "no"

Checkpoint(done) ==
  /\ stopped' = Verdict
  /\ Report("searching", done, Planned)

\* Mutant: only the first step or leaf consults the observer.
Due_Once == count = 0

\* Consulted only every CheckEvery steps or leaves.
Due == count % CheckEvery = 0

\* The search goes on after done steps or leaves, or it ends.
GoOn(done) == IF Due THEN Verdict = "no" /\ Checkpoint(done)
                     ELSE UNCHANGED <<stopped, progress>>
Halt(done) == Due /\ Verdict # "no" /\ Checkpoint(done)

\* What a step leaves that scores nothing.
NoScore == UNCHANGED <<top, seen, best, late, current, left>>

\* The steps taken, over all runs.
Done == restart * Iterations + count

-----------------------------------------------------------------------------
(* The start: the starting assignment is scored and offered first.         *)

Init ==
  /\ base \in DOMAIN Moves
  /\ strategy \in Strategies /\ rescore \in BOOLEAN
  /\ inner \in [Solutions -> Scores]
  /\ full = inner
  /\ top = {Initial} /\ seen = {Initial} /\ best = inner[Initial]
  /\ pc = IF strategy = "annealing" THEN "restart" ELSE "walk"
  /\ current = Initial
  /\ restart = 0 /\ count = 0
  /\ left = IF strategy = "annealing" THEN {} ELSE Walk
  /\ stopped = "no" /\ asked = FALSE /\ expired = FALSE /\ late = 0
  /\ progress = [phase |-> "searching", done |-> 0, total |-> Planned]
  /\ finalists = {} /\ answer = Initial

Ask ==
  /\ ~asked
  /\ asked' = TRUE
  /\ UNCHANGED <<request, search, result, pc, stopped, expired, late, progress>>

Expire ==
  /\ ~expired
  /\ expired' = TRUE
  /\ UNCHANGED <<request, search, result, pc, stopped, asked, late, progress>>

-----------------------------------------------------------------------------
(* Annealing.                                                              *)

Searching(at) == pc = at /\ UNCHANGED <<request, result, asked, expired>>

\* The loop over the restarts: a run begins with the starting assignment.
BeginRun ==
  /\ Searching("restart")
  /\ restart < Restarts /\ Verdict = "no"
  /\ Checkpoint(restart * Iterations)
  /\ Evaluate(Initial)
  /\ current' = Initial
  /\ pc' = "estimate" /\ count' = 0
  /\ UNCHANGED <<restart, left>>

BreakOff ==
  /\ Searching("restart")
  /\ restart < Restarts /\ Verdict # "no"
  /\ IF stopped = "no" THEN Checkpoint(restart * Iterations)
                       ELSE UNCHANGED <<stopped, progress>>
  /\ pc' = "rescore"
  /\ NoScore /\ UNCHANGED <<restart, count>>

EndSearch ==
  /\ Searching("restart")
  /\ restart = Restarts
  /\ pc' = "rescore"
  /\ NoScore /\ UNCHANGED <<restart, count, stopped, progress>>

\* The size of a move's effect is estimated first, for the temperature.
Draw ==
  /\ Searching("estimate")
  /\ count < Draws
  /\ \E s \in Neighbours[current] : Evaluate(s)
  /\ count' = count + 1
  /\ UNCHANGED <<pc, current, restart, left, stopped, progress>>

EndDraws ==
  /\ Searching("estimate")
  /\ count = Draws \/ Neighbours[current] = {}
  /\ pc' = "step" /\ count' = 0
  /\ NoScore /\ UNCHANGED <<restart, stopped, progress>>

\* A move that is no worse is accepted, and a worse one may be.
Step ==
  /\ Searching("step")
  /\ count < Iterations /\ GoOn(Done)
  /\ \E s \in Neighbours[current] :
       /\ Evaluate(s)
       /\ current' \in IF inner[s] >= inner[current] THEN {s} ELSE {s, current}
  /\ count' = count + 1
  /\ UNCHANGED <<pc, restart, left>>

NextRun ==
  /\ pc' = "restart" /\ restart' = restart + 1 /\ count' = 0
  /\ NoScore

\* No move applies: the step counts, and the run ends.
Stuck ==
  /\ Searching("step")
  /\ count < Iterations /\ Neighbours[current] = {}
  /\ Due => Verdict = "no"
  /\ Report("searching", Done + 1, Planned)
  /\ NextRun /\ UNCHANGED stopped

HaltRun ==
  /\ Searching("step")
  /\ count < Iterations /\ Halt(Done)
  /\ NextRun

EndRun ==
  /\ Searching("step")
  /\ count = Iterations
  /\ Report("searching", Done, Planned)
  /\ NextRun /\ UNCHANGED stopped

-----------------------------------------------------------------------------
(* The exhaustive walk.                                                    *)

Leaf ==
  /\ Searching("walk")
  /\ left # {} /\ GoOn(count)
  /\ \E s \in left : Evaluate(s) /\ left' = left \ {s}
  /\ count' = count + 1
  /\ UNCHANGED <<pc, current, restart>>

HaltWalk ==
  /\ Searching("walk")
  /\ left # {} /\ Halt(count)
  /\ pc' = "rescore"
  /\ NoScore /\ UNCHANGED <<restart, count>>

EndWalk ==
  /\ Searching("walk")
  /\ left = {}
  /\ Report("searching", count, Planned)
  /\ pc' = "rescore"
  /\ NoScore /\ UNCHANGED <<restart, count, stopped>>

-----------------------------------------------------------------------------
(* The finalists are scored for the report.                                *)

Ending(at) == pc = at /\ UNCHANGED <<request, search, stopped, asked, expired, late>>

\* Mutant: the finalists are scored as they are.
BeginRescore_NoStart ==
  /\ Ending("rescore")
  /\ finalists' = top
  /\ full' \in IF rescore
               THEN {f \in [Solutions -> Scores] :
                       \A s \in Solutions \ (top \cup {Initial}) : f[s] = inner[s]}
               ELSE {inner}
  /\ pc' = "simulate"
  /\ Report("rescoring", 0, IF rescore THEN Cardinality(finalists') + 1 ELSE 1)
  /\ UNCHANGED answer

\* The starting assignment joins the finalists, unless one has its key.
BeginRescore ==
  /\ Ending("rescore")
  /\ finalists' = IF Twins(Initial) = {} THEN top \cup {Initial} ELSE top
  /\ full' \in IF rescore
               THEN {f \in [Solutions -> Scores] :
                       \A s \in Solutions \ finalists' : f[s] = inner[s]}
               ELSE {inner}
  /\ pc' = "simulate"
  /\ Report("rescoring", 0, IF rescore THEN Cardinality(finalists') + 1 ELSE 1)
  /\ UNCHANGED answer

\* Sim::run on a finalist, on the starting assignment once more, or on the
\* best only.
Simulate ==
  /\ Ending("simulate")
  /\ progress.done < progress.total
  /\ Report("rescoring", progress.done + 1, progress.total)
  /\ UNCHANGED <<result, pc>>

\* Sorted by the final score; without rescoring the order is the one of the
\* finalists, to which the starting assignment was appended.
Finish ==
  /\ Ending("simulate")
  /\ progress.done = progress.total
  /\ LET ranked == IF rescore THEN finalists ELSE top
     IN answer' \in {e \in ranked : \A f \in ranked : full[f] <= full[e]}
  /\ pc' = "done"
  /\ UNCHANGED <<full, finalists, progress>>

Next ==
  \/ Ask \/ Expire
  \/ BeginRun \/ BreakOff \/ EndSearch \/ Draw \/ EndDraws
  \/ Step \/ Stuck \/ HaltRun \/ EndRun
  \/ Leaf \/ HaltWalk \/ EndWalk
  \/ BeginRescore \/ Simulate \/ Finish

Spec == Init /\ [][Next]_vars

-----------------------------------------------------------------------------
(* What a solve promises.                                                  *)

\* Every variable keeps its type.
TypeOK ==
  /\ base \in DOMAIN Moves /\ strategy \in Strategies /\ rescore \in BOOLEAN
  /\ inner \in [Solutions -> Scores] /\ full \in [Solutions -> Scores]
  /\ top \subseteq seen /\ seen \subseteq Solutions /\ IsFiniteSet(top)
  /\ Cardinality(top) <= TopK
  /\ pc \in {"restart", "estimate", "step", "walk", "rescore", "simulate", "done"}
  /\ current \in Solutions /\ answer \in Solutions
  /\ restart \in 0 .. Restarts /\ count \in Nat
  /\ left \subseteq Walk /\ best \in Scores
  /\ stopped \in {"no", "requested", "budget"}
  /\ asked \in BOOLEAN /\ expired \in BOOLEAN /\ late \in Nat
  /\ finalists \subseteq seen

\* The best assignment ever scored is never lost to the limit of the list, to
\* a near equal, or to a better arrangement of a worse crew: the best finalist
\* scores as well as any of them, up to the tolerance.
BestIsKept ==
  /\ \A s \in seen : \E e \in top : inner[e] >= inner[s] - Tolerance
  /\ \A s \in seen : inner[s] <= best
  /\ \E s \in seen : inner[s] = best

\* Nothing better than a finalist is missing.  Whatever was scored is stood for
\* by a finalist, which is an arrangement, as good or better, of its crew or of
\* one that scored alike; or the list is full, of none that is worse than it.
FinalistsAreBest ==
  \A s \in seen :
    \/ \E e \in top, d \in seen :
         Key[e] = Key[d] /\ inner[e] >= inner[d] /\ Near(d, s)
    \/ Cardinality(top) = TopK /\ \A e \in top : inner[e] >= inner[s] - Tolerance

\* No two finalists have one key, and two score alike only if one of them came
\* in for a worse arrangement of its crew (anneal.rs, insert).
FinalistsDiffer ==
  \A e, f \in top : e # f =>
    /\ Key[e] # Key[f]
    /\ Near(e, f) => \E d \in seen, g \in {e, f} :
                       Key[d] = Key[g] /\ inner[d] < inner[g]

\* As anneal.rs has it: "Finalists have distinct scores".
ScoresAreDistinct == \A e, f \in top : e # f => ~Near(e, f)

\* The answer is not worse than what the caller already had, in the score the
\* result gives, unless the start gave its place among the finalists to an
\* arrangement of its crew that was better as long as it was not simulated.
NeverWorse ==
  pc = "done" =>
    \/ full[answer] >= full[Initial]
    \/ rescore /\ \E e \in finalists : Key[e] = Key[Initial] /\ inner[e] > inner[Initial]

\* As lib.rs has it: "the answer can never be worse than what the caller already
\* had".
NoWorseThanStart == pc = "done" => full[answer] >= full[Initial]

\* The first candidate is the best one: without rescoring, the starting
\* assignment appended to the list is indeed the last of it.
BestComesFirst == pc = "done" => \A f \in finalists : full[f] <= full[answer]

\* A search that was stopped ends below its plan, and one that was not has
\* covered it, if it could move at all (control.rs of total, result.rs of
\* stopped).
StoppedMeansCut ==
  pc = "rescore" =>
    /\ stopped # "no" => progress.done < progress.total
    /\ stopped = "no" /\ Neighbours[Initial] # {} => progress.done = progress.total

\* A stop, asked for or due to the budget, ends the search within a few dozen
\* evaluations, across restarts, the draws of an estimate and the leaves of the
\* walk (control.rs: "The search consults it every few dozen evaluations").
StopIsSeen == late < CheckEvery \/ late <= Draws

\* What the observer is told never goes back within a phase, nor beyond the
\* plan.
ProgressAdvances ==
  [][ /\ progress'.done <= progress'.total
      /\ progress'.phase = progress.phase => progress'.done >= progress.done ]_vars

=============================================================================
