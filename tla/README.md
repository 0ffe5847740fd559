# Verification of the RIIC planner

TLA+ models of the server, the evaluator, the solver and the game data of this
repository, the TLC configurations that check them, and theorems checked by
TLAPS.  Paths are relative to `src/crates/`; the lines each definition stands
for are in `PROJECT.json` ("map").

## The system

The planner is a Rust workspace: an HTTP server with background solves, a
command-line tool, a tool that fetches the game's files, and the libraries they
share.

| Part | Where | State it keeps | What is hard | Modules |
|---|---|---|---|---|
| Background solves | `ak-api/src/jobs.rs`, `solves.rs`, `main.rs` | a stored document per solve; in memory the live jobs, each with stage, flags and wake-up; the slots | tasks interleave at every await; two locks and a semaphore; crashes, restarts, store calls that fail | `SolveJobs`, `SolveLifecycle` |
| Accounts and sessions | `ak-api/src/auth/*`, `ak-store/src/accounts.rs` | accounts, hashes, sessions; the table of failed sign-ins; permits for hashes | attempts that overlap, requests that go away while a hash is computed, two statements where one would be atomic | `SignIn` |
| Stored documents, references, slots in flight | `ak-api/src/stored.rs`, `refs.rs`, `rosters.rs`, `bases.rs`, `simulation.rs`, `throttle.rs`, `ak-store/src/lib.rs` | documents per owner, each with a version; slots taken per account | read and write back without a lock, several builds on one database, computations nobody waits for | `Documents` |
| Krooster lookups | `ak-api/src/krooster.rs` | a bounded cache, one fetch for all who wait | abandoned and failed fetches, two lifetimes, eviction | `Krooster` |
| Game data | `ak-data/src/*`, `ak-data-sync/src/main.rs`, `ak-domain/src/operator.rs` | files and a sidecar on disk | a tool killed between two files; three layers of checks that each let something through | `GameTables`, `GameFiles` |
| Roster imports | `ak-data/src/import/*`, `ak-api/src/rosters.rs` | none | entries out of range, given twice or unknown | `RosterImport` |
| Effects of skills | `ak-eval/src/effects.rs`, `world.rs`, `rules.rs` | none: a function of the base | three passes that read each other; who "counts" | `Effects` |
| Simulation | `ak-eval/src/sim.rs`, `result.rs`, `config.rs` | stocks, orders, morale, hours | stocks at their limits, conservation, ticks that do not divide the interval | `Simulation` |
| Rotation | `ak-eval/src/rotation.rs` | who is to return where, who covers | the order of the actions within a step | `Rotation` |
| Assignments | `ak-domain/src/assignment.rs` | who works where | nobody in two places | `Assignment` |
| Solver | `ak-solver/src/*` | the current assignment, the finalists, the progress | budgets and stops, the list's order, moves and assignments it forgets | `Search`, `Space`, `Exhaustive` |
| Skill texts, scoring, domain types, command line, frontend | `ak-data/src/mechanics`, `ak-solver/src/{evaluator,objective}.rs`, `ak-domain`, `ak-cli`, `frontend` | none | | see "Not modelled" |

Requests reach the solves, the documents, the sign-in and the Krooster cache
through axum handlers, which tokio runs concurrently; what waits on a blocking
thread (a hash, a simulation, a search) goes on when the request is gone.  A
solve's runner calls the solver, the solver calls the evaluator, the simulator
calls the effects at every tick and the rotation policy after it.  All that
outlives the process is in the store (PostgreSQL) and in the game's files.

Composition: `Space`, `Rotation` and `Simulation` extend `Assignment`, and
`Exhaustive` extends `Space` by the walk of small spaces;
`GameFiles` extends `RosterImport`, which extends `GameTables`, so that what an
import meets is what the tool and the loader have made of the files; `SolveJobs`
implements `SolveLifecycle`.  Each `MC` module gives a model its small instance
and each `.cfg` beside it is one question.

## The runs

Twelve runs: eleven that pass, and `solve_late_stop`, in which the code does not do
what its comment says.  Beside them stand configurations to run by hand: five
`*_more.cfg`, which pass and check further properties (most of them proved)
or a larger instance, and eight that reproduce other disagreements with the
documentation (see "Where the code says something else").

| Run | States | Question |
|---|---|---|
| `solve_lifecycle` | 71,000 | Does every document live the life the diagram promises? Can an answer be undone, a place leak, a search repeat, a recorded stop be lost, a request hang? |
| `solve_settles` | 49,000 | Can an account exceed its quota? Does every solve finish, and the shutdown end, across crashes? |
| `solve_late_stop` | (violated) | Is a search that was stopped by request recorded before the server exits? |
| `signin_sessions` | 1.4 million | Do overlapping attempts get around the wait? Who can be signed in as whom? Do sessions end, and hashes stay bounded? |
| `documents_requests` | 296,000 | Is every answer one the store could have given? Do deleted documents come back, versions lie, slots leak? |
| `krooster_lookups` | 141,000 | Is Krooster asked twice? Is memory true? Does every lookup end? |
| `simulation_ticks` | 788,000 | Does what is made, used, sold and stored add up, and every hour? |
| `effects_fillers` | 689 | Can whoever "does not count" really be anyone? |
| `rotation_shifts` | 101,000 | Does everyone keep or get back their place, and does the base become what was planned? |
| `search_finalists` | 3.9 million | Are the finalists the best of what was scored, is the answer no worse than the start, and is a stop seen? |
| `space_moves` | 74,000 | Does every move keep the assignment valid, does the fallback list them all, and does the exhaustive walk score every assignment once, as many as announced? |
| `gamefiles_served` | 215,000 | Is what passed, and what is served, whole? Is every entry of an import accounted for? |

## Background solves

`SolveJobs.tla` models `jobs.rs`, the handlers of `solves.rs` that change
something and the part of `main.rs` that starts and stops the server.

| Variable | Code |
|---|---|
| `status`, `attempts` | the stored `SolveJob` ("absent": no document) |
| `live` | the keys of `Jobs::live` |
| `stage`, `deleted`, `stop`, `notified` | the fields of the job's `Live` (kept when the map forgets it: its runner and its requests still hold it) |
| `runner`, `copy`, `outcome` | where `start`'s task and `run` are, `job.attempts` in the runner's own copy, what the search returned |
| `holders`, `ahead` | the permits taken and the fair queue of the semaphore `Jobs::permits`; `drain` is the waiter 0 |
| `creator` | where `solves::create` and its detached task are |
| `at`, `target` | the stop and delete requests under way and what each is about |
| `phase`, `todo`, `resumed`, `boots` | the process: down, in `resume`, serving, in axum's graceful shutdown, in `drain`, drained |
| `failures`, `starts`, `answers` | store calls that failed; history: searches begun, answers given |

An action is what a task does between two awaits.  The async lock in `Live` has
no variable of its own: a task between taking and dropping it is at a program
point at which `LockFree` is false.  A store call has three outcomes: it
succeeds, it is refused, or it is applied and its reply is lost.  A crash, and
an exit after `drain`, forget everything but the store.

`SolveLifecycle.tla` is what the API promises of one document: the diagram at
the head of `jobs.rs` with deletion and restarts.  `Lifecycle` in `SolveJobs`
maps the one to the other; `ImplementsLifecycle` is its specification.

**Bounds.** `MaxBoots` caps how often the server starts and `MaxFailures` how
many store calls fail; `MaxAttempts`, `MaxRunning` and `MaxPerAccount` are
parameters of the code (3, the configured slots, the configured quota), set to
the smallest values at which they bind.  One job with two requests shows every
race of a runner with a stop and a delete, and of the two with each other
(`solve_lifecycle`: two starts, crashes, one refused call); jobs meet at the slots,
at the quota and at a shutdown, which needs three jobs of one account that may
have two, so that the quota binds and two wait for the slot when `drain` does
(`solve_settles`).  `SolveJobs_more.cfg` has two jobs and a request across a clean
shutdown, and checks the theorems that no run does: `DrainedIsQuiet` among them,
a breach of which `StopIsRecorded` shows in the runs.

**Fairness.** Weak fairness for every task that is ready: tokio polls it, store
calls return, and a search ends by itself (it has a step or a leaf count).
Strong fairness for those that want a job's lock: tokio's mutex is FIFO, so a
task cannot be passed for ever, but between two of its own polls the lock may be
taken and given back any number of times.  The slots need no assumption, since
the semaphore's queue is part of the state.  Requests, shutdowns and crashes
are not fair: nothing makes them happen.

**Proved** (`SolveJobsProofs`), for any number of jobs, requests, accounts,
slots, starts and failures: `AnswersAreKept`, `EveryPlaceHasAnOwner`,
`DrainedIsQuiet`, `StartsAreBounded`, `QuotaHolds`, `StopIsRecorded`, the types,
`RunningKeepsItsPlace` (a running job keeps its place and its slot),
`FinishedIsFinal`, `UnfinishedIsLive`, `ConflictMeansFinished` and
`ImplementsLifecycle`.  The safety properties are not
inductive: that an answered cancellation is never overwritten needs to know that
the runner is not already past its check of the stage, hence where it may be for
every stage, who may hold the lock, and what a restart has left behind.  `Inv`
says so in named parts: ranges (`RangeInv`), what a process that is down or
starting has in memory (`QuietInv`, `ResumeInv`, `DownInv`), creators and
requests at work on a job (`CreatorInv`, `RequestInv`), one holder per lock
(`LockInv`), stage against runner and document (`StageInv`), places and slots
(`PlaceInv`, `EveryPlaceHasAnOwner`), wake-ups (`WakeInv`), and the answers.
`OpenInv` (what may still run is not finished), `GoneInv` and `StartsInv` (every
search is counted, but for one per failed call) are inductive relative to it.
So is `StopInv`: in the server's first run every entry that says running has a
search under way or is settled, and once the shutdown has begun an answered stop
has its flag set before a runner that still searches, which therefore records
it.

`KeptInv` is why no solve is forgotten (`UnfinishedIsLive`): if no store call has
failed, every unfinished document is one that `resume` has found, and, once the
server serves, one that has its entry and a creator or a runner to go on with it.
A runner goes away only from a document that is finished or gone: told to stop
while the server serves, it was told by a request, and woken up while it waited,
it finds its entry cancelled.  A request that found no entry will find none later,
so that a 409 is only ever given for a solve that has ended
(`ConflictMeansFinished`), although the document is read afterwards and without a
lock.  With a failed call both are lost until the next start: the document stays,
its place does not.

The refinement (`LifecycleImplemented`) needs two facts more: what `resume` has
found and not yet queued (`FoundInv`), and that a document says of its start what
the runner's own copy says (`RecordInv`).  A step of the server then is one step
of `SolveLifecycle` or none that shows: one moves a document (`OneMoves`), deletes
it (`OneGoes`), or is hidden (`Hidden`), and a crash is `Abandon`.
`FinishedFinal` and `LifecycleImplemented` assume that no call is applied and
reported lost; `SolveJobs_lost.cfg` shows why they have to.

Model-checked only: liveness.  Left out: the content of requests and results,
the listing of solves, the progress numbers a client polls, and panics of a
task.

## Signing in

`SignIn.tla` has one action for each stretch of `register`, `login` and `logout`
between two awaits, the sweep of sessions, and what may happen to a request:
its connection closes (`Drop`), its statement fails, applied or not (`Fails`),
the server restarts.

| Variable | Code |
|---|---|
| `req` | the handlers: where each is, the name as typed, the password, the session its cookie carries, what it has read of the account |
| `accounts`, `sessions` | the tables; a row of `accounts` is under the folded name (the unique index) |
| `slots` | `LoginBackoff`: the failures of each slot; several names may share one |
| `permits`, `orphans` | the semaphore of `Passwords`; hashes whose request is gone |
| `through`, `ended` | history: when attempts were let through; tokens a client was told have ended |

A name is typed in two spellings, a second account shares its slot and has an
old hash, one text is no username.  `BurstsAreHeld`: however attempts overlap,
those let through since the last right password are spaced by the waits of a row
of wrong ones, so that nothing is gained by sending them at once.
`SignInsAreProved`: a session is made only for the account whose password was
given, a lost race of registrations included, and the right password is not
called wrong.  `EndedStaysEnded`: a session the client was told is over is over,
whatever was under way with it.  `HashesAreBounded`: a dropped request's hash
still holds its permit.  A hash is the password and whether its cost is current.
One attempt is free, the waits after it are 1 and 2, the longest: the third wrong
one is where the doubling and its limit show, and the time explored lets a
fourth be tried.

Proved in `SignInProofs`, for any names, slots, passwords, requests, permits,
waits and restarts: all four, and the types.  Each action is first shown to be a
move of one request (`Steps`) that changes no more than it should (`Changes`).
`KnowsInv` is what a request knows of its account between two statements: what it
has read is still so but for the cost of the hash, and it is past the hash only if
it has proved itself.  `SessionsInv`: no ended token has a session, and a request
that makes a session has ended the one it carries.  `PermitsInv` counts permits
against the hashes computed for a request or for none; `RoomInv` only says that
the bound on tokens is reserved on arrival.  `SlotsInv` ties a slot of the table to
the history: its count is the length of the last row of attempts let through, its
time the last of them; the wait it asks for is then at least that of any shorter
row (`WaitsEnough`), which is `BurstsAreHeld`.  The assumptions are that the folded
name is a name, that the waits are in order (`Bounds`), and that the longest wait is
reached before the doubling is capped (`WaitsEnd`; the code has 1 s and 60 s).

## Documents

`Documents.tla` has the handlers of rosters and bases, the reads of solves, and
the requests that name a base and a roster.  A document's body is its content in
the format of the build that wrote it; a newer build shares the database
(`NewerBuild`), as in a rolling deployment.

| Variable | Code |
|---|---|
| `rows` | the documents table: owner, name, version, body |
| `req` | the handlers: what each has read so far |
| `counts` | `InFlight`: the slots taken, by account |
| `orphans` | simulations that run on though their request is gone |
| `during` | history: what each document was since the request arrived |

`AnswersWereTrue` is what makes several statements look like one: what is called
missing was not there at some moment of the request, what is shown was, what was
computed with was there, each document at some moment, and what was written could
be read back.  `DeletedStaysDeleted` and `VersionsFit` are about an update that
read before a delete, or before a newer build wrote.  `SlotsAreHeld`: one slot
for each simulation that runs, none for anything else, through drops, failures
and restarts.  Two requests at a time, three in all, one failure: enough for an
update with a delete or another update inside it and a read after both.
The rate limits (`client.rs`) have no effect but to refuse a request and are
not modelled.

Proved in `DocumentsProofs`, for any accounts, requests, documents, slots,
failures and restarts: all four.  `HandlerInv` is what a handler carries from one
statement to the next: the copy an update writes back is of the account's own
document, in this build's format; what a simulation has read of its base and
roster was in the table since the request arrived.  `TableInv` says what may be
in the table; a deleted row then stays deleted because an update writes only
where a row is, and an id is issued once.  `Claims` is `AnswersWereTrue` for one
request and one step: a step of another request claims nothing (`Untouched`), so
that each action is proved for the request that takes it.  Slots are counted with
the cardinality of the computing requests, which a step changes by one
(`OneSlot`).

## Krooster lookups

`Krooster.tla`: a lookup is a task of its own, which goes on when its request is
dropped.  Its single flight, expiry and eviction are those of the moka cache,
modelled from how the code uses it (external); eviction may happen at any time.
`KroosterIsSpared`: a fetch starts only if nobody is fetching that user, in any
spelling, and no good answer is recent enough.  `MemoryIsTrue`: what is served is
the last good answer, for no longer than its kind allows.  `EveryLookupEnds`
assumes that tasks are polled, that Krooster answers or times out (the code sets
a timeout), and strong fairness of the places, whose semaphore is FIFO.

Proved in `RosterProofs`, for any requests, names, places and times:
`MemoryIsTrue`, `KroosterIsSpared`, the types and that places are held by the
fetches that ask.  While a name is fetched nobody else fetches it and memory has
nothing of it (`OneFetch`), so that the answer on its way is neither evicted nor
replaced; an answer is in memory for all of its time, about to be kept, or old
(`AnswersAge`).  `EveryLookupEnds` is model-checked only.

## Game data and imports

`GameTables.tla` is the check of the raw tables' shape (`schema.rs`), their
reading (`raw/`) and the transformation, as operators on tables: what each
refuses, skips or lets through.  `GameFiles.tla` is the tool's run (compare,
fetch, write each file, write the sidecar, validate), which may be killed or fail
anywhere, and a server that starts at any moment and reads file by file.
`RosterImport.tla` is `Builder` with both adapters: what each entry asks (to be
counted, added or shown, or to fail the import), and what the Builder does for it,
entry by entry (`Built`).

There are a sound commit, another with an operator, a skill and a team more, and
seventeen drifted ones, each with one thing the domain does not know or lacks: a
room, a skill category, a missing field, an unknown promotion, and so on.
`PassedIsWhole`: when the tool passes, every file is of the commit it names and
no operator or affiliation is missing from what is made of them, whatever was
killed before.  `ServedIsWhole`: a server that saw no file change serves one
commit and says which; whatever it serves, references hold and tiers are those
unlocked.  `ImportsAreAccounted`: every owned entry of an export is in the
roster, unknown or replaced by a later one, in range, and said to be changed if
it was.  Two runs of the tool and one start: a killed run, the run that finds its
remains, and a server between any two of their steps.  A torn write is a file
that cannot be read.

Proved in `RosterProofs`, for any commits and tables, any numbers of runs and
starts: `PassedIsWhole` and `ServedIsWhole`.  The inductive invariant `FilesInv` is
the types, what the tool knows of the disk (`WrittenInv`: the disk is unsettled
from the first write to the sidecar; from the last write on every file is of the
tool's commit, and so it is behind a settled sidecar) and what a server has read
(`LoadedInv`: one that saw no write has read files of the sidecar it compared).
The rest is about tables.  `ValidatedIsWhole`: what passes the shape check and a
strict load lacks no operator, and each has the nation and team of the raw tables;
`PassedIsWhole` says so of the keys of operators, since of the others (`NonOperators`)
the shape check asks nothing.  `LoadedHoldsTogether`: what is loaded at all refers
to what is there, because an operator with a reference that does not hold is
skipped, and a slot's tiers are in the order of what unlocks them whichever order
they were given in (`UnlocksAre`, `ActiveIs`).  Assumed: pins are of the commits
(`PinsAreCommits`), fields have the types they are read with (`TablesAreTyped`; what
does not is a file that cannot be read) and the schema asks for the fields it is
seen to ask for (`FieldsAreGiven`).

`ImportsAreAccounted` is proved for any export of the adapters' fields
(`ExportsAreTyped`) and any model.  `TakeKeeps` is its induction step: after each
entry, those read are in the roster, unknown, replaced or not owned, once each; the
Builder has seen who is in its roster; and who was added is in it as the last
entry has it, or something was told (`BuilderInv`).  `BuiltIs` carries it through
the entries, after showing that the recursive function `Built` is defined by
exists; `ReadIs` says that an owned entry asks to be added as it is, in all shapes
of exports.  A loaded operator has at least one promotion, and levels from one
(`LoadedPromotes`), without which a clamped entry would fit nothing.

## Effects

`Effects.tla` is `Eval`: the clauses in three passes, in the order of the seats,
stacking, scaling, the base rates, and who counts and supports.  It has no
steps of its own; the behaviours only walk through bases, from three crews whose
skills use every predicate, counter, amount, target and scope, by two changes of
place, morale or training.  `FillersAreFree` is the promise the solver and the
rotation build on: an operator who works and is not `counted` could be exchanged
for one without skills and no number would change.  `SupportIsKnown`: who rests
in a Dormitory and does not support it can leave without anyone recovering more
slowly, nor would a tired stranger who came.  Each relates two evaluations, so
that a single place that forgets to note a reading breaks it.

## Simulation

`Simulation.tla` is the loop of `sim.rs`, one action per step of a tick: each room
in turn, orders, morale, a collection if due, the policy's actions.  Rates are
any of a small set (what `Effects` would say), and the policy is any.  The
policy's actions are carried out by the operators of `Assignment`.

| Variable | Code |
|---|---|
| `run` | `RoomRun`, by room: stored, made, pending orders, lost and blocked |
| `depot`, `stock`, `totals` | what can be sold, the Factories' input, the result's sums |
| `states`, `assignment` | `OpState`, and who stands where |
| `hour`, `pc`, `turn`, `nextCollection` | the loop |
| `lost`, `told`, `entered` | history: what output was lost and reported, when each came |

Five bases: Factories with shared input, ahead of an Office or a Power Plant;
Trading Posts behind a gold Factory, with and without collections; a Dormitory and
a Training Room with two operators.  Three ticks, the last of which is short, and
an interval of collection that ticks do not divide.  `NothingIsLost` ties the
depot to what was delivered and sold and the input to what was made of it;
`SharesAreFair` says that no post gets ahead of another by more than an order when
stock is short; `LossesAreReported` that a store is reported full exactly when
output was lost to it; `HoursAddUp` that everyone's hours are counted once and
that the hours in a room start anew with every change of place, also of who is
displaced or swapped, and else only with an action on that very operator: the
policy may move somebody to the slot they have, or swap a slot with itself, and
`apply` starts their hours anew for that too (`entered` notes both).
`Simulation_more.cfg` checks the types and that
no collection is missed (`CollectionsAreOnTime`).
Amounts are whole units of a size at which production is exact; a post's share is
rounded down.

Proved in `SimulationProofs`, for any base, rates, morale, length of the tick, the
run and the interval, and any policy: all four, and the types (no amount is ever
negative, no training goes past its target).  The bases are assumed to sell what
the depot has and to start nobody in two places (`BasesAssumption`).  `IInv` adds
three things to them.  `MarksAre`: a store marked full was reported, and only a
Factory, a Trading Post or an Office can be; without it a mark could hide a first
loss.  `TrainingFits`: the training done is within its target.  And nobody is in
two places, which a policy's actions keep and which `HoursAddUp` needs, for an
hour is counted by place.  The books are
sums over the rooms: the lemmas `TotalIs` to `TotalScales` say what a change of one
term, or of one element, does to a sum over a finite set.  They are not proved
by the library's induction, which the provers cannot instantiate, but from a
smallest counterexample, which a finite set of sets has (`SmallestSubset`).  That
the posts' shares never take more than there is (`TakenFits`) is the one place where
the rounding matters.  `CollectionsAreOnTime` is proved for ticks no longer than the
interval (`TicksFit`), without which one tick can pass two collections and the loop
makes one of them: a collection that fell due is made before another does
(`DueInv`), and the times stay multiples of the interval.

## Assignments and the moves of the search

`Assignment.tla` has the operators of `assignment.rs`: an assignment is a
function from slots to operators or `Nobody`.  `Placed`, `Removed`, `Moved` and
`Swapped` are the four mutators, with the order of removals and placements that
the code has; a refused placement leaves the assignment as it is, and what the
caller had removed before stays removed.

`Space.tla` is `space.rs`: the free slots, the pool, the canonical key, and one
action per kind of move that `propose` draws, with the listing of `neighbours` it
falls back on.  The fallback's swaps are a definition of their own (`SwapsListed`):
it goes through each pair of slots once, in the order of the list (`Preceding`), where
a draw takes any two.  Whether the annealing accepts a move depends on scores, so
that every move may be the next.

`space_moves` starts from every assignment of five slots (a room of two that are
interchangeable, a room of one that is locked, a Training Room whose trainee is
locked) and four operators, one outside the request's pool: the smallest base
with a room of each kind.  It asks whether any walk of moves takes an operator
into two slots or out of a locked one (`Valid`), and whether the fallback, which
lists the moves in code of its own, knows every move the draws can make
(`FallbackIsComplete`).

`Exhaustive.tla` is `exhaustive.rs` and `Space::size_estimate`.  Walk::group is
recursive: a call is a frame of `stack` (room, slot, next operator to try, whether
the slot was left empty, whether an operator is placed), `Try` makes a call and
`TakeBack` undoes it, and `Halt` is a checkpoint at which the tracker stops the
walk, which then unwinds through `TakeBack` and `GiveUp`.  The phase says which of
the two strategies the request runs.  `WalkIsComplete` compares the walk with the
definition of what it enumerates: no key is scored twice, every filling of the free
slots is scored, and the assignment is back to empty, also after a stop.
`SizeIsExact` says that `size_estimate` announced their number.  The same run
checks both, from every starting assignment and for every order of the pool
(candidates are symmetric, which divides the two), with a checkpoint every 4
assignments (the code has 32; the walks have 3 to 39).  With the locked slot free,
523,000 states also pass.
The completeness rests on a Training Room having one free slot at most
(`WalkAssumption`): a room is filled from the front, and the trainee's slot is
always fixed (space.rs:81).

Proved in `SpaceProofs`, for any base: `Valid`, that a swap never stops half way
(`SwapsExchange`), that the fallback lists the moves the draws can make and no
other (`FallbackIsComplete`; `SwapsAgree` for the swaps) and that every move has a
move back (`MovesAreReversible`) and leads to another key (`MovesChangeTheKey`), and
`WalkIsComplete` and `SizeIsExact`. What each mutator makes of an
assignment without duplicates are lemmas at the head of the proof modules that
rest on them. `IInv` adds to `Valid` that the pool never contains an operator of
a locked slot, and contains every operator that a free slot starts with: without
the one a move could duplicate an operator, without the other a move could not
be undone.

`StrategiesSearch` shows that both strategies implement `Spec` of `Space`: a place
of the walk is a fill or a replacement, or changes nothing, a removal is a clear.
It needs only that the slots and operators on the stack are free slots and members
of the pool (`WalkTyped`), and carries `Valid` over to the walk
(`WalkAlwaysValid`).

`WalkAlwaysComplete` proves the walk complete.  A rearrangement within a room has
the same key, so the proof first says which fillings the walk is to score: those
in which every room is filled from the front, in the order of the pool (`Listed`).
Every filling has a rearrangement among them (`Arranged`: the operators of a room
are counted in the order of the pool), and no two of them have the same key
(`KeysDiffer`: in the first slot of a room where they differ, each must hold a
smaller operator than the other).  A call of the stack *owes* the listed fillings
that agree with the assignment on the slots before its own and, once its slot was
left empty, have an operator there that it has yet to try (`Owes`).  The inductive
invariant `WalkInv` has three parts:

- `Enumerates`: `order` is the pool, each operator once.  It is a surjection from
  as many numbers as the pool has operators, and the roster is finite.
- `StackInv`: the calls of the stack fill slots in order, what they have placed is
  who stands in the free slots and who is used, and each room is filled in the
  order of the pool up to the call's slot (`Fits`).  Hence nobody is ever refused
  a place (`NeverRefused`).
- `Offered`: the keys visited are as many as the scores; a filling still owed by
  some call was not offered; and if the walk was not halted, every listed filling
  is owed or was offered.

Each action changes the top of the stack only (`StackStep`), so that the proof of
it comes to what the calls there owe before and after: leaving a slot empty splits
it between the call of the next room and the tries to come (`OwedLeft`), placing
the next operator splits it again (`OwedPlaced`), and at the end of the recursion
exactly one filling is owed, the one that is scored (`OwedLeaf`).  When the stack
is empty, nothing is owed.  `WalkInv` was checked with TLC on the instance of
`space_moves` before it was proved.

`SizeAlwaysExact` proves the estimate: a walk that was not halted has scored as many
assignments as `size_estimate` announced.  By `WalkAlwaysComplete` the number of
scores is the number of keys of the fillings, so that what is left is to count
keys.  A key says no more and no less than who works in each room (`KeysHold`,
`HoldKeys`): there are as many keys as ways to give every room a set of operators, no
larger than the room and disjoint from the others' (`Teams`).  Those are counted one
set of operators at a time (`HandsCounted`) and one room at a time (`HandsStep`): of k
operators a room takes j, and the binomial coefficient is the number of choices
(`Chosen`), which is what the fold of `size_estimate` adds up (`WaysAre`).  The folds
and the factorial are recursive functions whose equations the provers do not take
for granted; `FoldExists` and `Factorials` derive them.  Where the argument is an
induction over numbers or sets, it goes by the smallest counterexample, as in
`SimulationProofs`.

`Space_more.cfg` checks the refinement and the other theorems on the instance of
`space_moves`.

Left out: parsing and printing of assignments.

## Rotation

`Rotation.tla` is the `MoodThreshold` policy of `rotation.rs` with the part of
`sim.rs` that asks it, applies its actions and counts a failed one.  A step of
the simulation is `Tick` (morale moves, by any amount), `Ask` (the policy makes
its working copy and its two queues, of owners that come back and of workers
that are tired), the two loops with one action per turn and outcome, and
`Apply` for each action that was asked for.

| Variable | Code |
|---|---|
| `assignment`, `crew` | `Sim::assignment`, and what it was at the start |
| `mood`, `supports` | the operators' morale, in whole points; which of them keep the others of a Dormitory going |
| `home`, `covering` | the fields of `MoodThreshold`: who is to return where, and who covers |
| `plan`, `actions` | the working copy and the list of actions that `next_actions` builds |
| `queue`, `pc` | the turns left of the loop at hand, and where the step is |

`rotation_shifts` has two work slots, two beds, two workers, a resident and one
bench operator, each of whom may start anywhere; morale up to 2, and two
operators whose highest morale is below `swap_in`, so that the "full morale"
exception is used.  That is the smallest base in which beds are short, one
substitute has to be shared, and a substitute tires in turn.  The properties
relate what several ticks did: an owner works at their slot or is on record to
return to it (`OwnersKeepTheirSlots`), nobody vanishes or is doubled
(`NobodyIsLost`), the base becomes what the policy planned, so that no action is
refused (`PlanIsFollowed`), and tired workers, those who cover included, are
relieved when there is a way to (`ShiftsAreChanged`; only thresholds that overlap
make an exception, under which whoever takes over may be tired at once).

Proved for any base, bench, thresholds and morale (`RotationProofs`): all four, and
that a stranger at a slot covers it (`CoversAreKnown`), that who rests
is in a bed (`RestersSleep`) and that nobody else is moved (`OnlyShiftsMove`).
The facts that matter are about the plan while it is made and about the
assignment after it was applied, action by action.  `IInv` ties the two with a
trail: a sequence of assignments without duplicates, from the present one to the
plan, each the result of the next action (`Follows`).  A turn of the policy
appends to the trail, `Apply` takes its head off, and when it is used up the
assignment is the plan.  `ShiftsAreChanged` follows from `ShiftsInv`: until a loop
ends, whoever still should move has a turn to come, unless there was nowhere to
go; a turn changes one work slot only, to a substitute who has rested
(`ShiftMoves`), so that it makes nobody else's turn necessary.
`Rotation_more.cfg` checks the theorems that `rotation_shifts` does not.

## Search

`Search.tla` is `solve_with` from the starting score to the answer: both
strategies, the finalists (`TopK::insert`), the tracker with its progress, stop
and budget, and the final scoring.  A solution is a model value with a key; both
of its scores are chosen, the inner when the solve begins and the final when the
finalists are scored (`rescore`), and rearrangements of one room may score
differently: a rotation relieves a room in the order of its slots, and the skills
of a room are read in that order (see "Seats of a room" below).  The random stream,
the acceptance probability, the clock and the observer are free choices.

Four solutions, two of them rearrangements of each other, with two finalists: the
fewest with which the list is full and has twins, near equals and a worst entry.
Two restarts of three steps, consulting the observer at every second, put a
checkpoint inside a run, at its end and between runs.  A second base in which
nobody is there to move has the runs that end at their first step.  Scores are 0,
1, 2 and 4 and count as equal within 1: three of them are apart, one more than
the list holds.  `FinalistsAreBest` asks whether an assignment ever scored is lost
to the limit of the list, a near equal or a twin: a finalist stands for it, as
good an arrangement of its crew or of one that scored alike, or the list is full
of none that is worse.  The detour by one that scored alike is what the list does
when a near equal kept something out and then gave way to a better arrangement of
its own crew.  `NeverWorse` asks whether the answer can be worse than the start,
with any final scores: only if an arrangement of the start's crew, better as long
as it was not simulated, has taken the start's place.  `StopIsSeen` asks whether a
stop or the budget ends the search in time.

Proved in `SearchProofs`, for any solutions, keys, moves, scores, limit, tolerance
and lengths of the search: `FinalistsAreBest`, `NeverWorse` and `StopIsSeen`, the
types, and
`BestIsKept`, `FinalistsDiffer`, `BestComesFirst`, `ProgressAdvances` and
`StoppedMeansCut`.  An offer to the list has
three outcomes (`OfferCases`): it stays, it grows, or an entry gives way to a
better one; each preserves `ListInv`.  Two facts had to be added for that.
`OneByKey`: no key is twice on the list, so that replacing a twin replaces all of
them.  `StartKept`: some finalist is as good as the start, the start gives way to
better arrangements of its crew only, and its crew falls off only a full list of
none that is worse; `BestComesFirst` needs it where the start is appended
unsorted.  The end of the
search (`EndInv`) then follows from the list alone, whatever stopped it.
`StopInv` counts, at each point, the evaluations since the tracker was last asked:
those made after a stop are among them.

`ReportsInv` bounds, at each point, what the observer was last told by what the runs
so far can have done; hence a report never goes back nor beyond the total
(`ProgressAdvances`), although the loops count on their own.  `StoppedMeansCut` says
that a search calls itself stopped exactly when it left out work it had announced.
It needs that an annealing that could move at its start never gets stuck, which
is so if every move has a move back: `Reversible`, an assumption on the moves, which
`SpaceProofs` proves of the real ones.  `Search_more.cfg` checks the theorems that
`search_finalists` does not.

## Where the code says something else

What the models say and the documentation does not.  The first is a run; where a
configuration is named, TLC shows it.

- **A stop during the shutdown** (`solve_late_stop`).  The head of `jobs.rs` says
  that a job that "had been stopped by request" is recorded before the server
  exits.  A stop that arrives after the drain has told the search to end sets the
  flag; if the outcome was taken for the shutdown's before that
  (`ak-api/src/jobs.rs:504`), the document stays `running`, and the next start
  searches again.
- **A write applied, its reply lost** (`SolveJobs_lost.cfg`).  "The document
  moves through these statuses", and a failed stop "can simply be tried again"; but
  when the cancellation was stored and the call reported as failed
  (`jobs.rs:255`), the runner starts the cancelled document.
- **The order of resumed solves** (`SolveJobs_order.cfg`).  `resume` queues oldest
  first "so they run in the order they were submitted"; each runner is spawned and
  asks for its slot by itself (`jobs.rs:442`), in any order.
- **Finalists with equal scores** (`Search_rearranged.cfg`).  `TopK::insert` says
  that finalists have distinct scores; replacing a known key's score by a better one
  (`ak-solver/src/anneal.rs:45`) does not look at the others.
- **The start rearranged** (`Search_worse.cfg`).  "The starting assignment is always
  a finalist, so the answer can never be worse than what the caller already had"
  (`ak-solver/src/lib.rs:207`).  A rearrangement of the start that scores better
  takes its entry (`anneal.rs:45`), the key is then found on the list and the start
  not appended (`lib.rs:210`), and the simulation that scores the finalists once
  more may give the rearrangement less than the start.
- **A rename undone** (`Documents_names.cfg`).  `update` replaces the name "when
  one is given"; without one it writes back the name it read
  (`ak-api/src/stored.rs:103`), which may be older than a rename that was answered.
- **Order of events** (`Simulation_order.cfg`).  "Events in time order"
  (`ak-eval/src/result.rs:254`); the end of a training is dated inside the tick and
  reported after events of the tick's end.
- **Hours in a room** (`Simulation_room.cfg`).  "Hours since entering the current
  room" (`ak-eval/src/sim.rs:47`) start anew also with a move to the slot one has, a
  swap of a slot with itself, and any change between two slots of one room
  (`sim.rs:681`, `sim.rs:730`).  The policies of the repository ask for none of
  these; another one may.
- **Seats of a room** (`Effects_seats.cfg`).  Clauses of the third pass "read the
  pass-2 sums"; they also read what earlier clauses of the third pass have added
  (`ak-eval/src/effects.rs:1047`), so that the order of two operators in a room
  matters.
- Continuous collection: "storage and order limits never bind"
  (`ak-eval/src/config.rs:27`), but the order limit does (`sim.rs:427`), and the
  queue is then reported full once and never again.  `hours_blocked` also counts
  hours without input.
- `schema.rs` promises an error for what the transformation cannot survive.  An
  unknown kind of room is an error, and it survives it; some that it does not
  survive (a promotion's tier, an empty list of phases, an unknown profession, a
  room or slot category) are caught only when the tables are read or
  transformed.  `GameFiles` has all three layers, which together let nothing
  through.
- A killed run of the sync tool whose pin is then put back leaves files of two
  commits that load; without a sidecar the loader has nothing to compare.
  `ServedIsWhole` states what holds: a server that saw no file change, of a pin the
  tool has passed.

## Proved, model-checked, not modelled

**Proved** for every value of the constants: all safety properties that the runs
check of the background solves, signing in, the documents, the Krooster lookups,
the game files, the imports, the simulation, the rotation, the search, the moves and
the exhaustive walk, but for those listed below, and that the background solves
implement `SolveLifecycle`; each rests on the assumptions its module names, which
TLC evaluates in the runs.

**Model-checked only**:

- All liveness (`RequestsAreAnswered`, `EverySolveSettles`, `ShutdownEnds`,
  `EveryLookupEnds`), which is beyond the prover.
- `FillersAreFree` and `SupportIsKnown`.  `Effects` is recursion over lists of
  clauses, with RECURSIVE operators that the prover does not read, and each property
  compares two evaluations, hence asks for induction over the clauses.  Nor
  are they true of all constants, but of skills such as the game has: of several
  records of which only the strongest counts, one that is scaled to nothing could
  hide a weaker one of the same operator without ever being counted; and a skill by
  which morale recovered with the number of operators in a room would need one who
  is counted but not taken for support.

**Not modelled**:

- `ak-data/src/mechanics`: the parser of skill descriptions, regular expressions
  over strings, without state.  What it produces is the input of `Effects`.
- `ak-solver/src/{evaluator,objective}.rs`: sums of floating-point numbers.  A
  score is any number.
- The errors that end a solve without an answer: a space too large to enumerate, a
  refused request, an evaluator that fails.
- Parsing and printing of assignments; the domain's types, which are tables.
- `ak-api/src/client.rs` and the rate limits, which only refuse requests.
- The progress a client polls, panics of a task, the listing of documents.
- The command line, which calls what is modelled, and the frontend.
