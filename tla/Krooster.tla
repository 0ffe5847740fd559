------------------------------ MODULE Krooster ------------------------------
(***************************************************************************)
(* Rosters fetched from Krooster (ak-api/src/krooster.rs).                 *)
(*                                                                         *)
(* A request looks its name up on a task of its own, which goes on when    *)
(* the request is dropped.  The first to miss asks Krooster, once it has   *)
(* one of a few places; those that miss while it does wait for its answer, *)
(* good or bad.  Good answers, "no such user" among them, are kept for a   *)
(* while and may be evicted at any time for want of room.                  *)
(*                                                                         *)
(* The cache (moka: get, single flight, expiry, eviction) and Krooster     *)
(* itself are modelled from how this code uses them.                       *)
(***************************************************************************)
EXTENDS Naturals, FiniteSets

CONSTANTS
    Requests,
    Names,          \* names as typed
    Fold,           \* Fold[n]: n in lower case, or NoName if it is refused
    NoName,
    FreshFor, MissingFor,
    MaxFetches,
    MaxTime         \* bound of the exploration

ASSUME RequestsAreFinite == IsFiniteSet(Requests)
ASSUME TimesAreKept == FreshFor \in Nat \ {0} /\ MissingFor \in Nat \ {0}
ASSUME SomeFetches == MaxFetches \in Nat \ {0}
ASSUME TimeIsBounded == MaxTime \in Nat

Keys == {Fold[n] : n \in Names} \ {NoName}
Good == {"found", "missing"}
None == [none |-> TRUE]

VARIABLES
    clock,
    task,    \* the lookup each request is waiting for, or has left behind
    kept,    \* answers in memory: what and until when
    places,  \* free places for fetches
    told     \* history: Krooster's last good answer that was not evicted

lookups == <<clock, task, kept, places, told>>

Fetching == {"queued", "asking", "told"}
NoLookup == [step |-> "idle"]
Lookups == [step : {"lookup", "waiting"} \cup Fetching, key : Keys,
            answer : {"none", "error"} \cup Good, dropped : BOOLEAN]

LookupTypeOK ==
    /\ clock \in 0 .. MaxTime /\ places \in 0 .. MaxFetches
    /\ task \in [Requests -> {NoLookup} \cup Lookups]
    /\ kept \in [Keys -> {None} \cup [answer : Good, until : Nat]]
    /\ told \in [Keys -> {None} \cup [answer : Good, at : 0 .. MaxTime]]

LookupInit ==
    /\ clock = 0 /\ places = MaxFetches
    /\ task = [r \in Requests |-> NoLookup]
    /\ kept = [k \in Keys |-> None] /\ told = [k \in Keys |-> None]

At(r, step) == task[r].step = step
KeepFor(answer) == IF answer = "found" THEN FreshFor ELSE MissingFor

Live(k) == kept[k] # None /\ kept[k].until > clock

\* Who is fetching the name of a key, if anyone.
Fetchers(k) == {r \in Requests : task[r].step \in Fetching /\ task[r].key = k}

\* GET /import/krooster/{username}: checked, then looked up on its own task.
Ask(r) ==
    /\ At(r, "idle")
    /\ \E n \in Names : task' = [task EXCEPT ![r] =
          IF Fold[n] = NoName THEN NoLookup
          ELSE [step |-> "lookup", key |-> Fold[n], answer |-> "none", dropped |-> FALSE]]
    /\ UNCHANGED <<clock, kept, places, told>>

\* try_get_with: from memory, or with the fetch under way, or a new one.
LookUp(r) ==
    /\ At(r, "lookup")
    /\ \/ Live(task[r].key) /\ task' = [task EXCEPT ![r] = NoLookup]
       \/ /\ ~Live(task[r].key) /\ Fetchers(task[r].key) # {}
          /\ task' = [task EXCEPT ![r].step = "waiting"]
       \/ /\ ~Live(task[r].key) /\ Fetchers(task[r].key) = {}
          /\ task' = [task EXCEPT ![r].step = "queued"]
    /\ UNCHANGED <<clock, kept, places, told>>

TakePlace(r) ==
    /\ At(r, "queued") /\ places > 0
    /\ places' = places - 1
    /\ task' = [task EXCEPT ![r].step = "asking"]
    /\ UNCHANGED <<clock, kept, told>>

\* ask: a profile, 404, or anything else; the place is free again.
Answered(r) ==
    /\ At(r, "asking")
    /\ places' = places + 1
    /\ \E a \in Good \cup {"error"} :
         /\ task' = [task EXCEPT ![r] = [@ EXCEPT !.step = "told", !.answer = a]]
         /\ told' = IF a = "error" THEN told
                    ELSE [told EXCEPT ![task[r].key] = [answer |-> a, at |-> clock]]
    /\ UNCHANGED <<clock, kept>>

\* An answer that is not a profile is kept as a missing user.
Kept_Failures(k, a) == [kept EXCEPT ![k] = [answer |-> IF a = "found" THEN a ELSE "missing",
                                            until |-> clock + KeepFor(a)]]

\* The fetch ends: a good answer is kept, and everyone who waits is answered.
Kept(k, a) == [kept EXCEPT ![k] = IF a \in Good THEN [answer |-> a, until |-> clock + KeepFor(a)] ELSE @]

\* A failure is told only to the request that asked.
WithAnswer_Good(r) == {r} \cup {w \in Requests : /\ At(w, "waiting") /\ task[w].key = task[r].key
                                                /\ task[r].answer \in Good}

WithAnswer(r) == {r} \cup {w \in Requests : At(w, "waiting") /\ task[w].key = task[r].key}

Finish(r) ==
    /\ At(r, "told")
    /\ kept' = Kept(task[r].key, task[r].answer)
    /\ task' = [w \in Requests |-> IF w \in WithAnswer(r) THEN NoLookup ELSE task[w]]
    /\ UNCHANGED <<clock, places, told>>

\* The fetch of a dropped request is given up with it.
Left_GivenUp(r) == [task EXCEPT ![r] = IF @.step = "told" THEN NoLookup ELSE [@ EXCEPT !.dropped = TRUE]]

\* The request is dropped; the task it started goes on.
Left(r) == [task EXCEPT ![r].dropped = TRUE]

Drop(r) ==
    /\ ~At(r, "idle") /\ ~task[r].dropped
    /\ task' = Left(r)
    /\ UNCHANGED <<clock, kept, places, told>>

Evict(k) ==
    /\ Live(k)
    /\ kept' = [kept EXCEPT ![k] = None] /\ told' = [told EXCEPT ![k] = None]
    /\ UNCHANGED <<clock, task, places>>

Tick == clock < MaxTime /\ clock' = clock + 1 /\ UNCHANGED <<task, kept, places, told>>

LookupNext ==
    \/ \E r \in Requests : \/ Ask(r) \/ LookUp(r) \/ TakePlace(r)
                           \/ Answered(r) \/ Finish(r) \/ Drop(r)
    \/ \E k \in Keys : Evict(k)
    \/ Tick

\* Tasks are polled, Krooster answers or times out, and places are granted
\* in the order they were asked for.  Clients, evictions and time owe nothing.
LookupSpec ==
    /\ LookupInit /\ [][LookupNext]_lookups
    /\ \A r \in Requests : /\ WF_lookups(LookUp(r)) /\ WF_lookups(Answered(r)) /\ WF_lookups(Finish(r))
                           /\ SF_lookups(TakePlace(r))
----------------------------------------------------------------------------
(* Krooster is spared: a fetch starts only when nobody is fetching that    *)
(* name, in any spelling, and Krooster has given no good answer for it     *)
(* that is recent enough, unless that answer had to give way to others;    *)
(* a dropped request makes no difference, and failures are not remembered. *)
KroosterIsSpared ==
    [][\A r \in Requests : At(r, "lookup") /\ task'[r].step = "queued" =>
         LET k == task[r].key IN
         /\ \A w \in Requests \ {r} : task[w].step \in Fetching => task[w].key # k
         /\ told[k] = None \/ clock - told[k].at >= KeepFor(told[k].answer)]_lookups

\* What is served from memory is the last good answer to that name, and
\* nothing is served longer after it was kept than its kind allows.
MemoryIsTrue ==
    \A k \in Keys : Live(k) => /\ told[k] # None
                               /\ told[k].answer = kept[k].answer
                               /\ kept[k].until <= clock + KeepFor(told[k].answer)

\* Every lookup ends, those behind a failed or abandoned fetch included.
EveryLookupEnds == \A r \in Requests : ~At(r, "idle") ~> At(r, "idle")
=============================================================================
