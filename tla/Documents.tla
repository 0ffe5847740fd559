----------------------------- MODULE Documents -----------------------------
(***************************************************************************)
(* Stored rosters, bases and solves, and the requests that name them       *)
(* (ak-store/src/lib.rs; ak-api/src/stored.rs, refs.rs, rosters.rs,        *)
(* bases.rs, simulation.rs, throttle.rs, and the reads of solves.rs).      *)
(*                                                                         *)
(* The documents table is PostgreSQL's: one statement is one atomic step,  *)
(* and a handler awaits each.  Between two of them other requests run, the *)
(* connection may close and drop the handler, a newer build that shares    *)
(* the database may rewrite a document, and the server may restart.  An    *)
(* update reads the document and writes it back; a request that names a    *)
(* base and a roster reads them one after the other, then takes one of its *)
(* account's slots and computes on a blocking thread that nothing stops.   *)
(***************************************************************************)
EXTENDS Naturals, FiniteSets

CONSTANTS
    Accounts,
    Requests,       \* requests under way at once
    Docs,           \* ids the store may issue, each once
    KindOf,         \* the collection a document of that id belongs to
    Names,          \* display names; Unnamed is none given
    Unnamed,
    Contents,       \* bodies that pass check_roster or BaseConfig::validate
    MaxSlots,       \* max_simulations_per_account
    Initial,        \* solves stored before, id |-> owner
    MaxArrivals, MaxTroubles  \* bounds of the exploration; troubles are failed
                    \* statements, restarts and writes of the newer build

VARIABLES
    rows,           \* the documents table
    issued,         \* ids in use, now or before
    req,            \* the handlers
    counts,         \* InFlight: slots held, by account
    orphans,        \* computations whose request is gone, by account
    arrivals, troubles,
    during          \* history: what each id showed the account of a request
                    \* since the request arrived

vars == <<rows, issued, req, counts, orphans, arrivals, troubles, during>>

Kinds == {"base", "roster", "solve"}
ASSUME DocsHaveKinds == KindOf \in [Docs -> Kinds]
ASSUME RequestsAreFinite == IsFiniteSet(Requests)
ASSUME SolvesAreStored == DOMAIN Initial \subseteq Docs /\ \A d \in DOMAIN Initial : Initial[d] \in Accounts
ASSUME BoundsAreNumbers == MaxSlots \in Nat \ {0} /\ MaxArrivals \in Nat /\ MaxTroubles \in Nat

SchemaVersion == 1
Newer == SchemaVersion + 1
Absent == [absent |-> TRUE]
NoContent == "no content"  \* of a request that brings none, and of a solve
Idle == [step |-> "idle", answer |-> "none"]

Row(a, version, name, body) == [owner |-> a, version |-> version, name |-> name, body |-> body]
Body(version, content) == [format |-> version, content |-> content]
----------------------------------------------------------------------------
(* The store.                                                              *)

\* The owner clause is forgotten.
Found_Anyones(a, kind, d) == IF d \in Docs /\ rows[d] # Absent /\ KindOf[d] = kind THEN rows[d] ELSE Absent

\* SELECT ... WHERE collection, id and owner: somebody else's is not there.
Found(a, kind, d) ==
    IF d \in Docs /\ rows[d] # Absent /\ KindOf[d] = kind /\ rows[d].owner = a
    THEN rows[d] ELSE Absent

\* migrate: there is no step yet from an older version, and a newer one is
\* refused.
Supported(row) == row = Absent \/ row.version = SchemaVersion

\* Store::list shows metadata of every version; Store::documents migrates all
\* of them, so that one it cannot read fails the whole list.
Listed(a, kind) == {d \in Docs : Found(a, kind, d) # Absent}
ListFails(a, kind) == kind = "solve" /\ \E d \in Listed(a, kind) : ~Supported(rows[d])

Put(d, row) == [rows EXCEPT ![d] = row]

\* INSERT ... ON CONFLICT DO UPDATE: the row need not be there any more.
Written_Upsert(d, row) == Put(d, row)

\* Only what the request brings is set.
Written_BodyOnly(d, row) == IF rows[d] = Absent THEN rows ELSE [rows EXCEPT ![d].body = row.body, ![d].name = row.name]

\* UPDATE ... WHERE collection, id and owner: no row, no change.
Written(d, row) == IF rows[d] = Absent THEN rows ELSE Put(d, row)

Erased(d) == Put(d, Absent)
----------------------------------------------------------------------------
(* Requests.                                                               *)

At(r, step) == req[r].step = step
Becomes(r, step) == req' = [req EXCEPT ![r].step = step]
Answer(r, answer) == req' = [req EXCEPT ![r] = [Idle EXCEPT !.answer = answer]]
Ready(r) == At(r, "idle") /\ arrivals < MaxArrivals

Shown(r, d, table) == <<d, IF table[d] = Absent \/ table[d].owner # req[r].account THEN Absent ELSE table[d].body>>

\* What a request has seen of the documents it names, the step under way
\* included.
Throughout(r) == during[r] \cup {Shown(r, d, rows) : d \in req[r].ids} \cup {Shown(r, d, rows') : d \in req[r].ids}

\* Every step: the history follows the table.
Watch == during' = [r \in Requests |->
    IF At(r, "idle") \/ req'[r].step = "idle" THEN {} ELSE Throughout(r)]

TableSame == UNCHANGED <<rows, issued>>
SlotsSame == UNCHANGED <<counts, orphans>>

Arrives(r, a, kind, ids, step, name, content) ==
    /\ Ready(r) /\ arrivals' = arrivals + 1
    /\ req' = [req EXCEPT ![r] =
         [account |-> a, kind |-> kind, ids |-> ids, step |-> step, name |-> name,
          content |-> content, copy |-> Absent, base |-> Absent, roster |-> Absent]]
    /\ TableSame /\ SlotsSame /\ UNCHANGED troubles

Own(kinds) == {d \in Docs : KindOf[d] \in kinds}

\* POST, PUT, GET and DELETE of rosters and bases, once the body is read.
\* GET of a solve, and of the simulation of one of its finalists.
Post(r, a) == \E kind \in {"base", "roster"}, c \in Contents :
    Arrives(r, a, kind, {}, "insert", Unnamed, c)
Replace(r, a) == \E d \in Own({"base", "roster"}), n \in Names \cup {Unnamed}, c \in Contents :
    Arrives(r, a, KindOf[d], {d}, "find", n, c)
Fetch(r, a) == \E d \in Docs, step \in {"fetch", "finalist"} :
    /\ step = "finalist" => KindOf[d] = "solve"
    /\ Arrives(r, a, KindOf[d], {d}, step, Unnamed, NoContent)
Delete(r, a) == \E d \in Own({"base", "roster"}) :
    Arrives(r, a, KindOf[d], {d}, "remove", Unnamed, NoContent)

\* POST /evaluate and /simulate: refs::resolve takes the base, then the roster.
Simulate(r, a) == \E b \in Own({"base"}), t \in Own({"roster"}) :
    Arrives(r, a, "base", {b, t}, "resolve", Unnamed, NoContent)
----------------------------------------------------------------------------
(* Statements.  One may fail, applied or not; the answer is then a 500 or a *)
(* 503.                                                                     *)

Trouble == troubles < MaxTroubles /\ troubles' = troubles + 1
Works == UNCHANGED troubles
Fails(r) == Trouble /\ Answer(r, "error")

\* stored::insert.  The new id has not been issued before.
Insert(r) ==
    /\ At(r, "insert")
    /\ \E d \in {x \in Docs \ issued : KindOf[x] = req[r].kind} :
         LET made == Put(d, Row(req[r].account, SchemaVersion, req[r].name, Body(SchemaVersion, req[r].content))) IN
         \/ /\ Works /\ rows' = made /\ issued' = issued \cup {d}
            /\ Answer(r, "created")
         \/ Fails(r) /\ \/ rows' = made /\ issued' = issued \cup {d}
                        \/ TableSame
    /\ SlotsSame /\ UNCHANGED arrivals

TheId(r) == CHOOSE d \in req[r].ids : TRUE
TheRow(r) == Found(req[r].account, req[r].kind, TheId(r))

\* stored::find, in update, fetch and candidate_simulation.
Read(r, step) ==
    /\ At(r, step)
    /\ \/ Works /\ TheRow(r) = Absent /\ Answer(r, "missing")
       \/ Works /\ ~Supported(TheRow(r)) /\ Answer(r, "error")
       \/ Fails(r)
       \/ /\ Works /\ TheRow(r) # Absent /\ Supported(TheRow(r))
          /\ IF step = "fetch" THEN Answer(r, "shown")
             ELSE req' = [req EXCEPT ![r] = [@ EXCEPT !.copy = TheRow(r),
                            !.step = IF step = "find" THEN "write" ELSE "slot"]]
       \* candidate_simulation: no result yet, no such finalist, or the best
       \* one, whose simulation the result holds.
       \/ Works /\ step = "finalist" /\ TheRow(r) # Absent /\ Supported(TheRow(r)) /\ Answer(r, "other")
    /\ TableSame /\ SlotsSame /\ UNCHANGED arrivals

\* update: the copy with the new body, the new name if one is given, and a
\* new updated_at.
Updated(r) == [req[r].copy EXCEPT !.name = IF req[r].name = Unnamed THEN @ ELSE req[r].name,
                                  !.body = Body(SchemaVersion, req[r].content)]

Write(r) ==
    /\ At(r, "write")
    /\ \/ Works /\ rows' = Written(TheId(r), Updated(r))
          /\ Answer(r, IF rows'[TheId(r)] = Absent THEN "missing" ELSE "replaced")
       \/ Fails(r) /\ rows' \in {rows, Written(TheId(r), Updated(r))}
    /\ SlotsSame /\ UNCHANGED <<issued, arrivals>>

Remove(r) ==
    /\ At(r, "remove")
    /\ \/ Works /\ TheRow(r) = Absent /\ Answer(r, "missing") /\ UNCHANGED rows
       \/ Works /\ TheRow(r) # Absent /\ Answer(r, "removed") /\ rows' = Erased(TheId(r))
       \/ Fails(r) /\ rows' \in {rows, IF TheRow(r) = Absent THEN rows ELSE Erased(TheId(r))}
    /\ SlotsSame /\ UNCHANGED <<issued, arrivals>>

\* GET of a collection.
List(r, a) ==
    /\ Ready(r) /\ arrivals' = arrivals + 1
    /\ \E kind \in Kinds : Answer(r, IF ListFails(a, kind) THEN "error" ELSE "listed")
    /\ TableSame /\ SlotsSame /\ UNCHANGED troubles

\* refs::resolve, one of its two reads; a missing document is a 400.
Resolve(r, kind) ==
    LET row == Found(req[r].account, kind, CHOOSE d \in req[r].ids : KindOf[d] = kind)
    IN /\ At(r, "resolve") /\ req[r][kind] = Absent
       /\ kind = "roster" => req[r].base # Absent
       /\ \/ Works /\ row = Absent /\ Answer(r, "missing")
          \/ Works /\ ~Supported(row) /\ Answer(r, "error")
          \/ Fails(r)
          \/ /\ Works /\ row # Absent /\ Supported(row)
             /\ req' = [req EXCEPT ![r] = [req[r] EXCEPT !.step = IF kind = "roster" THEN "slot" ELSE @,
                          !.base = IF kind = "base" THEN row ELSE @,
                          !.roster = IF kind = "roster" THEN row ELSE @]]
          \* from_value: the request is not one.
          \/ Works /\ kind = "roster" /\ row # Absent /\ Answer(r, "other")
       /\ TableSame /\ SlotsSame /\ UNCHANGED arrivals
----------------------------------------------------------------------------
(* Slots.                                                                  *)

\* InFlight::take, unless check_ticks turned the request away.
TakeSlot(r) ==
    LET a == req[r].account IN
    /\ At(r, "slot")
    /\ \/ Answer(r, "other") /\ UNCHANGED counts
       \/ counts[a] >= MaxSlots /\ Answer(r, "busy") /\ UNCHANGED counts
       \/ counts[a] < MaxSlots /\ Becomes(r, "compute") /\ counts' = [counts EXCEPT ![a] = @ + 1]
    /\ TableSame /\ UNCHANGED <<orphans, arrivals, troubles>>

Freed(a) == [counts EXCEPT ![a] = @ - 1]

Computed(r) ==
    /\ At(r, "compute") /\ Answer(r, "computed") /\ counts' = Freed(req[r].account)
    /\ TableSame /\ UNCHANGED <<orphans, arrivals, troubles>>

\* The slot belongs to the request instead of the computation.
LeftBehind_Freed(r) ==
    LET a == req[r].account IN
    IF At(r, "compute") THEN orphans' = [orphans EXCEPT ![a] = @ + 1] /\ counts' = Freed(a)
    ELSE SlotsSame

\* The computation goes on, and holds its slot.
LeftBehind(r) ==
    IF At(r, "compute") THEN orphans' = [orphans EXCEPT ![req[r].account] = @ + 1] /\ UNCHANGED counts
    ELSE SlotsSame

\* The connection closes: the handler is dropped where it waits.
Drop(r) ==
    /\ ~At(r, "idle")
    /\ req' = [req EXCEPT ![r] = Idle] /\ LeftBehind(r)
    /\ TableSame /\ UNCHANGED <<arrivals, troubles>>

OrphanEnds(a) ==
    /\ orphans[a] > 0 /\ orphans' = [orphans EXCEPT ![a] = @ - 1] /\ counts' = Freed(a)
    /\ TableSame /\ UNCHANGED <<req, arrivals, troubles>>
----------------------------------------------------------------------------
(* The world.                                                              *)

\* A newer build, on the same database, writes a document its way.
NewerBuild(d) ==
    /\ Trouble /\ rows[d] # Absent
    /\ \E c \in Contents : rows' = Put(d, [rows[d] EXCEPT !.version = Newer, !.body = Body(Newer, c)])
    /\ SlotsSame /\ UNCHANGED <<issued, req, arrivals>>

Restart ==
    /\ Trouble
    /\ req' = [r \in Requests |-> Idle]
    /\ counts' = [a \in Accounts |-> 0] /\ orphans' = [a \in Accounts |-> 0]
    /\ TableSame /\ UNCHANGED arrivals

Init ==
    /\ rows = [d \in Docs |-> IF d \in DOMAIN Initial
                              THEN Row(Initial[d], SchemaVersion, Unnamed, Body(SchemaVersion, NoContent))
                              ELSE Absent]
    /\ issued = DOMAIN Initial
    /\ req = [r \in Requests |-> Idle]
    /\ counts = [a \in Accounts |-> 0] /\ orphans = [a \in Accounts |-> 0]
    /\ arrivals = 0 /\ troubles = 0 /\ during = [r \in Requests |-> {}]

Arrive(r, a) == Post(r, a) \/ Replace(r, a) \/ Fetch(r, a) \/ Delete(r, a) \/ Simulate(r, a) \/ List(r, a)

Handle(r) ==
    \/ Insert(r) \/ Read(r, "find") \/ Read(r, "fetch") \/ Read(r, "finalist")
    \/ Write(r) \/ Remove(r) \/ Resolve(r, "base") \/ Resolve(r, "roster")
    \/ TakeSlot(r) \/ Computed(r)

Next ==
    /\ \/ \E r \in Requests : (\E a \in Accounts : Arrive(r, a)) \/ Handle(r) \/ Drop(r)
       \/ \E a \in Accounts : OrphanEnds(a)
       \/ \E d \in Docs : NewerBuild(d)
       \/ Restart
    /\ Watch

Spec == Init /\ [][Next]_vars
----------------------------------------------------------------------------
(* Properties.                                                             *)

\* An answer was true at some moment while its request ran, and of the
\* account's own documents: what is missing was not there, what is shown or
\* computed with was, and what was written could be read back.  This is what
\* makes a request that takes several statements look like one.
Answers(r, answer) == ~At(r, "idle") /\ req'[r] = [Idle EXCEPT !.answer = answer]
Mine(r) == Body(SchemaVersion, req[r].content)
AnswersWereTrue ==
    [][\A r \in Requests :
        /\ Answers(r, "missing") => \E d \in req[r].ids : <<d, Absent>> \in Throughout(r)
        /\ Answers(r, "removed") => \A d \in req[r].ids : rows'[d] = Absent
        /\ Answers(r, "created") => \E d \in issued' \ issued : Shown(r, d, rows') = <<d, Mine(r)>>
        /\ Answers(r, "replaced") => \A d \in req[r].ids : <<d, Mine(r)>> \in Throughout(r)
        /\ Answers(r, "computed") /\ req[r].copy = Absent =>
              \A kind \in {"base", "roster"} : \E d \in req[r].ids :
                  KindOf[d] = kind /\ <<d, req[r][kind].body>> \in Throughout(r)]_vars

\* A deleted document stays deleted (Store::update), although an update that
\* has read it before the delete may write after it.
DeletedStaysDeleted ==
    [][\A d \in issued : rows[d] = Absent => rows'[d] = Absent]_vars

\* A document's version is the one its body was written with, whichever
\* builds wrote it in turn, so that no build reads a body it cannot.
VersionsFit == \A d \in Docs : rows[d] # Absent => rows[d].version = rows[d].body.format

\* A slot is held for each computation of the account, those of requests that
\* are gone included, and for nothing else: none leaks, and no account
\* computes more than MaxSlots at once.
Computing(a) == orphans[a] + Cardinality({r \in Requests : At(r, "compute") /\ req[r].account = a})
SlotsAreHeld == \A a \in Accounts : counts[a] = Computing(a) /\ Computing(a) <= MaxSlots

\* The name changes only to one that the request gives (stored::update: "and
\* its name, when one is given").  The code does not keep this: an update
\* without a name writes back the name it read.
NamesAreGiven ==
    [][\A d \in Docs : rows[d] # Absent /\ rows'[d] # Absent /\ rows'[d].name # rows[d].name
         => \E r \in Requests : At(r, "write") /\ req[r].name = rows'[d].name]_vars
=============================================================================
