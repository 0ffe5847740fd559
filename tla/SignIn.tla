------------------------------- MODULE SignIn -------------------------------
(***************************************************************************)
(* Accounts and signing in (ak-api/src/auth, ak-store/src/accounts.rs).    *)
(*                                                                         *)
(* The handlers of POST /auth/register, /auth/login and /auth/logout run   *)
(* as tasks that may be interleaved, or dropped with the connection, at    *)
(* every await: a statement sent to the store, a permit awaited, a hash    *)
(* computed on a blocking thread.  One action below is one stretch of a    *)
(* handler between two awaits.  The store is PostgreSQL, each statement of *)
(* which is atomic; a statement may fail, applied or not.  Failed sign-ins *)
(* are counted in memory, by a slot that several names may share; hashes   *)
(* are computed a few at a time, under permits that travel with the work.  *)
(*                                                                         *)
(* Passwords are compared whole: what hashing adds is which passwords a    *)
(* hash matches and whether it was made with the current cost.             *)
(***************************************************************************)
EXTENDS Integers, Sequences, FiniteSets

CONSTANTS
    Requests,       \* requests under way at once
    Names,          \* usernames as typed
    Fold,           \* Fold[n]: n in lower case; NoName when it is no username
    NoName,
    SlotOf,         \* SlotOf[a]: the slot of the table of failures a falls in
    Passwords,      \* passwords that can be read (normalize)
    TooLong,        \* a password that cannot
    Accepted,       \* Accepted[n]: passwords check_new takes for n
    FreeFailures, FirstWait, MaxWait, ForgetAfter,
    Lifetime,       \* of a session
    MaxConcurrent,  \* hashes computed at once
    Stored,         \* accounts made before: account |-> password, old hashes
    MaxTime, MaxTokens, MaxTroubles  \* bounds of the exploration; troubles are
                    \* failed statements and restarts of the server

VARIABLES
    clock, req, accounts, sessions, slots, permits, orphans, minted, troubles,
    through,        \* history: when attempts were let through, by slot
    ended           \* history: tokens a client was told have ended

vars == <<clock, req, accounts, sessions, slots, permits, orphans, minted,
          troubles, through, ended>>

Accounts == {Fold[n] : n \in Names} \ {NoName}
Slots == {SlotOf[a] : a \in Accounts}
Tokens == 1 .. MaxTokens
None == [none |-> TRUE]

ASSUME Bounds == /\ FreeFailures \in Nat /\ FirstWait \in Nat \ {0}
                 /\ MaxWait \in Nat /\ MaxWait >= FirstWait
                 /\ ForgetAfter \in Nat \ {0}
                 /\ Lifetime \in Nat \ {0} /\ MaxConcurrent \in Nat \ {0}
                 /\ MaxTime \in Nat /\ MaxTokens \in Nat /\ MaxTroubles \in Nat
ASSUME NamesFold == \A a \in Accounts : a \in Names /\ Fold[a] = a
ASSUME Inputs == /\ IsFiniteSet(Requests) /\ Names # {}
                 /\ \A n \in Names : Accepted[n] \subseteq Passwords
                 /\ \A a \in DOMAIN Stored : Stored[a] \in Passwords

\* The longest wait is reached before the shift is capped (1 s and 60 s).
ASSUME WaitsEnd == MaxWait \div FirstWait < 2 ^ 30

Waiting == {"credentials", "permit", "hashing", "insert", "rehash", "end old", "create", "end"}
Answers == {"done", "wrong", "taken", "idle"}  \* 2xx, 401, 409; 400, 429 and 500
Idle == [step |-> "idle"]
----------------------------------------------------------------------------
(* Backoff: LoginBackoff, a table under one lock.                          *)

\* The wait after count wrong passwords in a row; where the shift is capped or
\* the product overflows it is MaxWait.
WaitAfter(count) ==
    IF count <= FreeFailures THEN 0
    ELSE LET doublings == count - (FreeFailures + 1)
             wait == FirstWait * 2 ^ doublings
         IN IF doublings < 31 /\ wait \in 0 .. MaxWait THEN wait ELSE MaxWait

\* What the slot holds now: a count without a failure for long is forgotten.
Failures(s) ==
    IF slots[s] = None \/ clock - slots[s].last >= ForgetAfter
    THEN [count |-> 0, last |-> clock] ELSE slots[s]

MustWait(s) == Failures(s).last + WaitAfter(Failures(s).count) > clock

\* The wait is reckoned from the first failure of the row.
Counted_FromFirst(s) == [slots EXCEPT ![s] = [count |-> Failures(s).count + 1, last |-> Failures(s).last]]

\* A let-through attempt counts as a failure until it proves right.
Counted(s) == [slots EXCEPT ![s] = [count |-> Failures(s).count + 1, last |-> clock]]

Cleared(s) == [slots EXCEPT ![s] = None]
----------------------------------------------------------------------------
(* Permits, requests and the faults of the store.                            *)

At(r, step) == req[r].step = step
Becomes(r, step) == req' = [req EXCEPT ![r].step = step]

Answer(r, code) == req' = [req EXCEPT ![r] = [step |-> code]]
Working == {r \in Requests : At(r, "hashing")}

\* A statement of r fails: the handler answers 500 whatever the store did.
Fails(r) == troubles < MaxTroubles /\ troubles' = troubles + 1 /\ Answer(r, "idle")
Works == UNCHANGED troubles

SlotsSame == UNCHANGED <<slots, through>>
StoreSame == UNCHANGED <<accounts, sessions>>
WorldSame == UNCHANGED <<clock, orphans, permits>>

\* Where sign_in begins: a carried session is ended first.  The new token's
\* expiry is reckoned from the moment the old one is gone.
Expiry == clock + Lifetime
\* A new sign-in leaves the carried session alone.
SignsIn_Beside(r) == req' = [req EXCEPT ![r] = [req[r] EXCEPT !.step = "create", !.expires = Expiry]]

SignsIn(r) ==
    req' = [req EXCEPT ![r] = [req[r] EXCEPT !.step = IF req[r].carried = 0 THEN "create" ELSE "end old",
                                        !.expires = Expiry]]

Account  == [password : Passwords, old : BOOLEAN]
Request  == [kind : {"register", "login", "logout"}, name : Names,
             password : Passwords \cup {TooLong}, carried : Nat, step : Waiting,
             saw : {None} \cup Account, expires : Nat]

TypeOK ==
    /\ clock \in 0 .. MaxTime /\ minted \in 0 .. MaxTokens
    /\ troubles \in 0 .. MaxTroubles
    /\ orphans \in Nat /\ permits \in 0 .. MaxConcurrent
    /\ req \in [Requests -> [step : Answers] \cup Request]
    /\ accounts \in [Accounts -> {None} \cup Account]
    /\ sessions \in [Tokens -> {None} \cup [user : Accounts, expires : Nat]]
    /\ slots \in [Slots -> {None} \cup [count : Nat, last : 0 .. MaxTime]]
    /\ through \in [Slots -> Seq(0 .. MaxTime)]
    /\ ended \subseteq Tokens

Init ==
    /\ clock = 0 /\ minted = 0 /\ troubles = 0 /\ orphans = 0 /\ permits = MaxConcurrent
    /\ req = [r \in Requests |-> Idle]
    /\ accounts = [a \in Accounts |->
                     IF a \in DOMAIN Stored THEN [password |-> Stored[a], old |-> TRUE] ELSE None]
    /\ sessions = [t \in Tokens |-> None]
    /\ slots = [s \in Slots |-> None]
    /\ through = [s \in Slots |-> <<>>]
    /\ ended = {}
----------------------------------------------------------------------------
(* Handlers.                                                               *)

\* Tokens a client may present; 0 stands for none.
Cookies == 0 .. minted

\* Bound of the exploration: every request under way may need a token.
Room == minted + Cardinality({r \in Requests : req[r].step \in Waiting}) < MaxTokens

Arrives(r, kind, name, password, carried, step) ==
    req' = [req EXCEPT ![r] = IF step \in Answers
                              THEN [step |-> step]
                              ELSE [kind |-> kind, name |-> name, password |-> password,
                                    carried |-> carried, step |-> step, saw |-> None,
                                    expires |-> 0]]

Ready(r) == req[r].step \in Answers

\* POST /auth/register, up to the hash.
Register(r) ==
    /\ Ready(r) /\ Room
    /\ \E n \in Names, p \in Passwords \cup {TooLong}, c \in Cookies :
         Arrives(r, "register", n, p, c,
                 IF Fold[n] = NoName \/ p \notin Accepted[n] THEN "idle" ELSE "permit")
    /\ SlotsSame /\ StoreSame /\ WorldSame /\ UNCHANGED <<troubles, minted, ended>>

\* POST /auth/login, up to the first await: the attempt is counted, refused
\* or, for what cannot be a username, neither; then the password is read.
LetThrough(s) == Counted(s)
Login(r) ==
    /\ Ready(r) /\ Room
    /\ \E n \in Names, p \in Passwords \cup {TooLong}, c \in Cookies :
         LET s == SlotOf[Fold[n]] IN
         \/ /\ Fold[n] = NoName
            /\ Arrives(r, "login", n, p, c, IF p = TooLong THEN "wrong" ELSE "permit")
            /\ SlotsSame
         \/ /\ Fold[n] # NoName /\ MustWait(s)
            /\ Arrives(r, "login", n, p, c, "idle")
            /\ SlotsSame
         \/ /\ Fold[n] # NoName /\ ~MustWait(s)
            /\ Arrives(r, "login", n, p, c, IF p = TooLong THEN "wrong" ELSE "credentials")
            /\ slots' = LetThrough(s)
            /\ through' = [through EXCEPT ![s] = Append(@, clock)]
    /\ StoreSame /\ WorldSame /\ UNCHANGED <<troubles, minted, ended>>

\* Store::credentials, by the name in any case.
Credentials(r) ==
    /\ At(r, "credentials")
    /\ \/ Fails(r)
       \/ Works /\ req' = [req EXCEPT ![r] = [req[r] EXCEPT !.step = "permit",
                                                       !.saw = accounts[Fold[req[r].name]]]]
    /\ SlotsSame /\ StoreSame /\ WorldSame /\ UNCHANGED <<minted, ended>>

\* Passwords::run takes a permit, which the blocking work then owns.
TakePermit(r) ==
    /\ At(r, "permit") /\ permits > 0 /\ permits' = permits - 1
    /\ Becomes(r, "hashing")
    /\ SlotsSame /\ StoreSame /\ UNCHANGED <<clock, orphans, troubles, minted, ended>>

\* Blocking work ends, and the permit it owns is free again.
WorkEnds == permits' = permits + 1

\* The work of a request that is gone ends.
OrphanEnds ==
    /\ orphans > 0 /\ orphans' = orphans - 1 /\ WorkEnds
    /\ SlotsSame /\ StoreSame /\ UNCHANGED <<clock, req, troubles, minted, ended>>

\* Passwords::hash is done: a registration goes on.
Hashed(r) ==
    /\ At(r, "hashing") /\ req[r].kind = "register"
    /\ Becomes(r, "insert") /\ WorkEnds
    /\ SlotsSame /\ StoreSame /\ UNCHANGED <<clock, orphans, troubles, minted, ended>>

\* Passwords::verify, or verify_nobody for an account that is not there, is
\* done.  The right password clears the slot; an old hash is replaced next.
Right(r) == req[r].saw # None /\ req[r].saw.password = req[r].password
Verified(r) ==
    /\ At(r, "hashing") /\ req[r].kind = "login" /\ WorkEnds
    /\ \/ ~Right(r) /\ Answer(r, "wrong") /\ SlotsSame
       \/ /\ Right(r)
          /\ IF req[r].saw.old THEN Becomes(r, "rehash") ELSE SignsIn(r)
          /\ LET s == SlotOf[Fold[req[r].name]]
             IN slots' = Cleared(s) /\ through' = [through EXCEPT ![s] = <<>>]
    /\ StoreSame /\ UNCHANGED <<clock, orphans, troubles, minted, ended>>

\* The name is looked up first, and the insert takes what it finds.
Taken_Before(r) == req[r].saw # None

\* Store::create_user: the unique index on the folded name decides.
Taken(r) == accounts[Fold[req[r].name]] # None

Created(r) == [accounts EXCEPT ![Fold[req[r].name]] = [password |-> req[r].password, old |-> FALSE]]

Insert(r) ==
    /\ At(r, "insert")
    /\ \/ Works /\ Taken(r) /\ Answer(r, "taken") /\ UNCHANGED accounts
       \/ Works /\ ~Taken(r) /\ accounts' = Created(r) /\ SignsIn(r)
       \/ Fails(r) /\ accounts' \in {accounts, IF Taken(r) THEN accounts ELSE Created(r)}
    /\ SlotsSame /\ WorldSame /\ UNCHANGED <<sessions, minted, ended>>

\* set_password_hash, whose failure is only logged.
Rehash(r) ==
    /\ At(r, "rehash")
    /\ \/ troubles < MaxTroubles /\ troubles' = troubles + 1 /\ UNCHANGED accounts
       \/ Works /\ accounts' = Created(r)
    /\ SignsIn(r)
    /\ SlotsSame /\ WorldSame /\ UNCHANGED <<sessions, minted, ended>>

Ended(t) == [sessions EXCEPT ![t] = None]

\* sign_in: the session the request carried ends.
EndOld(r) ==
    /\ At(r, "end old")
    /\ \/ /\ Works /\ sessions' = Ended(req[r].carried)
          /\ req' = [req EXCEPT ![r] = [req[r] EXCEPT !.step = "create", !.expires = Expiry]]
       \/ Fails(r) /\ sessions' \in {sessions, Ended(req[r].carried)}
    /\ SlotsSame /\ WorldSame /\ UNCHANGED <<accounts, minted, ended>>

\* sign_in: the new session is stored and its token handed over.
NewSession(r) == [user |-> Fold[req[r].name], expires |-> req[r].expires]

Create(r) ==
    /\ At(r, "create")
    /\ minted' = minted + 1
    /\ LET made == [sessions EXCEPT ![minted'] = NewSession(r)] IN
       \/ /\ Works /\ sessions' = made
          /\ Answer(r, "done")
          /\ ended' = ended \cup ({req[r].carried} \ {0})
       \/ Fails(r) /\ sessions' \in {sessions, made} /\ UNCHANGED ended
    /\ SlotsSame /\ WorldSame /\ UNCHANGED accounts

\* POST /auth/logout.
Logout(r) ==
    /\ Ready(r)
    /\ \E c \in Cookies : Arrives(r, "logout", CHOOSE n \in Names : TRUE, TooLong, c,
                                  IF c = 0 THEN "done" ELSE "end")
    /\ SlotsSame /\ StoreSame /\ WorldSame /\ UNCHANGED <<troubles, minted, ended>>

End(r) ==
    /\ At(r, "end")
    /\ \/ /\ Works /\ sessions' = Ended(req[r].carried)
          /\ Answer(r, "done") /\ ended' = ended \cup {req[r].carried}
       \/ Fails(r) /\ sessions' \in {sessions, Ended(req[r].carried)} /\ UNCHANGED ended
    /\ SlotsSame /\ WorldSame /\ UNCHANGED <<accounts, minted>>

\* The permit belongs to the request instead of the work.
LeftBehind_Freed(r) ==
    /\ orphans' = IF At(r, "hashing") THEN orphans + 1 ELSE orphans
    /\ permits' = IF At(r, "hashing") THEN permits + 1 ELSE permits

LeftBehind(r) == /\ orphans' = IF At(r, "hashing") THEN orphans + 1 ELSE orphans
                 /\ UNCHANGED permits

\* The connection of r closes: the handler is dropped at its await, and the
\* hash it waits for is left to finish by itself.
Drop(r) ==
    /\ req[r].step \in Waiting
    /\ req' = [req EXCEPT ![r] = Idle]
    /\ LeftBehind(r)
    /\ SlotsSame /\ StoreSame /\ UNCHANGED <<clock, troubles, minted, ended>>

\* session::sweep, every SWEEP_EVERY.
Sweep ==
    /\ sessions' = [t \in Tokens |-> IF sessions[t] # None /\ sessions[t].expires <= clock
                                     THEN None ELSE sessions[t]]
    /\ sessions' # sessions
    /\ SlotsSame /\ WorldSame /\ UNCHANGED <<req, accounts, troubles, minted, ended>>

Tick == /\ clock < MaxTime /\ clock' = clock + 1
        /\ SlotsSame /\ StoreSame /\ UNCHANGED <<req, orphans, permits, troubles, minted, ended>>

\* The server is restarted: what it kept in memory is gone.
Restart ==
    /\ troubles < MaxTroubles /\ troubles' = troubles + 1
    /\ req' = [r \in Requests |-> Idle] /\ orphans' = 0 /\ permits' = MaxConcurrent
    /\ slots' = [s \in Slots |-> None] /\ through' = [s \in Slots |-> <<>>]
    /\ StoreSame /\ UNCHANGED <<clock, minted, ended>>

Handle(r) == \/ Credentials(r) \/ Hashed(r) \/ Verified(r) \/ Insert(r)
             \/ Rehash(r) \/ EndOld(r) \/ Create(r) \/ End(r)

Next == \/ \E r \in Requests : \/ Register(r) \/ Login(r) \/ Logout(r)
                               \/ Handle(r) \/ TakePermit(r) \/ Drop(r)
        \/ OrphanEnds \/ Sweep \/ Tick \/ Restart

Spec == Init /\ [][Next]_vars
----------------------------------------------------------------------------
(* Properties.                                                             *)

\* CurrentUser: the account a session cookie stands for, if any.
SessionUser(t) == IF t # 0 /\ sessions[t] # None /\ sessions[t].expires > clock
                  THEN sessions[t].user ELSE NoName

\* A row of attempts ends after ForgetAfter without one.
RowStarts(times) == {i \in 1 .. Len(times) : i = 1 \/ times[i] - times[i - 1] >= ForgetAfter}
RowOf(times, i, j) == /\ j \in RowStarts(times) /\ j < i
                      /\ \A k \in RowStarts(times) : k <= j \/ k > i

\* The wait backoff.rs asks for after so many attempts of a row.
Asked(before) ==
    LET doubled == {w \in 0 .. MaxWait :
                      \E e \in 0 .. before : /\ e = before - (FreeFailures + 1)
                                            /\ w = FirstWait * 2 ^ e}
    IN IF before <= FreeFailures THEN 0
       ELSE IF doubled = {} THEN MaxWait ELSE CHOOSE w \in doubled : TRUE

\* A burst of attempts is held to the same allowance as attempts sent one by
\* one (backoff.rs): whatever was in flight, the attempts let through since
\* the last right password are spaced by the wait their place in the row
\* asks for.
BurstsAreHeld ==
    \A s \in Slots : LET times == through[s] IN
        \A i, j \in 1 .. Len(times) :
            RowOf(times, i, j) => times[i] - times[i - 1] >= Asked(i - j)

\* One account has each name in any case, and only its password signs in as
\* it: a registration that lost the name gets no session, a login that did
\* not match gets none, and one that matches is not called wrong, however
\* registrations and sign-ins of one name are interleaved.
Proved(r) == LET a == Fold[req[r].name]
             IN a # NoName /\ accounts[a] # None /\ accounts[a].password = req[r].password
SignInsAreProved ==
    [][\A r \in Requests :
         /\ req[r].step = "create" /\ req'[r].step = "done" => Proved(r)
         /\ req[r].step = "insert" /\ req'[r].step = "taken" => accounts[Fold[req[r].name]] # None
         /\ req[r].step = "hashing" /\ req'[r].step = "wrong" => req[r].saw = None \/ ~Proved(r)]_vars

\* A session a client was told has ended, by signing out or by a new sign-in
\* in its place, stays ended, whatever was under way with it.
EndedStaysEnded == \A t \in ended : SessionUser(t) = NoName

\* No more hashes are computed at once than there are permits, those of
\* dropped requests included (password.rs).
HashesAreBounded == Cardinality(Working) + orphans <= MaxConcurrent
=============================================================================
