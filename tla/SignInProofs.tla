---------------------------- MODULE SignInProofs ----------------------------
(***************************************************************************)
(* What SignIn.tla promises, for any number of requests, names, accounts   *)
(* and permits, any backoff and any faults within the bounds.              *)
(*                                                                         *)
(* Four matters are kept apart.  What a request knows (KnowsInv): what it  *)
(* saw of its account stays true but for the cost of the hash, because     *)
(* accounts are only added and a password is only rehashed.  What it has   *)
(* ended (SessionsInv): the carried session is gone before the new token   *)
(* is minted, and no token is minted twice.  Where the permits are         *)
(* (PermitsInv).  What a slot remembers (SlotsInv): the length of the last *)
(* row of attempts and its last time, so that the wait a slot asks for is  *)
(* the one the whole history of attempts asks for.                         *)
(*                                                                         *)
(* A handler's step is first seen as a move of one request (Steps), which  *)
(* leaves the others alone; then each invariant has one lemma, with a step *)
(* for each action that can disturb it (Changes says which these are).     *)
(***************************************************************************)
EXTENDS SignIn, FiniteSetTheorems, SequenceTheorems, TLAPS

(* Invariants.                                                             *)

\* The account a request names.
AccountOf(r) == Fold[req[r].name]

\* What a request has seen of its account is still so but for the cost of the
\* hash, and it goes on to a session only when it has proved itself.
Known(r) ==
    /\ req[r].kind = "register" \/ req[r].saw # None \/ req[r].step = "credentials" =>
          AccountOf(r) \in Accounts
    /\ req[r].step = "credentials" => req[r].saw = None
    /\ req[r].kind = "register" =>
          /\ req[r].password \in Passwords /\ req[r].saw = None
          /\ req[r].step \in {"permit", "hashing", "insert", "end old", "create"}
    /\ req[r].kind = "login" =>
          req[r].step \in {"credentials", "permit", "hashing", "rehash", "end old", "create"}
    /\ req[r].kind = "logout" <=> req[r].step = "end"
    /\ req[r].saw # None =>
          /\ accounts[AccountOf(r)] # None
          /\ accounts[AccountOf(r)].password = req[r].saw.password
    /\ req[r].step \in {"rehash", "end old", "create"} => Proved(r)
    /\ req[r].step = "rehash" => req[r].password \in Passwords
KnowsInv == \A r \in Requests : req[r].step \in Waiting => Known(r)

\* The session a request carries is over before its new one is made.
CarriedInv(r) ==
    /\ req[r].carried <= minted
    /\ req[r].step \in {"end old", "end"} => req[r].carried # 0
    /\ req[r].step = "create" /\ req[r].carried # 0 => sessions[req[r].carried] = None
SessionsInv ==
    /\ \A r \in Requests : req[r].step \in Waiting => CarriedInv(r)
    /\ \A t \in ended : t \in 1 .. minted /\ sessions[t] = None

\* Each request that may make a token has room for it.
Minting == {r \in Requests : req[r].step \in Waiting \ {"end"}}
RoomInv == minted + Cardinality(Minting) <= MaxTokens

\* A permit is free, or at work for a request or for one that is gone.
PermitsInv == permits + Cardinality(Working) + orphans = MaxConcurrent

\* A slot holds the length of the last row of attempts and its last time.
LastRow(times, j) == /\ j \in RowStarts(times)
                     /\ \A k \in RowStarts(times) : k <= j
SlotInv(s) ==
    IF slots[s] = None THEN through[s] = <<>>
    ELSE /\ through[s] # <<>>
         /\ slots[s].last = through[s][Len(through[s])]
         /\ \A j \in 1 .. Len(through[s]) :
               LastRow(through[s], j) => slots[s].count = Len(through[s]) - j + 1
SlotsInv == \A s \in Slots : SlotInv(s)

\* The inductive invariant.
Inv ==
    /\ TypeOK
    /\ KnowsInv
    /\ SessionsInv
    /\ RoomInv
    /\ PermitsInv
    /\ SlotsInv
    /\ BurstsAreHeld

\* A request under way is not an answered one, and None is no record.
LEMMA Apart ==
    /\ Waiting \cap Answers = {}
    /\ \A q \in Account : q # None
    /\ \A q \in [user : Accounts, expires : Nat] : q # None
    /\ \A q \in [count : Nat, last : 0 .. MaxTime] : q # None
<1>1. Waiting \cap Answers = {}
  BY DEF Waiting, Answers
<1>2. ASSUME NEW q \in Account PROVE q # None
  BY <1>2 DEF Account, None
<1>3. ASSUME NEW q \in [user : Accounts, expires : Nat] PROVE q # None
  BY <1>3 DEF None
<1>4. ASSUME NEW q \in [count : Nat, last : 0 .. MaxTime] PROVE q # None
  BY <1>4 DEF None
<1>. QED BY <1>1, <1>2, <1>3, <1>4

\* A request under way is a whole one.
LEMMA UnderWay ==
    ASSUME TypeOK, NEW r \in Requests
    PROVE  /\ req[r].step \in Waiting => req[r] \in Request
           /\ req[r].step \in Waiting \cup Answers
  BY Apart DEF TypeOK, Request

\* Going on to another step keeps the rest of a request.
LEMMA Goes ==
    ASSUME NEW q \in Request, NEW st \in Waiting
    PROVE  LET p == [q EXCEPT !.step = st] IN
           /\ p \in Request /\ p.step = st
           /\ p.kind = q.kind /\ p.name = q.name /\ p.password = q.password
           /\ p.carried = q.carried /\ p.saw = q.saw /\ p.expires = q.expires
  BY DEF Request

\* Where signing in begins: the carried session is ended first, if there is one.
LEMMA SignsInGoes ==
    ASSUME TypeOK, NEW r \in Requests, req[r] \in Request, SignsIn(r)
    PROVE  \E p \in Request :
             /\ req' = [req EXCEPT ![r] = p]
             /\ p.step = IF req[r].carried = 0 THEN "create" ELSE "end old"
             /\ p.kind = req[r].kind /\ p.name = req[r].name
             /\ p.password = req[r].password
             /\ p.carried = req[r].carried /\ p.saw = req[r].saw
<1>. DEFINE st == IF req[r].carried = 0 THEN "create" ELSE "end old"
            p == [req[r] EXCEPT !.step = st, !.expires = Expiry]
<1>1. st \in Waiting /\ Expiry \in Nat
  BY Bounds DEF Waiting, Expiry, TypeOK
<1>2. /\ p \in Request /\ p.step = st
      /\ p.kind = req[r].kind /\ p.name = req[r].name
      /\ p.password = req[r].password
      /\ p.carried = req[r].carried /\ p.saw = req[r].saw
  BY <1>1 DEF Request
<1>3. req' = [req EXCEPT ![r] = p]
  BY DEF SignsIn
<1>. QED BY <1>2, <1>3
-----------------------------------------------------------------------------
(* Requests move.                                                          *)

\* Every step of a handler, seen from the requests: one of them moves from one
\* step to another and keeps what it was sent with.
Moved(r, from, to) ==
    /\ req[r].step \in from
    /\ \E p \in [step : Answers] \cup Request :
          /\ req' = [req EXCEPT ![r] = p]
          /\ p.step \in to
          /\ p.step \in Waiting /\ req[r].step \in Waiting =>
                /\ p.kind = req[r].kind /\ p.name = req[r].name
                /\ p.password = req[r].password /\ p.carried = req[r].carried

\* An answer ends the request.
LEMMA AnswerMoves ==
    ASSUME NEW r \in Requests, NEW from, NEW code \in Answers,
           req[r].step \in from, Answer(r, code)
    PROVE  Moved(r, from, {code})
<1>1. [step |-> code] \in [step : Answers] \cup Request
  OBVIOUS
<1>2. [step |-> code].step = code /\ code \notin Waiting
  BY Apart
<1>. QED BY <1>1, <1>2 DEF Moved, Answer

\* A request that becomes something else keeps what it was sent with.
LEMMA BecomesMoves ==
    ASSUME TypeOK, NEW r \in Requests, NEW from, NEW st \in Waiting,
           req[r].step \in from, from \subseteq Waiting, Becomes(r, st)
    PROVE  Moved(r, from, {st})
<1>1. req[r] \in Request
  BY UnderWay
<1>. DEFINE p == [req[r] EXCEPT !.step = st]
<1>2. p \in Request /\ p.step = st
      /\ p.kind = req[r].kind /\ p.name = req[r].name /\ p.password = req[r].password
      /\ p.carried = req[r].carried
  BY <1>1, Goes
<1>3. req' = [req EXCEPT ![r] = p]
  BY DEF Becomes
<1>. QED BY <1>2, <1>3 DEF Moved

\* So does one that signs in.
LEMMA SignsInMoves ==
    ASSUME TypeOK, NEW r \in Requests, NEW from,
           req[r].step \in from, from \subseteq Waiting, SignsIn(r)
    PROVE  Moved(r, from, {"create", "end old"})
<1>1. req[r] \in Request
  BY UnderWay
<1>. QED BY <1>1, SignsInGoes DEF Moved

\* A new request takes the place of an answered one.
LEMMA ArrivesMoves ==
    ASSUME TypeOK, NEW r \in Requests, Ready(r),
           NEW kind \in {"register", "login", "logout"}, NEW n \in Names,
           NEW p \in Passwords \cup {TooLong}, NEW c \in Cookies,
           NEW st \in Waiting \cup Answers, Arrives(r, kind, n, p, c, st)
    PROVE  Moved(r, Answers, {st})
<1>1. CASE st \in Answers
  BY <1>1, AnswerMoves DEF Arrives, Ready, Answer
<1>2. CASE st \notin Answers
  <2>. DEFINE q == [kind |-> kind, name |-> n, password |-> p, carried |-> c,
                    step |-> st, saw |-> None, expires |-> 0]
  <2>1. q \in Request /\ q.step = st
    BY <1>2 DEF Request, Cookies, TypeOK
  <2>2. req' = [req EXCEPT ![r] = q] /\ req[r].step \in Answers
    BY <1>2 DEF Arrives, Ready
  <2>. QED BY <2>1, <2>2, Apart DEF Moved
<1>. QED BY <1>1, <1>2

\* Where each handler's step leads.
LEMMA Steps ==
    ASSUME TypeOK, KnowsInv, NEW r \in Requests
    PROVE  /\ Register(r)    => Moved(r, Answers, {"idle", "permit"})
           /\ Login(r)       => Moved(r, Answers, Answers \cup {"permit", "credentials"})
           /\ Logout(r)      => Moved(r, Answers, {"done", "end"})
           /\ Credentials(r) => Moved(r, {"credentials"}, {"idle", "permit"})
           /\ TakePermit(r)  => Moved(r, {"permit"}, {"hashing"})
           /\ Hashed(r)      => Moved(r, {"hashing"}, {"insert"})
           /\ Verified(r)    => Moved(r, {"hashing"}, {"wrong", "rehash", "create", "end old"})
           /\ Insert(r)      => Moved(r, {"insert"}, {"taken", "idle", "create", "end old"})
           /\ Rehash(r)      => Moved(r, {"rehash"}, {"create", "end old"})
           /\ EndOld(r)      => Moved(r, {"end old"}, {"create", "idle"})
           /\ Create(r)      => Moved(r, {"create"}, {"done", "idle"})
           /\ End(r)         => Moved(r, {"end"}, {"done", "idle"})
           /\ Drop(r)        => Moved(r, Waiting, {"idle"})
<1>. USE DEF At
<1>0. /\ "idle" \in Answers /\ "done" \in Answers /\ "wrong" \in Answers /\ "taken" \in Answers
      /\ {"permit", "credentials", "hashing", "insert", "rehash", "create", "end old", "end"}
           \subseteq Waiting
  BY DEF Answers, Waiting
<1>x. ASSUME NEW from, NEW small, NEW large, small \subseteq large, Moved(r, from, small)
      PROVE  Moved(r, from, large)
  BY <1>x DEF Moved
<1>1. ASSUME Register(r) PROVE Moved(r, Answers, {"idle", "permit"})
  <2>1. PICK n \in Names, p \in Passwords \cup {TooLong}, c \in Cookies :
          Arrives(r, "register", n, p, c,
                 IF Fold[n] = NoName \/ p \notin Accepted[n] THEN "idle" ELSE "permit")
    BY <1>1 DEF Register
  <2>2. Ready(r)
    BY <1>1 DEF Register
  <2>. DEFINE st == IF Fold[n] = NoName \/ p \notin Accepted[n] THEN "idle" ELSE "permit"
  <2>3. st \in Waiting \cup Answers /\ {st} \subseteq {"idle", "permit"}
    BY <1>0
  <2>. HIDE DEF st
  <2>4. Moved(r, Answers, {st})
    BY <2>1, <2>2, <2>3, ArrivesMoves DEF st
  <2>. QED BY <2>3, <2>4, <1>x
<1>2. ASSUME Login(r) PROVE Moved(r, Answers, Answers \cup {"permit", "credentials"})
  <2>1. PICK n \in Names, p \in Passwords \cup {TooLong}, c \in Cookies :
          \E st \in {"wrong", "permit", "idle", "credentials"} : Arrives(r, "login", n, p, c, st)
    BY <1>2 DEF Login
  <2>2. PICK st \in {"wrong", "permit", "idle", "credentials"} : Arrives(r, "login", n, p, c, st)
    BY <2>1
  <2>3. Moved(r, Answers, {st})
    BY <1>0, <1>2, <2>2, ArrivesMoves DEF Login
  <2>. QED BY <1>0, <2>3 DEF Moved
<1>3. ASSUME Logout(r) PROVE Moved(r, Answers, {"done", "end"})
  <2>1. PICK c \in Cookies : Arrives(r, "logout", CHOOSE n \in Names : TRUE, TooLong, c,
                                     IF c = 0 THEN "done" ELSE "end")
    BY <1>3 DEF Logout
  <2>2. PICK st \in {"done", "end"} : Arrives(r, "logout", CHOOSE n \in Names : TRUE, TooLong, c, st)
    BY <2>1
  <2>3. (CHOOSE n \in Names : TRUE) \in Names
    BY Inputs
  <2>4. Moved(r, Answers, {st})
    BY <1>0, <1>3, <2>2, <2>3, ArrivesMoves DEF Logout
  <2>. QED BY <2>4, <1>x
<1>4. ASSUME Credentials(r) PROVE Moved(r, {"credentials"}, {"idle", "permit"})
  <2>0. req[r].step = "credentials" /\ req[r] \in Request
    BY <1>4, <1>0, UnderWay DEF Credentials
  <2>1. CASE Fails(r)
    BY <2>0, <2>1, <1>0, <1>x, AnswerMoves DEF Fails
  <2>2. CASE ~Fails(r)
    <3>. DEFINE saw == accounts[AccountOf(r)]
                p == [req[r] EXCEPT !.step = "permit", !.saw = saw]
    <3>1. req' = [req EXCEPT ![r] = p]
      BY <1>4, <2>2 DEF Credentials, AccountOf
    <3>2. saw \in {None} \cup Account
      BY <2>0, <1>0 DEF KnowsInv, Known, TypeOK
    <3>3. p \in Request /\ p.step = "permit"
          /\ p.kind = req[r].kind /\ p.name = req[r].name
          /\ p.password = req[r].password /\ p.carried = req[r].carried
      BY <1>0, <2>0, <3>2 DEF Request
    <3>. QED BY <2>0, <3>1, <3>3 DEF Moved
  <2>. QED BY <2>1, <2>2
<1>5. ASSUME TakePermit(r) PROVE Moved(r, {"permit"}, {"hashing"})
  BY <1>5, <1>0, BecomesMoves DEF TakePermit
<1>6. ASSUME Hashed(r) PROVE Moved(r, {"hashing"}, {"insert"})
  BY <1>6, <1>0, BecomesMoves DEF Hashed
<1>7. ASSUME Verified(r) PROVE Moved(r, {"hashing"}, {"wrong", "rehash", "create", "end old"})
  <2>0. req[r].step = "hashing"
    BY <1>7 DEF Verified
  <2>1. CASE Answer(r, "wrong")
    <3>1. Moved(r, {"hashing"}, {"wrong"})
      BY <2>0, <2>1, <1>0, AnswerMoves
    <3>. QED BY <3>1 DEF Moved
  <2>2. CASE Becomes(r, "rehash")
    <3>1. Moved(r, {"hashing"}, {"rehash"})
      BY <2>0, <2>2, <1>0, BecomesMoves
    <3>. QED BY <3>1 DEF Moved
  <2>3. CASE SignsIn(r)
    <3>1. Moved(r, {"hashing"}, {"create", "end old"})
      BY <2>0, <2>3, <1>0, SignsInMoves
    <3>. QED BY <3>1 DEF Moved
  <2>. QED BY <1>7, <2>1, <2>2, <2>3 DEF Verified
<1>8. ASSUME Insert(r) PROVE Moved(r, {"insert"}, {"taken", "idle", "create", "end old"})
  <2>0. req[r].step = "insert"
    BY <1>8 DEF Insert
  <2>1. CASE Answer(r, "taken") \/ Answer(r, "idle")
    <3>1. Moved(r, {"insert"}, {"taken"}) \/ Moved(r, {"insert"}, {"idle"})
      BY <2>0, <2>1, <1>0, AnswerMoves
    <3>. QED BY <3>1 DEF Moved
  <2>2. CASE SignsIn(r)
    <3>1. Moved(r, {"insert"}, {"create", "end old"})
      BY <2>0, <2>2, <1>0, SignsInMoves
    <3>. QED BY <3>1 DEF Moved
  <2>. QED BY <1>8, <2>1, <2>2 DEF Insert, Fails
<1>9. ASSUME Rehash(r) PROVE Moved(r, {"rehash"}, {"create", "end old"})
  BY <1>9, <1>0, SignsInMoves DEF Rehash
<1>10. ASSUME EndOld(r) PROVE Moved(r, {"end old"}, {"create", "idle"})
  <2>0. req[r].step = "end old" /\ req[r] \in Request
    BY <1>10, <1>0, UnderWay DEF EndOld
  <2>1. CASE Fails(r)
    BY <2>0, <2>1, <1>0, <1>x, AnswerMoves DEF Fails
  <2>2. CASE ~Fails(r)
    <3>. DEFINE p == [req[r] EXCEPT !.step = "create", !.expires = Expiry]
    <3>1. req' = [req EXCEPT ![r] = p]
      BY <1>10, <2>2 DEF EndOld
    <3>2. Expiry \in Nat
      BY Bounds DEF Expiry, TypeOK
    <3>3. p \in Request /\ p.step = "create"
          /\ p.kind = req[r].kind /\ p.name = req[r].name
          /\ p.password = req[r].password /\ p.carried = req[r].carried
      BY <1>0, <2>0, <3>2 DEF Request
    <3>. QED BY <2>0, <3>1, <3>3 DEF Moved
  <2>. QED BY <2>1, <2>2
<1>11. ASSUME Create(r) PROVE Moved(r, {"create"}, {"done", "idle"})
  BY <1>11, <1>0, <1>x, AnswerMoves DEF Create, Fails
<1>12. ASSUME End(r) PROVE Moved(r, {"end"}, {"done", "idle"})
  BY <1>12, <1>0, <1>x, AnswerMoves, Zenon DEF End, Fails
<1>13. ASSUME Drop(r) PROVE Moved(r, Waiting, {"idle"})
  BY <1>13, <1>0, AnswerMoves DEF Drop, Answer, Idle
<1>. QED BY <1>1, <1>2, <1>3, <1>4, <1>5, <1>6, <1>7, <1>8, <1>9, <1>10, <1>11,
     <1>12, <1>13
-----------------------------------------------------------------------------
(* What a step changes.                                                    *)

\* Which actions change what.
LEMMA Changes ==
    ASSUME [Next]_vars
    PROVE  /\ accounts' = accounts \/ \E r \in Requests : Insert(r) \/ Rehash(r)
           /\ \/ sessions' = sessions \/ Sweep
              \/ \E r \in Requests : EndOld(r) \/ Create(r) \/ End(r)
           /\ minted' = minted \/ \E r \in Requests : Create(r)
           /\ ended' = ended \/ \E r \in Requests : Create(r) \/ End(r)
           /\ \/ SlotsSame \/ Restart
              \/ \E r \in Requests : Login(r) \/ Verified(r)
           /\ clock' = clock \/ Tick
           /\ \/ UNCHANGED <<permits, orphans>> \/ Restart \/ OrphanEnds
              \/ \E r \in Requests : TakePermit(r) \/ Hashed(r) \/ Verified(r) \/ Drop(r)
<1>. USE DEF SlotsSame, StoreSame, WorldSame
<1>1. CASE UNCHANGED vars
  BY <1>1 DEF vars
<1>2. CASE \E r \in Requests : Register(r) \/ Login(r) \/ Logout(r) \/ TakePermit(r) \/ Drop(r)
  BY <1>2 DEF Register, Login, Logout, TakePermit, Drop
<1>3. CASE \E r \in Requests : Handle(r)
  <2>1. CASE \E r \in Requests : Credentials(r) \/ Hashed(r) \/ Verified(r) \/ EndOld(r)
    BY <2>1 DEF Credentials, Hashed, Verified, EndOld
  <2>2. CASE \E r \in Requests : Insert(r) \/ Rehash(r)
    BY <2>2 DEF Insert, Rehash
  <2>3. CASE \E r \in Requests : Create(r) \/ End(r)
    BY <2>3 DEF Create, End
  <2>. QED BY <1>3, <2>1, <2>2, <2>3 DEF Handle
<1>4. CASE OrphanEnds \/ Sweep \/ Tick \/ Restart
  BY <1>4 DEF OrphanEnds, Sweep, Tick, Restart
<1>. QED BY <1>1, <1>2, <1>3, <1>4 DEF Next

\* What a move makes of the requests.
LEMMA MovedIs ==
    ASSUME TypeOK, NEW r \in Requests, NEW from, NEW to, Moved(r, from, to)
    PROVE  /\ req' \in [Requests -> [step : Answers] \cup Request]
           /\ req[r].step \in from /\ req'[r].step \in to
           /\ \A q \in Requests : q # r => req'[q] = req[q]
           /\ req'[r].step \in Waiting /\ req[r].step \in Waiting =>
                /\ req'[r].kind = req[r].kind /\ req'[r].name = req[r].name
                /\ req'[r].password = req[r].password /\ req'[r].carried = req[r].carried
  BY DEF Moved, TypeOK

\* Requests keep their type.
LEMMA RequestsTyped ==
    ASSUME TypeOK, KnowsInv, [Next]_vars
    PROVE  req' \in [Requests -> [step : Answers] \cup Request]
<1>1. ASSUME NEW r \in Requests, NEW from, NEW to, Moved(r, from, to)
      PROVE  req' \in [Requests -> [step : Answers] \cup Request]
  BY <1>1, MovedIs
<1>2. CASE \E r \in Requests : \/ Register(r) \/ Login(r) \/ Logout(r)
                               \/ Handle(r) \/ TakePermit(r) \/ Drop(r)
  BY <1>1, <1>2, Steps DEF Handle
<1>3. CASE req' = req
  BY <1>3 DEF TypeOK
<1>4. CASE Restart
  BY <1>4 DEF Restart, Idle, Answers
<1>. QED BY <1>2, <1>3, <1>4 DEF Next, OrphanEnds, Sweep, Tick, vars

\* A request that may make a token has room for it.
LEMMA Minters ==
    ASSUME TypeOK, RoomInv, NEW r \in Requests, req[r].step \in Waiting \ {"end"}
    PROVE  /\ IsFiniteSet(Minting) /\ r \in Minting
           /\ Cardinality(Minting) \in Nat /\ Cardinality(Minting) >= 1
           /\ minted + 1 <= MaxTokens
<1>1. IsFiniteSet(Minting)
  BY Inputs, FS_Subset DEF Minting
<1>2. r \in Minting
  BY DEF Minting
<1>3. Cardinality(Minting) \in Nat /\ Cardinality(Minting) # 0
  BY <1>1, <1>2, FS_CardinalityType, FS_EmptySet
<1>4. Cardinality(Minting) >= 1 /\ minted + 1 <= MaxTokens
  BY <1>3, Bounds DEF RoomInv, TypeOK
<1>. QED BY <1>1, <1>2, <1>3, <1>4

\* Accounts are never removed and keep their password.
LEMMA AccountsTyped ==
    ASSUME TypeOK, KnowsInv, [Next]_vars
    PROVE  /\ accounts' \in [Accounts -> {None} \cup Account]
           /\ \A a \in Accounts : accounts[a] # None =>
                accounts'[a] # None /\ accounts'[a].password = accounts[a].password
<1>1. CASE accounts' = accounts
  BY <1>1 DEF TypeOK
<1>2. ASSUME NEW r \in Requests, Insert(r) \/ Rehash(r) PROVE
           /\ accounts' \in [Accounts -> {None} \cup Account]
           /\ \A a \in Accounts : accounts[a] # None =>
                accounts'[a] # None /\ accounts'[a].password = accounts[a].password
  <2>1. /\ req[r].step \in {"insert", "rehash"} /\ req[r].step \in Waiting
        /\ req[r] \in Request
    BY <1>2, UnderWay DEF Insert, Rehash, At, Waiting
  <2>2. AccountOf(r) \in Accounts /\ req[r].password \in Passwords
    <3>1. req[r].kind \in {"register", "login", "logout"} /\ req[r].name \in Names
      BY <2>1 DEF Request
    <3>2. CASE req[r].step = "insert"
      BY <2>1, <3>1, <3>2 DEF KnowsInv, Known
    <3>3. CASE req[r].step = "rehash"
      BY <2>1, <3>1, <3>3 DEF KnowsInv, Known, Proved, Accounts, AccountOf
    <3>. QED BY <2>1, <3>2, <3>3
  <2>3. CASE accounts' = accounts
    BY <2>3 DEF TypeOK
  <2>4. CASE accounts' = Created(r) /\ (accounts[AccountOf(r)] = None \/ Proved(r))
    <3>. DEFINE made == [password |-> req[r].password, old |-> FALSE]
    <3>1. made \in Account /\ made # None
      BY <2>2, Apart DEF Account
    <3>2. accounts' = [accounts EXCEPT ![AccountOf(r)] = made]
      BY <2>4 DEF Created, AccountOf
    <3>3. accounts[AccountOf(r)] # None => accounts[AccountOf(r)].password = made.password
      BY <2>4 DEF Proved, AccountOf
    <3>. QED BY <2>2, <3>1, <3>2, <3>3 DEF TypeOK
  <2>5. req[r].step = "rehash" => Proved(r)
    BY <2>1 DEF KnowsInv, Known
  <2>6. /\ Insert(r) => accounts' = accounts \/ (accounts' = Created(r) /\ accounts[AccountOf(r)] = None)
        /\ Rehash(r) => accounts' = accounts \/ (accounts' = Created(r) /\ Proved(r))
    BY <2>5 DEF Insert, Rehash, Taken, AccountOf, At
  <2>. QED BY <1>2, <2>3, <2>4, <2>6
<1>. QED BY <1>1, <1>2, Changes
-----------------------------------------------------------------------------
(* Sessions.                                                               *)

\* A request that has proved itself stands for an account.
LEMMA ProvedIs ==
    ASSUME TypeOK, NEW r \in Requests, req[r] \in Request, Proved(r)
    PROVE  AccountOf(r) \in Accounts
  BY DEF Proved, AccountOf, Accounts, Request

\* Tokens are minted one after the other, within the bound.
LEMMA MintedTyped ==
    ASSUME TypeOK, RoomInv, [Next]_vars
    PROVE  minted' \in 0 .. MaxTokens /\ minted' >= minted
<1>1. ASSUME NEW r \in Requests, Create(r) PROVE minted' = minted + 1 /\ minted + 1 <= MaxTokens
  BY <1>1, Minters DEF Create, At, Waiting
<1>. QED BY <1>1, Changes, Bounds DEF TypeOK

\* What a handler may do to the sessions: one goes, or a new one is made.
LEMMA SessionsTyped ==
    ASSUME TypeOK, KnowsInv, RoomInv, [Next]_vars
    PROVE  /\ sessions' \in [Tokens -> {None} \cup [user : Accounts, expires : Nat]]
           /\ \A t \in Tokens : sessions[t] = None /\ t # minted + 1 => sessions'[t] = None
           /\ \A r \in Requests : Create(r) =>
                \A t \in Tokens : t # minted + 1 => sessions'[t] = sessions[t]
<1>1. CASE sessions' = sessions
  BY <1>1 DEF TypeOK
<1>2. CASE Sweep
  <2>1. \A t \in Tokens : sessions'[t] \in {None, sessions[t]}
    BY <1>2 DEF Sweep
  <2>2. sessions' \in [Tokens -> {None} \cup [user : Accounts, expires : Nat]]
    BY <1>2, <2>1 DEF Sweep, TypeOK
  <2>3. ASSUME NEW r \in Requests, Create(r) PROVE FALSE
    BY <1>2, <2>3, Bounds DEF Sweep, Create, TypeOK
  <2>. QED BY <2>1, <2>2, <2>3
<1>3. ASSUME NEW r \in Requests, EndOld(r) \/ End(r)
      PROVE  /\ sessions' \in [Tokens -> {None} \cup [user : Accounts, expires : Nat]]
             /\ \A t \in Tokens : sessions[t] = None => sessions'[t] = None
             /\ minted' = minted
  BY <1>3 DEF EndOld, End, Ended, TypeOK
<1>4. ASSUME NEW r \in Requests, Create(r)
      PROVE  /\ sessions' \in [Tokens -> {None} \cup [user : Accounts, expires : Nat]]
             /\ \A t \in Tokens : t # minted + 1 => sessions'[t] = sessions[t]
             /\ minted' = minted + 1
  <2>1. req[r] \in Request /\ Proved(r)
    <3>1. req[r].step = "create" /\ req[r].step \in Waiting
      BY <1>4 DEF Create, At, Waiting
    <3>. QED BY <3>1, UnderWay DEF KnowsInv, Known
  <2>2. NewSession(r) \in [user : Accounts, expires : Nat]
    BY <2>1, ProvedIs DEF NewSession, Request, AccountOf
  <2>3. /\ minted' = minted + 1
        /\ sessions' \in {sessions, [sessions EXCEPT ![minted + 1] = NewSession(r)]}
    BY <1>4 DEF Create
  <2>. QED BY <2>2, <2>3 DEF TypeOK
<1>5. ASSUME NEW r \in Requests, Create(r) PROVE minted' = minted + 1 /\ minted + 1 # minted
  BY <1>5, Bounds DEF Create, TypeOK
<1>. QED BY <1>1, <1>2, <1>3, <1>4, <1>5, Changes

\* Time goes on, within the bound.
LEMMA ClockTyped ==
    ASSUME TypeOK, [Next]_vars
    PROVE  clock' \in 0 .. MaxTime /\ clock' >= clock
  BY Changes, Bounds DEF Tick, TypeOK

\* A move to "create" or "end" with a session carried comes from where the
\* session was ended, or finds it to end.
LEMMA SessionsStep ==
    ASSUME TypeOK, KnowsInv, SessionsInv, RoomInv, [Next]_vars
    PROVE  SessionsInv' /\ ended' \subseteq Tokens
<1>0. /\ minted \in Nat /\ minted' \in Nat /\ MaxTokens \in Nat
      /\ minted <= minted' /\ minted' <= MaxTokens
  BY MintedTyped, Bounds DEF TypeOK
<1>a. ASSUME NEW t \in Nat, t # 0, t <= minted PROVE t \in Tokens /\ t \in 1 .. minted'
  BY <1>0, <1>a DEF Tokens
<1>b. ASSUME NEW t \in Nat, t # 0, t <= minted, sessions[t] = None PROVE sessions'[t] = None
  <2>1. t \in Tokens /\ t # minted + 1
    BY <1>0, <1>a, <1>b
  <2>. QED BY <1>b, <2>1, SessionsTyped
<1>c. ASSUME NEW r \in Requests, req[r] \in Request, CarriedInv(r)
      PROVE  req[r].carried \in Nat /\ req[r].carried <= minted /\ req[r].carried <= minted'
  <2>1. req[r].carried \in Nat
    BY <1>c DEF Request
  <2>2. req[r].carried <= minted
    BY <1>c DEF CarriedInv
  <2>. QED BY <1>0, <2>1, <2>2
<1>1. ASSUME NEW t \in ended' PROVE t \in Tokens /\ t \in 1 .. minted' /\ sessions'[t] = None
  <2>1. CASE t \in ended
    <3>1. t \in Nat /\ t # 0 /\ t <= minted /\ sessions[t] = None
      BY <1>0, <2>1 DEF SessionsInv
    <3>. QED BY <1>a, <1>b, <3>1
  <2>2. CASE t \notin ended
    <3>1. PICK r \in Requests : Create(r) \/ End(r)
      BY <1>1, <2>2, Changes
    <3>2. req[r].step \in {"create", "end"} /\ req[r].step \in Waiting /\ req[r] \in Request
      BY <3>1, UnderWay DEF Create, End, At, Waiting
    <3>x. CarriedInv(r)
      BY <3>2 DEF SessionsInv
    <3>3. t = req[r].carried /\ t # 0
      BY <1>1, <2>2, <3>1, <3>2, <3>x DEF Create, End, CarriedInv, At
    <3>4. t \in Nat /\ t <= minted
      BY <1>c, <3>2, <3>3, <3>x
    <3>5. CASE Create(r)
      <4>1. sessions[t] = None
        BY <3>3, <3>5, <3>x DEF CarriedInv, Create, At
      <4>. QED BY <1>a, <1>b, <3>3, <3>4, <4>1
    <3>6. CASE End(r)
      <4>1. sessions' = Ended(t)
        BY <1>1, <2>2, <3>3, <3>6 DEF End
      <4>2. t \in Tokens /\ t \in 1 .. minted'
        BY <1>a, <3>3, <3>4
      <4>. QED BY <4>1, <4>2 DEF Ended, TypeOK
    <3>. QED BY <3>1, <3>5, <3>6
  <2>. QED BY <2>1, <2>2
<1>2. \A r \in Requests : req'[r].step \in Waiting => CarriedInv(r)'
  <2>1. ASSUME NEW q \in Requests, req'[q] = req[q], req'[q].step \in Waiting PROVE CarriedInv(q)'
    <3>1. req[q] \in Request /\ CarriedInv(q)
      BY <2>1, UnderWay DEF SessionsInv
    <3>2. req[q].carried \in Nat
      BY <3>1 DEF Request
    <3>3. req[q].carried <= minted'
      BY <1>c, <3>1
    <3>4. req[q].step = "create" /\ req[q].carried # 0 => sessions'[req[q].carried] = None
      BY <1>b, <3>1, <3>2 DEF CarriedInv
    <3>. QED BY <2>1, <3>1, <3>3, <3>4 DEF CarriedInv
  \* One that only moves on carries what it did.
  <2>3. ASSUME NEW r \in Requests, NEW from, NEW to, Moved(r, from, to), req[r].step \in Waiting,
               to \cap {"end old", "end", "create"} = {}
        PROVE  req'[r].step \in Waiting => CarriedInv(r)'
    <3>1. req[r] \in Request /\ CarriedInv(r)
      BY <2>3, UnderWay DEF SessionsInv
    <3>2. req[r].carried \in Nat /\ req[r].carried <= minted'
      BY <1>c, <3>1
    <3>. QED BY <2>3, <3>2, MovedIs DEF CarriedInv
  <2>4. ASSUME NEW r \in Requests, req[r].step \in Waiting, SignsIn(r)
        PROVE  req'[r].step \in Waiting => CarriedInv(r)'
    <3>1. req[r] \in Request /\ CarriedInv(r)
      BY <2>4, UnderWay DEF SessionsInv
    <3>2. req[r].carried \in Nat /\ req[r].carried <= minted'
      BY <1>c, <3>1
    <3>3. /\ req'[r].carried = req[r].carried
          /\ req'[r].step = IF req[r].carried = 0 THEN "create" ELSE "end old"
      BY <2>4, <3>1, SignsInGoes DEF TypeOK
    <3>. QED BY <3>2, <3>3 DEF CarriedInv
  <2>5. ASSUME NEW r \in Requests, Register(r) \/ Login(r) \/ Logout(r)
        PROVE  req'[r].step \in Waiting => CarriedInv(r)'
    <3>1. ASSUME NEW kind, NEW n, NEW p, NEW c \in Cookies,
                 NEW st \in Answers \cup {"permit", "credentials", "end"},
                 Arrives(r, kind, n, p, c, st), st = "end" => c # 0
          PROVE  req'[r].step \in Waiting => CarriedInv(r)'
      <4>1. c \in Nat /\ c <= minted'
        BY <1>0 DEF Cookies
      <4>2. CASE st \in Answers
        <5>1. req'[r].step \in Answers
          BY <3>1, <4>2 DEF Arrives, TypeOK
        <5>. QED BY <5>1, Apart
      <4>3. CASE st \notin Answers
        <5>1. req'[r].step = st /\ req'[r].carried = c /\ st \in {"permit", "credentials", "end"}
          BY <3>1, <4>3 DEF Arrives, TypeOK
        <5>. QED BY <3>1, <4>1, <5>1 DEF CarriedInv
      <4>. QED BY <4>2, <4>3
    <3>2. CASE Register(r)
      <4>1. PICK n \in Names, p \in Passwords \cup {TooLong}, c \in Cookies :
              Arrives(r, "register", n, p, c,
                      IF Fold[n] = NoName \/ p \notin Accepted[n] THEN "idle" ELSE "permit")
        BY <3>2 DEF Register
      <4>2. PICK st \in {"idle", "permit"} : Arrives(r, "register", n, p, c, st)
        BY <4>1
      <4>. QED BY <3>1, <4>2 DEF Answers
    <3>3. CASE Login(r)
      <4>1. PICK n \in Names, p \in Passwords \cup {TooLong}, c \in Cookies :
              \E st \in {"wrong", "permit", "idle", "credentials"} : Arrives(r, "login", n, p, c, st)
        BY <3>3 DEF Login
      <4>2. PICK st \in {"wrong", "permit", "idle", "credentials"} : Arrives(r, "login", n, p, c, st)
        BY <4>1
      <4>. QED BY <3>1, <4>2 DEF Answers
    <3>4. CASE Logout(r)
      <4>1. PICK c \in Cookies : Arrives(r, "logout", CHOOSE n \in Names : TRUE, TooLong, c,
                                         IF c = 0 THEN "done" ELSE "end")
        BY <3>4 DEF Logout
      <4>2. PICK st \in {"done", "end"} :
              Arrives(r, "logout", CHOOSE n \in Names : TRUE, TooLong, c, st) /\ (st = "end" => c # 0)
        BY <4>1
      <4>. QED BY <3>1, <4>2 DEF Answers
    <3>. QED BY <2>5, <3>2, <3>3, <3>4
  <2>6. ASSUME NEW r \in Requests, EndOld(r)
        PROVE  req'[r].step \in Waiting => CarriedInv(r)'
    <3>1. req[r].step = "end old" /\ req[r].step \in Waiting /\ req[r] \in Request
      BY <2>6, UnderWay DEF EndOld, At, Waiting
    <3>2. CarriedInv(r) /\ req[r].carried \in Nat
      BY <3>1 DEF SessionsInv, Request
    <3>3. CASE Fails(r)
      <4>1. Moved(r, {"end old"}, {"idle"})
        BY <3>1, <3>3, AnswerMoves DEF Fails, Answers
      <4>. QED BY <2>3, <3>1, <4>1
    <3>4. CASE ~Fails(r)
      <4>1. sessions' = Ended(req[r].carried)
        BY <2>6, <3>4 DEF EndOld
      <4>2. req' = [req EXCEPT ![r] = [req[r] EXCEPT !.step = "create", !.expires = Expiry]]
        BY <2>6, <3>4 DEF EndOld
      <4>3. req'[r].carried = req[r].carried /\ req'[r].step = "create"
        BY <3>1, <4>2 DEF TypeOK, Request
      <4>4. req[r].carried \in Tokens /\ req[r].carried <= minted'
        <5>1. req[r].carried \in Nat /\ req[r].carried <= minted /\ req[r].carried <= minted'
          BY <1>c, <3>1, <3>2
        <5>2. req[r].carried # 0
          BY <3>1, <3>2 DEF CarriedInv
        <5>. QED BY <1>a, <5>1, <5>2
      <4>5. sessions'[req[r].carried] = None
        BY <4>1, <4>4 DEF Ended, TypeOK
      <4>. QED BY <4>3, <4>4, <4>5 DEF CarriedInv
    <3>. QED BY <3>3, <3>4
  <2>7. ASSUME NEW r \in Requests, NEW from, NEW to, Moved(r, from, to), to \subseteq Answers
        PROVE  req'[r].step \in Waiting => CarriedInv(r)'
    BY <2>7, MovedIs, Apart
  <2>8. ASSUME NEW r \in Requests,
               \/ Register(r) \/ Login(r) \/ Logout(r)
               \/ Handle(r) \/ TakePermit(r) \/ Drop(r)
        PROVE  req'[r].step \in Waiting => CarriedInv(r)'
    <3>1. CASE Register(r) \/ Login(r) \/ Logout(r)
      BY <2>5, <3>1
    <3>2. CASE Credentials(r) \/ TakePermit(r) \/ Hashed(r)
      <4>1. req[r].step \in Waiting
        BY <3>2 DEF Credentials, TakePermit, Hashed, At, Waiting
      <4>2. Moved(r, {"credentials"}, {"idle", "permit"}) \/ Moved(r, {"permit"}, {"hashing"})
              \/ Moved(r, {"hashing"}, {"insert"})
        BY <3>2, Steps
      <4>. QED BY <2>3, <4>1, <4>2
    <3>3. CASE Verified(r) \/ Insert(r) \/ Rehash(r)
      <4>1. req[r].step \in Waiting
        BY <3>3 DEF Verified, Insert, Rehash, At, Waiting
      <4>2. \/ SignsIn(r) \/ Becomes(r, "rehash")
            \/ Answer(r, "wrong") \/ Answer(r, "taken") \/ Answer(r, "idle")
        BY <3>3 DEF Verified, Insert, Rehash, Fails
      <4>3. CASE SignsIn(r)
        BY <2>4, <4>1, <4>3
      <4>4. CASE Becomes(r, "rehash")
        <5>1. Moved(r, Waiting, {"rehash"})
          BY <4>1, <4>4, BecomesMoves DEF Waiting
        <5>. QED BY <2>3, <4>1, <5>1
      <4>5. CASE Answer(r, "wrong") \/ Answer(r, "taken") \/ Answer(r, "idle")
        <5>1. Moved(r, Waiting, {"wrong"}) \/ Moved(r, Waiting, {"taken"}) \/ Moved(r, Waiting, {"idle"})
          BY <4>1, <4>5, AnswerMoves DEF Answers
        <5>. QED BY <2>3, <4>1, <5>1
      <4>. QED BY <4>2, <4>3, <4>4, <4>5
    <3>4. CASE EndOld(r)
      BY <2>6, <3>4
    <3>5. CASE Create(r) \/ End(r) \/ Drop(r)
      <4>1. {"done", "idle"} \subseteq Answers /\ {"idle"} \subseteq Answers
        BY DEF Answers
      <4>2. \/ Moved(r, {"create"}, {"done", "idle"}) \/ Moved(r, {"end"}, {"done", "idle"})
            \/ Moved(r, Waiting, {"idle"})
        BY <3>5, Steps
      <4>. QED BY <2>7, <4>1, <4>2
    <3>. QED BY <2>8, <3>1, <3>2, <3>3, <3>4, <3>5 DEF Handle
  <2>9. CASE req' = req
    BY <2>1, <2>9
  <2>10. CASE Restart
    BY <2>10 DEF Restart, Idle, Waiting
  <2>11. ASSUME NEW r \in Requests,
               \/ Register(r) \/ Login(r) \/ Logout(r)
               \/ Handle(r) \/ TakePermit(r) \/ Drop(r)
        PROVE  \A q \in Requests : req'[q].step \in Waiting => CarriedInv(q)'
    <3>1. \A q \in Requests : q # r => req'[q] = req[q]
      BY <2>11, Steps, MovedIs DEF Handle
    <3>. QED BY <2>1, <2>8, <2>11, <3>1
  <2>. QED BY <2>9, <2>10, <2>11 DEF Next, OrphanEnds, Sweep, Tick, vars
<1>. QED BY <1>1, <1>2 DEF SessionsInv
-----------------------------------------------------------------------------
(* What a request knows.                                                   *)

\* A step in which a handler goes on with what it was sent and what it saw.
GoesOn(r, st) ==
    /\ req[r].step \in Waiting \ {"end"} /\ req'[r].step = st
    /\ req'[r].kind = req[r].kind /\ req'[r].name = req[r].name
    /\ req'[r].password = req[r].password /\ req'[r].saw = req[r].saw

\* A request that goes on still knows what it knew.
LEMMA GoesOnKnowing ==
    ASSUME TypeOK, KnowsInv, [Next]_vars, NEW r \in Requests,
           NEW st \in {"permit", "hashing", "insert", "rehash", "end old", "create"},
           GoesOn(r, st),
           req[r].kind = "register" => st \in {"permit", "hashing", "insert", "end old", "create"},
           req[r].kind = "login" => st \in {"permit", "hashing", "rehash", "end old", "create"},
           st \in {"rehash", "end old", "create"} => Proved(r)',
           st = "rehash" => req[r].password \in Passwords
    PROVE  Known(r)'
<1>1. Known(r) /\ req[r] \in Request
  BY UnderWay DEF KnowsInv, GoesOn
<1>2. AccountOf(r)' = AccountOf(r) /\ req[r].kind # "logout"
  BY <1>1 DEF AccountOf, GoesOn, Known
<1>3. req[r].saw # None => /\ AccountOf(r) \in Accounts
                           /\ accounts'[AccountOf(r)] # None
                           /\ accounts'[AccountOf(r)].password = req[r].saw.password
  BY <1>1, AccountsTyped DEF Known
<1>4. req[r].kind = "register" => /\ AccountOf(r) \in Accounts
                                  /\ req[r].password \in Passwords /\ req[r].saw = None
  BY <1>1 DEF Known
<1>. QED BY <1>2, <1>3, <1>4 DEF Known, GoesOn

\* Who has proved itself has proved itself for good.
LEMMA ProvedStays ==
    ASSUME TypeOK, KnowsInv, [Next]_vars, NEW r \in Requests, req[r] \in Request, Proved(r),
           req'[r].name = req[r].name, req'[r].password = req[r].password
    PROVE  Proved(r)'
<1>1. AccountOf(r) \in Accounts
  BY ProvedIs
<1>. QED BY <1>1, AccountsTyped DEF Proved, AccountOf

\* The two ways of going on.
LEMMA BecomesGoesOn ==
    ASSUME TypeOK, NEW r \in Requests, NEW st \in Waiting, req[r].step \in Waiting \ {"end"},
           Becomes(r, st)
    PROVE  GoesOn(r, st)
<1>1. req[r] \in Request
  BY UnderWay
<1>2. req'[r] = [req[r] EXCEPT !.step = st]
  BY DEF Becomes, TypeOK
<1>. QED BY <1>1, <1>2, Goes DEF GoesOn

LEMMA SignsInGoesOn ==
    ASSUME TypeOK, NEW r \in Requests, req[r].step \in Waiting \ {"end"}, SignsIn(r)
    PROVE  GoesOn(r, "create") \/ GoesOn(r, "end old")
<1>1. req[r] \in Request
  BY UnderWay
<1>2. PICK p \in Request :
             /\ req' = [req EXCEPT ![r] = p]
             /\ p.step = IF req[r].carried = 0 THEN "create" ELSE "end old"
             /\ p.kind = req[r].kind /\ p.name = req[r].name
             /\ p.password = req[r].password
             /\ p.carried = req[r].carried /\ p.saw = req[r].saw
  BY <1>1, SignsInGoes
<1>3. req'[r] = p
  BY <1>2 DEF TypeOK
<1>. QED BY <1>2, <1>3 DEF GoesOn

\* What arrives knows nothing yet.
LEMMA ArrivesKnowing ==
    ASSUME TypeOK, NEW r \in Requests, NEW kind \in {"register", "login", "logout"},
           NEW n \in Names, NEW p \in Passwords \cup {TooLong}, NEW c,
           NEW st \in Waiting \cup Answers, Arrives(r, kind, n, p, c, st),
           st \in Waiting =>
             /\ kind = "register" => /\ st = "permit" /\ Fold[n] # NoName /\ p \in Passwords
             /\ kind = "login" => /\ st \in {"permit", "credentials"}
                                  /\ st = "credentials" => Fold[n] # NoName
             /\ kind = "logout" => st = "end"
    PROVE  req'[r].step \in Waiting => Known(r)'
<1>1. CASE st \in Answers
  <2>1. req'[r].step \in Answers
    BY <1>1 DEF Arrives, TypeOK
  <2>. QED BY <2>1, Apart
<1>2. CASE st \notin Answers
  <2>1. /\ req'[r].kind = kind /\ req'[r].name = n /\ req'[r].password = p
        /\ req'[r].step = st /\ req'[r].saw = None
    BY <1>2 DEF Arrives, TypeOK
  <2>2. AccountOf(r)' = Fold[n] /\ (Fold[n] # NoName => Fold[n] \in Accounts)
    BY <2>1 DEF AccountOf, Accounts
  <2>3. st \in Waiting
    BY <1>2
  <2>. QED BY <2>1, <2>2, <2>3 DEF Known
<1>. QED BY <1>1, <1>2

\* What requests know stays true.
LEMMA KnowsStep ==
    ASSUME TypeOK, KnowsInv, [Next]_vars
    PROVE  KnowsInv'
<1>0. "idle" \in Answers /\ "done" \in Answers /\ "wrong" \in Answers /\ "taken" \in Answers
  BY DEF Answers
<1>1. ASSUME NEW q \in Requests, req'[q] = req[q], req'[q].step \in Waiting PROVE Known(q)'
  <2>1. Known(q) /\ req[q] \in Request
    BY <1>1, UnderWay DEF KnowsInv
  <2>2. AccountOf(q)' = AccountOf(q)
    BY <1>1 DEF AccountOf
  <2>3. Proved(q) => Proved(q)'
    BY <1>1, <2>1, ProvedStays
  <2>4. req[q].saw # None => /\ accounts'[AccountOf(q)] # None
                             /\ accounts'[AccountOf(q)].password = req[q].saw.password
    BY <2>1, AccountsTyped DEF Known
  <2>. QED BY <1>1, <2>1, <2>2, <2>3, <2>4 DEF Known
<1>2. ASSUME NEW r \in Requests, NEW from, NEW to, Moved(r, from, to), to \subseteq Answers
      PROVE  req'[r].step \in Waiting => Known(r)'
  BY <1>2, MovedIs, Apart
<1>3. ASSUME NEW r \in Requests, req[r].step \in Waiting, req[r].step # "end", SignsIn(r), Proved(r)'
      PROVE  Known(r)'
  <2>1. GoesOn(r, "create") \/ GoesOn(r, "end old")
    BY <1>3, SignsInGoesOn
  <2>. QED BY <1>3, <2>1, GoesOnKnowing
<1>4. ASSUME NEW r \in Requests, Register(r)
      PROVE  req'[r].step \in Waiting => Known(r)'
  <2>1. PICK n \in Names, p \in Passwords \cup {TooLong}, c \in Cookies :
          Arrives(r, "register", n, p, c,
                  IF Fold[n] = NoName \/ p \notin Accepted[n] THEN "idle" ELSE "permit")
    BY <1>4 DEF Register
  <2>2. CASE Fold[n] = NoName \/ p \notin Accepted[n]
    <3>1. Arrives(r, "register", n, p, c, "idle")
      BY <2>1, <2>2
    <3>. QED BY <1>0, <3>1, ArrivesKnowing, Apart
  <2>3. CASE Fold[n] # NoName /\ p \in Accepted[n]
    <3>1. Arrives(r, "register", n, p, c, "permit")
      BY <2>1, <2>3
    <3>2. p \in Passwords
      BY <2>3, Inputs
    <3>. QED BY <2>3, <3>1, <3>2, ArrivesKnowing DEF Waiting
  <2>. QED BY <2>2, <2>3
<1>5. ASSUME NEW r \in Requests, Login(r)
      PROVE  req'[r].step \in Waiting => Known(r)'
  <2>1. PICK n \in Names, p \in Passwords \cup {TooLong}, c \in Cookies :
          \E st \in {"wrong", "permit", "idle", "credentials"} :
             Arrives(r, "login", n, p, c, st) /\ (st = "credentials" => Fold[n] # NoName)
    BY <1>5 DEF Login
  <2>2. PICK st \in {"wrong", "permit", "idle", "credentials"} :
             Arrives(r, "login", n, p, c, st) /\ (st = "credentials" => Fold[n] # NoName)
    BY <2>1
  <2>3. st \in Answers \/ st \in {"permit", "credentials"}
    BY <2>2, <1>0
  <2>4. st \in Waiting \cup Answers /\ (st \in Waiting => st \in {"permit", "credentials"})
    BY <2>3, Apart DEF Waiting
  <2>. QED BY <2>2, <2>4, ArrivesKnowing
<1>6. ASSUME NEW r \in Requests, Logout(r)
      PROVE  req'[r].step \in Waiting => Known(r)'
  <2>. DEFINE n == CHOOSE m \in Names : TRUE
  <2>1. n \in Names
    BY Inputs
  <2>2. PICK c \in Cookies : Arrives(r, "logout", n, TooLong, c, IF c = 0 THEN "done" ELSE "end")
    BY <1>6 DEF Logout
  <2>. HIDE DEF n
  <2>3. PICK st \in {"done", "end"} : Arrives(r, "logout", n, TooLong, c, st)
    BY <2>2
  <2>4. st \in Waiting \cup Answers /\ (st \in Waiting => st = "end")
    BY <1>0, <2>3, Apart DEF Waiting
  <2>. QED BY <2>1, <2>3, <2>4, ArrivesKnowing
<1>7. ASSUME NEW r \in Requests, Credentials(r)
      PROVE  req'[r].step \in Waiting => Known(r)'
  <2>1. req[r].step = "credentials" /\ req[r] \in Request /\ Known(r)
    BY <1>7, UnderWay DEF Credentials, At, Waiting, KnowsInv
  <2>2. CASE Fails(r)
    <3>1. req'[r].step = "idle"
      BY <2>2 DEF Fails, Answer, TypeOK
    <3>. QED BY <1>0, <3>1, Apart
  <2>3. CASE ~Fails(r)
    <3>. DEFINE saw == accounts[AccountOf(r)]
                p == [req[r] EXCEPT !.step = "permit", !.saw = saw]
    <3>1. req' = [req EXCEPT ![r] = p] /\ accounts' = accounts
      BY <1>7, <2>3 DEF Credentials, AccountOf, StoreSame
    <3>2. /\ p.step = "permit" /\ p.saw = saw
          /\ p.kind = req[r].kind /\ p.name = req[r].name /\ p.password = req[r].password
      BY <2>1 DEF Request
    <3>3. req'[r] = p
      BY <3>1 DEF TypeOK
    <3>4. AccountOf(r) \in Accounts /\ req[r].kind = "login"
      <4>1. req[r].kind \in {"register", "login", "logout"}
        BY <2>1 DEF Request
      <4>. QED BY <2>1, <4>1 DEF Known
    <3>5. AccountOf(r)' = AccountOf(r)
      BY <3>2, <3>3 DEF AccountOf
    <3>. HIDE DEF p
    <3>. QED BY <3>1, <3>2, <3>3, <3>4, <3>5 DEF Known
  <2>. QED BY <2>2, <2>3
<1>8. ASSUME NEW r \in Requests, TakePermit(r) \/ Hashed(r)
      PROVE  req'[r].step \in Waiting => Known(r)'
  <2>1. /\ req[r].step \in {"permit", "hashing"} /\ req[r].step \in Waiting \ {"end"}
        /\ Known(r) /\ req[r] \in Request
    BY <1>8, UnderWay DEF TakePermit, Hashed, At, Waiting, KnowsInv
  <2>2. CASE TakePermit(r)
    <3>1. GoesOn(r, "hashing")
      BY <2>1, <2>2, BecomesGoesOn DEF TakePermit, Waiting
    <3>. QED BY <3>1, GoesOnKnowing
  <2>3. CASE Hashed(r)
    <3>1. GoesOn(r, "insert") /\ req[r].kind = "register"
      BY <2>1, <2>3, BecomesGoesOn DEF Hashed, Waiting
    <3>. QED BY <3>1, GoesOnKnowing
  <2>. QED BY <1>8, <2>2, <2>3
<1>9. ASSUME NEW r \in Requests, Verified(r)
      PROVE  req'[r].step \in Waiting => Known(r)'
  <2>1. /\ req[r].step = "hashing" /\ req[r].step \in Waiting \ {"end"} /\ req[r].kind = "login"
        /\ Known(r) /\ req[r] \in Request
    BY <1>9, UnderWay DEF Verified, At, Waiting, KnowsInv
  <2>2. CASE Answer(r, "wrong")
    <3>1. req'[r].step = "wrong"
      BY <2>2 DEF Answer, TypeOK
    <3>. QED BY <1>0, <3>1, Apart
  <2>3. CASE Right(r) /\ (Becomes(r, "rehash") \/ SignsIn(r))
    <3>1. req[r].saw \in Account /\ req[r].saw.password = req[r].password
      BY <2>1, <2>3 DEF Right, Request
    <3>2. AccountOf(r) \in Accounts /\ AccountOf(r) # NoName
      BY <2>1, <2>3 DEF Known, Right, Accounts
    <3>3. Proved(r) /\ req[r].password \in Passwords
      BY <2>1, <2>3, <3>1, <3>2 DEF Known, Proved, Right, AccountOf, Account
    <3>4. GoesOn(r, "rehash") \/ GoesOn(r, "create") \/ GoesOn(r, "end old")
      BY <2>1, <2>3, BecomesGoesOn, SignsInGoesOn DEF Waiting
    <3>5. Proved(r)'
      BY <2>1, <3>3, <3>4, ProvedStays DEF GoesOn
    <3>. QED BY <2>1, <3>3, <3>4, <3>5, GoesOnKnowing
  <2>. QED BY <1>9, <2>2, <2>3 DEF Verified
<1>10. ASSUME NEW r \in Requests, Insert(r)
      PROVE  req'[r].step \in Waiting => Known(r)'
  <2>1. /\ req[r].step = "insert" /\ req[r].step \in Waiting \ {"end"}
        /\ Known(r) /\ req[r] \in Request
    BY <1>10, UnderWay DEF Insert, At, Waiting, KnowsInv
  <2>2. req[r].kind = "register"
    BY <2>1 DEF Known, Request
  <2>3. CASE Answer(r, "taken") \/ Answer(r, "idle")
    <3>1. req'[r].step \in {"taken", "idle"}
      BY <2>3 DEF Answer, TypeOK
    <3>. QED BY <1>0, <3>1, Apart
  <2>4. CASE accounts' = Created(r) /\ SignsIn(r)
    <3>1. GoesOn(r, "create") \/ GoesOn(r, "end old")
      BY <2>1, <2>4, SignsInGoesOn
    <3>2. AccountOf(r) \in Accounts /\ AccountOf(r) # NoName
      BY <2>1, <2>2 DEF Known, Accounts
    <3>. DEFINE made == [password |-> req[r].password, old |-> FALSE]
    <3>3. accounts'[AccountOf(r)] = made
      BY <2>4, <3>2 DEF Created, AccountOf, TypeOK
    <3>4. made # None /\ made.password = req[r].password
      BY DEF None
    <3>5. Proved(r)'
      BY <3>1, <3>2, <3>3, <3>4 DEF Proved, AccountOf, GoesOn
    <3>. QED BY <1>3, <2>1, <2>4, <3>5
  <2>. QED BY <1>10, <2>3, <2>4 DEF Insert, Fails
<1>11. ASSUME NEW r \in Requests, Rehash(r)
      PROVE  req'[r].step \in Waiting => Known(r)'
  <2>1. /\ req[r].step = "rehash" /\ req[r].step \in Waiting \ {"end"}
        /\ Known(r) /\ req[r] \in Request
    BY <1>11, UnderWay DEF Rehash, At, Waiting, KnowsInv
  <2>2. GoesOn(r, "create") \/ GoesOn(r, "end old")
    BY <1>11, <2>1, SignsInGoesOn DEF Rehash
  <2>3. Proved(r)'
    BY <2>1, <2>2, ProvedStays DEF GoesOn, Known
  <2>. QED BY <1>3, <1>11, <2>1, <2>3 DEF Rehash
<1>12. ASSUME NEW r \in Requests, EndOld(r)
      PROVE  req'[r].step \in Waiting => Known(r)'
  <2>1. /\ req[r].step = "end old" /\ req[r].step \in Waiting \ {"end"}
        /\ Known(r) /\ req[r] \in Request
    BY <1>12, UnderWay DEF EndOld, At, Waiting, KnowsInv
  <2>2. CASE Fails(r)
    <3>1. req'[r].step = "idle"
      BY <2>2 DEF Fails, Answer, TypeOK
    <3>. QED BY <1>0, <3>1, Apart
  <2>3. CASE ~Fails(r)
    <3>. DEFINE p == [req[r] EXCEPT !.step = "create", !.expires = Expiry]
    <3>1. req' = [req EXCEPT ![r] = p]
      BY <1>12, <2>3 DEF EndOld
    <3>2. p.step = "create" /\ p.kind = req[r].kind /\ p.name = req[r].name
          /\ p.password = req[r].password /\ p.saw = req[r].saw
      BY <2>1 DEF Request
    <3>3. req'[r] = p
      BY <3>1 DEF TypeOK
    <3>4. GoesOn(r, "create")
      BY <2>1, <3>2, <3>3 DEF GoesOn
    <3>5. Proved(r)'
      BY <2>1, <3>4, ProvedStays DEF GoesOn, Known
    <3>. QED BY <3>4, <3>5, GoesOnKnowing
  <2>. QED BY <2>2, <2>3
<1>13. ASSUME NEW r \in Requests, Create(r) \/ End(r) \/ Drop(r)
      PROVE  req'[r].step \in Waiting => Known(r)'
  <2>1. \/ Moved(r, {"create"}, {"done", "idle"}) \/ Moved(r, {"end"}, {"done", "idle"})
        \/ Moved(r, Waiting, {"idle"})
    BY <1>13, Steps
  <2>2. {"done", "idle"} \subseteq Answers /\ {"idle"} \subseteq Answers
    BY <1>0
  <2>. QED BY <1>2, <2>1, <2>2
<1>14. ASSUME NEW r \in Requests, \/ Register(r) \/ Login(r) \/ Logout(r)
                                  \/ Handle(r) \/ TakePermit(r) \/ Drop(r)
       PROVE  \A q \in Requests : req'[q].step \in Waiting => Known(q)'
  <2>1. \A q \in Requests : q # r => req'[q] = req[q]
    BY <1>14, Steps, MovedIs DEF Handle
  <2>2. req'[r].step \in Waiting => Known(r)'
    BY <1>4, <1>5, <1>6, <1>7, <1>8, <1>9, <1>10, <1>11, <1>12, <1>13, <1>14 DEF Handle
  <2>. QED BY <1>1, <2>1, <2>2
<1>15. CASE req' = req
  BY <1>1, <1>15 DEF KnowsInv
<1>16. CASE Restart
  BY <1>16 DEF Restart, Idle, Waiting, KnowsInv
<1>. QED BY <1>14, <1>15, <1>16 DEF Next, OrphanEnds, Sweep, Tick, vars, KnowsInv
-----------------------------------------------------------------------------
(* Tokens and permits.                                                     *)

\* The room for tokens lasts.
LEMMA RoomStep ==
    ASSUME TypeOK, KnowsInv, RoomInv, [Next]_vars
    PROVE  RoomInv'
<1>0. /\ IsFiniteSet(Minting) /\ Cardinality(Minting) \in Nat
      /\ minted \in Nat /\ MaxTokens \in Nat
  BY Inputs, FS_Subset, FS_CardinalityType, Bounds DEF Minting, TypeOK
<1>1. ASSUME minted' = minted, Minting' \subseteq Minting PROVE RoomInv'
  <2>1. Cardinality(Minting') <= Cardinality(Minting) /\ Cardinality(Minting') \in Nat
    BY <1>0, <1>1, FS_Subset, FS_CardinalityType
  <2>. QED BY <1>0, <1>1, <2>1 DEF RoomInv
<1>2. ASSUME NEW r \in Requests, NEW from, NEW to, Moved(r, from, to), minted' = minted,
             from \cap Answers = {} \/ to \cap (Waiting \ {"end"}) = {},
             "end" \notin from \/ to \cap (Waiting \ {"end"}) = {}
      PROVE  RoomInv'
  <2>1. \A q \in Requests : q # r => req'[q] = req[q]
    BY <1>2, MovedIs
  <2>2. req[r].step \in from /\ req'[r].step \in to /\ req[r].step \in Waiting \cup Answers
    BY <1>2, MovedIs, UnderWay
  <2>3. Minting' \subseteq Minting
    BY <1>2, <2>1, <2>2 DEF Minting
  <2>. QED BY <1>1, <1>2, <2>3
<1>3. ASSUME NEW r \in Requests, Register(r) \/ Login(r) PROVE RoomInv'
  <2>. DEFINE W == {q \in Requests : req[q].step \in Waiting}
  <2>1. PICK to : Moved(r, Answers, to)
    BY <1>3, Steps
  <2>2. \A q \in Requests : q # r => req'[q] = req[q]
    BY <2>1, MovedIs
  <2>3. Minting' \subseteq W \cup {r}
    BY <2>2 DEF Minting
  <2>4. minted' = minted /\ minted + Cardinality(W) < MaxTokens
    BY <1>3 DEF Register, Login, Room
  <2>5. IsFiniteSet(W) /\ Cardinality(W) \in Nat
    BY Inputs, FS_Subset, FS_CardinalityType
  <2>6. IsFiniteSet(W \cup {r}) /\ Cardinality(W \cup {r}) <= Cardinality(W) + 1
        /\ Cardinality(W \cup {r}) \in Nat
    BY <2>5, FS_AddElement, FS_CardinalityType
  <2>7. Cardinality(Minting') <= Cardinality(W \cup {r}) /\ Cardinality(Minting') \in Nat
    BY <2>3, <2>6, FS_Subset, FS_CardinalityType
  <2>. HIDE DEF W
  <2>. QED BY <1>0, <2>4, <2>5, <2>6, <2>7 DEF RoomInv
<1>4. ASSUME NEW r \in Requests, Create(r) PROVE RoomInv'
  <2>0. {"done", "idle"} \cap Waiting = {} /\ req[r].step \in Waiting \ {"end"}
    BY <1>4 DEF Waiting, Create, At
  <2>1. Moved(r, {"create"}, {"done", "idle"})
    BY <1>4, Steps
  <2>2. /\ \A q \in Requests : q # r => req'[q] = req[q]
        /\ req'[r].step \in {"done", "idle"}
    BY <2>1, MovedIs
  <2>3. Minting' \subseteq Minting \ {r} /\ r \in Minting
    BY <2>0, <2>2 DEF Minting
  <2>4. Cardinality(Minting \ {r}) = Cardinality(Minting) - 1 /\ IsFiniteSet(Minting \ {r})
    BY <1>0, <2>3, FS_RemoveElement
  <2>5. /\ Cardinality(Minting') <= Cardinality(Minting \ {r}) /\ Cardinality(Minting') \in Nat
    BY <2>3, <2>4, FS_Subset, FS_CardinalityType
  <2>6. minted' = minted + 1
    BY <1>4 DEF Create
  <2>. QED BY <1>0, <2>4, <2>5, <2>6 DEF RoomInv
<1>5. ASSUME NEW r \in Requests, Logout(r) \/ Drop(r) \/ TakePermit(r)
      PROVE  RoomInv'
  <2>1. minted' = minted
    BY <1>5 DEF Logout, Drop, TakePermit
  <2>2. CASE Logout(r)
    <3>1. Moved(r, Answers, {"done", "end"})
      BY <2>2, Steps, Zenon
    <3>2. {"done", "end"} \cap (Waiting \ {"end"}) = {}
      BY DEF Waiting
    <3>. QED BY <1>2, <2>1, <3>1, <3>2
  <2>3. CASE Drop(r)
    <3>1. {"idle"} \cap (Waiting \ {"end"}) = {} /\ Moved(r, Waiting, {"idle"})
      BY <2>3, Steps DEF Waiting
    <3>. QED BY <1>2, <2>1, <3>1
  <2>4. CASE TakePermit(r)
    <3>1. {"permit"} \cap Answers = {} /\ "end" \notin {"permit"}
      BY DEF Answers
    <3>. QED BY <1>2, <2>1, <2>4, <3>1, Steps
  <2>. QED BY <1>5, <2>2, <2>3, <2>4
<1>6. ASSUME NEW r \in Requests, Handle(r), ~Create(r) PROVE RoomInv'
  <2>1. minted' = minted
    BY <1>6 DEF Handle, Credentials, Hashed, Verified, Insert, Rehash, EndOld, End
  <2>2. CASE End(r)
    <3>1. {"done", "idle"} \cap (Waiting \ {"end"}) = {}
      BY DEF Waiting
    <3>. QED BY <1>2, <2>1, <2>2, <3>1, Steps
  <2>3. CASE ~End(r)
    <3>1. PICK st \in {"credentials", "hashing", "insert", "rehash", "end old"} :
            \E to : Moved(r, {st}, to)
      BY <1>6, <2>3, Steps DEF Handle
    <3>2. {st} \cap Answers = {} /\ "end" \notin {st}
      BY DEF Answers
    <3>. QED BY <1>2, <2>1, <3>1, <3>2
  <2>. QED BY <2>2, <2>3
<1>7. CASE UNCHANGED <<req, minted>>
  BY <1>1, <1>7 DEF Minting
<1>8. CASE Restart
  <2>1. Minting' \subseteq Minting /\ minted' = minted
    BY <1>8 DEF Restart, Idle, Minting, Waiting
  <2>. QED BY <1>1, <2>1
<1>. QED BY <1>3, <1>4, <1>5, <1>6, <1>7, <1>8 DEF Next, OrphanEnds, Sweep, Tick, vars

\* The hashes under way can be counted.
LEMMA WorkingIs ==
    ASSUME TypeOK
    PROVE  /\ IsFiniteSet(Working) /\ Cardinality(Working) \in Nat
           /\ \A r \in Requests : r \notin Working =>
                Cardinality(Working \cup {r}) = Cardinality(Working) + 1
           /\ \A r \in Working : Cardinality(Working \ {r}) = Cardinality(Working) - 1
<1>1. IsFiniteSet(Working)
  BY Inputs, FS_Subset DEF Working
<1>. QED BY <1>1, FS_CardinalityType, FS_AddElement, FS_RemoveElement

\* Each permit is free or at work, whatever is dropped.
LEMMA PermitsStep ==
    ASSUME TypeOK, KnowsInv, PermitsInv, [Next]_vars
    PROVE  PermitsInv' /\ permits' \in 0 .. MaxConcurrent /\ orphans' \in Nat
<1>0. /\ permits \in Nat /\ orphans \in Nat /\ MaxConcurrent \in Nat
      /\ permits + Cardinality(Working) + orphans = MaxConcurrent
  BY Bounds DEF TypeOK, PermitsInv
<1>. DEFINE w == Cardinality(Working)
<1>1. w \in Nat
  BY WorkingIs
<1>2. ASSUME NEW r \in Requests, NEW from, NEW to, Moved(r, from, to)
      PROVE  /\ "hashing" \notin from /\ "hashing" \notin to => Working' = Working
             /\ from = {"hashing"} /\ "hashing" \notin to => Working' = Working \ {r} /\ r \in Working
             /\ "hashing" \notin from /\ to = {"hashing"} => Working' = Working \cup {r} /\ r \notin Working
  <2>1. \A q \in Requests : q # r => req'[q] = req[q]
    BY <1>2, MovedIs
  <2>2. req[r].step \in from /\ req'[r].step \in to
    BY <1>2, MovedIs
  <2>. QED BY <2>1, <2>2 DEF Working, At
<1>3. ASSUME Cardinality(Working)' + permits' + orphans' = w + permits + orphans,
             permits' \in Int, permits' >= 0, orphans' \in Int, orphans' >= 0,
             Cardinality(Working)' \in Nat
      PROVE  PermitsInv' /\ permits' \in 0 .. MaxConcurrent /\ orphans' \in Nat
  BY <1>0, <1>1, <1>3 DEF PermitsInv
<1>4. ASSUME Working' = Working, UNCHANGED <<permits, orphans>>
      PROVE  PermitsInv' /\ permits' \in 0 .. MaxConcurrent /\ orphans' \in Nat
  BY <1>0, <1>4, Bounds DEF PermitsInv, TypeOK
<1>5. ASSUME NEW r \in Requests, Register(r) \/ Login(r) \/ Logout(r)
      PROVE  PermitsInv' /\ permits' \in 0 .. MaxConcurrent /\ orphans' \in Nat
  <2>1. UNCHANGED <<permits, orphans>>
    BY <1>5 DEF Register, Login, Logout, WorldSame
  <2>2. \/ Moved(r, Answers, {"idle", "permit"}) \/ Moved(r, Answers, {"done", "end"})
        \/ Moved(r, Answers, Answers \cup {"permit", "credentials"})
    BY <1>5, Steps
  <2>3. "hashing" \notin Answers
    BY DEF Answers
  <2>4. Working' = Working
    BY <1>2, <2>2, <2>3
  <2>. QED BY <1>4, <2>1, <2>4
<1>6. ASSUME NEW r \in Requests,
             Credentials(r) \/ Insert(r) \/ Rehash(r) \/ EndOld(r) \/ Create(r) \/ End(r)
      PROVE  PermitsInv' /\ permits' \in 0 .. MaxConcurrent /\ orphans' \in Nat
  <2>1. UNCHANGED <<permits, orphans>>
    BY <1>6 DEF Credentials, Insert, Rehash, EndOld, Create, End, WorldSame
  <2>2. PICK from, to : Moved(r, from, to) /\ "hashing" \notin from /\ "hashing" \notin to
    <3>1. Credentials(r) => Moved(r, {"credentials"}, {"idle", "permit"})
      BY Steps
    <3>2. Insert(r) => Moved(r, {"insert"}, {"taken", "idle", "create", "end old"})
      BY Steps
    <3>3. Rehash(r) => Moved(r, {"rehash"}, {"create", "end old"})
      BY Steps
    <3>4. EndOld(r) => Moved(r, {"end old"}, {"create", "idle"})
      BY Steps
    <3>5. /\ Create(r) => Moved(r, {"create"}, {"done", "idle"})
          /\ End(r) => Moved(r, {"end"}, {"done", "idle"})
      BY Steps
    <3>. QED BY <1>6, <3>1, <3>2, <3>3, <3>4, <3>5
  <2>3. Working' = Working
    BY <1>2, <2>2
  <2>. QED BY <1>4, <2>1, <2>3
<1>7. ASSUME NEW r \in Requests, TakePermit(r)
      PROVE  PermitsInv' /\ permits' \in 0 .. MaxConcurrent /\ orphans' \in Nat
  <2>1. permits > 0 /\ permits' = permits - 1 /\ orphans' = orphans
    BY <1>7 DEF TakePermit
  <2>2. Working' = Working \cup {r} /\ r \notin Working
    <3>1. Moved(r, {"permit"}, {"hashing"}) /\ "hashing" \notin {"permit"}
      BY <1>7, Steps
    <3>. QED BY <1>2, <3>1
  <2>3. Cardinality(Working)' = w + 1
    BY <2>2, WorkingIs
  <2>. QED BY <1>0, <1>1, <1>3, <2>1, <2>3
<1>8. ASSUME NEW r \in Requests, Hashed(r) \/ Verified(r)
      PROVE  PermitsInv' /\ permits' \in 0 .. MaxConcurrent /\ orphans' \in Nat
  <2>1. permits' = permits + 1 /\ orphans' = orphans
    BY <1>8 DEF Hashed, Verified, WorkEnds
  <2>2. PICK to : Moved(r, {"hashing"}, to) /\ "hashing" \notin to
    <3>1. Hashed(r) => Moved(r, {"hashing"}, {"insert"})
      BY Steps
    <3>2. Verified(r) => Moved(r, {"hashing"}, {"wrong", "rehash", "create", "end old"})
      BY Steps
    <3>3. /\ "hashing" \notin {"insert"}
          /\ "hashing" \notin {"wrong", "rehash", "create", "end old"}
      OBVIOUS
    <3>. QED BY <1>8, <3>1, <3>2, <3>3, Zenon
  <2>3. Working' = Working \ {r} /\ r \in Working
    BY <1>2, <2>2
  <2>4. Cardinality(Working)' = w - 1 /\ w - 1 \in Nat
    BY <2>3, WorkingIs, FS_RemoveElement, FS_CardinalityType
  <2>. QED BY <1>0, <1>1, <1>3, <2>1, <2>4
<1>9. ASSUME NEW r \in Requests, Drop(r)
      PROVE  PermitsInv' /\ permits' \in 0 .. MaxConcurrent /\ orphans' \in Nat
  <2>1. Moved(r, {req[r].step}, {"idle"})
    BY <1>9, Steps DEF Moved
  <2>2. CASE At(r, "hashing")
    <3>1. Working' = Working \ {r} /\ r \in Working
      BY <1>2, <2>1, <2>2 DEF At
    <3>2. Cardinality(Working)' = w - 1 /\ w - 1 \in Nat
      BY <3>1, WorkingIs, FS_RemoveElement, FS_CardinalityType
    <3>3. orphans' = orphans + 1 /\ permits' = permits
      BY <1>9, <2>2 DEF Drop, LeftBehind
    <3>. QED BY <1>0, <1>1, <1>3, <3>2, <3>3
  <2>3. CASE ~At(r, "hashing")
    <3>1. Working' = Working
      BY <1>2, <2>1, <2>3 DEF At
    <3>. QED BY <1>4, <1>9, <2>3, <3>1 DEF Drop, LeftBehind
  <2>. QED BY <2>2, <2>3
<1>10. CASE OrphanEnds
  <2>1. /\ orphans > 0 /\ orphans' = orphans - 1 /\ permits' = permits + 1
        /\ Working' = Working
    BY <1>10 DEF OrphanEnds, WorkEnds, Working, At
  <2>2. Cardinality(Working)' = w
    BY <2>1
  <2>. QED BY <1>0, <1>1, <1>3, <2>1, <2>2
<1>11. CASE Restart
  <2>1. Working' = {} /\ orphans' = 0 /\ permits' = MaxConcurrent
    BY <1>11 DEF Restart, Idle, Working, At
  <2>2. Cardinality(Working)' = 0
    BY <2>1, FS_EmptySet
  <2>. QED BY <1>0, <1>1, <1>3, <2>1, <2>2
<1>12. CASE UNCHANGED <<req, permits, orphans>>
  BY <1>4, <1>12 DEF Working, At
<1>. HIDE DEF w
<1>. QED BY <1>5, <1>6, <1>7, <1>8, <1>9, <1>10, <1>11, <1>12
     DEF Next, Handle, Sweep, Tick, WorldSame, vars
-----------------------------------------------------------------------------
(* The slots of failures.                                                  *)

\* What is waited is never shorter than what is asked.
LEMMA WaitsEnough ==
    ASSUME NEW n \in Nat
    PROVE  /\ WaitAfter(n) \in 0 .. MaxWait /\ Asked(n) \in 0 .. MaxWait
           /\ Asked(n) <= WaitAfter(n)
<1>. DEFINE d == n - (FreeFailures + 1)
            w == FirstWait * 2 ^ d
            doubled == {v \in 0 .. MaxWait : \E e \in 0 .. n : /\ e = n - (FreeFailures + 1)
                                                               /\ v = FirstWait * 2 ^ e}
<1>0. MaxWait \in Nat /\ FreeFailures \in Nat
  BY Bounds
<1>1. CASE n <= FreeFailures
  BY <1>0, <1>1 DEF WaitAfter, Asked
<1>2. CASE ~(n <= FreeFailures)
  <2>1. d \in 0 .. n
    BY <1>0, <1>2
  <2>2. WaitAfter(n) = IF d < 31 /\ w \in 0 .. MaxWait THEN w ELSE MaxWait
    BY <1>2 DEF WaitAfter
  <2>3. Asked(n) = IF doubled = {} THEN MaxWait ELSE CHOOSE v \in doubled : TRUE
    BY <1>2 DEF Asked
  <2>4. CASE w \in 0 .. MaxWait
    <3>1. doubled = {w}
      BY <2>1, <2>4
    <3>2. Asked(n) = w
      BY <2>3, <3>1
    <3>. HIDE DEF w, d
    <3>. QED BY <1>0, <2>2, <2>4, <3>2
  <2>5. CASE w \notin 0 .. MaxWait
    <3>1. doubled = {}
      BY <2>5
    <3>2. Asked(n) = MaxWait /\ WaitAfter(n) = MaxWait
      BY <2>2, <2>3, <2>5, <3>1
    <3>. QED BY <1>0, <3>2
  <2>. QED BY <2>4, <2>5
<1>. QED BY <1>1, <1>2

\* One more attempt starts a row or goes on with the last one.
LEMMA RowsOfOneMore ==
    ASSUME NEW times \in Seq(0 .. MaxTime), NEW t \in 0 .. MaxTime
    PROVE  LET n == Len(times) more == Append(times, t) IN
           /\ n \in Nat /\ Len(more) = n + 1 /\ more[n + 1] = t
           /\ \A i \in 1 .. n : more[i] = times[i] /\ times[i] \in Int
           /\ \A i \in 1 .. n : i \in RowStarts(more) <=> i \in RowStarts(times)
           /\ RowStarts(times) \subseteq 1 .. n
           /\ RowStarts(more) \subseteq 1 .. n + 1
           /\ n + 1 \in RowStarts(more) <=> n = 0 \/ t - times[n] >= ForgetAfter
<1>. DEFINE n == Len(times) more == Append(times, t)
<1>1. n \in Nat /\ Len(more) = n + 1 /\ more[n + 1] = t
  OBVIOUS
<1>2. \A i \in 1 .. n : more[i] = times[i]
  OBVIOUS
<1>3. \A i \in 1 .. n : times[i] \in Int
  <2>1. \A i \in 1 .. n : times[i] \in 0 .. MaxTime
    BY ElementOfSeq
  <2>. QED BY <2>1
<1>4. \A i \in 1 .. n : i \in RowStarts(more) <=> i \in RowStarts(times)
  <2>. TAKE i \in 1 .. n
  <2>1. i \in 1 .. Len(more) /\ more[i] = times[i] /\ (i # 1 => more[i - 1] = times[i - 1])
    BY <1>1, <1>2
  <2>. HIDE DEF more
  <2>. QED BY <1>1, <2>1 DEF RowStarts
<1>5. n + 1 \in RowStarts(more) <=> n = 0 \/ t - times[n] >= ForgetAfter
  <2>1. CASE n = 0
    BY <1>1, <2>1 DEF RowStarts
  <2>2. CASE n # 0
    <3>1. n + 1 \in 1 .. Len(more) /\ n + 1 # 1 /\ (n + 1) - 1 = n /\ more[n] = times[n]
      BY <1>1, <1>2, <2>2
    <3>. HIDE DEF n, more
    <3>. QED BY <1>1, <2>2, <3>1 DEF RowStarts
  <2>. QED BY <2>1, <2>2
<1>6. RowStarts(times) \subseteq 1 .. n /\ RowStarts(more) \subseteq 1 .. n + 1
  BY <1>1 DEF RowStarts
<1>. QED BY <1>1, <1>2, <1>3, <1>4, <1>5, <1>6

\* What a slot remembers has its type.
LEMMA FailuresTyped ==
    ASSUME TypeOK, NEW s \in Slots
    PROVE  /\ Failures(s).count \in Nat /\ Failures(s).last \in 0 .. MaxTime
           /\ slots[s] # None => slots[s].count \in Nat /\ slots[s].last \in 0 .. MaxTime
  BY Bounds DEF Failures, TypeOK

\* Slots are touched by an attempt let through, and cleared.
LEMMA SlotMoves ==
    ASSUME TypeOK, KnowsInv, [Next]_vars, NEW s \in Slots
    PROVE  \/ slots'[s] = slots[s] /\ through'[s] = through[s]
           \/ slots'[s] = None /\ through'[s] = <<>>
           \/ /\ ~MustWait(s)
              /\ slots'[s] = [count |-> Failures(s).count + 1, last |-> clock]
              /\ through'[s] = Append(through[s], clock)
<1>1. CASE SlotsSame
  BY <1>1 DEF SlotsSame
<1>2. CASE Restart
  BY <1>2 DEF Restart
<1>3. ASSUME NEW r \in Requests, Login(r)
      PROVE  \/ slots'[s] = slots[s] /\ through'[s] = through[s]
             \/ /\ ~MustWait(s)
                /\ slots'[s] = [count |-> Failures(s).count + 1, last |-> clock]
                /\ through'[s] = Append(through[s], clock)
  <2>1. \/ SlotsSame
        \/ \E n \in Names : /\ ~MustWait(SlotOf[Fold[n]])
                            /\ slots' = LetThrough(SlotOf[Fold[n]])
                            /\ through' = [through EXCEPT ![SlotOf[Fold[n]]] = Append(@, clock)]
    BY <1>3 DEF Login
  <2>2. CASE SlotsSame
    BY <2>2 DEF SlotsSame
  <2>3. ASSUME NEW z, ~MustWait(z), slots' = LetThrough(z),
               through' = [through EXCEPT ![z] = Append(@, clock)]
        PROVE  \/ slots'[s] = slots[s] /\ through'[s] = through[s]
               \/ /\ ~MustWait(s)
                  /\ slots'[s] = [count |-> Failures(s).count + 1, last |-> clock]
                  /\ through'[s] = Append(through[s], clock)
    BY <2>3 DEF LetThrough, Counted, TypeOK
  <2>. QED BY <2>1, <2>2, <2>3
<1>4. ASSUME NEW r \in Requests, Verified(r)
      PROVE  \/ slots'[s] = slots[s] /\ through'[s] = through[s]
             \/ slots'[s] = None /\ through'[s] = <<>>
  BY <1>4 DEF Verified, SlotsSame, Cleared, TypeOK
<1>. QED BY <1>1, <1>2, <1>3, <1>4, Changes

\* Slots and their history keep their type.
LEMMA SlotsTyped ==
    ASSUME TypeOK, KnowsInv, [Next]_vars
    PROVE  /\ slots' \in [Slots -> {None} \cup [count : Nat, last : 0 .. MaxTime]]
           /\ through' \in [Slots -> Seq(0 .. MaxTime)]
<1>0. clock \in 0 .. MaxTime
  BY DEF TypeOK
<1>1. ASSUME NEW s \in Slots
      PROVE  /\ slots'[s] \in {None} \cup [count : Nat, last : 0 .. MaxTime]
             /\ through'[s] \in Seq(0 .. MaxTime)
  <2>1. /\ slots[s] \in {None} \cup [count : Nat, last : 0 .. MaxTime]
        /\ through[s] \in Seq(0 .. MaxTime)
    BY DEF TypeOK
  <2>2. [count |-> Failures(s).count + 1, last |-> clock] \in [count : Nat, last : 0 .. MaxTime]
    BY <1>0, FailuresTyped
  <2>3. Append(through[s], clock) \in Seq(0 .. MaxTime) /\ <<>> \in Seq(0 .. MaxTime)
    BY <1>0, <2>1
  <2>. QED BY <2>1, <2>2, <2>3, SlotMoves
<1>2. slots' = [s \in Slots |-> slots'[s]] /\ through' = [s \in Slots |-> through'[s]]
  <2>1. CASE SlotsSame
    BY <2>1 DEF SlotsSame, TypeOK
  <2>2. CASE Restart
    BY <2>2 DEF Restart
  <2>3. ASSUME NEW r \in Requests, Login(r) \/ Verified(r)
        PROVE  slots' = [s \in Slots |-> slots'[s]] /\ through' = [s \in Slots |-> through'[s]]
    BY <2>3 DEF Login, Verified, SlotsSame, LetThrough, Counted, Cleared, TypeOK
  <2>. QED BY <2>1, <2>2, <2>3, Changes
<1>. QED BY <1>1, <1>2

\* BurstsAreHeld, of one slot.
BurstIsHeld(s) ==
    LET times == through[s] IN
        \A i, j \in 1 .. Len(times) :
            RowOf(times, i, j) => times[i] - times[i - 1] >= Asked(i - j)

\* A slot goes on remembering the last row, and an attempt it lets through has
\* waited what its place in the row asks for.
LEMMA SlotStep ==
    ASSUME TypeOK, KnowsInv, [Next]_vars, NEW s \in Slots, SlotInv(s), BurstIsHeld(s)
    PROVE  SlotInv(s)' /\ BurstIsHeld(s)'
<1>1. CASE slots'[s] = slots[s] /\ through'[s] = through[s]
  BY <1>1 DEF SlotInv, BurstIsHeld
<1>2. CASE slots'[s] = None /\ through'[s] = <<>>
  BY <1>2 DEF SlotInv, BurstIsHeld
<1>3. CASE /\ ~MustWait(s)
           /\ slots'[s] = [count |-> Failures(s).count + 1, last |-> clock]
           /\ through'[s] = Append(through[s], clock)
  <2>. DEFINE fresh == slots[s] = None \/ clock - slots[s].last >= ForgetAfter
  <2>1. PICK times, n, more : /\ times = through[s] /\ n = Len(times)
                              /\ more = Append(times, clock)
    OBVIOUS
  <2>2. times \in Seq(0 .. MaxTime) /\ clock \in 0 .. MaxTime
    BY <2>1 DEF TypeOK
  <2>3. /\ n \in Nat /\ Len(more) = n + 1 /\ more[n + 1] = clock
        /\ \A i \in 1 .. n : more[i] = times[i] /\ times[i] \in Int
        /\ \A i \in 1 .. n : i \in RowStarts(more) <=> i \in RowStarts(times)
        /\ RowStarts(times) \subseteq 1 .. n
        /\ RowStarts(more) \subseteq 1 .. n + 1
        /\ n + 1 \in RowStarts(more) <=> n = 0 \/ clock - times[n] >= ForgetAfter
    BY <2>1, <2>2, RowsOfOneMore
  <2>4. clock \in Int /\ ForgetAfter \in Int
    BY <2>2, Bounds
  <2>5. slots'[s].count = Failures(s).count + 1 /\ slots'[s].last = clock /\ slots'[s] # None
    BY <1>3 DEF None
  <2>6. CASE fresh
    <3>1. n + 1 \in RowStarts(more)
      <4>1. CASE slots[s] = None
        <5>1. n = 0
          BY <2>1, <4>1 DEF SlotInv
        <5>. QED BY <2>3, <5>1
      <4>2. CASE slots[s] # None
        BY <2>1, <2>3, <2>6, <4>2 DEF SlotInv
      <4>. QED BY <4>1, <4>2
    <3>2. Failures(s).count = 0
      BY <2>6 DEF Failures
    <3>3. \A j \in 1 .. n + 1 : LastRow(more, j) => j = n + 1
      BY <2>3, <3>1 DEF LastRow
    <3>4. SlotInv(s)'
      <4>1. more # <<>>
        BY <2>3
      <4>2. \A j \in 1 .. n + 1 : LastRow(more, j) => slots'[s].count = (n + 1) - j + 1
        BY <2>3, <2>5, <3>2, <3>3
      <4>. QED BY <1>3, <2>1, <2>3, <2>5, <4>1, <4>2 DEF SlotInv
    <3>5. ASSUME NEW i \in 1 .. n + 1, NEW j \in 1 .. n + 1, RowOf(more, i, j)
          PROVE  more[i] - more[i - 1] >= Asked(i - j)
      <4>1. i # n + 1
        BY <2>3, <3>1, <3>5 DEF RowOf
      <4>2. i \in 1 .. n /\ j \in 1 .. n /\ i - 1 \in 1 .. n
        BY <2>3, <3>5, <4>1 DEF RowOf
      <4>3. RowOf(times, i, j)
        BY <2>3, <3>5, <4>2 DEF RowOf
      <4>4. times[i] - times[i - 1] >= Asked(i - j)
        BY <2>1, <4>2, <4>3 DEF BurstIsHeld
      <4>. QED BY <2>3, <4>2, <4>4
    <3>6. BurstIsHeld(s)'
      BY <1>3, <2>1, <2>3, <3>5 DEF BurstIsHeld
    <3>. QED BY <3>4, <3>6
  <2>7. CASE ~fresh
    <3>1. slots[s] # None /\ Failures(s) = slots[s]
      BY <2>7 DEF Failures
    <3>2. n # 0 /\ slots[s].last = times[n] /\ clock - times[n] < ForgetAfter
      <4>1. times # <<>> /\ slots[s].last = times[n]
        BY <2>1, <3>1 DEF SlotInv
      <4>2. n # 0
        BY <2>1, <2>2, <4>1
      <4>3. times[n] \in Int
        BY <2>3, <4>2
      <4>. QED BY <2>4, <2>7, <3>1, <4>1, <4>2, <4>3
    <3>3. n + 1 \notin RowStarts(more)
      <4>1. times[n] \in Int
        BY <2>3, <3>2
      <4>. QED BY <2>3, <2>4, <3>2, <4>1
    <3>4. \A j \in 1 .. n + 1 : LastRow(more, j) => j \in 1 .. n /\ LastRow(times, j)
      BY <2>3, <3>3 DEF LastRow
    <3>5. \A j \in 1 .. n : LastRow(times, j) => slots[s].count = n - j + 1
      BY <2>1, <3>1 DEF SlotInv
    <3>6. SlotInv(s)'
      <4>1. more # <<>>
        BY <2>3
      <4>2. \A j \in 1 .. n + 1 : LastRow(more, j) => slots'[s].count = (n + 1) - j + 1
        BY <2>3, <2>5, <3>1, <3>4, <3>5
      <4>. QED BY <1>3, <2>1, <2>3, <2>5, <4>1, <4>2 DEF SlotInv
    <3>7. ASSUME NEW i \in 1 .. n + 1, NEW j \in 1 .. n + 1, RowOf(more, i, j)
          PROVE  more[i] - more[i - 1] >= Asked(i - j)
      <4>1. CASE i # n + 1
        <5>1. i \in 1 .. n /\ j \in 1 .. n /\ i - 1 \in 1 .. n
          BY <2>3, <3>7, <4>1 DEF RowOf
        <5>2. RowOf(times, i, j)
          BY <2>3, <3>7, <5>1 DEF RowOf
        <5>3. times[i] - times[i - 1] >= Asked(i - j)
          BY <2>1, <5>1, <5>2 DEF BurstIsHeld
        <5>. QED BY <2>3, <5>1, <5>3
      <4>2. CASE i = n + 1
        <5>1. LastRow(more, j)
          BY <2>3, <3>7, <4>2 DEF RowOf, LastRow
        <5>2. slots[s].count = i - j /\ i - j \in Nat
          BY <2>3, <3>4, <3>5, <4>2, <5>1
        <5>3. times[n] + WaitAfter(i - j) <= clock
          <6>1. ~(slots[s].last + WaitAfter(slots[s].count) > clock)
            BY <1>3, <3>1 DEF MustWait
          <6>2. times[n] \in Int /\ WaitAfter(i - j) \in Int
            BY <2>3, <3>2, <5>2, WaitsEnough, Bounds
          <6>. QED BY <2>4, <3>2, <5>2, <6>1, <6>2
        <5>4. clock - times[n] >= Asked(i - j)
          <6>1. /\ times[n] \in Int /\ WaitAfter(i - j) \in Int /\ Asked(i - j) \in Int
                /\ Asked(i - j) <= WaitAfter(i - j)
            BY <2>3, <3>2, <5>2, WaitsEnough, Bounds
          <6>. QED BY <2>4, <5>3, <6>1
        <5>5. more[i] = clock /\ i - 1 = n /\ more[n] = times[n]
          BY <2>3, <3>2, <4>2
        <5>. QED BY <5>4, <5>5
      <4>. QED BY <4>1, <4>2
    <3>8. BurstIsHeld(s)'
      BY <1>3, <2>1, <2>3, <3>7 DEF BurstIsHeld
    <3>. QED BY <3>6, <3>8
  <2>. QED BY <2>6, <2>7
<1>. QED BY <1>1, <1>2, <1>3, SlotMoves
-----------------------------------------------------------------------------
(* Theorems.                                                               *)

\* The invariant holds in the beginning and is kept.
LEMMA Beginning == Init => Inv
<1>. SUFFICES ASSUME Init PROVE Inv
  OBVIOUS
<1>0. "idle" \in Answers /\ "idle" \notin Waiting /\ \A r \in Requests : req[r].step = "idle"
  BY DEF Answers, Waiting, Init, Idle
<1>1. TypeOK
  <2>1. accounts \in [Accounts -> {None} \cup Account]
    BY Inputs DEF Init, Account
  <2>2. req \in [Requests -> [step : Answers] \cup Request]
    BY <1>0 DEF Init, Idle
  <2>3. through \in [Slots -> Seq(0 .. MaxTime)]
    BY DEF Init
  <2>. QED BY <2>1, <2>2, <2>3, Bounds DEF TypeOK, Init
<1>2. KnowsInv /\ SessionsInv
  BY <1>0 DEF KnowsInv, SessionsInv, Init
<1>3. RoomInv /\ PermitsInv
  <2>1. Minting = {} /\ Working = {}
    BY <1>0 DEF Minting, Working, At
  <2>. QED BY <2>1, FS_EmptySet, Bounds DEF Init, RoomInv, PermitsInv
<1>4. SlotsInv /\ BurstsAreHeld
  BY DEF Init, SlotsInv, SlotInv, BurstsAreHeld
<1>. QED BY <1>1, <1>2, <1>3, <1>4 DEF Inv

\* Troubles stay within the bound.
LEMMA TroublesTyped ==
    ASSUME TypeOK, [Next]_vars
    PROVE  troubles' \in 0 .. MaxTroubles
<1>0. \/ troubles' = troubles \/ (troubles < MaxTroubles /\ troubles' = troubles + 1)
  <2>1. CASE \E r \in Requests : Register(r) \/ Login(r) \/ Logout(r) \/ TakePermit(r) \/ Drop(r)
    BY <2>1 DEF Register, Login, Logout, TakePermit, Drop
  <2>2. CASE \E r \in Requests : Handle(r)
    BY <2>2 DEF Handle, Credentials, Hashed, Verified, Insert, Rehash, EndOld, Create, End,
                Fails, Works
  <2>3. CASE OrphanEnds \/ Sweep \/ Tick \/ Restart
    BY <2>3 DEF OrphanEnds, Sweep, Tick, Restart
  <2>4. CASE UNCHANGED vars
    BY <2>4 DEF vars
  <2>. QED BY <2>1, <2>2, <2>3, <2>4 DEF Next
<1>. QED BY <1>0, Bounds DEF TypeOK

\* Types are kept.
LEMMA TypeStep ==
    ASSUME Inv, [Next]_vars
    PROVE  TypeOK'
<1>. USE DEF Inv
<1>1. clock' \in 0 .. MaxTime /\ minted' \in 0 .. MaxTokens /\ troubles' \in 0 .. MaxTroubles
  BY ClockTyped, MintedTyped, TroublesTyped
<1>2. orphans' \in Nat /\ permits' \in 0 .. MaxConcurrent
  BY PermitsStep
<1>3. req' \in [Requests -> [step : Answers] \cup Request]
  BY RequestsTyped
<1>4. /\ accounts' \in [Accounts -> {None} \cup Account]
      /\ sessions' \in [Tokens -> {None} \cup [user : Accounts, expires : Nat]]
  BY AccountsTyped, SessionsTyped
<1>5. /\ slots' \in [Slots -> {None} \cup [count : Nat, last : 0 .. MaxTime]]
      /\ through' \in [Slots -> Seq(0 .. MaxTime)]
  BY SlotsTyped
<1>6. ended' \subseteq Tokens
  BY SessionsStep
<1>. QED BY <1>1, <1>2, <1>3, <1>4, <1>5, <1>6 DEF TypeOK

\* The parts of the invariant keep each other.
LEMMA InvStep == Inv /\ [Next]_vars => Inv'
<1>. SUFFICES ASSUME Inv, [Next]_vars PROVE Inv'
  OBVIOUS
<1>1. TypeOK'
  BY TypeStep
<1>2. KnowsInv' /\ SessionsInv' /\ RoomInv' /\ PermitsInv'
  BY KnowsStep, SessionsStep, RoomStep, PermitsStep DEF Inv
<1>3. SlotsInv' /\ BurstsAreHeld'
  <2>1. \A s \in Slots : SlotInv(s)' /\ BurstIsHeld(s)'
    BY SlotStep DEF Inv, SlotsInv, BurstsAreHeld, BurstIsHeld
  <2>. QED BY <2>1 DEF SlotsInv, BurstsAreHeld, BurstIsHeld
<1>. QED BY <1>1, <1>2, <1>3 DEF Inv

\* The inductive invariant holds throughout, whatever handlers are interleaved,
\* dropped or failed by the store (ak-api/src/auth).
THEOREM Invariant == Spec => []Inv
<1>. QED BY Beginning, InvStep, PTL DEF Spec

\* The state keeps its type: counters stay natural, permits between none and all
\* of them, minted tokens within the table of sessions.
THEOREM TypeCorrect == Spec => []TypeOK
<1>1. Inv => TypeOK
  BY DEF Inv
<1>. QED BY <1>1, Invariant, PTL

\* LoginBackoff holds a burst to what attempts sent one by one are allowed: each
\* attempt let through has waited what its place in its row asks for.
THEOREM BurstsHeld == Spec => []BurstsAreHeld
<1>1. Inv => BurstsAreHeld
  BY DEF Inv
<1>. QED BY <1>1, Invariant, PTL

\* A session a client was told has ended (logout, or the old one at sign-in) is
\* never again a signed-in one, whatever else was under way with it.
THEOREM EndedStays == Spec => []EndedStaysEnded
<1>1. Inv => EndedStaysEnded
  BY DEF Inv, SessionsInv, EndedStaysEnded, SessionUser
<1>. QED BY <1>1, Invariant, PTL

\* Passwords::run: never more hashes at once than permits, those of dropped
\* requests included.
THEOREM HashesBounded == Spec => []HashesAreBounded
<1>1. Inv => HashesAreBounded
  <2>. SUFFICES ASSUME Inv PROVE HashesAreBounded
    OBVIOUS
  <2>1. permits \in Nat /\ orphans \in Nat /\ Cardinality(Working) \in Nat
    BY Bounds, WorkingIs DEF Inv, TypeOK
  <2>. QED BY <2>1 DEF Inv, PermitsInv, HashesAreBounded
<1>. QED BY <1>1, Invariant, PTL

\* Who answers "taken" or "wrong".
LEMMA Answered ==
    ASSUME TypeOK, KnowsInv, [Next]_vars, NEW r \in Requests
    PROVE  /\ req[r].step = "insert" /\ req'[r].step = "taken" => Taken(r)
           /\ req[r].step = "hashing" /\ req'[r].step = "wrong" =>
                req[r].kind = "login" /\ ~Right(r)
<1>1. CASE req'[r] = req[r]
  BY <1>1
<1>2. CASE Restart
  BY <1>2 DEF Restart, Idle
<1>3. ASSUME NEW from, NEW to, Moved(r, from, to),
             "insert" \notin from \/ "taken" \notin to, "hashing" \notin from \/ "wrong" \notin to
      PROVE  ~(req[r].step = "insert" /\ req'[r].step = "taken")
             /\ ~(req[r].step = "hashing" /\ req'[r].step = "wrong")
  BY <1>3, MovedIs
<1>. DEFINE Goal == /\ req[r].step = "insert" /\ req'[r].step = "taken" => Taken(r)
                    /\ req[r].step = "hashing" /\ req'[r].step = "wrong" =>
                         req[r].kind = "login" /\ ~Right(r)
<1>4. CASE Register(r) \/ Login(r) \/ Logout(r)
  <2>1. req[r].step \in Answers
    BY <1>4 DEF Register, Login, Logout, Ready
  <2>. QED BY <2>1 DEF Answers
<1>5. CASE Credentials(r) \/ TakePermit(r) \/ Rehash(r) \/ EndOld(r) \/ Create(r) \/ End(r)
  BY <1>5 DEF Credentials, TakePermit, Rehash, EndOld, Create, End, At
<1>6. CASE Hashed(r)
  <2>1. Moved(r, {"hashing"}, {"insert"})
    BY <1>6, Steps
  <2>. QED BY <1>3, <2>1
<1>7. CASE Drop(r)
  <2>1. Moved(r, Waiting, {"idle"})
    BY <1>7, Steps
  <2>. QED BY <1>3, <2>1
<1>8. CASE Insert(r)
  <2>1. req[r].step = "insert"
    BY <1>8 DEF Insert, At
  <2>2. CASE Answer(r, "taken") /\ Taken(r)
    BY <2>1, <2>2
  <2>3. CASE Answer(r, "idle")
    BY <2>1, <2>3 DEF Answer, TypeOK
  <2>4. CASE SignsIn(r)
    <3>1. Moved(r, {"insert"}, {"create", "end old"})
      BY <2>1, <2>4, SignsInMoves DEF Waiting
    <3>. QED BY <1>3, <3>1
  <2>. QED BY <1>8, <2>2, <2>3, <2>4 DEF Insert, Fails
<1>9. CASE Verified(r)
  <2>1. req[r].step = "hashing" /\ req[r].kind = "login"
    BY <1>9 DEF Verified, At
  <2>2. CASE ~Right(r)
    BY <2>1, <2>2
  <2>3. CASE Becomes(r, "rehash")
    <3>1. Moved(r, {"hashing"}, {"rehash"})
      BY <2>1, <2>3, BecomesMoves DEF Waiting
    <3>. QED BY <1>3, <3>1
  <2>4. CASE SignsIn(r)
    <3>1. Moved(r, {"hashing"}, {"create", "end old"})
      BY <2>1, <2>4, SignsInMoves DEF Waiting
    <3>. QED BY <1>3, <3>1
  <2>. QED BY <1>9, <2>2, <2>3, <2>4 DEF Verified
<1>10. ASSUME NEW q \in Requests, \/ Register(q) \/ Login(q) \/ Logout(q)
                                  \/ Handle(q) \/ TakePermit(q) \/ Drop(q)
       PROVE  q = r \/ req'[r] = req[r]
  BY <1>10, Steps, MovedIs DEF Handle
<1>11. ASSUME NEW q \in Requests, \/ Register(q) \/ Login(q) \/ Logout(q)
                                  \/ Handle(q) \/ TakePermit(q) \/ Drop(q)
       PROVE  Goal
  <2>1. CASE req'[r] = req[r]
    BY <1>1, <2>1
  <2>2. CASE q = r
    BY <1>4, <1>5, <1>6, <1>7, <1>8, <1>9, <1>11, <2>2 DEF Handle
  <2>. QED BY <1>10, <1>11, <2>1, <2>2
<1>. QED BY <1>1, <1>2, <1>11 DEF Next, OrphanEnds, Sweep, Tick, vars

\* Only the account's password signs in as it, only a name that is taken is called
\* taken, and only a password that does not match is called wrong.
THEOREM SignInsProved == Spec => SignInsAreProved
<1>1. Inv /\ [Next]_vars => [\A r \in Requests :
         /\ req[r].step = "create" /\ req'[r].step = "done" => Proved(r)
         /\ req[r].step = "insert" /\ req'[r].step = "taken" => accounts[Fold[req[r].name]] # None
         /\ req[r].step = "hashing" /\ req'[r].step = "wrong" => req[r].saw = None \/ ~Proved(r)]_vars
  <2>. SUFFICES ASSUME Inv, [Next]_vars, NEW r \in Requests
                PROVE  /\ req[r].step = "create" /\ req'[r].step = "done" => Proved(r)
                       /\ req[r].step = "insert" /\ req'[r].step = "taken" =>
                            accounts[Fold[req[r].name]] # None
                       /\ req[r].step = "hashing" /\ req'[r].step = "wrong" =>
                            req[r].saw = None \/ ~Proved(r)
    OBVIOUS
  <2>1. req[r].step \in Waiting => Known(r)
    BY DEF Inv, KnowsInv
  <2>2. req[r].step = "create" => Proved(r)
    BY <2>1 DEF Known, Waiting
  <2>3. /\ req[r].step = "insert" /\ req'[r].step = "taken" => Taken(r)
        /\ req[r].step = "hashing" /\ req'[r].step = "wrong" => ~Right(r)
    BY Answered DEF Inv
  <2>4. req[r].step = "hashing" /\ ~Right(r) => req[r].saw = None \/ ~Proved(r)
    BY <2>1 DEF Known, Waiting, Right, Proved, AccountOf
  <2>. QED BY <2>2, <2>3, <2>4 DEF Taken
<1>. QED BY <1>1, Invariant, PTL DEF Spec, SignInsAreProved
=============================================================================
