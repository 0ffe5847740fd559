--------------------------- MODULE DocumentsProofs ---------------------------
(***************************************************************************)
(* Documents, for any accounts, requests, documents, slots, failures and   *)
(* restarts: what requests are answered was true, deleted documents stay   *)
(* deleted, versions fit, and slots are held for what computes.            *)
(*                                                                         *)
(* What has to be known besides is what a handler carries from one         *)
(* statement to the next (HandlerInv): the copy it writes back is of its   *)
(* own document in this build's format, and what it computes with has been *)
(* in the table since it arrived.                                          *)
(***************************************************************************)
EXTENDS Documents, FiniteSetTheorems, TLAPS

Versions == {SchemaVersion, Newer}
Rows == [owner : Accounts, version : Versions, name : Names \cup {Unnamed},
         body : [format : Versions, content : Contents \cup {NoContent}]]

Single == {"find", "write", "fetch", "finalist", "remove"}
Pair == {"resolve", "slot", "compute"}
Handlers == [account : Accounts, kind : Kinds, ids : SUBSET Docs,
             step : {"insert"} \cup Single \cup Pair, name : Names \cup {Unnamed},
             content : Contents \cup {NoContent},
             copy : {Absent} \cup Rows, base : {Absent} \cup Rows, roster : {Absent} \cup Rows]
AnswerNames == {"none", "created", "missing", "replaced", "removed", "shown", "listed",
                "computed", "busy", "other", "error"}
Idles == [step : {"idle"}, answer : AnswerNames]

OneId(r) == \E d \in Docs : req[r].ids = {d} /\ req[r].kind = KindOf[d]
TwoIds(r) == \E b, t \in Docs : /\ req[r].ids = {b, t}
                                /\ KindOf[b] = "base" /\ KindOf[t] = "roster"

\* What a request has read of a document has been there since it arrived.
BaseWasThere(r) == \E d \in req[r].ids : KindOf[d] = "base" /\ <<d, req[r].base.body>> \in during[r]
RosterWasThere(r) == \E d \in req[r].ids : KindOf[d] = "roster" /\ <<d, req[r].roster.body>> \in during[r]

HandlerInv(r) ==
  /\ req[r] \in Handlers \cup Idles
  /\ req[r].step \in Single => OneId(r)
  /\ At(r, "write") => /\ req[r].copy \in Rows
                       /\ req[r].copy.owner = req[r].account
                       /\ req[r].copy.version = SchemaVersion
  /\ At(r, "resolve") => req[r].copy = Absent
  /\ req[r].step \in Pair /\ req[r].copy = Absent =>
       /\ TwoIds(r)
       /\ req[r].base # Absent => BaseWasThere(r)
       /\ req[r].roster # Absent => RosterWasThere(r)
       /\ req[r].step # "resolve" => req[r].base # Absent /\ req[r].roster # Absent

TableInv ==
  /\ rows \in [Docs -> {Absent} \cup Rows]
  /\ issued \subseteq Docs
  /\ VersionsFit

SlotInv ==
  /\ counts \in [Accounts -> Nat] /\ orphans \in [Accounts -> Nat]
  /\ SlotsAreHeld

IInv == /\ TableInv /\ SlotInv
        /\ req = [r \in Requests |-> req[r]]
        /\ during = [r \in Requests |-> during[r]]
        /\ \A r \in Requests : HandlerInv(r)

\* What AnswersWereTrue says of one request and one step.
Claims(r) ==
  /\ Answers(r, "missing") => \E d \in req[r].ids : <<d, Absent>> \in Throughout(r)
  /\ Answers(r, "removed") => \A d \in req[r].ids : rows'[d] = Absent
  /\ Answers(r, "created") => \E d \in issued' \ issued : Shown(r, d, rows') = <<d, Mine(r)>>
  /\ Answers(r, "replaced") => \A d \in req[r].ids : <<d, Mine(r)>> \in Throughout(r)
  /\ Answers(r, "computed") /\ req[r].copy = Absent =>
        \A kind \in {"base", "roster"} : \E d \in req[r].ids :
            KindOf[d] = kind /\ <<d, req[r][kind].body>> \in Throughout(r)

-----------------------------------------------------------------------------
(* Requests that a step leaves alone, and those that it answers.           *)

LEMMA Untouched ==
  ASSUME NEW r \in Requests, HandlerInv(r), req'[r] = req[r], Watch
  PROVE  HandlerInv(r)' /\ Claims(r)
<1>1. /\ req'[r].step = req[r].step /\ req'[r].ids = req[r].ids /\ req'[r].base = req[r].base
      /\ req'[r].roster = req[r].roster /\ req'[r].copy = req[r].copy
      /\ req'[r].account = req[r].account /\ req'[r].kind = req[r].kind
  OBVIOUS
<1>2. ~At(r, "idle") => during[r] \subseteq during'[r]
  BY <1>1 DEF Watch, Throughout, At
<1>3. (OneId(r)' <=> OneId(r)) /\ (TwoIds(r)' <=> TwoIds(r))
  BY <1>1 DEF OneId, TwoIds
<1>4. req[r].step \in Pair => /\ BaseWasThere(r) => BaseWasThere(r)'
                              /\ RosterWasThere(r) => RosterWasThere(r)'
  BY <1>1, <1>2 DEF BaseWasThere, RosterWasThere, Pair, At
<1>5. HandlerInv(r)'
  BY <1>1, <1>3, <1>4 DEF HandlerInv, At
<1>6. \A answer : ~Answers(r, answer)
  BY <1>1 DEF Answers, At, Idle
<1> QED  BY <1>5, <1>6 DEF Claims

\* An answer leaves nothing to know of the request.
LEMMA Answered ==
  ASSUME IInv, NEW r \in Requests, NEW answer \in AnswerNames, Answer(r, answer)
  PROVE  /\ HandlerInv(r)' /\ req'[r].step = "idle"
         /\ \E new : req' = [req EXCEPT ![r] = new]
         /\ \A other \in AnswerNames : other # answer => ~Answers(r, other)
<1>1. req'[r] = [step |-> "idle", answer |-> answer]  BY DEF Answer, Idle, IInv
<1>2. req'[r] \in Idles /\ req'[r].step = "idle" /\ req'[r].answer = answer
  BY <1>1 DEF Idles
<1>3. HandlerInv(r)'  BY <1>2 DEF HandlerInv, At, Single, Pair
<1>4. \A other \in AnswerNames : other # answer => ~Answers(r, other)
  BY <1>2 DEF Answers, Idle
<1>5. \E new : req' = [req EXCEPT ![r] = new]  BY DEF Answer
<1> QED  BY <1>2, <1>3, <1>4, <1>5

\* A request that is not answered claims nothing.
LEMMA GoesOn ==
  ASSUME NEW r \in Requests, req'[r].step # "idle"
  PROVE  Claims(r)
<1>1. \A answer : ~Answers(r, answer)  BY DEF Answers, Idle
<1> QED  BY <1>1 DEF Claims

\* A step of one request, when the rest has been seen to.
LEMMA OneStep ==
  ASSUME IInv, NEW r \in Requests, \E new : req' = [req EXCEPT ![r] = new], Watch,
         HandlerInv(r)', Claims(r), TableInv', SlotInv'
  PROVE  IInv' /\ \A w \in Requests : Claims(w)
<1>1. \A w \in Requests \ {r} : req'[w] = req[w]  BY DEF IInv
<1>2. \A w \in Requests \ {r} : HandlerInv(w)' /\ Claims(w)
  BY <1>1, Untouched DEF IInv
<1>3. req' = [w \in Requests |-> req'[w]]  BY DEF IInv
<1>4. during' = [w \in Requests |-> during'[w]]  BY DEF Watch
<1> QED  BY <1>2, <1>3, <1>4 DEF IInv

\* What is known of a request that is at work.
LEMMA Busy ==
  ASSUME NEW r \in Requests, HandlerInv(r), ~At(r, "idle")
  PROVE  req[r] \in Handlers /\ req[r].ids \subseteq Docs /\ req[r].account \in Accounts
BY DEF HandlerInv, At, Handlers, Idles

-----------------------------------------------------------------------------
(* Slots.                                                                  *)

Computers(a) == {r \in Requests : At(r, "compute") /\ req[r].account = a}

LEMMA Counting ==
  ASSUME NEW S \in SUBSET Requests
  PROVE  /\ Cardinality(S) \in Nat
         /\ \A r \in Requests \ S : Cardinality(S \cup {r}) = Cardinality(S) + 1
         /\ \A r \in S : Cardinality(S \ {r}) = Cardinality(S) - 1 /\ Cardinality(S) > 0
<1>1. IsFiniteSet(S)  BY FS_Subset, RequestsAreFinite
<1>2. Cardinality(S) \in Nat  BY <1>1, FS_CardinalityType
<1>3. \A r \in Requests \ S : Cardinality(S \cup {r}) = Cardinality(S) + 1
  BY <1>1, FS_AddElement
<1>4. \A r \in S : IsFiniteSet(S \ {r}) /\ Cardinality(S \ {r}) = Cardinality(S) - 1
  BY <1>1, FS_RemoveElement
<1>5. \A r \in S : Cardinality(S \ {r}) \in Nat  BY <1>4, FS_CardinalityType
<1> QED  BY <1>2, <1>3, <1>4, <1>5

\* A step that begins and ends no computation.
LEMMA SlotsKept ==
  ASSUME SlotInv, SlotsSame,
         \A r \in Requests : /\ req'[r].step = "compute" <=> req[r].step = "compute"
                             /\ req[r].step = "compute" => req'[r].account = req[r].account
  PROVE  SlotInv'
<1>1. \A a : Computers(a)' = Computers(a)  BY DEF Computers, At
<1>2. \A a \in Accounts : Computing(a)' = Computing(a)
  BY <1>1 DEF Computing, Computers, SlotsSame
<1> QED  BY <1>2 DEF SlotInv, SlotsAreHeld, SlotsSame

\* A computation begins or ends: one more, or one less, for its account.
LEMMA OneSlot ==
  ASSUME SlotInv, NEW r \in Requests, NEW a \in Accounts,
         \A w \in Requests \ {r} : req'[w] = req[w]
  PROVE  /\ \A b \in Accounts \ {a} :
              /\ ~At(r, "compute") \/ req[r].account = a
              /\ req'[r].step # "compute" \/ req'[r].account = a
              => Computers(b)' = Computers(b)
         /\ /\ ~At(r, "compute")
            /\ req'[r].step = "compute" /\ req'[r].account = a
            => Cardinality(Computers(a)') = Cardinality(Computers(a)) + 1
         /\ /\ At(r, "compute") /\ req[r].account = a
            /\ req'[r].step # "compute"
            => Cardinality(Computers(a)') = Cardinality(Computers(a)) - 1
         /\ Cardinality(Computers(a)) \in Nat
<1>1. \A b \in Accounts \ {a} :
              /\ ~At(r, "compute") \/ req[r].account = a
              /\ req'[r].step # "compute" \/ req'[r].account = a
              => Computers(b)' = Computers(b)
  BY DEF Computers, At
<1>2. Computers(a) \in SUBSET Requests  BY DEF Computers
<1>3. ASSUME ~At(r, "compute"), req'[r].step = "compute", req'[r].account = a
      PROVE  Cardinality(Computers(a)') = Cardinality(Computers(a)) + 1
  <2>1. Computers(a)' = Computers(a) \cup {r} /\ r \in Requests \ Computers(a)
    BY <1>3 DEF Computers, At
  <2> QED  BY <2>1, <1>2, Counting
<1>4. ASSUME At(r, "compute"), req[r].account = a, req'[r].step # "compute"
      PROVE  Cardinality(Computers(a)') = Cardinality(Computers(a)) - 1
  <2>1. Computers(a)' = Computers(a) \ {r} /\ r \in Computers(a)
    BY <1>4 DEF Computers, At
  <2> QED  BY <2>1, <1>2, Counting
<1>5. Cardinality(Computers(a)) \in Nat  BY <1>2, Counting
<1> QED  BY <1>1, <1>3, <1>4, <1>5

\* A step of one request that is not a computation, before or after.
LEMMA NoSlot ==
  ASSUME IInv, NEW r \in Requests, \E new : req' = [req EXCEPT ![r] = new], SlotsSame,
         ~At(r, "compute"), req'[r].step # "compute"
  PROVE  SlotInv'
BY SlotsKept DEF IInv, At

-----------------------------------------------------------------------------
(* The table.                                                              *)

LEMMA RowsAreThere == \A row \in Rows : row # Absent
BY DEF Rows, Absent

LEMMA TableKept == ASSUME TableInv, TableSame PROVE TableInv'
BY DEF TableInv, TableSame, VersionsFit

\* A document is put in the table in the format of its version.
LEMMA PutKept ==
  ASSUME TableInv, NEW d \in Docs, NEW row \in {Absent} \cup Rows,
         row # Absent => row.version = row.body.format,
         rows' = Put(d, row), issued' = issued \/ issued' = issued \cup {d}
  PROVE  TableInv' /\ rows'[d] = row
BY DEF TableInv, Put, VersionsFit

\* A document that is not found shows as absent.
LEMMA NotFound ==
  ASSUME NEW r \in Requests, NEW d \in Docs, Found(req[r].account, KindOf[d], d) = Absent
  PROVE  Shown(r, d, rows) = <<d, Absent>>
BY DEF Found, Shown

LEMMA IsFound ==
  ASSUME TableInv, NEW r \in Requests, NEW d \in Docs, NEW row, row # Absent,
         row = Found(req[r].account, KindOf[d], d)
  PROVE  /\ row \in Rows /\ row = rows[d] /\ row.owner = req[r].account
         /\ Shown(r, d, rows) = <<d, row.body>>
         /\ Supported(row) => row.version = SchemaVersion
BY DEF Found, Shown, TableInv, Supported

\* The id a request names, and its row.
LEMMA ItsRow ==
  ASSUME NEW r \in Requests, OneId(r)
  PROVE  /\ TheId(r) \in Docs /\ req[r].ids = {TheId(r)} /\ req[r].kind = KindOf[TheId(r)]
         /\ TheRow(r) = Found(req[r].account, KindOf[TheId(r)], TheId(r))
BY DEF OneId, TheId, TheRow

-----------------------------------------------------------------------------
(* The steps.                                                              *)

LEMMA InitInv == Init => IInv
<1> SUFFICES ASSUME Init PROVE IInv  OBVIOUS
<1>1. \A d \in DOMAIN Initial :
        Row(Initial[d], SchemaVersion, Unnamed, Body(SchemaVersion, NoContent)) \in Rows
  BY SolvesAreStored DEF Row, Body, Rows, Versions
<1>2. TableInv
  BY <1>1, SolvesAreStored DEF Init, TableInv, VersionsFit, Row, Body, Absent
<1>3. \A a : Computers(a) = {}  BY DEF Init, Computers, At, Idle
<1>4. \A a \in Accounts : Computing(a) = 0
  BY <1>3, FS_EmptySet DEF Init, Computing, Computers
<1>5. SlotInv  BY <1>4, BoundsAreNumbers DEF Init, SlotInv, SlotsAreHeld
<1>6. Idle \in Idles /\ Idle.step = "idle"  BY DEF Idle, Idles, AnswerNames
<1>7. \A r \in Requests : HandlerInv(r)
  BY <1>6 DEF Init, HandlerInv, At, Single, Pair
<1> QED  BY <1>2, <1>5, <1>7 DEF Init, IInv

LEMMA ArrivesInv ==
  ASSUME IInv, NEW r \in Requests, Watch,
         NEW a \in Accounts, NEW kind \in Kinds, NEW ids \in SUBSET Docs,
         NEW step \in {"insert", "find", "fetch", "finalist", "remove", "resolve"},
         NEW name \in Names \cup {Unnamed}, NEW content \in Contents \cup {NoContent},
         Arrives(r, a, kind, ids, step, name, content),
         step \in Single => \E d \in Docs : ids = {d} /\ kind = KindOf[d],
         step = "resolve" => \E b, t \in Docs : ids = {b, t} /\ KindOf[b] = "base" /\ KindOf[t] = "roster"
  PROVE  IInv' /\ \A w \in Requests : Claims(w)
<1>1. /\ At(r, "idle") /\ TableSame /\ SlotsSame
      /\ \E new : req' = [req EXCEPT ![r] = new]
  BY DEF Arrives, Ready
<1>2. req'[r] = [account |-> a, kind |-> kind, ids |-> ids, step |-> step, name |-> name,
                content |-> content, copy |-> Absent, base |-> Absent, roster |-> Absent]
  BY DEF Arrives, IInv
<1>3. req'[r] \in Handlers  BY <1>2 DEF Handlers, Single, Pair
<1>4. HandlerInv(r)'
  BY <1>2, <1>3 DEF HandlerInv, At, OneId, TwoIds, Single, Pair
<1>5. Claims(r)  BY <1>2, GoesOn
<1>6. ~At(r, "compute") /\ req'[r].step # "compute"  BY <1>1, <1>2 DEF At
<1>7. SlotInv'  BY <1>1, <1>6, NoSlot
<1>8. TableInv'  BY <1>1, TableKept DEF IInv
<1> QED  BY <1>1, <1>4, <1>5, <1>7, <1>8, OneStep

LEMMA ListInv ==
  ASSUME IInv, NEW r \in Requests, NEW a \in Accounts, List(r, a), Watch
  PROVE  IInv' /\ \A w \in Requests : Claims(w)
<1>1. /\ At(r, "idle") /\ TableSame /\ SlotsSame
      /\ \E answer \in {"error", "listed"} : Answer(r, answer)
  BY DEF List, Ready
<1>2. HandlerInv(r)' /\ req'[r].step = "idle" /\ \E new : req' = [req EXCEPT ![r] = new]
  BY <1>1, Answered DEF AnswerNames
<1>3. Claims(r)  BY <1>1 DEF Claims, Answers
<1>4. SlotInv'  BY <1>1, <1>2, NoSlot DEF At
<1>5. TableInv'  BY <1>1, TableKept DEF IInv
<1> QED  BY <1>2, <1>3, <1>4, <1>5, OneStep

LEMMA ArriveInv ==
  ASSUME IInv, NEW r \in Requests, NEW a \in Accounts, Arrive(r, a), Watch
  PROVE  IInv' /\ \A w \in Requests : Claims(w)
<1>1. CASE Post(r, a)
  <2>1. PICK kind \in {"base", "roster"}, c \in Contents :
          Arrives(r, a, kind, {}, "insert", Unnamed, c)
    BY <1>1 DEF Post
  <2> QED  BY <2>1, ArrivesInv DEF Kinds, Single
<1>2. CASE Replace(r, a)
  <2>1. PICK d \in Docs, n \in Names \cup {Unnamed}, c \in Contents :
          Arrives(r, a, KindOf[d], {d}, "find", n, c)
    BY <1>2 DEF Replace, Own
  <2>2. /\ {d} \in SUBSET Docs /\ KindOf[d] \in Kinds
        /\ \E e \in Docs : {d} = {e} /\ KindOf[d] = KindOf[e]
    BY DocsHaveKinds
  <2> QED  BY <2>1, <2>2, ArrivesInv
<1>3. CASE Fetch(r, a)
  <2>1. PICK d \in Docs, step \in {"fetch", "finalist"} :
          Arrives(r, a, KindOf[d], {d}, step, Unnamed, NoContent)
    BY <1>3 DEF Fetch
  <2>2. /\ {d} \in SUBSET Docs /\ KindOf[d] \in Kinds
        /\ \E e \in Docs : {d} = {e} /\ KindOf[d] = KindOf[e]
    BY DocsHaveKinds
  <2>3. CASE step = "fetch"  BY <2>1, <2>2, <2>3, ArrivesInv
  <2>4. CASE step = "finalist"  BY <2>1, <2>2, <2>4, ArrivesInv
  <2> QED  BY <2>3, <2>4
<1>4. CASE Delete(r, a)
  <2>1. PICK d \in Docs : Arrives(r, a, KindOf[d], {d}, "remove", Unnamed, NoContent)
    BY <1>4 DEF Delete, Own
  <2>2. /\ {d} \in SUBSET Docs /\ KindOf[d] \in Kinds
        /\ \E e \in Docs : {d} = {e} /\ KindOf[d] = KindOf[e]
    BY DocsHaveKinds
  <2> QED  BY <2>1, <2>2, ArrivesInv
<1>5. CASE Simulate(r, a)
  <2>1. PICK b \in Docs, t \in Docs :
          /\ KindOf[b] = "base" /\ KindOf[t] = "roster"
          /\ Arrives(r, a, "base", {b, t}, "resolve", Unnamed, NoContent)
    BY <1>5 DEF Simulate, Own
  <2> QED  BY <2>1, ArrivesInv DEF Kinds, Single
<1>6. CASE List(r, a)  BY <1>6, ListInv
<1> QED  BY <1>1, <1>2, <1>3, <1>4, <1>5, <1>6 DEF Arrive

\* A statement fails, or a request is answered something that claims nothing.
LEMMA Refused ==
  ASSUME IInv, NEW r \in Requests, NEW answer \in {"error", "other", "shown", "busy", "none"},
         Answer(r, answer), ~At(r, "compute"), SlotsSame, TableInv', Watch
  PROVE  IInv' /\ \A w \in Requests : Claims(w)
<1>1. HandlerInv(r)' /\ req'[r].step = "idle" /\ \E new : req' = [req EXCEPT ![r] = new]
  BY Answered DEF AnswerNames
<1>2. Claims(r)  BY Answered DEF Claims, AnswerNames
<1>3. SlotInv'  BY <1>1, NoSlot
<1> QED  BY <1>1, <1>2, <1>3, OneStep

\* A request is told that its document is missing.
LEMMA Missing ==
  ASSUME IInv, NEW r \in Requests, Answer(r, "missing"), ~At(r, "compute"), SlotsSame, TableInv',
         \E d \in req[r].ids : <<d, Absent>> \in Throughout(r), Watch
  PROVE  IInv' /\ \A w \in Requests : Claims(w)
<1>1. HandlerInv(r)' /\ req'[r].step = "idle" /\ \E new : req' = [req EXCEPT ![r] = new]
  BY Answered DEF AnswerNames
<1>2. Claims(r)  BY Answered DEF Claims, AnswerNames
<1>3. SlotInv'  BY <1>1, NoSlot
<1> QED  BY <1>1, <1>2, <1>3, OneStep

LEMMA InsertInv ==
  ASSUME IInv, NEW r \in Requests, Insert(r), Watch
  PROVE  IInv' /\ \A w \in Requests : Claims(w)
<1> DEFINE row == Row(req[r].account, SchemaVersion, req[r].name, Body(SchemaVersion, req[r].content))
<1>1. /\ At(r, "insert") /\ SlotsSame /\ ~At(r, "idle") /\ ~At(r, "compute")
      /\ HandlerInv(r) /\ req[r] \in Handlers
  BY Busy DEF Insert, At, IInv
<1>2. row \in Rows /\ row # Absent /\ row.version = row.body.format
  BY <1>1, RowsAreThere DEF Row, Body, Rows, Versions, Handlers
<1>3. PICK d \in Docs \ issued :
         \/ rows' = Put(d, row) /\ issued' = issued \cup {d} /\ Answer(r, "created")
         \/ Answer(r, "error") /\ \/ rows' = Put(d, row) /\ issued' = issued \cup {d}
                                  \/ TableSame
  BY DEF Insert, Fails
<1>4. TableInv'  BY <1>2, <1>3, PutKept, TableKept DEF IInv
<1>5. CASE Answer(r, "error")  BY <1>1, <1>4, <1>5, Refused
<1>6. CASE rows' = Put(d, row) /\ issued' = issued \cup {d} /\ Answer(r, "created")
  <2>1. HandlerInv(r)' /\ req'[r].step = "idle" /\ \E new : req' = [req EXCEPT ![r] = new]
    BY <1>6, Answered DEF AnswerNames
  <2>2. rows'[d] = row /\ row.owner = req[r].account /\ row.body = Mine(r)
    BY <1>2, <1>6, PutKept DEF IInv, Row, Mine
  <2>3. Shown(r, d, rows') = <<d, Mine(r)>> /\ d \in issued' \ issued
    BY <2>2, <1>2, <1>3, <1>6 DEF Shown
  <2>4. Claims(r)  BY <2>3, <1>6, Answered DEF Claims, AnswerNames
  <2>5. SlotInv'  BY <1>1, <2>1, NoSlot
  <2> QED  BY <2>1, <2>4, <2>5, <1>4, OneStep
<1> QED  BY <1>3, <1>5, <1>6

\* What an answer leaves to prove: its claim, and that it ends no computation.
LEMMA Replied ==
  ASSUME IInv, NEW r \in Requests, NEW answer \in AnswerNames, Answer(r, answer), Watch,
         Claims(r), ~At(r, "compute"), SlotsSame, TableInv'
  PROVE  IInv' /\ \A w \in Requests : Claims(w)
<1>1. HandlerInv(r)' /\ req'[r].step = "idle" /\ \E new : req' = [req EXCEPT ![r] = new]
  BY Answered
<1>2. SlotInv'  BY <1>1, NoSlot
<1> QED  BY <1>1, <1>2, OneStep

\* A request that goes on.
LEMMA Proceeds ==
  ASSUME IInv, NEW r \in Requests, NEW new, req' = [req EXCEPT ![r] = new], Watch,
         req'[r].step \notin {"idle", "compute"}, ~At(r, "compute"), SlotsSame,
         TableInv', HandlerInv(r)'
  PROVE  IInv' /\ \A w \in Requests : Claims(w)
<1>1. Claims(r)  BY GoesOn
<1>2. SlotInv'  BY NoSlot
<1> QED  BY <1>1, <1>2, OneStep

LEMMA ReadInv ==
  ASSUME IInv, NEW r \in Requests, NEW step \in {"find", "fetch", "finalist"}, Read(r, step), Watch
  PROVE  IInv' /\ \A w \in Requests : Claims(w)
<1> DEFINE d == TheId(r)
<1>1. /\ At(r, step) /\ ~At(r, "idle") /\ ~At(r, "compute") /\ TableSame /\ SlotsSame
      /\ HandlerInv(r) /\ req[r] \in Handlers /\ OneId(r) /\ req[r].step \in Single
  BY Busy DEF Read, At, IInv, HandlerInv, Single
<1>2. /\ d \in Docs /\ req[r].ids = {d} /\ req[r].kind = KindOf[d]
      /\ TheRow(r) = Found(req[r].account, KindOf[d], d)
  BY <1>1, ItsRow
<1>3. TableInv /\ TableInv'  BY <1>1, TableKept DEF IInv
<1>4. CASE TheRow(r) = Absent /\ Answer(r, "missing")
  <2>1. <<d, Absent>> \in Throughout(r)
    BY <1>2, <1>4, NotFound DEF Throughout
  <2> QED  BY <2>1, <1>1, <1>2, <1>3, <1>4, Missing
<1>5. CASE Answer(r, "error") \/ Answer(r, "other") \/ Answer(r, "shown")
  BY <1>1, <1>3, <1>5, Refused
<1>6. CASE /\ step # "fetch" /\ TheRow(r) # Absent /\ Supported(TheRow(r))
           /\ req' = [req EXCEPT ![r] = [@ EXCEPT !.copy = TheRow(r),
                            !.step = IF step = "find" THEN "write" ELSE "slot"]]
  <2>1. TheRow(r) \in Rows /\ TheRow(r).owner = req[r].account /\ TheRow(r).version = SchemaVersion
    BY <1>2, <1>3, <1>6, IsFound
  <2>2. req'[r] = [req[r] EXCEPT !.copy = TheRow(r), !.step = IF step = "find" THEN "write" ELSE "slot"]
    BY <1>6 DEF IInv
  <2>3. /\ req'[r] \in Handlers /\ req'[r].copy = TheRow(r) /\ req'[r].step \in {"write", "slot"}
        /\ req'[r].ids = req[r].ids /\ req'[r].kind = req[r].kind
        /\ req'[r].account = req[r].account
    BY <2>1, <2>2, <1>1 DEF Handlers, Single, Pair
  <2>4. HandlerInv(r)'
    BY <2>1, <2>3, <1>1, <1>6 DEF HandlerInv, OneId, At, Single, Pair
  <2> QED  BY <1>1, <1>3, <1>6, <2>3, <2>4, Proceeds
<1> QED  BY <1>4, <1>5, <1>6 DEF Read, Fails

LEMMA WriteInv ==
  ASSUME IInv, NEW r \in Requests, Write(r), Watch
  PROVE  IInv' /\ \A w \in Requests : Claims(w)
<1> DEFINE d == TheId(r)
<1>1. /\ At(r, "write") /\ ~At(r, "idle") /\ ~At(r, "compute") /\ SlotsSame /\ issued' = issued
      /\ HandlerInv(r) /\ req[r] \in Handlers /\ OneId(r) /\ req[r].step \in Single
  BY Busy DEF Write, At, IInv, HandlerInv, Single
<1>2. d \in Docs /\ req[r].ids = {d}  BY <1>1, ItsRow
<1>3. req[r].copy \in Rows /\ req[r].copy.owner = req[r].account /\ req[r].copy.version = SchemaVersion
  BY <1>1 DEF HandlerInv
<1>4. /\ Updated(r) \in Rows /\ Updated(r).owner = req[r].account
      /\ Updated(r).version = SchemaVersion /\ Updated(r).body = Mine(r)
  <2> DEFINE copy == req[r].copy  body == Body(SchemaVersion, req[r].content)
             name == IF req[r].name = Unnamed THEN copy.name ELSE req[r].name
  <2>1. Updated(r) = [copy EXCEPT !.name = name, !.body = body]  BY DEF Updated
  <2>2. body \in [format : Versions, content : Contents \cup {NoContent}]
    BY <1>1 DEF Body, Versions, Handlers
  <2>3. name \in Names \cup {Unnamed}  BY <1>1, <1>3 DEF Rows, Handlers
  <2> HIDE DEF name, body
  <2>4. /\ Updated(r) \in Rows /\ Updated(r).owner = copy.owner
        /\ Updated(r).version = copy.version /\ Updated(r).body = body
    BY <2>1, <2>2, <2>3, <1>3 DEF Rows
  <2> QED  BY <2>4, <1>3 DEF Mine, body
<1>5. Updated(r) # Absent /\ Updated(r).version = Updated(r).body.format
  BY <1>4, RowsAreThere DEF Mine, Body
<1>6. rows' = rows \/ rows' = Put(d, Updated(r))
  BY DEF Write, Written
<1>7. TableInv'
  BY <1>1, <1>2, <1>4, <1>5, <1>6, PutKept, TableKept DEF IInv, TableSame
<1>8. CASE Answer(r, "error")  BY <1>1, <1>7, <1>8, Refused
<1>9. CASE rows' = Written(d, Updated(r)) /\ rows'[d] = Absent /\ Answer(r, "missing")
  <2>1. <<d, Absent>> \in Throughout(r)
    BY <1>2, <1>9 DEF Throughout, Shown
  <2> QED  BY <2>1, <1>1, <1>2, <1>7, <1>9, Missing
<1>10. CASE rows' = Written(d, Updated(r)) /\ rows'[d] # Absent /\ Answer(r, "replaced")
  <2>1. rows'[d] = Updated(r)
    BY <1>2, <1>10 DEF Written, Put, IInv, TableInv
  <2>2. Shown(r, d, rows') = <<d, Mine(r)>>
    BY <2>1, <1>4, <1>5 DEF Shown
  <2>3. <<d, Mine(r)>> \in Throughout(r)
    BY <1>2, <2>2 DEF Throughout
  <2>4. Claims(r)
    BY <2>3, <1>2, <1>10, Answered DEF Claims, AnswerNames
  <2> QED  BY <2>4, <1>1, <1>7, <1>10, Replied DEF AnswerNames
<1> QED  BY <1>8, <1>9, <1>10 DEF Write, Fails

LEMMA RemoveInv ==
  ASSUME IInv, NEW r \in Requests, Remove(r), Watch
  PROVE  IInv' /\ \A w \in Requests : Claims(w)
<1> DEFINE d == TheId(r)
<1>1. /\ At(r, "remove") /\ ~At(r, "idle") /\ ~At(r, "compute") /\ SlotsSame /\ issued' = issued
      /\ HandlerInv(r) /\ req[r] \in Handlers /\ OneId(r) /\ req[r].step \in Single
  BY Busy DEF Remove, At, IInv, HandlerInv, Single
<1>2. /\ d \in Docs /\ req[r].ids = {d}
      /\ TheRow(r) = Found(req[r].account, KindOf[d], d)
  BY <1>1, ItsRow
<1>3. rows' = rows \/ rows' = Put(d, Absent)  BY DEF Remove, Erased
<1>4. TableInv'
  BY <1>1, <1>2, <1>3, PutKept, TableKept DEF IInv, TableSame
<1>5. CASE Answer(r, "error")  BY <1>1, <1>4, <1>5, Refused
<1>6. CASE TheRow(r) = Absent /\ Answer(r, "missing")
  <2>1. <<d, Absent>> \in Throughout(r)
    BY <1>2, <1>6, NotFound DEF Throughout
  <2> QED  BY <2>1, <1>1, <1>2, <1>4, <1>6, Missing
<1>7. CASE rows' = Erased(d) /\ Answer(r, "removed")
  <2>1. rows'[d] = Absent  BY <1>2, <1>7 DEF Erased, Put, IInv, TableInv
  <2>2. Claims(r)
    BY <2>1, <1>2, <1>7, Answered DEF Claims, AnswerNames
  <2> QED  BY <2>2, <1>1, <1>4, <1>7, Replied DEF AnswerNames
<1> QED  BY <1>5, <1>6, <1>7 DEF Remove, Fails

\* refs::resolve reads the base, then the roster; each was there when read.
LEMMA ResolveInv ==
  ASSUME IInv, NEW r \in Requests, NEW kind \in {"base", "roster"}, Resolve(r, kind), Watch
  PROVE  IInv' /\ \A w \in Requests : Claims(w)
<1> DEFINE d == CHOOSE x \in req[r].ids : KindOf[x] = kind
           row == Found(req[r].account, kind, d)
<1>1. /\ At(r, "resolve") /\ ~At(r, "idle") /\ ~At(r, "compute") /\ TableSame /\ SlotsSame
      /\ HandlerInv(r) /\ req[r] \in Handlers /\ req[r].copy = Absent /\ TwoIds(r)
      /\ kind = "roster" => req[r].base # Absent
  BY Busy DEF Resolve, At, IInv, HandlerInv, Pair
<1>2. d \in req[r].ids /\ d \in Docs /\ KindOf[d] = kind
  BY <1>1 DEF TwoIds
<1>3. row = Found(req[r].account, KindOf[d], d)  BY <1>2
<1> HIDE DEF d
<1>4. TableInv /\ TableInv'  BY <1>1, TableKept DEF IInv
<1>5. CASE row = Absent /\ Answer(r, "missing")
  <2>1. <<d, Absent>> \in Throughout(r)
    BY <1>2, <1>3, <1>5, NotFound DEF Throughout
  <2> QED  BY <2>1, <1>1, <1>2, <1>4, <1>5, Missing
<1>6. CASE Answer(r, "error") \/ Answer(r, "other")
  BY <1>1, <1>4, <1>6, Refused
<1>7. CASE /\ row # Absent /\ Supported(row)
           /\ req' = [req EXCEPT ![r] = [req[r] EXCEPT !.step = IF kind = "roster" THEN "slot" ELSE @,
                          !.base = IF kind = "base" THEN row ELSE @,
                          !.roster = IF kind = "roster" THEN row ELSE @]]
  <2>1. row \in Rows /\ Shown(r, d, rows) = <<d, row.body>>
    BY <1>2, <1>3, <1>4, <1>7, IsFound
  <2> HIDE DEF row
  <2> DEFINE new == [req[r] EXCEPT !.step = IF kind = "roster" THEN "slot" ELSE req[r].step,
                          !.base = IF kind = "base" THEN row ELSE req[r].base,
                          !.roster = IF kind = "roster" THEN row ELSE req[r].roster]
  <2>2. req'[r] = new
    <3>1. req' = [req EXCEPT ![r] = new]  BY <1>7
    <3> HIDE DEF new
    <3> QED  BY <3>1 DEF IInv
  <2>3. /\ req'[r] \in Handlers /\ req'[r].copy = Absent /\ req'[r].ids = req[r].ids
        /\ kind = "base" => /\ req'[r].step = "resolve" /\ req'[r].base = row
                            /\ req'[r].roster = req[r].roster
        /\ kind = "roster" => /\ req'[r].step = "slot" /\ req'[r].roster = row
                              /\ req'[r].base = req[r].base
    BY <2>1, <2>2, <1>1, Zenon DEF Handlers, Single, Pair, At, new
  <2>4. <<d, row.body>> \in during'[r] /\ during[r] \subseteq during'[r]
    BY <2>1, <2>3, <1>1, <1>2 DEF Watch, Throughout
  <2>5. TwoIds(r)'  BY <2>3, <1>1 DEF TwoIds
  <2>6. (kind = "base" => BaseWasThere(r)') /\ (kind = "roster" => RosterWasThere(r)')
    BY <2>3, <2>4, <1>2 DEF BaseWasThere, RosterWasThere
  <2>7. /\ req[r].base # Absent => BaseWasThere(r)
        /\ req[r].roster # Absent => RosterWasThere(r)
    BY <1>1 DEF HandlerInv, Pair, At
  <2>8. /\ kind = "base" /\ RosterWasThere(r) => RosterWasThere(r)'
        /\ kind = "roster" /\ BaseWasThere(r) => BaseWasThere(r)'
    BY <2>3, <2>4 DEF BaseWasThere, RosterWasThere
  <2>9. HandlerInv(r)'
    <3>1. /\ req'[r] \in Handlers \cup Idles /\ req'[r].step \notin Single
          /\ req'[r].step # "write" /\ req'[r].copy = Absent
      BY <2>3 DEF Single
    <3>2. /\ req'[r].base # Absent => BaseWasThere(r)'
          /\ req'[r].roster # Absent => RosterWasThere(r)'
      BY <2>3, <2>6, <2>7, <2>8
    <3>3. req'[r].step # "resolve" => req'[r].base # Absent /\ req'[r].roster # Absent
      BY <2>3, <2>1, <1>1, RowsAreThere
    <3> QED  BY <3>1, <3>2, <3>3, <2>5 DEF HandlerInv, At
  <2> QED  BY <1>1, <1>4, <1>7, <2>3, <2>9, Proceeds
<1> QED  BY <1>5, <1>6, <1>7 DEF Resolve, Fails, d

LEMMA TakeSlotInv ==
  ASSUME IInv, NEW r \in Requests, TakeSlot(r), Watch
  PROVE  IInv' /\ \A w \in Requests : Claims(w)
<1>1. /\ At(r, "slot") /\ ~At(r, "idle") /\ ~At(r, "compute") /\ TableSame
      /\ HandlerInv(r) /\ req[r] \in Handlers /\ req[r].account \in Accounts
  BY Busy DEF TakeSlot, At, IInv
<1>0. PICK a \in Accounts : a = req[r].account  BY <1>1
<1>2. TableInv'  BY <1>1, TableKept DEF IInv
<1>3. CASE (Answer(r, "other") \/ Answer(r, "busy")) /\ UNCHANGED counts
  <2>1. SlotsSame  BY <1>3 DEF TakeSlot, SlotsSame
  <2> QED  BY <2>1, <1>1, <1>2, <1>3, Refused
<1>4. CASE /\ counts[a] < MaxSlots /\ Becomes(r, "compute")
           /\ counts' = [counts EXCEPT ![a] = @ + 1]
  <2>1. /\ req' = [req EXCEPT ![r] = [req[r] EXCEPT !.step = "compute"]]
        /\ req'[r] = [req[r] EXCEPT !.step = "compute"] /\ orphans' = orphans
    BY <1>4 DEF Becomes, TakeSlot, IInv
  <2>2. /\ req'[r] \in Handlers /\ req'[r].step = "compute" /\ req'[r].account = a
        /\ req'[r].ids = req[r].ids /\ req'[r].copy = req[r].copy
        /\ req'[r].base = req[r].base /\ req'[r].roster = req[r].roster
    BY <2>1, <1>0, <1>1 DEF Handlers, Single, Pair
  <2>3. during[r] \subseteq during'[r]
    BY <2>2, <1>1 DEF Watch, Throughout
  <2>4. HandlerInv(r)'
    BY <2>2, <2>3, <1>1 DEF HandlerInv, TwoIds, BaseWasThere, RosterWasThere, Single, Pair, At
  <2>5. Claims(r)  BY <2>2, GoesOn
  <2>6. \A w \in Requests \ {r} : req'[w] = req[w]  BY <2>1 DEF IInv
  <2>7. /\ \A b \in Accounts \ {a} : Computers(b)' = Computers(b)
        /\ Cardinality(Computers(a)') = Cardinality(Computers(a)) + 1
        /\ Cardinality(Computers(a)) \in Nat
    BY <2>2, <2>6, <1>0, <1>1, OneSlot DEF IInv
  <2>8. /\ \A b \in Accounts \ {a} : Computing(b)' = Computing(b) /\ counts'[b] = counts[b]
        /\ Computing(a)' = Computing(a) + 1 /\ counts'[a] = counts[a] + 1
    <3>1. \A b : /\ Computing(b) = orphans[b] + Cardinality(Computers(b))
                 /\ Computing(b)' = orphans'[b] + Cardinality(Computers(b)')
      BY DEF Computing, Computers
    <3>2. counts \in [Accounts -> Nat] /\ orphans[a] \in Nat  BY DEF IInv, SlotInv
    <3> QED  BY <3>1, <3>2, <2>1, <2>7, <1>0, <1>4
  <2>9. SlotInv'
    BY <2>1, <2>8, <1>1, <1>4, BoundsAreNumbers DEF IInv, SlotInv, SlotsAreHeld
  <2> QED  BY <2>1, <2>4, <2>5, <2>9, <1>2, OneStep
<1> QED  BY <1>0, <1>3, <1>4 DEF TakeSlot

\* A computation of an account ends, with its request or without.
LEMMA SlotFreed ==
  ASSUME SlotInv, NEW a \in Accounts, counts' = Freed(a), orphans' \in [Accounts -> Nat],
         Computing(a)' = Computing(a) - 1, Computing(a)' \in Nat,
         \A b \in Accounts \ {a} : Computing(b)' = Computing(b)
  PROVE  SlotInv'
<1>1. counts[a] = Computing(a)' + 1 /\ counts[a] \in Nat
  BY DEF SlotInv, SlotsAreHeld
<1>2. counts' \in [Accounts -> Nat] /\ counts'[a] = Computing(a)'
  BY <1>1 DEF SlotInv, Freed
<1>3. \A b \in Accounts \ {a} : counts'[b] = counts[b]  BY DEF SlotInv, Freed
<1> QED  BY <1>1, <1>2, <1>3, BoundsAreNumbers DEF SlotInv, SlotsAreHeld

LEMMA ComputedInv ==
  ASSUME IInv, NEW r \in Requests, Computed(r), Watch
  PROVE  IInv' /\ \A w \in Requests : Claims(w)
<1>0. PICK a \in Accounts : a = req[r].account
  BY Busy DEF Computed, At, IInv
<1>1. /\ At(r, "compute") /\ ~At(r, "idle") /\ TableSame /\ orphans' = orphans
      /\ HandlerInv(r) /\ req[r] \in Handlers 
      /\ Answer(r, "computed") /\ counts' = Freed(a)
  BY <1>0, Busy DEF Computed, At, IInv
<1>2. TableInv'  BY <1>1, TableKept DEF IInv
<1>3. HandlerInv(r)' /\ req'[r].step = "idle" /\ \E new : req' = [req EXCEPT ![r] = new]
  BY <1>1, Answered DEF AnswerNames
<1>4. req[r].copy = Absent => BaseWasThere(r) /\ RosterWasThere(r)
  BY <1>1 DEF HandlerInv, At, Pair
<1>5. req[r]["base"] = req[r].base /\ req[r]["roster"] = req[r].roster  OBVIOUS
<1>6. Claims(r)
  BY <1>1, <1>4, <1>5, Answered DEF Claims, AnswerNames, Throughout, BaseWasThere, RosterWasThere
<1>7. \A w \in Requests \ {r} : req'[w] = req[w]  BY <1>3 DEF IInv
<1>8. /\ \A b \in Accounts \ {a} : Computers(b)' = Computers(b)
      /\ Cardinality(Computers(a)') = Cardinality(Computers(a)) - 1
      /\ Cardinality(Computers(a)) \in Nat /\ Cardinality(Computers(a)') \in Nat
  <2>1. Computers(a)' \in SUBSET Requests  BY DEF Computers
  <2>2. Cardinality(Computers(a)') \in Nat  BY <2>1, Counting
  <2> QED  BY <2>2, <1>0, <1>1, <1>3, <1>7, OneSlot DEF IInv
<1>9. /\ \A b \in Accounts \ {a} : Computing(b)' = Computing(b)
      /\ Computing(a)' = Computing(a) - 1 /\ Computing(a)' \in Nat
  <2>1. \A b : /\ Computing(b) = orphans[b] + Cardinality(Computers(b))
               /\ Computing(b)' = orphans'[b] + Cardinality(Computers(b)')
    BY DEF Computing, Computers
  <2>2. orphans[a] \in Nat  BY DEF IInv, SlotInv
  <2> QED  BY <2>1, <2>2, <1>1, <1>8
<1>10. SlotInv'  BY <1>1, <1>9, SlotFreed DEF IInv, SlotInv
<1> QED  BY <1>2, <1>3, <1>6, <1>10, OneStep

LEMMA DropInv ==
  ASSUME IInv, NEW r \in Requests, Drop(r), Watch
  PROVE  IInv' /\ \A w \in Requests : Claims(w)
<1>0. PICK a \in Accounts : a = req[r].account
  BY Busy DEF Drop, IInv
<1>1. ~At(r, "idle") /\ TableSame /\ req' = [req EXCEPT ![r] = Idle] /\ LeftBehind(r)
  BY DEF Drop
<1>2. Answer(r, "none")  BY <1>1 DEF Answer, Idle
<1>3. HandlerInv(r)' /\ req'[r].step = "idle"  BY <1>2, Answered DEF AnswerNames
<1>4. Claims(r)  BY <1>2, Answered DEF Claims, AnswerNames
<1>5. TableInv'  BY <1>1, TableKept DEF IInv
<1>6. CASE At(r, "compute")
  <2>1. /\ orphans' = [orphans EXCEPT ![a] = @ + 1] /\ counts' = counts
        /\ counts \in [Accounts -> Nat] /\ orphans \in [Accounts -> Nat]
    BY <1>0, <1>1, <1>6 DEF LeftBehind, IInv, SlotInv
  <2>2. \A w \in Requests \ {r} : req'[w] = req[w]  BY <1>1 DEF IInv
  <2>3. /\ \A b \in Accounts \ {a} : Computers(b)' = Computers(b)
        /\ Cardinality(Computers(a)') = Cardinality(Computers(a)) - 1
        /\ Cardinality(Computers(a)) \in Nat
    BY <2>2, <1>0, <1>3, <1>6, OneSlot DEF IInv
  <2>4. \A b : /\ Computing(b) = orphans[b] + Cardinality(Computers(b))
               /\ Computing(b)' = orphans'[b] + Cardinality(Computers(b)')
    BY DEF Computing, Computers
  <2>5. \A b \in Accounts : Computing(b)' = Computing(b)
    BY <2>1, <2>3, <2>4
  <2>6. SlotInv'  BY <2>1, <2>5 DEF IInv, SlotInv, SlotsAreHeld
  <2> QED  BY <2>6, <1>1, <1>3, <1>4, <1>5, OneStep
<1>7. CASE ~At(r, "compute")
  <2>1. SlotsSame  BY <1>1, <1>7 DEF LeftBehind
  <2> QED  BY <2>1, <1>2, <1>5, <1>7, Refused
<1> QED  BY <1>6, <1>7

\* A step in which no request takes part.
LEMMA NoRequest ==
  ASSUME IInv, req' = req, Watch, TableInv', SlotInv'
  PROVE  IInv' /\ \A w \in Requests : Claims(w)
<1>1. \A w \in Requests : HandlerInv(w)' /\ Claims(w)  BY Untouched DEF IInv
<1>2. during' = [w \in Requests |-> during'[w]]  BY DEF Watch
<1> QED  BY <1>1, <1>2 DEF IInv

LEMMA OrphanEndsInv ==
  ASSUME IInv, NEW a \in Accounts, OrphanEnds(a), Watch
  PROVE  IInv' /\ \A w \in Requests : Claims(w)
<1>1. /\ orphans[a] > 0 /\ orphans' = [orphans EXCEPT ![a] = @ - 1] /\ counts' = Freed(a)
      /\ TableSame /\ req' = req /\ orphans \in [Accounts -> Nat]
  BY DEF OrphanEnds, IInv, SlotInv
<1>2. \A b : /\ Computing(b) = orphans[b] + Cardinality(Computers(b))
             /\ Computing(b)' = orphans'[b] + Cardinality(Computers(b)')
             /\ Computers(b)' = Computers(b)
  BY <1>1 DEF Computing, Computers, At
<1>3. Cardinality(Computers(a)) \in Nat
  <2>1. Computers(a) \in SUBSET Requests  BY DEF Computers
  <2> QED  BY <2>1, Counting
<1>4. /\ orphans' \in [Accounts -> Nat]
      /\ Computing(a)' = Computing(a) - 1 /\ Computing(a)' \in Nat
      /\ \A b \in Accounts \ {a} : Computing(b)' = Computing(b)
  BY <1>1, <1>2, <1>3
<1>5. SlotInv'  BY <1>1, <1>4, SlotFreed DEF IInv
<1>6. TableInv'  BY <1>1, TableKept DEF IInv
<1> QED  BY <1>1, <1>5, <1>6, NoRequest

LEMMA NewerBuildInv ==
  ASSUME IInv, NEW d \in Docs, NewerBuild(d), Watch
  PROVE  IInv' /\ \A w \in Requests : Claims(w)
<1>1. PICK c \in Contents :
        rows' = Put(d, [rows[d] EXCEPT !.version = Newer, !.body = Body(Newer, c)])
  BY DEF NewerBuild
<1>2. rows[d] \in Rows /\ SlotsSame /\ issued' = issued /\ req' = req
  BY DEF NewerBuild, IInv, TableInv
<1> DEFINE row == [rows[d] EXCEPT !.version = Newer, !.body = Body(Newer, c)]
<1>3. row \in Rows /\ row.version = row.body.format
  BY <1>2 DEF Rows, Body, Versions
<1> HIDE DEF row
<1>4. TableInv'  BY <1>1, <1>2, <1>3, PutKept DEF IInv, row
<1>5. SlotInv'  BY <1>2, SlotsKept DEF IInv
<1> QED  BY <1>2, <1>4, <1>5, NoRequest

LEMMA RestartInv ==
  ASSUME IInv, Restart, Watch
  PROVE  IInv' /\ \A w \in Requests : Claims(w)
<1>1. /\ req' = [r \in Requests |-> Idle] /\ TableSame
      /\ counts' = [a \in Accounts |-> 0] /\ orphans' = [a \in Accounts |-> 0]
  BY DEF Restart
<1>2. Idle \in Idles /\ Idle.step = "idle" /\ Idle.answer = "none"
  BY DEF Idle, Idles, AnswerNames
<1>3. \A w \in Requests : HandlerInv(w)'
  BY <1>1, <1>2 DEF HandlerInv, At, Single, Pair
<1>4. \A w \in Requests, answer \in AnswerNames \ {"none"} : ~Answers(w, answer)
  BY <1>1, <1>2 DEF Answers, Idle
<1>5. \A w \in Requests : Claims(w)  BY <1>4 DEF Claims, AnswerNames
<1>6. \A b : Computers(b)' = {}  BY <1>1, <1>2 DEF Computers, At
<1>7. \A b : Computing(b)' = orphans'[b] + Cardinality(Computers(b)')
  BY DEF Computing, Computers
<1>8. \A b \in Accounts : Computing(b)' = 0  BY <1>1, <1>6, <1>7, FS_EmptySet
<1>9. SlotInv'  BY <1>1, <1>8, BoundsAreNumbers DEF SlotInv, SlotsAreHeld
<1>10. TableInv'  BY <1>1, TableKept DEF IInv
<1> QED  BY <1>1, <1>3, <1>5, <1>9, <1>10 DEF IInv, Watch

LEMMA StepInv == IInv /\ Next => IInv' /\ \A w \in Requests : Claims(w)
<1> SUFFICES ASSUME IInv, Next PROVE IInv' /\ \A w \in Requests : Claims(w)  OBVIOUS
<1>1. Watch  BY DEF Next
<1>2. ASSUME NEW r \in Requests, NEW a \in Accounts, Arrive(r, a)
      PROVE  IInv' /\ \A w \in Requests : Claims(w)
  BY <1>1, <1>2, ArriveInv
<1>3. ASSUME NEW r \in Requests, Handle(r)
      PROVE  IInv' /\ \A w \in Requests : Claims(w)
  BY <1>1, <1>3, InsertInv, ReadInv, WriteInv, RemoveInv, ResolveInv, TakeSlotInv, ComputedInv
     DEF Handle
<1>4. ASSUME NEW r \in Requests, Drop(r)
      PROVE  IInv' /\ \A w \in Requests : Claims(w)
  BY <1>1, <1>4, DropInv
<1>5. ASSUME NEW a \in Accounts, OrphanEnds(a)
      PROVE  IInv' /\ \A w \in Requests : Claims(w)
  BY <1>1, <1>5, OrphanEndsInv
<1>6. ASSUME NEW d \in Docs, NewerBuild(d)
      PROVE  IInv' /\ \A w \in Requests : Claims(w)
  BY <1>1, <1>6, NewerBuildInv
<1>7. ASSUME Restart PROVE IInv' /\ \A w \in Requests : Claims(w)
  BY <1>1, <1>7, RestartInv
<1> QED  BY <1>2, <1>3, <1>4, <1>5, <1>6, <1>7 DEF Next

LEMMA StutterInv == IInv /\ UNCHANGED vars => IInv'
<1> SUFFICES ASSUME IInv, UNCHANGED vars PROVE IInv'  OBVIOUS
<1>1. TableInv' /\ SlotInv'
  BY TableKept, SlotsKept DEF IInv, vars, TableSame, SlotsSame
<1>2. \A r \in Requests : HandlerInv(r)'
  BY SMTT(30) DEF IInv, vars, HandlerInv, OneId, TwoIds, BaseWasThere, RosterWasThere, At
<1> QED  BY <1>1, <1>2 DEF IInv, vars

THEOREM Invariant == Spec => []IInv
<1>1. IInv /\ [Next]_vars => IInv'  BY StepInv, StutterInv
<1> QED  BY <1>1, InitInv, PTL DEF Spec

\* What a request is answered was true of the account's own documents at some
\* moment while it ran.
THEOREM Truthful == Spec => AnswersWereTrue
<1>1. IInv /\ [Next]_vars => [\A r \in Requests : Claims(r)]_vars  BY StepInv
<1>2. Spec => [][\A r \in Requests : Claims(r)]_vars  BY <1>1, Invariant, PTL DEF Spec
<1> QED  BY <1>2 DEF AnswersWereTrue, Claims

\* No document comes back after it was deleted, whatever had read it before.
THEOREM Deleted == Spec => DeletedStaysDeleted
<1> DEFINE Step == \A d \in issued : rows[d] = Absent => rows'[d] = Absent
<1>1. IInv /\ [Next]_vars => [Step]_vars
  <2> SUFFICES ASSUME IInv, Next, NEW d \in issued, rows[d] = Absent PROVE rows'[d] = Absent
    OBVIOUS
  <2>1. d \in Docs /\ rows \in [Docs -> {Absent} \cup Rows]  BY DEF IInv, TableInv
  <2>2. CASE TableSame  BY <2>2 DEF TableSame
  <2>3. CASE \E r \in Requests : Insert(r)
    BY <2>1, <2>3 DEF Insert, Put, TableSame
  <2>4. CASE \E r \in Requests : Write(r)
    BY <2>1, <2>4 DEF Write, Written, Put
  <2>5. CASE \E r \in Requests : Remove(r)
    BY <2>1, <2>5 DEF Remove, Erased, Put
  <2>6. CASE \E x \in Docs : NewerBuild(x)
    BY <2>1, <2>6 DEF NewerBuild, Put
  <2>7. \A r \in Requests, a \in Accounts : Arrive(r, a) => TableSame
    BY DEF Arrive, Post, Replace, Fetch, Delete, Simulate, List, Arrives
  <2>8. \A r \in Requests : Handle(r) => TableSame \/ Insert(r) \/ Write(r) \/ Remove(r)
    BY DEF Handle, Read, Resolve, TakeSlot, Computed
  <2>9. /\ \A r \in Requests : Drop(r) => TableSame
        /\ \A a \in Accounts : OrphanEnds(a) => TableSame
        /\ Restart => TableSame
    BY DEF Drop, OrphanEnds, Restart
  <2> QED  BY <2>2, <2>3, <2>4, <2>5, <2>6, <2>7, <2>8, <2>9 DEF Next
<1> QED  BY <1>1, Invariant, PTL DEF Spec, DeletedStaysDeleted

\* A document's version is always the one its body was written with.
THEOREM Fit == Spec => []VersionsFit
<1>1. IInv => VersionsFit  BY DEF IInv, TableInv
<1> QED  BY <1>1, Invariant, PTL

\* A slot is held for each computation of an account, with or without its
\* request, and for nothing else; no account computes more than it may.
THEOREM Held == Spec => []SlotsAreHeld
<1>1. IInv => SlotsAreHeld  BY DEF IInv, SlotInv
<1> QED  BY <1>1, Invariant, PTL
=============================================================================
