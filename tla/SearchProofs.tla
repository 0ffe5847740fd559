----------------------------- MODULE SearchProofs -----------------------------
(***************************************************************************)
(* The finalists of a search, for any number of assignments, any scores,   *)
(* any limit of the list and any tolerance: nothing better than a finalist *)
(* is lost, and the answer is no worse than the start, as far as that is   *)
(* so.  A stop is seen soon.                                               *)
(*                                                                         *)
(* What an offer does to the list is one of three things (Offered): the    *)
(* list stays, it grows, or one entry gives way to a better one.  The      *)
(* argument is about these, and the rest of the search leaves the list     *)
(* alone.                                                                  *)
(***************************************************************************)
EXTENDS Search, FiniteSetTheorems, TLAPS

OneByKey == \A e, f \in top : Key[e] = Key[f] => e = f

\* The start gives way to better arrangements of its crew only, and its crew
\* falls off the list only when that is full of none that are worse.
StartKept ==
  /\ \E e \in top : inner[e] >= inner[Initial]
  /\ \A e \in top : Key[e] = Key[Initial] => e = Initial \/ inner[e] > inner[Initial]
  /\ (\A e \in top : Key[e] # Key[Initial]) =>
       Cardinality(top) = TopK /\ \A e \in top : inner[e] >= inner[Initial]

ListType ==
  /\ inner \in [Solutions -> Scores]
  /\ top \subseteq seen /\ seen \subseteq Solutions
  /\ IsFiniteSet(top) /\ Cardinality(top) <= TopK
  /\ best \in Scores /\ late \in Nat
  /\ Initial \in seen

ListInv ==
  /\ ListType
  /\ OneByKey
  /\ BestIsKept
  /\ FinalistsAreBest
  /\ FinalistsDiffer
  /\ StartKept

Searches == {"restart", "estimate", "step", "walk"}

EndInv ==
  /\ ~rescore => full = inner
  /\ pc \in {"estimate", "step"} => restart < Restarts
  /\ pc \in {"simulate", "done"} =>
       finalists = IF Twins(Initial) = {} THEN top \cup {Initial} ELSE top
  /\ pc = "done" =>
       LET ranked == IF rescore THEN finalists ELSE top
       IN answer \in ranked /\ \A f \in ranked : full[f] <= full[answer]

IInv == TypeOK /\ ListInv /\ EndInv

-----------------------------------------------------------------------------
(* The list.                                                               *)

Stays(s) ==
  /\ top' = top
  /\ \/ \E e \in top : Near(e, s)
     \/ \E e \in top : Key[e] = Key[s] /\ inner[e] >= inner[s]
     \/ Cardinality(top) = TopK /\ \A e \in top : inner[e] >= inner[s]

Grows(s) ==
  /\ top' = top \cup {s}
  /\ Cardinality(top) < TopK
  /\ \A e \in top : ~Near(e, s)

GivesWay(e, s) ==
  /\ e \in top /\ inner[s] > inner[e]
  /\ top' = (top \ {e}) \cup {s}
  /\ \/ Key[e] = Key[s]
     \/ /\ Cardinality(top) = TopK
        /\ \A f \in top : ~Near(f, s) /\ inner[f] >= inner[e]

Offered(s) ==
  /\ seen' = seen \cup {s}
  /\ best' = IF inner[s] > best THEN inner[s] ELSE best
  /\ UNCHANGED inner
  /\ late' \in Nat
  /\ \/ Stays(s)
     \/ /\ Grows(s)
        /\ \A e \in top : Key[e] # Key[s]
     \/ \E e \in top :
          /\ GivesWay(e, s)
          /\ \A f \in top \ {e} : Key[f] # Key[s]

LEMMA ScoresAreInts ==
  ASSUME ListType
  PROVE  /\ \A s \in Solutions : inner[s] \in Scores /\ inner[s] \in Int
         /\ Initial \in Solutions /\ best \in Int
         /\ TopK \in Nat \ {0} /\ Tolerance \in Nat /\ Cardinality(top) \in Nat
  BY SearchAssumption, FS_CardinalityType DEF ListType

LEMMA OfferCases ==
  ASSUME ListInv, NEW s \in Solutions, Evaluate(s), UNCHANGED inner
  PROVE  Offered(s)
<1>1. late' \in Nat
  BY DEF Evaluate, ListInv, ListType
<1>2. ASSUME NEW e \in Twins(s), top' = Improved(e, s)
      PROVE  Stays(s) \/ (GivesWay(e, s) /\ \A f \in top \ {e} : Key[f] # Key[s])
  <2>1. e \in top /\ Key[e] = Key[s] /\ inner[e] \in Int /\ inner[s] \in Int
    BY <1>2, ScoresAreInts DEF Twins, ListInv, ListType
  <2>2. \A f \in top \ {e} : Key[f] # Key[s]
    BY <2>1 DEF ListInv, OneByKey
  <2>3. CASE inner[s] > inner[e]
    BY <1>2, <2>1, <2>2, <2>3 DEF Improved, GivesWay
  <2>4. CASE ~(inner[s] > inner[e])
    BY <1>2, <2>1, <2>4 DEF Improved, Stays
  <2>. QED BY <2>3, <2>4
<1>3. ASSUME Twins(s) = {}, ~(\E e \in top : Near(e, s)), ~(Cardinality(top) < TopK),
             NEW e \in Worst, top' = Improved(e, s)
      PROVE  Stays(s) \/ (GivesWay(e, s) /\ \A f \in top \ {e} : Key[f] # Key[s])
  <2>1. e \in top /\ \A f \in top : inner[e] <= inner[f] /\ inner[f] \in Int
    BY <1>3, ScoresAreInts DEF Worst, ListInv, ListType
  <2>2. Cardinality(top) = TopK /\ inner[s] \in Int
    BY <1>3, ScoresAreInts DEF ListInv, ListType
  <2>3. \A f \in top : Key[f] # Key[s]
    BY <1>3 DEF Twins
  <2>4. CASE inner[s] > inner[e]
    BY <1>3, <2>1, <2>2, <2>3, <2>4 DEF Improved, GivesWay
  <2>5. CASE ~(inner[s] > inner[e])
    BY <1>3, <2>1, <2>2, <2>5 DEF Improved, Stays
  <2>. QED BY <2>4, <2>5
<1>4. \A e \in Twins(s) \cup Worst : e \in top
  BY DEF Twins, Worst
<1>5. CASE \E e \in Twins(s) : top' = Improved(e, s)
  BY <1>1, <1>2, <1>4, <1>5 DEF Offered, Evaluate
<1>6. CASE Twins(s) = {} /\ (\E e \in top : Near(e, s)) /\ UNCHANGED top
  BY <1>1, <1>6 DEF Offered, Evaluate, Stays
<1>7. CASE /\ Twins(s) = {} /\ ~(\E e \in top : Near(e, s))
           /\ Cardinality(top) < TopK /\ top' = top \cup {s}
  BY <1>1, <1>7 DEF Offered, Evaluate, Grows, Twins
<1>8. CASE /\ Twins(s) = {} /\ ~(\E e \in top : Near(e, s))
           /\ ~(Cardinality(top) < TopK) /\ \E e \in Worst : top' = Improved(e, s)
  BY <1>1, <1>3, <1>4, <1>8 DEF Offered, Evaluate
<1>. QED BY <1>5, <1>6, <1>7, <1>8 DEF Evaluate, Insert

LEMMA CardinalityKept ==
  ASSUME NEW S, IsFiniteSet(S), NEW e \in S, NEW s, s \notin S
  PROVE  /\ IsFiniteSet((S \ {e}) \cup {s})
         /\ Cardinality((S \ {e}) \cup {s}) = Cardinality(S)
<1>1. IsFiniteSet(S \ {e}) /\ Cardinality(S \ {e}) = Cardinality(S) - 1
  BY FS_RemoveElement
<1>2. Cardinality(S) \in Nat
  BY FS_CardinalityType
<1>3. s \notin S \ {e}
  OBVIOUS
<1>4. /\ IsFiniteSet((S \ {e}) \cup {s})
      /\ Cardinality((S \ {e}) \cup {s}) = Cardinality(S \ {e}) + 1
  BY <1>1, <1>3, FS_AddElement
<1>. QED BY <1>1, <1>2, <1>4

\* What each of the three does to the parts of the invariant.
LEMMA StaysKeeps ==
  ASSUME ListInv, NEW s \in Solutions, Offered(s), Stays(s)
  PROVE  ListInv'
<1>. USE ScoresAreInts DEF ListInv
<1>1. inner' = inner /\ top' = top /\ seen' = seen \cup {s}
  BY DEF Offered, Stays
<1>2. ListType'
  BY <1>1 DEF Offered, ListType
<1>3. OneByKey' /\ FinalistsDiffer' /\ StartKept'
  BY <1>1 DEF OneByKey, FinalistsDiffer, StartKept, Near
<1>4. \E e \in top : inner[e] >= inner[s] - Tolerance
  <2>1. \A e \in top : inner[e] \in Int /\ inner[s] \in Int
    BY DEF ListType
  <2>2. top # {}
    BY DEF StartKept
  <2>. QED BY <2>1, <2>2 DEF Stays, Near
<1>5. BestIsKept'
  <2>1. \A t \in seen \cup {s} : inner[t] \in Int
    BY DEF ListType
  <2>. QED BY <1>1, <1>4, <2>1 DEF BestIsKept, Offered
<1>6. FinalistsAreBest'
  <2>1. inner[s] \in Int /\ Near(s, s)
    BY DEF ListType, Near
  <2>2. \/ \E e \in top, d \in seen \cup {s} :
             Key[e] = Key[d] /\ inner[e] >= inner[d] /\ Near(d, s)
        \/ Cardinality(top) = TopK /\ \A e \in top : inner[e] >= inner[s] - Tolerance
    <3>1. CASE \E e \in top : Near(e, s)
      <4>1. \A e \in top : e \in seen /\ inner[e] \in Int
        BY DEF ListType
      <4>. QED BY <3>1, <4>1
    <3>2. CASE \E e \in top : Key[e] = Key[s] /\ inner[e] >= inner[s]
      BY <2>1, <3>2
    <3>3. CASE Cardinality(top) = TopK /\ \A e \in top : inner[e] >= inner[s]
      <4>1. \A e \in top : inner[e] \in Int
        BY DEF ListType
      <4>. QED BY <2>1, <3>3, <4>1
    <3>. QED BY <3>1, <3>2, <3>3 DEF Stays
  <2>. QED BY <1>1, <2>2 DEF FinalistsAreBest, Near
<1>. QED BY <1>2, <1>3, <1>5, <1>6

LEMMA GrowsKeeps ==
  ASSUME ListInv, NEW s \in Solutions, Offered(s), Grows(s),
         \A e \in top : Key[e] # Key[s]
  PROVE  ListInv'
<1>. USE ScoresAreInts DEF ListInv
<1>1. inner' = inner /\ top' = top \cup {s} /\ seen' = seen \cup {s}
  BY DEF Offered, Grows
<1>2. \A t \in seen \cup top \cup {s, Initial} : inner[t] \in Int
  BY DEF ListType
<1>3. ListType'
  <2>1. IsFiniteSet(top') /\ Cardinality(top') <= TopK
    <3>1. IsFiniteSet(top) /\ s \notin top
      BY DEF ListType
    <3>2. IsFiniteSet(top \cup {s}) /\ Cardinality(top \cup {s}) = Cardinality(top) + 1
      BY <3>1, FS_AddElement
    <3>. QED BY <1>1, <3>2 DEF Grows
  <2>2. best' \in Scores /\ late' \in Nat
    BY DEF Offered, ListType
  <2>. QED BY <1>1, <2>1, <2>2 DEF ListType
<1>4. OneByKey'
  BY <1>1 DEF OneByKey
<1>5. BestIsKept'
  <2>1. \A t \in seen : \E e \in top \cup {s} : inner[e] >= inner[t] - Tolerance
    BY DEF BestIsKept
  <2>2. inner[s] >= inner[s] - Tolerance
    BY <1>2
  <2>. QED BY <1>1, <1>2, <2>1, <2>2 DEF BestIsKept, Offered
<1>6. FinalistsAreBest'
  <2>1. Near(s, s) /\ inner[s] >= inner[s]
    BY <1>2 DEF Near
  <2>2. Cardinality(top) # TopK
    BY DEF Grows, ListType
  <2>3. ASSUME NEW t \in seen
        PROVE  \E e \in top, d \in seen :
                 Key[e] = Key[d] /\ inner[e] >= inner[d] /\ Near(d, t)
    BY <2>2, <2>3 DEF FinalistsAreBest
  <2>. QED BY <1>1, <2>1, <2>3 DEF FinalistsAreBest, Near
<1>7. FinalistsDiffer'
  <2>1. \A e \in top : ~Near(e, s) /\ ~Near(s, e)
    BY <1>2 DEF Grows, Near
  <2>2. ASSUME NEW e \in top', NEW f \in top', e # f
        PROVE  /\ Key[e] # Key[f]
               /\ Near(e, f) => \E d \in seen', g \in {e, f} :
                                  Key[d] = Key[g] /\ inner[d] < inner[g]
    <3>1. CASE e \in top /\ f \in top
      BY <1>1, <2>2, <3>1 DEF FinalistsDiffer
    <3>2. CASE e = s \/ f = s
      BY <1>1, <2>1, <2>2, <3>2
    <3>. QED BY <1>1, <3>1, <3>2
  <2>. QED BY <1>1, <2>2 DEF FinalistsDiffer, Near
<1>8. StartKept'
  <2>1. PICK i \in top : Key[i] = Key[Initial]
    BY DEF StartKept, Grows, ListType
  <2>. QED BY <1>1, <1>2, <2>1 DEF StartKept
<1>. QED BY <1>3, <1>4, <1>5, <1>6, <1>7, <1>8

LEMMA GivesWayKeeps ==
  ASSUME ListInv, NEW s \in Solutions, Offered(s), NEW g \in top, GivesWay(g, s),
         \A f \in top \ {g} : Key[f] # Key[s]
  PROVE  ListInv'
<1>. USE ScoresAreInts DEF ListInv
<1>1. /\ inner' = inner
      /\ top' = (top \ {g}) \cup {s} /\ seen' = seen \cup {s}
      /\ inner[s] > inner[g]
  BY DEF Offered, GivesWay
<1>2. \A t \in seen \cup top \cup {s, Initial} : inner[t] \in Int
  BY DEF ListType
<1>3. s \notin top
  <2>1. ASSUME s \in top PROVE FALSE
    <3>1. s = g
      BY <2>1
    <3>. QED BY <1>1, <1>2, <3>1
  <2>. QED BY <2>1
<1>4. IsFiniteSet(top') /\ Cardinality(top') = Cardinality(top)
  BY <1>1, <1>3, CardinalityKept DEF ListType
<1>5. ListType'
  <2>1. best' \in Scores /\ late' \in Nat
    BY DEF Offered, ListType
  <2>. QED BY <1>1, <1>4, <2>1 DEF ListType
<1>6. OneByKey'
  BY <1>1 DEF OneByKey
\* Whoever was as good as g is no better than s.
<1>7. ASSUME NEW t \in seen, NEW e \in top, inner[e] >= inner[t] - Tolerance
      PROVE  \E f \in top' : inner[f] >= inner[t] - Tolerance
  <2>1. CASE e = g
    BY <1>1, <1>2, <1>7, <2>1
  <2>2. CASE e # g
    BY <1>1, <1>7, <2>2
  <2>. QED BY <2>1, <2>2
<1>8. BestIsKept'
  <2>1. \A t \in seen : \E e \in top' : inner[e] >= inner[t] - Tolerance
    BY <1>7 DEF BestIsKept
  <2>2. s \in top' /\ inner[s] >= inner[s] - Tolerance
    BY <1>1, <1>2
  <2>3. \A t \in seen' : inner'[t] <= best'
    BY <1>1, <1>2 DEF BestIsKept, Offered
  <2>4. \E t \in seen' : inner'[t] = best'
    BY <1>1, <1>2 DEF BestIsKept, Offered
  <2>. QED BY <1>1, <2>1, <2>2, <2>3, <2>4 DEF BestIsKept
<1>9. ASSUME Key[g] # Key[s]
      PROVE  /\ Cardinality(top) = TopK
             /\ \A f \in top : ~Near(f, s) /\ ~Near(s, f) /\ inner[f] >= inner[g]
  <2>1. /\ Cardinality(top) = TopK
        /\ \A f \in top : ~Near(f, s) /\ inner[f] >= inner[g]
    BY <1>9 DEF GivesWay
  <2>2. \A f \in top : ~Near(s, f)
    BY <1>2, <2>1 DEF Near
  <2>. QED BY <2>1, <2>2
<1>10. FinalistsAreBest'
  <2>1. SUFFICES ASSUME NEW t \in seen'
                 PROVE  \/ \E e \in top', d \in seen' :
                             Key[e] = Key[d] /\ inner[e] >= inner[d] /\ Near(d, t)
                        \/ /\ Cardinality(top') = TopK
                           /\ \A e \in top' : inner[e] >= inner[t] - Tolerance
    <3>1. \A x, y : Near(x, y)' <=> Near(x, y)
      BY <1>1 DEF Near
    <3>. QED BY <1>1, <3>1 DEF FinalistsAreBest
  <2>2. CASE t = s
    BY <1>1, <1>2, <2>2 DEF Near
  <2>3. ASSUME t \in seen, NEW e \in top, NEW d \in seen,
               Key[e] = Key[d], inner[e] >= inner[d], Near(d, t)
        PROVE  \/ \E f \in top' : Key[f] = Key[d] /\ inner[f] >= inner[d]
               \/ /\ Cardinality(top') = TopK
                  /\ \A f \in top' : inner[f] >= inner[t] - Tolerance
    <3>1. CASE e # g
      BY <1>1, <2>3, <3>1
    <3>2. CASE e = g /\ Key[g] = Key[s]
      BY <1>1, <1>2, <2>3, <3>2
    <3>3. CASE e = g /\ Key[g] # Key[s]
      <4>1. inner[g] >= inner[t] - Tolerance
        BY <1>2, <2>3, <3>3 DEF Near
      <4>2. \A f \in top' : inner[f] >= inner[g]
        BY <1>1, <1>2, <1>9, <3>3
      <4>3. \A f \in top' : inner[f] \in Int
        BY <1>1, <1>2
      <4>4. inner[g] \in Int /\ inner[t] \in Int
        BY <1>2, <2>3
      <4>5. \A f \in top' : inner[f] >= inner[t] - Tolerance
        BY <4>1, <4>2, <4>3, <4>4
      <4>. QED BY <1>4, <1>9, <3>3, <4>5
    <3>. QED BY <3>1, <3>2, <3>3
  <2>4. CASE t \in seen /\ \E e \in top, d \in seen :
                             Key[e] = Key[d] /\ inner[e] >= inner[d] /\ Near(d, t)
    BY <1>1, <2>3, <2>4
  <2>5. CASE /\ t \in seen /\ Cardinality(top) = TopK
             /\ \A e \in top : inner[e] >= inner[t] - Tolerance
    BY <1>1, <1>2, <1>4, <2>5
  <2>. QED BY <1>1, <2>1, <2>2, <2>4, <2>5 DEF FinalistsAreBest
<1>11. FinalistsDiffer'
  <2>1. ASSUME NEW e \in top', NEW f \in top', e # f
        PROVE  /\ Key[e] # Key[f]
               /\ Near(e, f) => \E d \in seen', h \in {e, f} :
                                  Key[d] = Key[h] /\ inner[d] < inner[h]
    <3>1. CASE e \in top /\ f \in top
      BY <1>1, <2>1, <3>1 DEF FinalistsDiffer
    <3>2. CASE e = s \/ f = s
      <4>1. Key[e] # Key[f]
        BY <1>1, <1>3, <2>1, <3>2
      <4>2. CASE Key[g] = Key[s]
        <5>1. g \in seen' /\ Key[g] = Key[s] /\ inner[g] < inner[s]
          BY <1>1, <1>2, <4>2 DEF ListType
        <5>. QED BY <3>2, <4>1, <5>1
      <4>3. CASE Key[g] # Key[s]
        BY <1>1, <1>9, <2>1, <3>2, <4>1, <4>3
      <4>. QED BY <4>2, <4>3
    <3>. QED BY <1>1, <3>1, <3>2
  <2>. QED BY <1>1, <2>1 DEF FinalistsDiffer, Near
<1>12. StartKept'
  <2>1. \E e \in top' : inner[e] >= inner[Initial]
    BY <1>1, <1>2 DEF StartKept
  <2>2. ASSUME Key[g] # Key[Initial], \A e \in top \ {g} : Key[e] # Key[Initial]
        PROVE  Cardinality(top) = TopK /\ \A e \in top : inner[e] >= inner[Initial]
    BY <2>2 DEF StartKept
  <2>3. ASSUME Key[s] = Key[Initial] PROVE inner[s] > inner[Initial]
    <3>1. CASE Key[g] = Key[s]
      BY <1>1, <1>2, <2>3, <3>1 DEF StartKept
    <3>2. CASE Key[g] # Key[s]
      BY <1>1, <1>2, <2>2, <2>3, <3>2
    <3>. QED BY <3>1, <3>2
  <2>4. ASSUME \A e \in top' : Key[e] # Key[Initial]
        PROVE  Cardinality(top') = TopK /\ \A e \in top' : inner[e] >= inner[Initial]
    <3>1. CASE Key[g] = Key[Initial]
      <4>1. Key[g] # Key[s] /\ inner[g] >= inner[Initial]
        BY <1>1, <1>2, <2>4, <3>1 DEF StartKept
      <4>. QED BY <1>1, <1>2, <1>4, <1>9, <4>1
    <3>2. CASE Key[g] # Key[Initial]
      BY <1>1, <1>2, <1>4, <2>2, <2>4, <3>2
    <3>. QED BY <3>1, <3>2
  <2>. QED BY <1>1, <2>1, <2>3, <2>4 DEF StartKept
<1>. QED BY <1>5, <1>6, <1>8, <1>10, <1>11, <1>12

LEMMA EvaluateKeeps ==
  ASSUME ListInv, NEW s \in Solutions, Evaluate(s), UNCHANGED inner
  PROVE  ListInv'
BY OfferCases, StaysKeeps, GrowsKeeps, GivesWayKeeps DEF Offered

LEMMA ListUntouched ==
  ASSUME ListInv, UNCHANGED <<inner, top, seen, best, late>>
  PROVE  ListInv'
<1>1. ListType' /\ OneByKey' /\ BestIsKept' /\ StartKept'
  BY DEF ListInv, ListType, OneByKey, BestIsKept, StartKept
<1>2. FinalistsAreBest'
  BY DEF ListInv, FinalistsAreBest, Near
<1>3. FinalistsDiffer'
  BY DEF ListInv, FinalistsDiffer, Near
<1>. QED BY <1>1, <1>2, <1>3 DEF ListInv

-----------------------------------------------------------------------------
(* The steps.                                                              *)

LEMMA BaseFacts ==
  ASSUME TypeOK
  PROVE  /\ Neighbours \in [Solutions -> SUBSET Solutions]
         /\ Walk \subseteq Solutions
         /\ Initial \in Solutions /\ Restarts \in Nat \ {0}
BY SearchAssumption DEF TypeOK, Neighbours, Walk

LEMMA InitEstablishes == Init => IInv
<1>. SUFFICES ASSUME Init PROVE IInv
  OBVIOUS
<1>. USE SearchAssumption
<1>1. IsFiniteSet({Initial}) /\ Cardinality({Initial}) = 1
  BY FS_Singleton
<1>2. inner \in [Solutions -> Scores] /\ inner[Initial] \in Scores /\ inner[Initial] \in Int
  BY DEF Init
<1>3. TypeOK
  <2>1. base \in DOMAIN Moves /\ strategy \in Strategies
    BY DEF Init
  <2>2. rescore \in BOOLEAN
    BY DEF Init
  <2>3. full \in [Solutions -> Scores]
    BY <1>2 DEF Init
  <2>4. /\ top \subseteq seen /\ seen \subseteq Solutions /\ IsFiniteSet(top)
        /\ Cardinality(top) <= TopK
    BY <1>1 DEF Init
  <2>5. pc \in {"restart", "walk"} /\ restart \in 0 .. Restarts /\ count \in Nat
    BY DEF Init
  <2>6. left \subseteq Walk
    BY DEF Init
  <2>7. best \in Scores
    BY <1>2 DEF Init
  <2>8. stopped = "no" /\ asked \in BOOLEAN /\ expired \in BOOLEAN /\ late \in Nat
    BY DEF Init
  <2>9. current \in Solutions /\ answer \in Solutions /\ finalists \subseteq seen
    BY DEF Init
  <2>. HIDE SearchAssumption
  <2>. QED BY <1>2, <2>1, <2>2, <2>3, <2>4, <2>5, <2>6, <2>7, <2>8, <2>9 DEF TypeOK
<1>4. ListInv
  BY <1>1, <1>2 DEF Init, ListInv, ListType, OneByKey, BestIsKept, FinalistsAreBest,
                    FinalistsDiffer, StartKept, Near
<1>5. EndInv
  BY DEF Init, EndInv
<1>. QED BY <1>3, <1>4, <1>5 DEF IInv

\* What any step of the search that scores a solution preserves.
LEMMA ScoringKeeps ==
  ASSUME IInv, NEW at \in Searches, Searching(at), NEW s \in Solutions, Evaluate(s),
         pc' \in Searches, restart' = restart,
         pc' \in {"estimate", "step"} => restart < Restarts,
         current' \in Solutions, count' \in Nat, left' \subseteq Walk,
         stopped' \in {"no", "requested", "budget"}
  PROVE  IInv'
<1>1. ListInv'
  BY EvaluateKeeps DEF IInv, Searching, request
<1>2. TypeOK'
  BY <1>1 DEF IInv, TypeOK, ListInv, ListType, Searching, Searches, request, result,
              Evaluate, Walk
<1>3. EndInv'
  BY DEF IInv, EndInv, Searching, Searches, request, result
<1>. QED BY <1>1, <1>2, <1>3 DEF IInv

\* ... and one that scores nothing.
LEMMA RestKeeps ==
  ASSUME IInv, NEW at \in Searches, Searching(at), NoScore,
         pc' \in Searches \cup {"rescore"}, restart' \in 0 .. Restarts,
         pc' \in {"estimate", "step"} => restart' < Restarts, count' \in Nat,
         stopped' \in {"no", "requested", "budget"}
  PROVE  IInv'
<1>1. ListInv'
  BY ListUntouched DEF IInv, Searching, request, NoScore
<1>2. TypeOK'
  BY DEF IInv, TypeOK, Searching, Searches, request, result, NoScore, Walk
<1>3. EndInv'
  BY DEF IInv, EndInv, Searching, Searches, request, result, NoScore
<1>. QED BY <1>1, <1>2, <1>3 DEF IInv

LEMMA VerdictType ==
  ASSUME TypeOK PROVE Verdict \in {"no", "requested", "budget"}
BY DEF TypeOK, Verdict

LEMMA SearchStep ==
  ASSUME IInv,
         \/ BeginRun \/ BreakOff \/ EndSearch \/ Draw \/ EndDraws
         \/ Step \/ Stuck \/ HaltRun \/ EndRun
         \/ Leaf \/ HaltWalk \/ EndWalk
  PROVE  IInv'
<1>. USE BaseFacts, VerdictType DEF IInv, Searches
<1>1. TypeOK /\ EndInv
  OBVIOUS
<1>2. CASE BeginRun
  <2>1. Searching("restart") /\ Evaluate(Initial) /\ restart < Restarts
        /\ stopped' = Verdict
    BY <1>2 DEF BeginRun, Checkpoint
  <2>. QED BY <1>1, <1>2, <2>1, ScoringKeeps DEF BeginRun, TypeOK
<1>3. CASE BreakOff
  BY <1>1, <1>3, RestKeeps DEF BreakOff, Checkpoint, TypeOK
<1>4. CASE EndSearch
  BY <1>1, <1>4, RestKeeps DEF EndSearch, TypeOK
<1>5. CASE Draw
  <2>1. PICK s \in Neighbours[current] : Evaluate(s)
    BY <1>5 DEF Draw
  <2>2. s \in Solutions /\ Searching("estimate") /\ restart < Restarts
    BY <1>1, <1>5, <2>1 DEF Draw, TypeOK, EndInv, Searching
  <2>. QED BY <1>1, <1>5, <2>1, <2>2, ScoringKeeps DEF Draw, TypeOK, Searching
<1>6. CASE EndDraws
  <2>1. restart < Restarts
    BY <1>1, <1>6 DEF EndDraws, EndInv, Searching
  <2>. QED BY <1>1, <1>6, <2>1, RestKeeps DEF EndDraws, TypeOK
<1>7. CASE Step
  <2>1. PICK s \in Neighbours[current] :
          Evaluate(s) /\ current' \in IF inner[s] >= inner[current] THEN {s} ELSE {s, current}
    BY <1>7 DEF Step
  <2>2. s \in Solutions /\ Searching("step") /\ restart < Restarts /\ current' \in Solutions
    BY <1>1, <1>7, <2>1 DEF Step, TypeOK, EndInv, Searching
  <2>3. stopped' \in {"no", "requested", "budget"}
    BY <1>1, <1>7 DEF Step, GoOn, Checkpoint, TypeOK
  <2>. QED BY <1>1, <1>7, <2>1, <2>2, <2>3, ScoringKeeps DEF Step, TypeOK, Searching
<1>8. ASSUME Searching("step"), NextRun, stopped' \in {"no", "requested", "budget"}
      PROVE  IInv'
  <2>1. restart < Restarts
    BY <1>1, <1>8 DEF EndInv, Searching
  <2>. QED BY <1>1, <1>8, <2>1, RestKeeps DEF NextRun, TypeOK
<1>9. CASE Stuck \/ HaltRun \/ EndRun
  BY <1>1, <1>8, <1>9 DEF Stuck, HaltRun, EndRun, Halt, Checkpoint, TypeOK
<1>10. CASE Leaf
  <2>1. PICK s \in left : Evaluate(s) /\ left' = left \ {s}
    BY <1>10 DEF Leaf
  <2>2. s \in Solutions /\ Searching("walk") /\ left' \subseteq Walk
    BY <1>1, <1>10, <2>1 DEF Leaf, TypeOK
  <2>3. stopped' \in {"no", "requested", "budget"}
    BY <1>1, <1>10 DEF Leaf, GoOn, Checkpoint, TypeOK
  <2>. QED BY <1>1, <1>10, <2>1, <2>2, <2>3, ScoringKeeps DEF Leaf, TypeOK, Searching
<1>11. CASE HaltWalk
  BY <1>1, <1>11, RestKeeps DEF HaltWalk, Halt, Checkpoint, TypeOK
<1>12. CASE EndWalk
  BY <1>1, <1>12, RestKeeps DEF EndWalk, TypeOK
<1>. QED BY <1>2, <1>3, <1>4, <1>5, <1>6, <1>7, <1>9, <1>10, <1>11, <1>12

LEMMA EndStep ==
  ASSUME IInv, \/ BeginRescore \/ Simulate \/ Finish
  PROVE  IInv'
<1>. USE DEF IInv
<1>1. ListInv'
  BY ListUntouched DEF BeginRescore, Simulate, Finish, Ending, request, search
<1>2. CASE BeginRescore
  <2>1. inner \in [Solutions -> Scores]
    BY DEF TypeOK
  <2>2. full' \in [Solutions -> Scores] /\ (~rescore => full' = inner)
    BY <1>2, <2>1 DEF BeginRescore
  <2>3. finalists' \subseteq seen
    BY <1>2 DEF BeginRescore, ListInv, ListType
  <2>4. TypeOK'
    BY <1>2, <2>2, <2>3 DEF BeginRescore, Ending, request, search, TypeOK, Walk
  <2>5. EndInv'
    BY <1>2, <2>2 DEF BeginRescore, Ending, request, search, EndInv, Twins
  <2>. QED BY <1>1, <2>4, <2>5
<1>3. CASE Simulate
  <2>1. TypeOK'
    BY <1>3 DEF Simulate, Ending, request, search, result, TypeOK, Walk
  <2>2. EndInv'
    BY <1>3 DEF Simulate, Ending, request, search, result, EndInv, Twins
  <2>. QED BY <1>1, <2>1, <2>2
<1>4. CASE Finish
  <2>1. answer' \in Solutions
    BY <1>4 DEF Finish, TypeOK
  <2>2. TypeOK'
    BY <1>4, <2>1 DEF Finish, Ending, request, search, TypeOK, Walk
  <2>3. EndInv'
    BY <1>4 DEF Finish, Ending, request, search, EndInv, Twins
  <2>. QED BY <1>1, <2>2, <2>3
<1>. QED BY <1>2, <1>3, <1>4

LEMMA StepPreserves == IInv /\ [Next]_vars => IInv'
<1>. SUFFICES ASSUME IInv, [Next]_vars PROVE IInv'
  OBVIOUS
<1>1. ASSUME UNCHANGED <<request, search, result, pc, stopped, late>>,
             asked' \in BOOLEAN, expired' \in BOOLEAN
      PROVE  IInv'
  <2>1. ListInv'
    BY <1>1, ListUntouched DEF IInv, request, search
  <2>2. TypeOK'
    BY <1>1 DEF IInv, TypeOK, request, search, result, Walk
  <2>3. EndInv'
    BY <1>1 DEF IInv, EndInv, request, search, result, Twins
  <2>. QED BY <2>1, <2>2, <2>3 DEF IInv
<1>2. CASE Ask \/ Expire \/ UNCHANGED vars
  BY <1>1, <1>2 DEF Ask, Expire, vars, IInv, TypeOK
<1>. QED BY <1>2, SearchStep, EndStep DEF Next

-----------------------------------------------------------------------------
(* The theorems.                                                           *)

\* The invariant above holds of every search.
THEOREM SearchInvariance == Spec => []IInv
BY InitEstablishes, StepPreserves, PTL DEF Spec

\* Every variable keeps its type; the list of finalists keeps its limit.
THEOREM SearchTyped == Spec => []TypeOK
<1>1. IInv => TypeOK
  BY DEF IInv
<1>. QED BY <1>1, SearchInvariance, PTL

\* The best assignment scored is never lost from the finalists by more than
\* the tolerance, whatever came before and after it (TopK::insert).
THEOREM BestAlwaysKept == Spec => []BestIsKept
<1>1. IInv => BestIsKept
  BY DEF IInv, ListInv
<1>. QED BY <1>1, SearchInvariance, PTL

\* Nothing better than a finalist is missing from them, however much the order
\* within a room matters to the scores, and whatever came first (TopK::insert).
THEOREM FinalistsAlwaysBest == Spec => []FinalistsAreBest
<1>1. IInv => FinalistsAreBest
  BY DEF IInv, ListInv
<1>. QED BY <1>1, SearchInvariance, PTL

\* No two finalists are one crew, and two score alike only if one of them came
\* in for a worse arrangement of its crew (TopK::insert).
THEOREM FinalistsAlwaysDiffer == Spec => []FinalistsDiffer
<1>1. IInv => FinalistsDiffer
  BY DEF IInv, ListInv
<1>. QED BY <1>1, SearchInvariance, PTL

\* With any final scores the answer is no worse than the start, which is still
\* among the finalists or joins them, unless a better arrangement of its crew,
\* as the search saw it, has its place (solve_with).
THEOREM AnswerNeverWorse == Spec => []NeverWorse
<1>1. IInv => NeverWorse
  <2>. SUFFICES ASSUME IInv, pc = "done" PROVE NeverWorse
    BY DEF NeverWorse
  <2>. USE ScoresAreInts DEF IInv, ListInv
  <2>1. CASE rescore
    <3>1. CASE Initial \in finalists
      BY <2>1, <3>1 DEF EndInv, NeverWorse
    <3>2. CASE Initial \notin finalists
      <4>1. PICK e \in Twins(Initial) : e \in top
        BY <3>2 DEF EndInv, Twins
      <4>2. e \in finalists /\ Key[e] = Key[Initial] /\ e # Initial
        BY <3>2, <4>1 DEF EndInv, Twins
      <4>3. inner[e] > inner[Initial]
        BY <4>1, <4>2 DEF StartKept
      <4>. QED BY <2>1, <4>2, <4>3 DEF NeverWorse
    <3>. QED BY <3>1, <3>2
  <2>2. CASE ~rescore
    <3>1. full = inner /\ answer \in top /\ \A f \in top : inner[f] <= inner[answer]
      BY <2>2 DEF EndInv
    <3>2. PICK e \in top : inner[e] >= inner[Initial]
      BY DEF StartKept
    <3>3. inner[e] \in Int /\ inner[answer] \in Int /\ inner[Initial] \in Int
      BY <3>1 DEF ListType
    <3>. QED BY <3>1, <3>2, <3>3 DEF NeverWorse
  <2>. QED BY <2>1, <2>2
<1>. QED BY <1>1, SearchInvariance, PTL

\* The first candidate is the best of them all, though without a final
\* scoring the start was put at the end of the sorted list (solve_with).
THEOREM BestAlwaysFirst == Spec => []BestComesFirst
<1>1. IInv /\ NeverWorse => BestComesFirst
  BY DEF IInv, EndInv, NeverWorse, BestComesFirst
<1>. QED BY <1>1, SearchInvariance, AnswerNeverWorse, PTL

-----------------------------------------------------------------------------
(* The stop.                                                               *)

\* The evaluations of a run or walk since it was last consulted.
SinceDue == (count - 1) % CheckEvery

\* Evaluations made late are those of one estimate, or those since the last
\* step or leaf that consulted the tracker; it never looks past a stop.
StopInv ==
  /\ stopped # "no" => asked \/ expired
  /\ ~(asked \/ expired) => late = 0
  /\ StopIsSeen
  /\ pc = "estimate" => count <= Draws /\ late <= count
  /\ pc \in {"step", "walk"} => IF count = 0 THEN late <= Draws ELSE late <= SinceDue

LEMMA VerdictSees ==
  ASSUME TypeOK, StopInv
  PROVE  /\ Verdict = "no" <=> ~(asked \/ expired)
         /\ Verdict = "no" => late = 0
         /\ Verdict # "no" => asked \/ expired
  BY DEF TypeOK, StopInv, Verdict

\* One more step after one that consults starts the count again, and after
\* another it adds to it.
LEMMA OneMoreStep ==
  ASSUME NEW c \in Nat
  PROVE  /\ c % CheckEvery = 0 => ((c + 1) - 1) % CheckEvery = 0
         /\ c % CheckEvery # 0 => /\ c # 0 /\ (c - 1) % CheckEvery \in Int
                                  /\ ((c + 1) - 1) % CheckEvery = ((c - 1) % CheckEvery) + 1
         /\ c % CheckEvery \in 0 .. CheckEvery - 1
<1>. DEFINE K == CheckEvery
            q == c \div K
            d == c % K
<1>0. K \in Nat \ {0}
  BY SearchAssumption
<1>1. q \in Int /\ d \in 0 .. K - 1 /\ c = K * q + d
  BY <1>0
<1>2. (c + 1) - 1 = c
  OBVIOUS
<1>3. ASSUME d # 0 PROVE c # 0 /\ (c - 1) % K = d - 1
  <2>1. c # 0
    BY <1>0, <1>3
  <2>2. d - 1 \in Nat /\ d - 1 < K
    BY <1>0, <1>1, <1>3
  <2>3. c - 1 = K * q + (d - 1)
    <3>1. K * q \in Int /\ d \in Int
      BY <1>0, <1>1
    <3>. HIDE DEF q, d, K
    <3>. QED BY <1>1, <3>1
  <2>4. \A e \in Nat : e < K => (K * q + e) % K = e
    BY <1>0, <1>1
  <2>. HIDE DEF q, d, K
  <2>. QED BY <2>1, <2>2, <2>3, <2>4
<1>4. d # 0 => ((c - 1) % K) + 1 = d /\ (c - 1) % K \in Int
  <2>. HIDE DEF d, K
  <2>. QED BY <1>1, <1>3
<1>. QED BY <1>1, <1>2, <1>3, <1>4

LEMMA StopBegins == Init => StopInv
BY SearchAssumption DEF Init, StopInv, StopIsSeen

\* A step or leaf that scores a solution.
LEMMA ScoringSeen ==
  ASSUME TypeOK, StopInv, pc \in {"step", "walk"}, NEW done, GoOn(done),
         NEW s, Evaluate(s), count' = count + 1, pc' = pc, UNCHANGED <<asked, expired>>
  PROVE  StopInv'
<1>0. count \in Nat /\ late \in Nat /\ CheckEvery \in Nat \ {0} /\ count' # 0
  BY SearchAssumption DEF TypeOK
<1>1. SinceDue' = count % CheckEvery /\ count % CheckEvery \in 0 .. CheckEvery - 1
  <2>1. count' - 1 = count
    BY <1>0
  <2>. QED BY <1>0, <2>1, OneMoreStep DEF SinceDue
<1>2. stopped' = stopped
  BY VerdictSees DEF GoOn, Checkpoint, Verdict, TypeOK
<1>3. late' \in Nat /\ late' <= count % CheckEvery /\ (~(asked \/ expired) => late' = 0)
  <2>1. CASE Due
    <3>1. ~(asked \/ expired)
      BY <2>1, VerdictSees DEF GoOn
    <3>. QED BY <1>1, <3>1 DEF Evaluate
  <2>2. CASE ~Due
    <3>1. late <= SinceDue /\ count # 0
      BY <1>0, <2>2, OneMoreStep DEF StopInv, Due
    <3>2. SinceDue \in Int /\ count % CheckEvery = SinceDue + 1
      <4>1. (count + 1) - 1 = count
        BY <1>0
      <4>2. count % CheckEvery # 0
        BY <2>2 DEF Due
      <4>. QED BY <1>0, <4>1, <4>2, OneMoreStep DEF SinceDue
    <3>. QED BY <1>0, <1>1, <3>1, <3>2 DEF Evaluate
  <2>. QED BY <2>1, <2>2
<1>4. late' < CheckEvery
  BY <1>0, <1>1, <1>3
<1>. QED BY <1>0, <1>1, <1>2, <1>3, <1>4 DEF StopInv, StopIsSeen

\* A step that scores nothing, and leads to no loop under way.
LEMMA RestSeen ==
  ASSUME TypeOK, StopInv, late' = late, UNCHANGED <<asked, expired>>,
         stopped' # "no" => asked \/ expired,
         pc' = "step" => count' = 0 /\ late <= Draws,
         pc' \notin {"estimate", "walk"}
  PROVE  StopInv'
BY SearchAssumption DEF StopInv, StopIsSeen, TypeOK

LEMMA StopStep ==
  ASSUME TypeOK, StopInv, [Next]_vars
  PROVE  StopInv'
<1>. USE SearchAssumption
<1>0. /\ count \in Nat /\ late \in Nat /\ Draws \in Nat /\ CheckEvery \in Nat \ {0}
      /\ stopped # "no" => asked \/ expired
  BY DEF TypeOK, StopInv
<1>. HIDE SearchAssumption
<1>1. CASE Ask \/ Expire
  BY <1>1 DEF Ask, Expire, search, StopInv, StopIsSeen, SinceDue
<1>2. CASE UNCHANGED vars
  BY <1>2 DEF vars, search, StopInv, StopIsSeen, SinceDue
<1>3. CASE BeginRun
  <2>1. /\ ~(asked \/ expired) /\ late' = 0 /\ stopped' = stopped
        /\ UNCHANGED <<asked, expired>> /\ pc' = "estimate" /\ count' = 0
    BY <1>3, VerdictSees DEF BeginRun, Searching, Evaluate, Checkpoint, Verdict, TypeOK
  <2>. QED BY <1>0, <2>1 DEF StopInv, StopIsSeen
<1>4. CASE BreakOff \/ EndSearch
  BY <1>4, <1>0, VerdictSees, RestSeen
     DEF BreakOff, EndSearch, Searching, Checkpoint, NoScore
<1>5. CASE Draw
  <2>1. pc = "estimate" /\ pc' = pc /\ count < Draws /\ count' = count + 1
        /\ UNCHANGED <<asked, expired, stopped>>
    BY <1>5 DEF Draw, Searching
  <2>2. late' = IF asked \/ expired THEN late + 1 ELSE 0
    BY <1>5 DEF Draw, Evaluate
  <2>3. late <= count
    BY <2>1 DEF StopInv
  <2>. QED BY <1>0, <2>1, <2>2, <2>3 DEF StopInv, StopIsSeen
<1>6. CASE EndDraws
  <2>1. late <= Draws
    BY <1>0, <1>6 DEF EndDraws, Searching, StopInv
  <2>. QED BY <1>0, <1>6, <2>1, RestSeen DEF EndDraws, Searching, NoScore
<1>7. CASE Step
  <2>1. PICK s : Evaluate(s)
    BY <1>7 DEF Step
  <2>. QED BY <1>7, <2>1, ScoringSeen DEF Step, Searching
<1>8. CASE Leaf
  <2>1. PICK s : Evaluate(s)
    BY <1>8 DEF Leaf
  <2>. QED BY <1>8, <2>1, ScoringSeen DEF Leaf, Searching
<1>9. CASE Stuck \/ HaltRun \/ EndRun
  BY <1>9, <1>0, VerdictSees, RestSeen
     DEF Stuck, HaltRun, EndRun, NextRun, Halt, Searching, Checkpoint, NoScore
<1>10. CASE HaltWalk \/ EndWalk
  BY <1>10, <1>0, VerdictSees, RestSeen
     DEF HaltWalk, EndWalk, Halt, Searching, Checkpoint, NoScore
<1>11. CASE BeginRescore \/ Simulate \/ Finish
  BY <1>11, <1>0, RestSeen DEF BeginRescore, Simulate, Finish, Ending
<1>. QED BY <1>1, <1>2, <1>3, <1>4, <1>5, <1>6, <1>7, <1>8, <1>9, <1>10, <1>11 DEF Next

\* A stop, asked for or due to the budget, is seen before CheckEvery more
\* evaluations, or within one estimate (Tracker::checkpoint, anneal.rs).
THEOREM StopSeen == Spec => []StopIsSeen
<1>1. TypeOK /\ StopInv /\ [Next]_vars => StopInv'
  BY StopStep
<1>2. StopInv => StopIsSeen
  BY DEF StopInv
<1>. QED BY <1>1, <1>2, StopBegins, SearchTyped, PTL DEF Spec

-----------------------------------------------------------------------------
(* What the observer is told.                                              *)

\* A report is of what has been done: a run reports no more than its steps so
\* far, and the walk no more than the leaves it has left behind.
ReportsInv ==
  /\ progress \in [phase : {"searching", "rescoring"}, done : Nat, total : Nat]
  /\ progress.done <= progress.total
  /\ pc \in Searches \cup {"rescore"} =>
       progress.phase = "searching" /\ progress.total = Planned
  /\ pc \in {"simulate", "done"} => progress.phase = "rescoring"
  /\ pc \in {"restart", "estimate", "step"} => strategy = "annealing"
  /\ pc \in {"restart", "estimate"} => progress.done <= restart * Iterations
  /\ pc = "step" => progress.done <= Done /\ count <= Iterations
  /\ pc = "walk" =>
       /\ strategy = "exhaustive" /\ progress.done <= count
       /\ IsFiniteSet(left) /\ count + Cardinality(left) = Cardinality(Walk)

Advance ==
  /\ progress'.done <= progress'.total
  /\ progress'.phase = progress.phase => progress'.done >= progress.done

\* The steps of so many runs.
LEMMA RunsAdd ==
  ASSUME NEW r \in 0 .. Restarts
  PROVE  /\ r * Iterations \in Nat /\ Restarts * Iterations \in Nat
         /\ (r + 1) * Iterations = r * Iterations + Iterations
         /\ r < Restarts => r * Iterations + Iterations <= Restarts * Iterations
<1>1. Restarts \in Nat /\ Iterations \in Nat
  BY SearchAssumption
<1>2. \A a, b \in Nat : (a + b) * Iterations = a * Iterations + b * Iterations
  BY <1>1
<1>3. \A a \in Nat : a * Iterations \in Nat
  BY <1>1
<1>4. (r + 1) * Iterations = r * Iterations + Iterations
  BY <1>1
<1>5. ASSUME r < Restarts PROVE r * Iterations + Iterations <= Restarts * Iterations
  <2>1. PICK d \in Nat : Restarts = (r + 1) + d
    <3>1. Restarts - (r + 1) \in Nat /\ Restarts = (r + 1) + (Restarts - (r + 1))
      BY <1>1, <1>5
    <3> QED  BY <3>1
  <2>2. Restarts * Iterations = (r + 1) * Iterations + d * Iterations
    BY <1>2, <2>1
  <2>3. d * Iterations \in Nat /\ (r + 1) * Iterations \in Nat
    BY <1>3
  <2> QED  BY <1>4, <2>2, <2>3
<1> QED  BY <1>1, <1>3, <1>4, <1>5

LEMMA PlannedIs ==
  ASSUME TypeOK
  PROVE  /\ Planned \in Nat
         /\ strategy = "annealing" => Planned = Restarts * Iterations
         /\ strategy # "annealing" => strategy = "exhaustive" /\ Planned = Cardinality(Walk)
         /\ IsFiniteSet(Walk) /\ Cardinality(Walk) \in Nat
<1>1. IsFiniteSet(Walk) /\ Cardinality(Walk) \in Nat
  BY SearchAssumption, FS_CardinalityType DEF TypeOK, Walk
<1>2. Restarts * Iterations \in Nat
  BY SearchAssumption
<1> QED  BY <1>1, <1>2, SearchAssumption DEF TypeOK, Planned

\* A report within the plan, no lower than the last of its phase.
LEMMA Reported ==
  ASSUME NEW ph \in {"searching", "rescoring"}, NEW d \in Nat, NEW t \in Nat, d <= t,
         Report(ph, d, t), progress.phase = ph => progress.done <= d
  PROVE  /\ progress' \in [phase : {"searching", "rescoring"}, done : Nat, total : Nat]
         /\ progress'.phase = ph /\ progress'.done = d /\ progress'.total = t
         /\ Advance
<1>1. progress' = [phase |-> ph, done |-> d, total |-> t]
  BY DEF Report
<1>2. progress'.phase = ph /\ progress'.done = d /\ progress'.total = t
  BY <1>1
<1> QED  BY <1>1, <1>2 DEF Advance

LEMMA ReportsBegin == Init => ReportsInv
<1> SUFFICES ASSUME Init PROVE ReportsInv
  OBVIOUS
<1>1. TypeOK
  BY InitEstablishes DEF IInv
<1>2. progress = [phase |-> "searching", done |-> 0, total |-> Planned] /\ Planned \in Nat
  BY <1>1, PlannedIs DEF Init
<1>3. pc = "restart" => restart * Iterations = 0
  BY SearchAssumption DEF Init
<1>4. /\ pc = IF strategy = "annealing" THEN "restart" ELSE "walk"
      /\ left = IF strategy = "annealing" THEN {} ELSE Walk
      /\ count = 0
  BY DEF Init
<1>5. pc = "walk" => count + Cardinality(left) = Cardinality(Walk) /\ IsFiniteSet(left)
  BY <1>1, <1>4, PlannedIs
<1> QED  BY <1>1, <1>2, <1>3, <1>4, <1>5, PlannedIs DEF ReportsInv, Searches

\* The steps that tell the observer nothing.
LEMMA Untold ==
  ASSUME ReportsInv, UNCHANGED progress
  PROVE  Advance
  BY DEF ReportsInv, Advance

LEMMA ReportsStep ==
  ASSUME TypeOK, EndInv, ReportsInv, [Next]_vars
  PROVE  ReportsInv' /\ Advance
<1> DEFINE Told == progress' \in [phase : {"searching", "rescoring"}, done : Nat, total : Nat]
<1>1. /\ progress \in [phase : {"searching", "rescoring"}, done : Nat, total : Nat]
      /\ progress.done \in Nat /\ progress.total \in Nat /\ progress.done <= progress.total
  BY DEF ReportsInv
<1>2. /\ restart \in 0 .. Restarts /\ count \in Nat /\ Restarts \in Nat /\ Iterations \in Nat \ {0}
      /\ Planned \in Nat
  BY SearchAssumption, PlannedIs DEF TypeOK
<1>3. PICK R \in Nat : R = restart * Iterations
  BY <1>2, RunsAdd
<1>4. /\ Restarts * Iterations \in Nat
      /\ (restart + 1) * Iterations = R + Iterations
      /\ restart < Restarts => R + Iterations <= Restarts * Iterations
      /\ R <= Restarts * Iterations
  <2>1. restart = Restarts => R <= Restarts * Iterations
    BY <1>2, <1>3, RunsAdd
  <2>2. restart < Restarts \/ restart = Restarts
    BY <1>2
  <2> QED  BY <1>2, <1>3, <2>1, <2>2, RunsAdd
<1>5. Done = R + count
  BY <1>3 DEF Done
<1>6. ASSUME UNCHANGED <<base, strategy>> PROVE Planned' = Planned /\ Walk' = Walk
  BY <1>6 DEF Planned, Walk
<1>7. pc \in {"restart", "estimate", "step"} => Planned = Restarts * Iterations
  BY PlannedIs DEF ReportsInv
<1>8. pc \in {"estimate", "step"} => restart < Restarts
  BY DEF EndInv
<1>9. CASE Ask \/ Expire \/ UNCHANGED vars
  BY <1>9, <1>6, Untold DEF Ask, Expire, vars, search, request, result, ReportsInv, Done
<1>10. CASE BeginRun
  <2>1. Report("searching", R, Planned) /\ UNCHANGED <<base, strategy, restart>> /\ pc' = "estimate" /\ pc = "restart"
    BY <1>3, <1>10 DEF BeginRun, Searching, request, Checkpoint
  <2>2. progress.done <= R
    BY <1>3, <2>1 DEF ReportsInv
  <2>3. Told /\ progress'.phase = "searching" /\ progress'.done = R /\ progress'.total = Planned /\ Advance
    BY <1>2, <1>4, <1>7, <2>1, <2>2, Reported
  <2> QED  BY <1>3, <1>4, <1>6, <1>7, <2>1, <2>3 DEF ReportsInv, Searches
<1>11. CASE BreakOff
  <2>1. pc = "restart" /\ pc' = "rescore" /\ UNCHANGED <<base, strategy>>
    BY <1>11 DEF BreakOff, Searching, request
  <2>2. CASE UNCHANGED progress
    BY <1>1, <1>6, <2>1, <2>2, Untold DEF ReportsInv, Searches
  <2>3. CASE Report("searching", R, Planned)
    <3>1. progress.done <= R
      BY <1>3, <2>1 DEF ReportsInv
    <3>2. Told /\ progress'.phase = "searching" /\ progress'.done = R /\ progress'.total = Planned /\ Advance
      BY <1>2, <1>4, <1>7, <2>1, <2>3, <3>1, Reported
    <3> QED  BY <1>4, <1>6, <1>7, <2>1, <3>2 DEF ReportsInv, Searches
  <2> QED  BY <1>3, <1>11, <2>2, <2>3 DEF BreakOff, Checkpoint
<1>12. CASE EndSearch
  <2>1. pc = "restart" /\ pc' = "rescore" /\ UNCHANGED <<base, strategy, progress>>
    BY <1>12 DEF EndSearch, Searching, request
  <2> QED  BY <1>1, <1>6, <2>1, Untold DEF ReportsInv, Searches
<1>13. CASE Draw
  <2>1. pc = "estimate" /\ pc' = pc /\ UNCHANGED <<base, strategy, restart, progress>>
    BY <1>13 DEF Draw, Searching, request
  <2> QED  BY <1>1, <1>6, <2>1, Untold DEF ReportsInv, Searches
<1>14. CASE EndDraws
  <2>1. pc = "estimate" /\ pc' = "step" /\ count' = 0 /\ UNCHANGED <<base, strategy, restart, progress>>
    BY <1>14 DEF EndDraws, Searching, request
  <2>2. Done' = R
    BY <1>3, <2>1 DEF Done
  <2>3. progress'.done <= Done' /\ count' <= Iterations
    BY <1>2, <1>3, <2>1, <2>2 DEF ReportsInv
  <2> QED  BY <1>1, <1>6, <2>1, <2>3, Untold DEF ReportsInv, Searches
<1>15. CASE Step
  <2>1. /\ pc = "step" /\ pc' = pc /\ count' = count + 1 /\ count < Iterations
        /\ UNCHANGED <<base, strategy, restart>>
        /\ UNCHANGED progress \/ Report("searching", R + count, Planned)
    BY <1>5, <1>15 DEF Step, Searching, request, GoOn, Checkpoint
  <2>2. Done' = R + (count + 1) /\ progress.done <= R + count /\ progress.phase = "searching"
    BY <1>3, <1>5, <2>1 DEF Done, ReportsInv, Searches
  <2>3. CASE UNCHANGED progress
    BY <1>1, <1>2, <1>6, <2>1, <2>2, <2>3, Untold DEF ReportsInv, Searches
  <2>4. CASE Report("searching", R + count, Planned)
    <3>1. R + count \in Nat /\ R + count <= Planned
      BY <1>2, <1>4, <1>7, <1>8, <2>1
    <3>2. Told /\ progress'.phase = "searching" /\ progress'.done = R + count /\ progress'.total = Planned /\ Advance
      BY <1>2, <2>2, <2>4, <3>1, Reported
    <3>3. progress'.done <= Done' /\ count' <= Iterations
      BY <1>2, <2>1, <2>2, <3>2
    <3> QED  BY <1>6, <2>1, <3>1, <3>2, <3>3 DEF ReportsInv, Searches
  <2> QED  BY <2>1, <2>3, <2>4
<1>16. ASSUME pc = "step", NextRun, UNCHANGED <<base, strategy>>,
              NEW d \in Nat, Report("searching", d, Planned), progress.done <= d, d <= R + Iterations
       PROVE  ReportsInv' /\ Advance
  <2>1. pc' = "restart" /\ restart' * Iterations = R + Iterations
    BY <1>4, <1>16 DEF NextRun
  <2>2. d <= Planned
    BY <1>2, <1>4, <1>7, <1>8, <1>16
  <2>3. Told /\ progress'.phase = "searching" /\ progress'.done = d /\ progress'.total = Planned /\ Advance
    BY <1>2, <1>16, <2>2, Reported
  <2>4. strategy' = "annealing"
    BY <1>16 DEF ReportsInv
  <2> QED  BY <1>6, <1>16, <2>1, <2>2, <2>3, <2>4 DEF ReportsInv, Searches
<1>17. CASE Stuck
  <2>1. /\ pc = "step" /\ NextRun /\ UNCHANGED <<base, strategy>> /\ count < Iterations
        /\ Report("searching", Done + 1, Planned)
    BY <1>17 DEF Stuck, Searching, request
  <2>2. progress.done <= Done
    BY <2>1 DEF ReportsInv
  <2>3. Done + 1 \in Nat /\ progress.done <= Done + 1 /\ Done + 1 <= R + Iterations
    BY <1>1, <1>2, <1>5, <2>1, <2>2
  <2> QED  BY <1>16, <2>1, <2>3
<1>18. CASE HaltRun
  <2>1. /\ pc = "step" /\ NextRun /\ UNCHANGED <<base, strategy>> /\ count < Iterations
        /\ Report("searching", Done, Planned)
    BY <1>18 DEF HaltRun, Halt, Checkpoint, Searching, request
  <2>2. progress.done <= Done
    BY <2>1 DEF ReportsInv
  <2>3. Done \in Nat /\ Done <= R + Iterations
    BY <1>2, <1>5, <2>1
  <2> QED  BY <1>16, <2>1, <2>2, <2>3
<1>19. CASE EndRun
  <2>1. /\ pc = "step" /\ NextRun /\ UNCHANGED <<base, strategy>> /\ count = Iterations
        /\ Report("searching", Done, Planned)
    BY <1>19 DEF EndRun, Searching, request
  <2>2. progress.done <= Done
    BY <2>1 DEF ReportsInv
  <2>3. Done \in Nat /\ Done <= R + Iterations
    BY <1>2, <1>5, <2>1
  <2> QED  BY <1>16, <2>1, <2>2, <2>3
<1>20. pc = "walk" => /\ strategy = "exhaustive" /\ Planned = Cardinality(Walk)
                      /\ IsFiniteSet(left) /\ Cardinality(left) \in Nat
                      /\ count + Cardinality(left) = Planned
                      /\ progress.done <= count /\ progress.phase = "searching"
  BY PlannedIs, FS_CardinalityType DEF ReportsInv, Searches
<1>21. CASE Leaf
  <2>1. /\ pc = "walk" /\ pc' = pc /\ count' = count + 1 /\ UNCHANGED <<base, strategy>>
        /\ UNCHANGED progress \/ Report("searching", count, Planned)
    BY <1>21 DEF Leaf, Searching, request, GoOn, Checkpoint
  <2>2. PICK s \in left : left' = left \ {s}
    BY <1>21 DEF Leaf
  <2>3. IsFiniteSet(left') /\ Cardinality(left') = Cardinality(left) - 1
    BY <1>20, <2>1, <2>2, FS_RemoveElement
  <2>4. count' + Cardinality(left') = Planned /\ count <= Planned
    BY <1>2, <1>20, <2>1, <2>3
  <2>5. CASE UNCHANGED progress
    BY <1>1, <1>2, <1>6, <1>20, <2>1, <2>3, <2>4, <2>5, Untold DEF ReportsInv, Searches
  <2>6. CASE Report("searching", count, Planned)
    <3>1. Told /\ progress'.phase = "searching" /\ progress'.done = count /\ progress'.total = Planned /\ Advance
      BY <1>2, <1>20, <2>1, <2>4, <2>6, Reported
    <3> QED  BY <1>2, <1>6, <1>20, <2>1, <2>3, <2>4, <3>1 DEF ReportsInv, Searches
  <2> QED  BY <2>1, <2>5, <2>6
<1>22. CASE HaltWalk \/ EndWalk
  <2>1. pc = "walk" /\ pc' = "rescore" /\ UNCHANGED <<base, strategy>> /\ Report("searching", count, Planned)
    BY <1>22 DEF HaltWalk, EndWalk, Halt, Checkpoint, Searching, request
  <2>2. count <= Planned
    BY <1>2, <1>20, <2>1
  <2>3. Told /\ progress'.phase = "searching" /\ progress'.done = count /\ progress'.total = Planned /\ Advance
    BY <1>2, <1>20, <2>1, <2>2, Reported
  <2> QED  BY <1>6, <2>1, <2>2, <2>3 DEF ReportsInv, Searches
<1>23. CASE BeginRescore
  <2>1. pc = "rescore" /\ pc' = "simulate"
    BY <1>23 DEF BeginRescore, Ending
  <2>2. IsFiniteSet(finalists')
    <3>1. IsFiniteSet(top) /\ IsFiniteSet(top \cup {Initial})
      BY FS_AddElement DEF TypeOK
    <3> QED  BY <1>23, <3>1 DEF BeginRescore
  <2>3. PICK t \in Nat : Report("rescoring", 0, t)
    <3>1. Cardinality(finalists') + 1 \in Nat
      BY <2>2, FS_CardinalityType
    <3> QED  BY <1>23, <3>1 DEF BeginRescore
  <2>4. progress.phase = "searching"
    BY <2>1 DEF ReportsInv
  <2>5. Told /\ progress'.phase = "rescoring" /\ progress'.done = 0 /\ progress'.total = t /\ Advance
    BY <2>3, <2>4, Reported
  <2> QED  BY <2>1, <2>5 DEF ReportsInv, Searches
<1>24. CASE Simulate
  <2>1. /\ pc = "simulate" /\ pc' = "simulate" /\ progress.done < progress.total
        /\ Report("rescoring", progress.done + 1, progress.total)
    BY <1>24 DEF Simulate, Ending, result
  <2>2. /\ Told /\ progress'.phase = "rescoring" /\ progress'.done = progress.done + 1
        /\ progress'.total = progress.total /\ Advance
    BY <1>1, <2>1, Reported
  <2> QED  BY <1>1, <2>1, <2>2 DEF ReportsInv, Searches
<1>25. CASE Finish
  <2>1. pc = "simulate" /\ pc' = "done" /\ UNCHANGED progress
    BY <1>25 DEF Finish, Ending
  <2> QED  BY <1>1, <2>1, Untold DEF ReportsInv, Searches
<1> QED  BY <1>9, <1>10, <1>11, <1>12, <1>13, <1>14, <1>15, <1>17, <1>18, <1>19,
            <1>21, <1>22, <1>23, <1>24, <1>25 DEF Next

\* What the observer is told never goes back within a phase, nor beyond the
\* plan, whatever the restarts, the steps of each and the spaces to walk
\* (Tracker::report and its callers in anneal.rs, exhaustive.rs and lib.rs).
THEOREM ProgressAlwaysAdvances == Spec => ProgressAdvances
<1>1. IInv /\ ReportsInv /\ [Next]_vars => ReportsInv' /\ Advance
  BY ReportsStep DEF IInv
<1>2. IInv /\ ReportsInv /\ [Next]_vars =>
        [ /\ progress'.done <= progress'.total
          /\ progress'.phase = progress.phase => progress'.done >= progress.done ]_vars
  BY <1>1 DEF Advance
<1> QED  BY <1>1, <1>2, ReportsBegin, SearchInvariance, PTL DEF Spec, ProgressAdvances

\* Every move has a move back, as MovesAreReversible has it of Space.
Reversible ==
  \A b \in DOMAIN Moves : \A s, t \in Solutions : t \in Moves[b][s] => s \in Moves[b][t]

\* Only the tracker ends a run or walk early, and it does so with work left;
\* the annealing never gets to where it cannot move, unless it started there.
CutInv ==
  /\ Reversible
  /\ pc \in {"estimate", "step", "walk"} => stopped = "no"
  /\ pc \in {"restart", "rescore"} /\ stopped # "no" => progress.done < progress.total
  /\ pc \in {"restart", "estimate", "step"} /\ Neighbours[Initial] # {} => Neighbours[current] # {}
  /\ stopped = "no" /\ Neighbours[Initial] # {} =>
       /\ pc = "restart" => progress.done = restart * Iterations
       /\ pc = "rescore" => progress.done = progress.total

LEMMA CutBegins == Reversible /\ Init => CutInv
<1> SUFFICES ASSUME Reversible, Init PROVE CutInv
  OBVIOUS
<1>1. restart * Iterations = 0
  BY SearchAssumption DEF Init
<1>2. stopped = "no" /\ current = Initial /\ pc \in {"restart", "walk"} /\ progress.done = 0
  BY DEF Init
<1> QED  BY <1>1, <1>2 DEF CutInv

LEMMA CutStep ==
  ASSUME TypeOK, EndInv, ReportsInv, CutInv, [Next]_vars
  PROVE  CutInv'
<1>1. /\ restart \in 0 .. Restarts /\ count \in Nat /\ Restarts \in Nat /\ Iterations \in Nat \ {0}
      /\ Planned \in Nat /\ progress.done \in Nat /\ progress.total \in Nat
      /\ current \in Solutions /\ base \in DOMAIN Moves /\ Initial \in Solutions
  BY SearchAssumption, PlannedIs DEF TypeOK, ReportsInv
<1>2. PICK R \in Nat : R = restart * Iterations
  BY <1>1, RunsAdd
<1>3. /\ (restart + 1) * Iterations = R + Iterations
      /\ restart < Restarts => R + Iterations <= Restarts * Iterations
      /\ Done = R + count
  BY <1>1, <1>2, RunsAdd DEF Done
<1>4. pc \in {"restart", "estimate", "step"} => Planned = Restarts * Iterations
  BY PlannedIs DEF ReportsInv
<1>5. pc \in {"estimate", "step"} => restart < Restarts
  BY DEF EndInv
<1>6. Reversible /\ Reversible' /\ (pc \in {"estimate", "step", "walk"} => stopped = "no")
  BY DEF CutInv, Reversible
<1>7. ASSUME NEW d, NEW t, NEW ph, Report(ph, d, t) PROVE progress'.done = d /\ progress'.total = t
  BY <1>7 DEF Report
<1>8. CASE Ask \/ Expire \/ UNCHANGED vars
  BY <1>6, <1>8 DEF Ask, Expire, vars, search, request, result, CutInv, Neighbours
<1>9. CASE BeginRun
  <2>1. stopped' = "no" /\ pc' = "estimate" /\ current' = Initial /\ base' = base
    BY <1>9 DEF BeginRun, Checkpoint, Searching, request
  <2> QED  BY <1>6, <2>1 DEF CutInv, Neighbours
<1>10. CASE BreakOff
  <2>1. pc = "restart" /\ pc' = "rescore" /\ restart < Restarts /\ Verdict # "no"
    BY <1>10 DEF BreakOff, Searching
  <2>2. CASE stopped = "no"
    <3>1. stopped' = Verdict /\ Report("searching", R, Planned)
      BY <1>2, <1>10, <2>2 DEF BreakOff, Checkpoint
    <3>2. progress'.done < progress'.total
      BY <1>1, <1>3, <1>4, <1>7, <2>1, <3>1
    <3> QED  BY <1>6, <2>1, <3>1, <3>2 DEF CutInv
  <2>3. CASE stopped # "no"
    BY <1>6, <1>10, <2>1, <2>3 DEF BreakOff, CutInv
  <2> QED  BY <2>2, <2>3
<1>11. CASE EndSearch
  <2>1. /\ pc = "restart" /\ pc' = "rescore" /\ restart = Restarts
        /\ UNCHANGED <<base, stopped, progress>>
    BY <1>11 DEF EndSearch, Searching, request
  <2>2. progress.total = restart * Iterations
    BY <1>4, <2>1 DEF ReportsInv, Searches
  <2> QED  BY <1>6, <2>1, <2>2 DEF CutInv, Neighbours
<1>12. CASE Draw \/ EndDraws
  <2>1. /\ pc = "estimate" /\ pc' \in {"estimate", "step"}
        /\ UNCHANGED <<base, stopped, current>>
    BY <1>12 DEF Draw, EndDraws, Searching, request, NoScore
  <2> QED  BY <1>6, <2>1 DEF CutInv, Neighbours
<1>13. CASE Step
  <2>1. /\ pc = "step" /\ pc' = "step" /\ base' = base
        /\ stopped' = stopped \/ (stopped' = Verdict /\ Verdict = "no")
    BY <1>13 DEF Step, Searching, request, GoOn, Checkpoint
  <2>2. PICK s \in Neighbours[current] : current' \in {s, current}
    BY <1>13 DEF Step
  <2>3. s \in Solutions
    BY <1>1, <2>2, BaseFacts
  <2>4. current \in Neighbours[s]
    BY <1>1, <1>6, <2>2, <2>3 DEF Reversible, Neighbours
  <2> QED  BY <1>6, <2>1, <2>2, <2>4 DEF CutInv, Neighbours
<1>14. CASE Stuck
  <2>1. /\ pc = "step" /\ pc' = "restart" /\ UNCHANGED <<base, stopped, current>>
        /\ Neighbours[current] = {}
    BY <1>14 DEF Stuck, NextRun, NoScore, Searching, request
  <2>2. Neighbours[Initial] = {} /\ stopped' = "no"
    BY <1>6, <2>1 DEF CutInv
  <2> QED  BY <1>6, <2>1, <2>2 DEF CutInv, Neighbours
<1>15. CASE HaltRun
  <2>1. /\ pc = "step" /\ pc' = "restart" /\ UNCHANGED <<base, current>>
        /\ stopped' = Verdict /\ Verdict # "no" /\ count < Iterations
        /\ Report("searching", R + count, Planned)
    BY <1>3, <1>15 DEF HaltRun, Halt, Checkpoint, NextRun, NoScore, Searching, request
  <2>2. progress'.done < progress'.total
    BY <1>1, <1>3, <1>4, <1>5, <1>7, <2>1
  <2> QED  BY <1>6, <2>1, <2>2 DEF CutInv, Neighbours
<1>16. CASE EndRun
  <2>1. /\ pc = "step" /\ pc' = "restart" /\ UNCHANGED <<base, current, stopped>>
        /\ count = Iterations /\ restart' = restart + 1
        /\ Report("searching", R + count, Planned)
    BY <1>3, <1>16 DEF EndRun, NextRun, NoScore, Searching, request
  <2>2. progress'.done = restart' * Iterations
    BY <1>3, <1>7, <2>1
  <2> QED  BY <1>6, <2>1, <2>2 DEF CutInv, Neighbours
<1>17. pc = "walk" => /\ IsFiniteSet(left) /\ Cardinality(left) \in Nat
                      /\ count + Cardinality(left) = Planned
  BY PlannedIs, FS_CardinalityType DEF ReportsInv
<1>18. CASE Leaf
  <2>1. pc' = "walk" /\ (stopped' = stopped \/ (stopped' = Verdict /\ Verdict = "no")) /\ pc = "walk"
    BY <1>18 DEF Leaf, Searching, GoOn, Checkpoint
  <2> QED  BY <1>6, <2>1 DEF CutInv
<1>19. CASE HaltWalk
  <2>1. /\ pc = "walk" /\ pc' = "rescore" /\ left # {}
        /\ stopped' # "no" /\ Report("searching", count, Planned)
    BY <1>19 DEF HaltWalk, Halt, Checkpoint, Searching
  <2>2. Cardinality(left) # 0
    BY <1>17, <2>1, FS_EmptySet
  <2>3. progress'.done < progress'.total
    BY <1>1, <1>7, <1>17, <2>1, <2>2
  <2> QED  BY <1>6, <2>1, <2>3 DEF CutInv
<1>20. CASE EndWalk
  <2>1. /\ pc = "walk" /\ pc' = "rescore" /\ left = {} /\ UNCHANGED stopped
        /\ Report("searching", count, Planned)
    BY <1>20 DEF EndWalk, Searching
  <2>2. Cardinality(left) = 0
    BY <2>1, FS_EmptySet
  <2>3. progress'.done = progress'.total
    BY <1>1, <1>7, <1>17, <2>1, <2>2
  <2> QED  BY <1>6, <2>1, <2>3 DEF CutInv
<1>21. CASE BeginRescore \/ Simulate \/ Finish
  <2>1. pc' \in {"simulate", "done"}
    BY <1>21 DEF BeginRescore, Simulate, Finish, Ending, result
  <2> QED  BY <1>6, <2>1 DEF CutInv
<1> QED  BY <1>8, <1>9, <1>10, <1>11, <1>12, <1>13, <1>14, <1>15, <1>16,
            <1>18, <1>19, <1>20, <1>21 DEF Next

\* A result says stopped only of a search that did not cover its plan, and of
\* one that covered it only if the start had no move at all: moves that can be
\* undone, as those of Space can (AlwaysReversible), never lead into a corner
\* (result.rs and control.rs, of stopped and total).
THEOREM StoppedAlwaysCut == Reversible /\ Spec => []StoppedMeansCut
<1>1. IInv /\ ReportsInv /\ CutInv /\ [Next]_vars => ReportsInv' /\ CutInv'
  BY ReportsStep, CutStep DEF IInv
<1>2. CutInv => StoppedMeansCut
  BY DEF CutInv, StoppedMeansCut
<1> QED  BY <1>1, <1>2, ReportsBegin, CutBegins, SearchInvariance, PTL DEF Spec

=============================================================================
