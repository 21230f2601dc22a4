---------------------------- MODULE OrdersProofs ----------------------------
(***************************************************************************)
(* Proofs about Orders, for any orders, questions and losses.  What the    *)
(* application was told and what the gateway did are compared when no call *)
(* is in progress; between the gateway's decision and the return of the    *)
(* call, the answer on its way makes up the difference.                    *)
(***************************************************************************)
EXTENDS Orders, TLAPS

Placing(r) == r.kind \in {"place", "modify", "confirm"}

\* What the answer on its way will tell.
PlacedNow == IF Placing(call) THEN PlacedIn(answer) ELSE {}
RaisedNow == IF Placing(call) THEN RaisedIn(answer) ELSE {}
CancelledNow == IF call.kind = "cancel" /\ Succeeds(answer) THEN call.orders ELSE {}

\* Requests are about orders that exist, in the way their kind says.
Proper(r) ==
    /\ r.kind # "none"
    /\ r.kind = "confirm" => r.reply \in 1..asked
    /\ r.kind = "modify" => r.orders \subseteq known
    /\ r.kind = "cancel" => \E o \in OrderIDs : r.orders = {o}

QuestionsProper ==
    \A q \in 1..asked :
        /\ questions[q].kind \in {"place", "modify"}
        /\ questions[q].kind = "modify" => questions[q].orders \subseteq known

RequestsProper ==
    /\ call # NoCall => Proper(call)
    /\ call = NoCall => answer = NoAnswer
    /\ \A r \in late : Proper(r) /\ About(r) \subseteq doubt
    /\ open \subseteq 1..asked /\ RaisedNow \subseteq 1..asked
    /\ QuestionsProper

\* The call in progress does what the application has in mind.
CallWanted ==
    /\ call.kind = "place" => call.orders \subseteq wanted
    /\ (call.kind = "confirm" /\ questions[call.reply].kind = "place") =>
            IF call.yes THEN About(call) \subseteq wanted ELSE About(call) \cap wanted = {}

\* An answer tells of nothing else than its request.
AnswerAbout ==
    /\ PlacedNow \subseteq About(call)
    /\ \A q \in RaisedNow : questions[q].orders \subseteq About(call)

ToldIsDone ==
    /\ \A o \in known \cup PlacedNow : accepted[o] > 0
    /\ gone \cup CancelledNow \subseteq cancels \cup doubt
    /\ \A o \in PlacedNow \ doubt : terms[o] = Subject(call).terms
    /\ \A o \in known \ (doubt \cup PlacedNow) : terms[o] = believed[o]

DoneIsTold ==
    \A o \in OrderIDs \ doubt :
        /\ accepted[o] > 0 => o \in known \cup PlacedNow
        /\ o \in cancels => o \in gone \cup CancelledNow

Followed ==
    \A o \in wanted \ doubt :
        \/ o \in known \cup failed \cup PlacedNow
        \/ \E q \in open \cup RaisedNow : o \in questions[q].orders
        \/ Placing(call) /\ o \in About(call) /\ (answer = NoAnswer \/ Placements(answer).err)

\* The inductive invariant.
Consistent ==
    /\ TypeOK /\ RequestsProper /\ CallWanted /\ AnswerAbout
    /\ ToldIsDone /\ DoneIsTold /\ Followed

-----------------------------------------------------------------------------
(* Reading an answer.                                                      *)

LEMMA UnreadableTellsNothing ==
    ASSUME NEW a, ~Readable(a)
    PROVE  PlacedIn(a) = {} /\ RaisedIn(a) = {} /\ Placements(a).err
BY DEF PlacedIn, RaisedIn, Placements

LEMMA ReadableTells ==
    ASSUME NEW a, Readable(a)
    PROVE  /\ PlacedIn(a) = {OrderIDOf(e) : e \in {x \in a.elements : OrderIDOf(x) # NoOrder}}
           /\ RaisedIn(a) = {e.reply : e \in {x \in a.elements :
                                x.reply # NoReply /\ OrderIDOf(x) = NoOrder}}
           /\ Placements(a).err <=> \E e \in a.elements : e.error
<1> DEFINE P == {OrderPlacement(e) : e \in a.elements}
<1>1. Placements(a).placements = P /\ (Placements(a).err <=> \E p \in P : p.error)
  BY DEF Placements
<1>2. \A e \in a.elements : /\ OrderPlacement(e).reply = e.reply
                            /\ OrderPlacement(e).order = OrderIDOf(e)
                            /\ OrderPlacement(e).error = e.error
  BY DEF OrderPlacement
<1>3. (\E p \in P : p.error) <=> \E e \in a.elements : e.error
  BY <1>2
<1>4. PlacedIn(a) = {OrderIDOf(e) : e \in {x \in a.elements : OrderIDOf(x) # NoOrder}}
  <2>1. PlacedIn(a) = {p.order : p \in {r \in P : r.order # NoOrder}}
    BY <1>1 DEF PlacedIn, IsPlaced
  <2> QED BY <2>1, <1>2
<1>5. RaisedIn(a) = {e.reply : e \in {x \in a.elements :
                                x.reply # NoReply /\ OrderIDOf(x) = NoOrder}}
  <2>1. RaisedIn(a) = {p.reply : p \in {r \in P : r.reply # NoReply /\ r.order = NoOrder}}
    BY <1>1 DEF RaisedIn, IsQuestion
  <2> QED BY <2>1, <1>2
<1> QED BY <1>1, <1>3, <1>4, <1>5

LEMMA NoAnswerTellsNothing ==
    PlacedIn(NoAnswer) = {} /\ RaisedIn(NoAnswer) = {} /\ ~Succeeds(NoAnswer)
<1>1. ~Readable(NoAnswer) /\ ~Succeeds(NoAnswer)
  BY DEF Readable, Succeeds, NoAnswer
<1> QED BY <1>1, UnreadableTellsNothing

LEMMA SpoiltIsUnreadable ==
    ASSUME NEW a \in {Answer("blank", {}), Answer("array", {Unexpected})}
    PROVE  a \in Answers /\ ~Readable(a)
<1> USE OrdersAssumption
<1>1. Unexpected \in Elements /\ Unexpected.form = "other"
  BY DEF Unexpected, Element, Elements
<1>2. CASE a = Answer("blank", {})
  BY <1>2 DEF Answer, Answers, Readable
<1>3. CASE a = Answer("array", {Unexpected})
  <2> DEFINE S == {Unexpected}
  <2>1. Unexpected \in S /\ S \subseteq Elements
    BY <1>1
  <2> HIDE DEF S
  <2>2. a = [shape |-> "array", elements |-> S]
    BY <1>3 DEF Answer, S
  <2> QED BY <1>1, <2>1, <2>2 DEF Answers, Readable
<1> QED BY <1>2, <1>3

\* What the gateway says is what it decided.
LEMMA ToldReads ==
    ASSUME asked \in Nat, NEW r, NEW A \in SUBSET OrderIDs, NEW Q \in SUBSET OrderIDs,
           Q # {} => asked + 1 \in Replies, NEW a \in Told(r, A, Q)
    PROVE  /\ a \in Answers /\ a # NoAnswer
           /\ PlacedIn(a) = A
           /\ RaisedIn(a) = {asked + 1} \cap {asked + 1 : o \in Q}
           /\ ~Placements(a).err => A \cup Q = About(r) \/ NoEffect(r)
           /\ Succeeds(a) => NoEffect(r) \/ A \cup Q = About(r)
           /\ r.kind = "cancel" /\ A \cup Q = About(r) /\ A # {} => Succeeds(a)
<1> USE OrdersAssumption
<1>1. CASE A \cup Q = {}
  <2>1. \/ a \in {Answer("array", {Refused}), Answer("object", {Refused}), Answer("status", {})}
        \/ NoEffect(r) /\ a \in {Answer("object", {}), Answer("array", {})}
    BY <1>1 DEF Told
  <2>2. a \in Answers /\ a # NoAnswer
    <3>1. Refused \in Elements
      BY DEF Refused, Element, Elements
    <3>2. \A sh \in {"array", "object", "status"}, S \in SUBSET Elements :
            Answer(sh, S) \in Answers /\ Answer(sh, S) # NoAnswer
      BY DEF Answer, Answers, NoAnswer
    <3> QED BY <2>1, <3>1, <3>2
  <2>3. CASE a = Answer("status", {})
    <3>1. ~Readable(a) /\ ~Succeeds(a)
      BY <2>3 DEF Readable, Succeeds, Answer
    <3> QED BY <1>1, <2>2, <3>1, UnreadableTellsNothing
  <2>4. CASE a \in {Answer("array", {Refused}), Answer("object", {Refused})}
    <3>1. a.elements = {Refused} /\ a.shape \in {"array", "object"}
      BY <2>4 DEF Answer
    <3>2. Refused.form = "null" /\ Refused.reply = NoReply /\ Refused.error
      BY DEF Refused, Element
    <3>3. Readable(a) /\ OrderIDOf(Refused) = NoOrder
      BY <3>1, <3>2 DEF Readable, OrderIDOf
    <3>4. Placements(a).err /\ ~Succeeds(a) /\ PlacedIn(a) = {} /\ RaisedIn(a) = {}
      BY <3>1, <3>2, <3>3, ReadableTells DEF Succeeds
    <3> QED BY <1>1, <2>2, <3>4
  <2>5. CASE NoEffect(r) /\ a \in {Answer("object", {}), Answer("array", {})}
    <3>1. a.elements = {} /\ Readable(a)
      BY <2>5 DEF Answer, Readable
    <3>2. PlacedIn(a) = {} /\ RaisedIn(a) = {}
      BY <3>1, ReadableTells
    <3> QED BY <1>1, <2>2, <2>5, <3>2
  <2> QED BY <2>1, <2>3, <2>4, <2>5
<1>2. CASE A \cup Q # {}
  <2> DEFINE asks == {asked + 1} \cap {asked + 1 : o \in Q}
             E(form) == {Placed(o, form) : o \in A} \cup {Question(q) : q \in asks}
                        \cup {e \in {Refused} : A \cup Q # About(r)}
  <2>1. PICK form \in {"string", "number"} :
            a = Answer(IF r.kind = "cancel" THEN "object" ELSE "array", E(form))
    BY <1>2 DEF Told
  <2>2. a.shape \in {"array", "object"} /\ a.elements = E(form)
    BY <2>1 DEF Answer
  <2>3. \A o \in A : LET e == Placed(o, form) IN
            /\ e.form = form /\ OrderIDOf(e) = o /\ o # NoOrder /\ e.reply = NoReply /\ ~e.error
            /\ e \in Elements
    BY DEF Placed, Element, OrderIDOf, Elements
  <2>4. \A q \in asks : LET e == Question(q) IN
            /\ e.form = "null" /\ OrderIDOf(e) = NoOrder /\ e.reply = q /\ ~e.error
            /\ q # NoReply /\ q \in Replies /\ e \in Elements
    BY DEF Question, Element, OrderIDOf, Elements, NoReply, Replies
  <2>5. /\ Refused.form = "null" /\ OrderIDOf(Refused) = NoOrder /\ Refused.reply = NoReply
        /\ Refused.error /\ Refused \in Elements
    BY DEF Refused, Element, OrderIDOf, Elements
  <2>6. a \in Answers /\ a # NoAnswer
    <3>1. E(form) \subseteq Elements
      BY <2>3, <2>4, <2>5
    <3> QED BY <3>1, <2>1 DEF Answers, Answer, NoAnswer
  <2>7. Readable(a)
    BY <2>2, <2>3, <2>4, <2>5 DEF Readable
  <2>8. PlacedIn(a) = A
    <3>1. PlacedIn(a) = {OrderIDOf(e) : e \in {x \in E(form) : OrderIDOf(x) # NoOrder}}
      BY <2>2, <2>7, ReadableTells
    <3>2. \A e \in E(form) : OrderIDOf(e) # NoOrder => \E o \in A : e = Placed(o, form)
      BY <2>4, <2>5
    <3>3. \A e \in E(form) : OrderIDOf(e) # NoOrder => OrderIDOf(e) \in A
      BY <2>3, <3>2
    <3>4. \A o \in A : Placed(o, form) \in E(form) /\ OrderIDOf(Placed(o, form)) = o /\ o # NoOrder
      BY <2>3
    <3> HIDE DEF E
    <3> QED BY <3>1, <3>3, <3>4
  <2>9. RaisedIn(a) = asks
    BY <2>2, <2>3, <2>4, <2>5, <2>7, ReadableTells
  <2>10. Placements(a).err <=> A \cup Q # About(r)
    <3>1. (\E e \in E(form) : e.error) <=> A \cup Q # About(r)
      BY <2>3, <2>4, <2>5
    <3> QED BY <3>1, <2>2, <2>7, ReadableTells
  <2>11. Succeeds(a) <=> r.kind = "cancel" /\ ~Placements(a).err
    <3>1. a.shape = IF r.kind = "cancel" THEN "object" ELSE "array"
      BY <2>1 DEF Answer
    <3> QED BY <2>7, <3>1, ReadableTells DEF Succeeds
  <2> QED BY <2>6, <2>8, <2>9, <2>10, <2>11
<1> QED BY <1>1, <1>2

-----------------------------------------------------------------------------
(* What the gateway does with a request, awaited or not.                   *)

\* The request that is decided in the end.
LEMMA SubjectProper ==
    ASSUME TypeOK, QuestionsProper, NEW r \in Requests, Proper(r)
    PROVE  LET s == Subject(r) IN
           /\ s \in Requests /\ About(r) = s.orders /\ About(r) \subseteq OrderIDs
           /\ Placing(r) => s.kind \in {"place", "modify"}
           /\ s.kind = "modify" => s.orders \subseteq known
<1> USE BoundsAssumption
<1>1. r.kind = "confirm" => r.reply \in 1..asked /\ r.reply \in Replies
  BY DEF Proper, TypeOK, Replies
<1>2. r.kind = "confirm" => questions[r.reply] \in Requests
  BY <1>1 DEF TypeOK
<1>3. Subject(r) \in Requests
  BY <1>2 DEF Subject
<1>4. Subject(r).orders \subseteq OrderIDs
  BY <1>3 DEF Requests
<1>5. CASE r.kind = "confirm"
  BY <1>1, <1>3, <1>4, <1>5 DEF QuestionsProper, Subject, About, Placing
<1>6. CASE r.kind # "confirm"
  BY <1>3, <1>4, <1>6 DEF Proper, Subject, About, Placing
<1> QED BY <1>5, <1>6

\* What the decision changes: A and nothing else, and Q is asked about.
Effect(r, A, Q) ==
    /\ accepted' \in [OrderIDs -> Nat] /\ terms' \in [OrderIDs -> Terms]
    /\ cancels' \subseteq OrderIDs
    /\ asked' \in 0..MaxQuestions /\ questions' \in [Replies -> Requests]
    /\ \A o \in OrderIDs \ A : /\ accepted'[o] = accepted[o] /\ terms'[o] = terms[o]
                               /\ o \in cancels' <=> o \in cancels
    /\ \A o \in OrderIDs : accepted'[o] >= accepted[o]
    /\ placings' = [o \in OrderIDs |-> IF o \in A /\ Subject(r).kind = "place"
                                       THEN placings[o] \cup {Subject(r).nr} ELSE placings[o]]
    /\ placings' \in [OrderIDs -> SUBSET (0..MaxCalls)]
    /\ Placing(r) => /\ cancels' = cancels
                     /\ \A o \in A : terms'[o] = Subject(r).terms /\ accepted'[o] > 0
    /\ ~Placing(r) => accepted' = accepted /\ terms' = terms /\ Q = {}
    /\ cancels' = IF r.kind = "cancel" THEN cancels \cup A ELSE cancels
    /\ NoEffect(r) => A = {} /\ Q = {}
    /\ Q = {} => asked' = asked /\ questions' = questions
    /\ Q # {} => /\ asked' = asked + 1 /\ asked' \in Replies
                 /\ questions'[asked'].orders = Q
                 /\ questions'[asked'].kind = Subject(r).kind
                 /\ questions'[asked'].nr = Subject(r).nr
    /\ A \cap Q = {}
    /\ \A q \in 1..asked : questions'[q] = questions[q]
    /\ \A o \in OrderIDs : accepted'[o] > accepted[o] =>
         o \in A /\ Subject(r).kind = "place" /\ (r.kind = "confirm" => r.yes)
    /\ \A q \in 1..asked' :
         /\ questions'[q].kind \in {"place", "modify"}
         /\ questions'[q].kind = "modify" => questions'[q].orders \subseteq known

LEMMA ProcessEffect ==
    ASSUME TypeOK, QuestionsProper, \A o \in known : accepted[o] > 0,
           NEW r \in Requests, Proper(r),
           NEW A \in SUBSET About(r), NEW Q \in SUBSET About(r), Process(r, A, Q)
    PROVE  Effect(r, A, Q)
<1> DEFINE s == Subject(r)
<1> USE BoundsAssumption, OrdersAssumption DEF Effect
<1>1. /\ s \in Requests /\ About(r) = s.orders /\ About(r) \subseteq OrderIDs
      /\ Placing(r) => s.kind \in {"place", "modify"}
      /\ s.kind = "modify" => s.orders \subseteq known
  BY SubjectProper
<1>2. CASE r.kind = "cancel" /\ Q = {} /\ cancels' = cancels \cup A
           /\ UNCHANGED <<accepted, placings, terms, asked, questions>>
  <2>1. s.kind # "place" /\ ~Placing(r) /\ ~NoEffect(r)
    BY <1>2 DEF Subject, Placing, NoEffect
  <2>2. /\ placings' = [o \in OrderIDs |-> IF o \in A /\ s.kind = "place"
                                           THEN placings[o] \cup {s.nr} ELSE placings[o]]
        /\ placings' \in [OrderIDs -> SUBSET (0..MaxCalls)]
    BY <1>2, <2>1 DEF TypeOK
  <2> QED BY <1>1, <1>2, <2>1, <2>2 DEF TypeOK, QuestionsProper
<1>3. CASE NoEffect(r) /\ A = {} /\ Q = {} /\ UNCHANGED gateVars
  <2>1. UNCHANGED <<accepted, placings, terms, asked, questions, cancels>>
    BY <1>3 DEF gateVars
  <2>2. r.kind # "cancel"
    BY <1>3 DEF NoEffect
  <2>3. Placing(r) => A = {}
    BY <1>3
  <2>4. /\ placings' = [o \in OrderIDs |-> IF o \in A /\ s.kind = "place"
                                           THEN placings[o] \cup {s.nr} ELSE placings[o]]
        /\ placings' \in [OrderIDs -> SUBSET (0..MaxCalls)]
    BY <1>3, <2>1 DEF TypeOK
  <2> QED BY <1>1, <1>3, <2>1, <2>2, <2>3, <2>4 DEF TypeOK, QuestionsProper
<1>4. CASE /\ r.kind \in {"place", "modify"} \/ (r.kind = "confirm" /\ r.yes)
           /\ Decide(s, A, Q)
  <2>1. Placing(r) /\ ~NoEffect(r) /\ r.kind # "cancel"
    BY <1>4 DEF Placing, NoEffect
  <2>2. /\ accepted' = [o \in OrderIDs |-> IF o \in A /\ s.kind = "place"
                                           THEN accepted[o] + 1 ELSE accepted[o]]
        /\ terms' = [o \in OrderIDs |-> IF o \in A THEN s.terms ELSE terms[o]]
        /\ cancels' = cancels /\ A \cap Q = {}
        /\ placings' = [o \in OrderIDs |-> IF o \in A /\ s.kind = "place"
                                           THEN placings[o] \cup {s.nr} ELSE placings[o]]
    BY <1>4 DEF Decide
  <2>3. s.terms \in Terms
    BY <1>1 DEF Requests
  <2>4. accepted' \in [OrderIDs -> Nat] /\ terms' \in [OrderIDs -> Terms] /\ cancels' \subseteq OrderIDs
    BY <2>2, <2>3 DEF TypeOK
  <2>5. \A o \in OrderIDs : accepted'[o] >= accepted[o]
    <3> SUFFICES ASSUME NEW o \in OrderIDs
                 PROVE  accepted'[o] >= accepted[o]
      OBVIOUS
    <3>1. accepted[o] \in Nat
      BY DEF TypeOK
    <3> QED BY <2>2, <3>1
  <2>6. \A o \in A : terms'[o] = s.terms /\ accepted'[o] > 0
    <3> SUFFICES ASSUME NEW o \in A PROVE terms'[o] = s.terms /\ accepted'[o] > 0
      OBVIOUS
    <3>1. o \in OrderIDs /\ accepted[o] \in Nat
      BY <1>1 DEF TypeOK
    <3>2. s.kind # "place" => accepted[o] > 0
      BY <1>1, <2>1
    <3> QED BY <2>2, <3>1, <3>2
  <2>7. \A o \in OrderIDs \ A : accepted'[o] = accepted[o] /\ terms'[o] = terms[o]
    BY <2>2
  <2>8. \A o \in OrderIDs : accepted'[o] > accepted[o] =>
            o \in A /\ s.kind = "place" /\ (r.kind = "confirm" => r.yes)
    <3> SUFFICES ASSUME NEW o \in OrderIDs, accepted'[o] > accepted[o]
                 PROVE  o \in A /\ s.kind = "place"
      BY <1>4
    <3>1. accepted[o] \in Nat
      BY DEF TypeOK
    <3> QED BY <2>2, <3>1
  <2>9. placings' \in [OrderIDs -> SUBSET (0..MaxCalls)]
    <3>1. s.nr \in 0..MaxCalls
      BY <1>1 DEF Requests
    <3> QED BY <2>2, <3>1 DEF TypeOK
  <2>10. CASE Q = {}
    <3>1. UNCHANGED <<asked, questions>>
      BY <1>4, <2>10 DEF Decide
    <3> QED BY <2>1, <2>2, <2>4, <2>5, <2>6, <2>7, <2>8, <2>9, <2>10, <3>1 DEF TypeOK, QuestionsProper
  <2>11. CASE Q # {}
    <3> DEFINE new == [s EXCEPT !.orders = Q]
    <3>1. asked < MaxQuestions /\ asked' = asked + 1 /\ questions' = [questions EXCEPT ![asked + 1] = new]
      BY <1>4, <2>11 DEF Decide
    <3>2. asked \in Nat /\ asked + 1 \in Replies /\ asked' \in 0..MaxQuestions
      BY <3>1 DEF TypeOK, Replies
    <3>3. /\ new \in Requests /\ new.orders = Q /\ new.kind = s.kind /\ new.nr = s.nr
      BY <1>1 DEF Requests
    <3>4. questions' \in [Replies -> Requests] /\ questions'[asked'] = new
      BY <3>1, <3>2, <3>3 DEF TypeOK
    <3>5. \A q \in 1..asked : questions'[q] = questions[q]
      <4>1. \A q \in 1..asked : q \in Replies /\ q # asked + 1
        BY <3>1, <3>2 DEF Replies
      <4> QED BY <3>1, <4>1 DEF TypeOK
    <3>6. \A q \in 1..asked' : q \in 1..asked \/ q = asked'
      BY <3>1, <3>2
    <3>7. /\ new.kind \in {"place", "modify"}
          /\ new.kind = "modify" => new.orders \subseteq known
      <4> HIDE DEF new
      <4> QED BY <1>1, <2>1, <3>3
    <3>8. \A q \in 1..asked' :
            /\ questions'[q].kind \in {"place", "modify"}
            /\ questions'[q].kind = "modify" => questions'[q].orders \subseteq known
      <4> SUFFICES ASSUME NEW q \in 1..asked'
                   PROVE  /\ questions'[q].kind \in {"place", "modify"}
                          /\ questions'[q].kind = "modify" => questions'[q].orders \subseteq known
        OBVIOUS
      <4> HIDE DEF new
      <4>1. CASE q \in 1..asked
        <5>1. questions'[q] = questions[q]
          BY <3>5, <4>1
        <5> QED BY <4>1, <5>1 DEF QuestionsProper
      <4>2. CASE q = asked'
        BY <3>4, <3>7, <4>2
      <4> QED BY <3>6, <4>1, <4>2
    <3> HIDE DEF new
    <3>9. asked' = asked + 1 /\ asked' \in Replies /\ questions'[asked'].orders = Q
      BY <3>1, <3>2, <3>3, <3>4
    <3>10. questions'[asked'].kind = s.kind /\ questions'[asked'].nr = s.nr
      BY <3>3, <3>4
    <3> QED BY <2>1, <2>2, <2>4, <2>5, <2>6, <2>7, <2>8, <2>9, <2>11, <3>2, <3>4, <3>5, <3>8, <3>9, <3>10
  <2> QED BY <2>10, <2>11
<1> QED BY <1>2, <1>3, <1>4 DEF Process

-----------------------------------------------------------------------------
(* The invariant holds in the initial state, and a call that begins keeps  *)
(* it.                                                                     *)

LEMMA NoCallIsNone ==
    /\ NoCall \in Requests /\ NoCall.kind = "none" /\ ~Placing(NoCall)
    /\ About(NoCall) = {} /\ Subject(NoCall) = NoCall
BY OrdersAssumption, BoundsAssumption DEF NoCall, Request, Requests, Placing, About, Subject

LEMMA ConsistentInit == Init => Consistent
<1> SUFFICES ASSUME Init PROVE Consistent
  OBVIOUS
<1> USE BoundsAssumption, OrdersAssumption DEF Init
<1>1. PlacedNow = {} /\ RaisedNow = {} /\ CancelledNow = {}
  BY NoAnswerTellsNothing DEF PlacedNow, RaisedNow, CancelledNow
<1>2. TypeOK
  BY NoCallIsNone DEF TypeOK
<1>3. 1..asked = {}
  OBVIOUS
<1>4. RequestsProper
  BY <1>1, <1>3 DEF RequestsProper, QuestionsProper
<1>5. CallWanted /\ AnswerAbout
  BY <1>1, NoCallIsNone DEF CallWanted, AnswerAbout
<1>6. ToldIsDone /\ DoneIsTold /\ Followed
  BY <1>1 DEF ToldIsDone, DoneIsTold, Followed
<1> QED BY <1>2, <1>4, <1>5, <1>6 DEF Consistent

\* Nothing is on its way before and after a call begins.
LEMMA SendIsQuiet ==
    ASSUME Consistent, NEW r, Send(r)
    PROVE  /\ call = NoCall /\ answer = NoAnswer /\ answer' = NoAnswer
           /\ PlacedNow = {} /\ RaisedNow = {} /\ CancelledNow = {}
           /\ PlacedNow' = {} /\ RaisedNow' = {} /\ CancelledNow' = {}
           /\ UNCHANGED <<lost, late, accepted, placings, terms, cancels, asked, questions>>
           /\ call' = r
<1>1. call = NoCall /\ answer = NoAnswer /\ answer' = NoAnswer
  BY DEF Send, Consistent, RequestsProper
<1> QED
  BY <1>1, NoAnswerTellsNothing DEF Send, PlacedNow, RaisedNow, CancelledNow, gateVars

\* What a call that begins has to bring along.
LEMMA SendKeeps ==
    ASSUME Consistent, NEW r \in Requests, r # NoCall, Send(r), calls' \in 0..MaxCalls, Proper(r),
           UNCHANGED <<known, believed, gone, doubt>>, open' \subseteq open,
           failed' \subseteq OrderIDs, wanted' \subseteq OrderIDs,
           r.kind = "place" => r.orders \subseteq wanted',
           (r.kind = "confirm" /\ questions[r.reply].kind = "place") =>
                IF r.yes THEN About(r) \subseteq wanted' ELSE About(r) \cap wanted' = {},
           \A o \in wanted' \ (doubt \cup known) :
              \/ Placing(r) /\ o \in About(r)
              \/ o \in wanted /\ (o \in failed => o \in failed')
                 /\ \A q \in open : o \in questions[q].orders => q \in open'
    PROVE  Consistent'
<1> USE DEF Consistent
<1>1. /\ call = NoCall /\ answer = NoAnswer /\ answer' = NoAnswer
      /\ PlacedNow = {} /\ RaisedNow = {} /\ CancelledNow = {}
      /\ PlacedNow' = {} /\ RaisedNow' = {} /\ CancelledNow' = {}
      /\ UNCHANGED <<lost, late, accepted, placings, terms, cancels, asked, questions>>
      /\ call' = r
  BY SendIsQuiet
<1>2. TypeOK'
  BY <1>1 DEF TypeOK
<1>3. QuestionsProper' /\ Proper(r)'
  BY <1>1 DEF RequestsProper, QuestionsProper, Proper
<1>4. \A x \in late : Proper(x)' /\ About(x)' \subseteq doubt'
  BY <1>1 DEF RequestsProper, Proper, About, Subject
<1>5. RequestsProper'
  <2>1. (call # NoCall => Proper(call))'
    BY <1>1, <1>3
  <2>2. (call = NoCall => answer = NoAnswer)'
    BY <1>1
  <2>3. (open \subseteq 1..asked /\ RaisedNow \subseteq 1..asked)'
    BY <1>1 DEF RequestsProper
  <2> QED BY <1>1, <1>3, <1>4, <2>1, <2>2, <2>3 DEF RequestsProper
<1>6. About(call)' = About(r)
  BY <1>1 DEF About, Subject
<1>7. CallWanted'
  BY <1>1, <1>6 DEF CallWanted
<1>8. AnswerAbout'
  BY <1>1 DEF AnswerAbout
<1>9. ToldIsDone' /\ DoneIsTold'
  BY <1>1 DEF ToldIsDone, DoneIsTold
<1>10. Followed'
  <2> SUFFICES ASSUME NEW o \in wanted' \ doubt', o \notin known'
               PROVE  \/ o \in failed'
                      \/ \E q \in open' : o \in questions'[q].orders
                      \/ Placing(call') /\ o \in About(call)' /\ answer' = NoAnswer
    BY DEF Followed
  <2>1. CASE Placing(r) /\ o \in About(r)
    BY <1>1, <1>6, <2>1
  <2>2. CASE o \in wanted /\ (o \in failed => o \in failed')
             /\ \A q \in open : o \in questions[q].orders => q \in open'
    <3>1. o \in failed \/ \E q \in open : o \in questions[q].orders
      BY <1>1, <2>2, NoCallIsNone DEF Followed
    <3> QED BY <1>1, <2>2, <3>1
  <2> QED BY <2>1, <2>2
<1> QED BY <1>2, <1>5, <1>7, <1>8, <1>9, <1>10

LEMMA StartsKeeps == Consistent /\ Starts => Consistent'
<1> SUFFICES ASSUME Consistent, Starts PROVE Consistent'
  OBVIOUS
<1> USE BoundsAssumption, OrdersAssumption
<1>1. calls < MaxCalls => calls + 1 \in 0..MaxCalls
  BY DEF Consistent, TypeOK
<1>a. Initial \in Terms /\ {} \in SUBSET OrderIDs
  OBVIOUS
<1>2. ASSUME NEW B \in SUBSET OrderIDs, PlaceOrders(B) PROVE Consistent'
  <2> DEFINE r == Request("place", B, Initial, NoReply, FALSE, calls + 1)
  <2>1. /\ calls < MaxCalls /\ calls' = calls + 1 /\ Send(r)
        /\ failed' = failed \ B /\ wanted' = wanted \cup B
        /\ UNCHANGED <<open, known, believed, gone, doubt>>
    BY <1>2 DEF PlaceOrders, Begin
  <2>2. /\ r \in Requests /\ r # NoCall /\ About(r) = B /\ r.kind = "place" /\ r.orders = B
    <3>1. calls + 1 \in 0..MaxCalls
      BY <1>1, <2>1
    <3> QED BY <1>a, <3>1 DEF Request, Requests, NoCall, About, Subject, Replies, NoReply
  <2>3. Proper(r) /\ Placing(r)
    BY <2>2 DEF Proper, Placing
  <2>4. failed' \subseteq OrderIDs /\ wanted' \subseteq OrderIDs
    BY <2>1 DEF Consistent, TypeOK
  <2> HIDE DEF r
  <2>5. UNCHANGED <<known, believed, gone, doubt>> /\ open' \subseteq open /\ calls' \in 0..MaxCalls
    BY <1>1, <2>1
  <2>6. r.kind # "confirm" /\ r.orders \subseteq wanted'
    BY <2>1, <2>2
  <2>7. \A o \in wanted' \ (doubt \cup known) :
          \/ Placing(r) /\ o \in About(r)
          \/ o \in wanted /\ (o \in failed => o \in failed')
             /\ \A q \in open : o \in questions[q].orders => q \in open'
    BY <2>1, <2>2, <2>3
  <2> QED BY <2>1, <2>2, <2>3, <2>4, <2>5, <2>6, <2>7, SendKeeps
<1>3. ASSUME NEW B \in SUBSET OrderIDs, WhatIf(B) PROVE Consistent'
  <2> DEFINE r == Request("whatif", B, Initial, NoReply, FALSE, calls + 1)
  <2>1. calls < MaxCalls /\ calls' = calls + 1 /\ Send(r) /\ UNCHANGED appVars
    BY <1>3 DEF WhatIf, Begin
  <2>2. r \in Requests /\ r # NoCall /\ r.kind = "whatif"
    <3>1. calls + 1 \in 0..MaxCalls
      BY <1>1, <2>1
    <3> QED BY <1>a, <3>1 DEF Request, Requests, NoCall, About, Subject, Replies, NoReply
  <2>3. Proper(r)
    BY <2>2 DEF Proper
  <2>4. failed' \subseteq OrderIDs /\ wanted' \subseteq OrderIDs
    BY <2>1 DEF Consistent, TypeOK, appVars
  <2> HIDE DEF r
  <2>5. UNCHANGED <<known, believed, gone, doubt, open, failed, wanted>> /\ calls' \in 0..MaxCalls
    BY <1>1, <2>1 DEF appVars
  <2>6. open' \subseteq open /\ r.kind \notin {"place", "confirm"}
    BY <2>2, <2>5
  <2>7. \A o \in wanted' \ (doubt \cup known) :
          o \in wanted /\ (o \in failed => o \in failed')
          /\ \A q \in open : o \in questions[q].orders => q \in open'
    BY <2>5
  <2> QED BY <2>1, <2>2, <2>3, <2>4, <2>5, <2>6, <2>7, SendKeeps
<1>4. ASSUME NEW o \in known, CancelOrder(o) PROVE Consistent'
  <2> DEFINE r == Request("cancel", {o}, Initial, NoReply, FALSE, calls + 1)
  <2>1. calls < MaxCalls /\ calls' = calls + 1 /\ Send(r) /\ UNCHANGED appVars
    BY <1>4 DEF CancelOrder, Begin
  <2>2. o \in OrderIDs
    BY DEF Consistent, TypeOK
  <2>3. r \in Requests /\ r # NoCall /\ r.kind = "cancel" /\ r.orders = {o}
    <3>1. calls + 1 \in 0..MaxCalls /\ {o} \in SUBSET OrderIDs
      BY <1>1, <2>1, <2>2
    <3> QED BY <1>a, <3>1 DEF Request, Requests, NoCall, About, Subject, Replies, NoReply
  <2>4. Proper(r)
    BY <2>2, <2>3 DEF Proper
  <2>5. failed' \subseteq OrderIDs /\ wanted' \subseteq OrderIDs
    BY <2>1 DEF Consistent, TypeOK, appVars
  <2> HIDE DEF r
  <2>6. UNCHANGED <<known, believed, gone, doubt, open, failed, wanted>> /\ calls' \in 0..MaxCalls
    BY <1>1, <2>1 DEF appVars
  <2>7. open' \subseteq open /\ r.kind \notin {"place", "confirm"}
    BY <2>3, <2>6
  <2>8. \A x \in wanted' \ (doubt \cup known) :
          x \in wanted /\ (x \in failed => x \in failed')
          /\ \A q \in open : x \in questions[q].orders => q \in open'
    BY <2>6
  <2> QED BY <2>1, <2>3, <2>4, <2>5, <2>6, <2>7, <2>8, SendKeeps
<1>5. ASSUME NEW o \in known, NEW t \in Terms, ModifyOrder(o, t) PROVE Consistent'
  <2> DEFINE r == Request("modify", {o}, t, NoReply, FALSE, calls + 1)
  <2>1. /\ calls < MaxCalls /\ calls' = calls + 1 /\ Send(r) /\ failed' = failed \ {o}
        /\ UNCHANGED <<open, known, believed, gone, wanted, doubt>>
    BY <1>5 DEF ModifyOrder, Begin
  <2>2. o \in OrderIDs
    BY DEF Consistent, TypeOK
  <2>3. r \in Requests /\ r # NoCall /\ r.kind = "modify" /\ r.orders = {o} /\ About(r) = {o}
    <3>1. calls + 1 \in 0..MaxCalls /\ {o} \in SUBSET OrderIDs
      BY <1>1, <2>1, <2>2
    <3> QED BY <1>a, <3>1 DEF Request, Requests, NoCall, About, Subject, Replies, NoReply
  <2>4. Proper(r) /\ Placing(r)
    BY <2>3 DEF Proper, Placing
  <2>5. failed' \subseteq OrderIDs /\ wanted' \subseteq OrderIDs
    BY <2>1 DEF Consistent, TypeOK
  <2> HIDE DEF r
  <2>6. UNCHANGED <<known, believed, gone, doubt>> /\ open' \subseteq open /\ calls' \in 0..MaxCalls
    BY <1>1, <2>1
  <2>7. r.kind \notin {"place", "confirm"}
    BY <2>3
  <2>8. \A x \in wanted' \ (doubt \cup known) :
          x \in wanted /\ (x \in failed => x \in failed')
          /\ \A q \in open : x \in questions[q].orders => q \in open'
    BY <2>1
  <2> QED BY <2>1, <2>3, <2>4, <2>5, <2>6, <2>7, <2>8, SendKeeps
<1> QED BY <1>2, <1>3, <1>4, <1>5 DEF Starts

LEMMA ConfirmKeeps ==
    ASSUME Consistent, NEW q \in open, NEW yes \in BOOLEAN, ConfirmOrder(q, yes)
    PROVE  Consistent'
<1> USE BoundsAssumption, OrdersAssumption
<1> DEFINE r == Request("confirm", {}, Initial, q, yes, 0)
<1>1. q \in 1..asked /\ q \in Replies /\ q # NoReply
  BY DEF Consistent, RequestsProper, TypeOK, Replies, NoReply
<1>2. /\ Send(r) /\ open' = open \ {q} /\ failed' = failed \ questions[q].orders
      /\ wanted' = Minds(q, yes) /\ UNCHANGED <<calls, known, believed, gone, doubt>>
  BY <1>1 DEF ConfirmOrder
<1>3. r \in Requests /\ r # NoCall /\ r.kind = "confirm" /\ r.reply = q /\ r.yes = yes
  BY <1>1 DEF Request, Requests, NoCall
<1>4. Proper(r) /\ Placing(r) /\ About(r) = questions[q].orders
  BY <1>1, <1>3 DEF Proper, Placing, About, Subject
<1>5. questions[q] \in Requests /\ questions[q].orders \subseteq OrderIDs
  BY <1>1 DEF Consistent, TypeOK, Requests
<1>6. failed' \subseteq OrderIDs /\ wanted' \subseteq OrderIDs /\ calls' \in 0..MaxCalls
  BY <1>2, <1>5 DEF Consistent, TypeOK, Minds
<1>7. questions[q].kind = "place" =>
        IF yes THEN questions[q].orders \subseteq wanted' ELSE questions[q].orders \cap wanted' = {}
  BY <1>2 DEF Minds
<1>8. \A o \in wanted' \ questions[q].orders :
        o \in wanted /\ (o \in failed => o \in failed')
        /\ \A p \in open : o \in questions[p].orders => p \in open'
  BY <1>2 DEF Minds
<1> HIDE DEF r
<1> QED BY <1>2, <1>3, <1>4, <1>6, <1>7, <1>8, SendKeeps

-----------------------------------------------------------------------------
(* A request that the gateway decides keeps it, while its answer is awaited *)
(* and afterwards.                                                          *)

LEMMA ServeKeeps == Consistent /\ Serve => Consistent'
<1> SUFFICES ASSUME Consistent, Serve PROVE Consistent'
  OBVIOUS
<1> USE BoundsAssumption, OrdersAssumption
<1>1. /\ call # NoCall /\ answer = NoAnswer
      /\ UNCHANGED <<call, calls, lost, appVars, late>>
  BY DEF Serve
<1>2. PICK A \in SUBSET About(call), Q \in SUBSET About(call) :
          Process(call, A, Q) /\ answer' \in Told(call, A, Q)
  BY DEF Serve
<1>3. PlacedNow = {} /\ RaisedNow = {} /\ CancelledNow = {}
  BY <1>1, NoAnswerTellsNothing DEF PlacedNow, RaisedNow, CancelledNow
<1>4. /\ TypeOK /\ QuestionsProper /\ call \in Requests /\ Proper(call)
      /\ \A o \in known : accepted[o] > 0
      /\ asked \in Nat
  BY <1>1 DEF Consistent, RequestsProper, ToldIsDone, TypeOK
<1>5. /\ Subject(call) \in Requests /\ About(call) \subseteq OrderIDs
      /\ About(call) = Subject(call).orders
      /\ Subject(call).kind = "modify" => Subject(call).orders \subseteq known
      /\ Placing(call) => Subject(call).kind \in {"place", "modify"}
  BY <1>4, SubjectProper
<1>6. Effect(call, A, Q)
  BY <1>2, <1>4, ProcessEffect
<1>7. A \in SUBSET OrderIDs /\ Q \in SUBSET OrderIDs /\ (Q # {} => asked + 1 \in Replies)
  BY <1>5, <1>6 DEF Effect
<1>8. /\ answer' \in Answers /\ answer' # NoAnswer
      /\ PlacedIn(answer') = A
      /\ RaisedIn(answer') = {asked + 1} \cap {asked + 1 : o \in Q}
      /\ ~Placements(answer').err => A \cup Q = About(call) \/ NoEffect(call)
      /\ Succeeds(answer') => NoEffect(call) \/ A \cup Q = About(call)
      /\ call.kind = "cancel" /\ A \cup Q = About(call) /\ A # {} => Succeeds(answer')
  BY <1>2, <1>4, <1>7, ToldReads
<1>9. call' = call /\ Placing(call)' = Placing(call)
  BY <1>1
<1>10. Subject(call)' = Subject(call) /\ About(call)' = About(call)
  BY <1>4, <1>6, <1>9 DEF Subject, About, Proper, Effect
<1>11. /\ PlacedNow' = IF Placing(call) THEN A ELSE {}
       /\ RaisedNow' = IF Placing(call) THEN RaisedIn(answer') ELSE {}
  BY <1>8, <1>9 DEF PlacedNow, RaisedNow
<1>12. \A q \in RaisedNow' : Q # {} /\ q = asked' /\ Placing(call)
  BY <1>6, <1>8, <1>11 DEF Effect
<1>13. CancelledNow' = IF call.kind = "cancel" THEN A ELSE {}
  <2>1. CASE call.kind # "cancel"
    BY <2>1, <1>9 DEF CancelledNow
  <2>2. CASE call.kind = "cancel"
    <3>1. PICK o \in OrderIDs : call.orders = {o}
      BY <2>2, <1>4 DEF Proper
    <3>2. About(call) = {o} /\ ~Placing(call) /\ ~NoEffect(call)
      BY <2>2, <3>1 DEF About, Subject, Placing, NoEffect
    <3>3. Q = {}
      BY <3>2, <1>6 DEF Effect
    <3>4. Succeeds(answer') <=> A = {o}
      BY <2>2, <3>2, <3>3, <1>8
    <3>5. A = {} \/ A = {o}
      BY <3>2
    <3> QED BY <2>2, <3>1, <3>4, <3>5, <1>9 DEF CancelledNow
  <2> QED BY <2>1, <2>2
<1>14. asked \in Nat /\ asked' \in Nat /\ asked <= asked' /\ 1..asked \subseteq 1..asked'
  BY <1>4, <1>6 DEF Effect
<1>15. UNCHANGED <<open, known, believed, gone, failed, wanted, doubt>>
  BY <1>1 DEF appVars
<1>16. TypeOK'
  BY <1>1, <1>4, <1>6, <1>8, <1>15 DEF TypeOK, Effect
<1>17. RequestsProper'
  <2>1. Proper(call)'
    BY <1>4, <1>9, <1>14, <1>15 DEF Proper
  <2>2. \A r \in late : Proper(r)' /\ About(r)' \subseteq doubt'
    <3> SUFFICES ASSUME NEW r \in late PROVE Proper(r)' /\ About(r)' \subseteq doubt'
      OBVIOUS
    <3>1. Proper(r) /\ About(r) \subseteq doubt
      BY DEF Consistent, RequestsProper
    <3>2. Proper(r)'
      BY <3>1, <1>14, <1>15 DEF Proper
    <3>3. About(r)' = About(r)
      BY <3>1, <1>6 DEF About, Subject, Proper, Effect
    <3> QED BY <3>1, <3>2, <3>3, <1>15
  <2>3. open' \subseteq 1..asked'
    BY <1>14, <1>15 DEF Consistent, RequestsProper
  <2>4. RaisedNow' \subseteq 1..asked'
    BY <1>6, <1>12, <1>14 DEF Effect
  <2>5. QuestionsProper'
    BY <1>6, <1>15 DEF QuestionsProper, Effect
  <2>6. late' = late /\ call' # NoCall
    BY <1>1
  <2> QED BY <2>1, <2>2, <2>3, <2>4, <2>5, <2>6 DEF RequestsProper
<1>18. CallWanted'
  <2>1. call.kind = "confirm" => questions'[call.reply] = questions[call.reply]
    BY <1>4, <1>6 DEF Proper, Effect
  <2> QED BY <2>1, <1>9, <1>10, <1>15 DEF Consistent, CallWanted
<1>19. AnswerAbout'
  <2>1. PlacedNow' \subseteq About(call)
    BY <1>11
  <2>2. \A q \in RaisedNow' : questions'[q].orders \subseteq About(call)
    BY <1>6, <1>12 DEF Effect
  <2> QED BY <2>1, <2>2, <1>10 DEF AnswerAbout
<1>20. ToldIsDone'
  <2>1. \A o \in known' \cup PlacedNow' : accepted'[o] > 0
    <3>1. \A o \in known : o \in OrderIDs /\ accepted[o] > 0 /\ accepted[o] \in Nat
      BY <1>4 DEF TypeOK
    <3>2. \A o \in known : accepted'[o] > 0
      BY <3>1, <1>6 DEF Effect
    <3> QED BY <3>2, <1>6, <1>11, <1>15 DEF Effect
  <2>2. gone' \cup CancelledNow' \subseteq cancels' \cup doubt'
    BY <1>6, <1>13, <1>15 DEF Consistent, ToldIsDone, Effect
  <2>3. \A o \in PlacedNow' \ doubt' : terms'[o] = Subject(call)'.terms
    BY <1>6, <1>10, <1>11 DEF Effect
  <2>4. \A o \in known' \ (doubt' \cup PlacedNow') : terms'[o] = believed'[o]
    <3> SUFFICES ASSUME NEW o \in known, o \notin doubt, o \notin PlacedNow'
                 PROVE  terms'[o] = believed[o]
      BY <1>15
    <3>1. terms[o] = believed[o] /\ o \in OrderIDs
      BY <1>3 DEF Consistent, ToldIsDone, TypeOK
    <3> QED BY <3>1, <1>6, <1>11 DEF Effect
  <2> QED BY <2>1, <2>2, <2>3, <2>4 DEF ToldIsDone
<1>21. DoneIsTold'
  <2> SUFFICES ASSUME NEW o \in OrderIDs, o \notin doubt
               PROVE  /\ accepted'[o] > 0 => o \in known \cup PlacedNow'
                      /\ o \in cancels' => o \in gone \cup CancelledNow'
    BY <1>15 DEF DoneIsTold
  <2>1. (accepted[o] > 0 => o \in known) /\ (o \in cancels => o \in gone)
    BY <1>3 DEF Consistent, DoneIsTold
  <2> QED BY <2>1, <1>6, <1>11, <1>13 DEF Effect
<1>22. Followed'
  <2> SUFFICES ASSUME NEW o \in wanted, o \notin doubt, o \notin known \cup failed
               PROVE  \/ o \in PlacedNow'
                      \/ \E q \in open \cup RaisedNow' : o \in questions'[q].orders
                      \/ Placing(call) /\ o \in About(call) /\ Placements(answer').err
    BY <1>9, <1>10, <1>15 DEF Followed
  <2>1. CASE \E q \in open : o \in questions[q].orders
    BY <2>1, <1>6 DEF Consistent, RequestsProper, Effect
  <2>2. CASE Placing(call) /\ o \in About(call)
    <3>1. CASE Placements(answer').err
      BY <2>2, <3>1
    <3>2. CASE A \cup Q = About(call) /\ o \in A
      BY <2>2, <3>2, <1>11
    <3>3. CASE A \cup Q = About(call) /\ o \in Q
      <4>1. asked' \in RaisedNow' /\ o \in questions'[asked'].orders
        BY <2>2, <3>3, <1>6, <1>8, <1>11 DEF Effect
      <4> QED BY <4>1
    <3>4. ~NoEffect(call)
      <4> SUFFICES ASSUME NoEffect(call) PROVE FALSE
        OBVIOUS
      <4>1. call.kind = "confirm" /\ ~call.yes
        BY <2>2 DEF NoEffect, Placing
      <4>2. Subject(call) = questions[call.reply]
        BY <4>1 DEF Subject
      <4>3. questions[call.reply].kind # "place"
        BY <4>1, <2>2 DEF Consistent, CallWanted
      <4> QED BY <4>2, <4>3, <2>2, <1>5
    <3> QED BY <3>1, <3>2, <3>3, <3>4, <1>8, <2>2
  <2>3. \/ \E q \in open : o \in questions[q].orders
        \/ Placing(call) /\ o \in About(call)
    BY <1>3 DEF Consistent, Followed
  <2> QED BY <2>1, <2>2, <2>3
<1> QED BY <1>16, <1>17, <1>18, <1>19, <1>20, <1>21, <1>22 DEF Consistent

LEMMA ServeLateKeeps ==
    ASSUME Consistent, NEW r \in late, ServeLate(r)
    PROVE  Consistent'
<1> USE BoundsAssumption, OrdersAssumption
<1>1. late' = late \ {r} /\ UNCHANGED <<callVars, appVars>>
  BY DEF ServeLate
<1>2. PICK A \in SUBSET About(r), Q \in SUBSET About(r) : Process(r, A, Q)
  BY DEF ServeLate
<1>3. /\ TypeOK /\ QuestionsProper /\ r \in Requests /\ Proper(r)
      /\ \A o \in known : accepted[o] > 0
      /\ asked \in Nat /\ About(r) \subseteq doubt
  BY DEF Consistent, RequestsProper, ToldIsDone, TypeOK
<1>4. Effect(r, A, Q)
  BY <1>2, <1>3, ProcessEffect
<1>5. /\ UNCHANGED <<call, answer, calls, lost>>
      /\ UNCHANGED <<open, known, believed, gone, failed, wanted, doubt>>
  BY <1>1 DEF callVars, appVars
<1>6. UNCHANGED <<PlacedNow, RaisedNow, CancelledNow>>
  BY <1>5 DEF PlacedNow, RaisedNow, CancelledNow
<1>7. asked \in Nat /\ asked' \in Nat /\ 1..asked \subseteq 1..asked'
  BY <1>3, <1>4 DEF Effect
<1>8. call = NoCall \/ Proper(call)
  BY DEF Consistent, RequestsProper
<1>9. Subject(call)' = Subject(call) /\ About(call)' = About(call)
  <2>1. call.kind = "confirm" => questions'[call.reply] = questions[call.reply]
    BY <1>4, <1>8, NoCallIsNone DEF Proper, Effect
  <2> QED BY <2>1, <1>5 DEF Subject, About
<1>10. TypeOK'
  BY <1>1, <1>3, <1>4, <1>5 DEF TypeOK, Effect
<1>11. RequestsProper'
  <2>1. (call # NoCall => Proper(call))'
    BY <1>5, <1>7, <1>8 DEF Proper
  <2>2. (call = NoCall => answer = NoAnswer)'
    BY <1>5 DEF Consistent, RequestsProper
  <2>3. \A x \in late : Proper(x)' /\ About(x)' \subseteq doubt'
    <3> SUFFICES ASSUME NEW x \in late PROVE Proper(x)' /\ About(x)' \subseteq doubt'
      OBVIOUS
    <3>1. Proper(x) /\ About(x) \subseteq doubt
      BY DEF Consistent, RequestsProper
    <3>2. Proper(x)'
      BY <3>1, <1>7, <1>5 DEF Proper
    <3>3. About(x)' = About(x)
      BY <3>1, <1>4 DEF About, Subject, Proper, Effect
    <3> QED BY <3>1, <3>2, <3>3, <1>5
  <2>4. (open \subseteq 1..asked /\ RaisedNow \subseteq 1..asked)'
    BY <1>5, <1>6, <1>7 DEF Consistent, RequestsProper
  <2>5. QuestionsProper'
    BY <1>4, <1>5 DEF QuestionsProper, Effect
  <2> QED BY <1>1, <2>1, <2>2, <2>3, <2>4, <2>5 DEF RequestsProper
<1>12. CallWanted'
  <2>1. call.kind = "confirm" => questions'[call.reply] = questions[call.reply]
    BY <1>4, <1>8, NoCallIsNone DEF Proper, Effect
  <2> QED BY <2>1, <1>5, <1>9 DEF Consistent, CallWanted
<1>13. AnswerAbout'
  <2>1. \A q \in RaisedNow : questions'[q] = questions[q]
    BY <1>4 DEF Consistent, RequestsProper, Effect
  <2> QED BY <2>1, <1>6, <1>9 DEF Consistent, AnswerAbout
<1>14. \A o \in OrderIDs \ doubt : /\ accepted'[o] = accepted[o] /\ terms'[o] = terms[o]
                                   /\ o \in cancels' <=> o \in cancels
  BY <1>3, <1>4 DEF Effect
<1>15. ToldIsDone'
  <2>1. known \cup PlacedNow \subseteq OrderIDs
    <3>1. call = NoCall \/ About(call) \subseteq OrderIDs
      BY <1>3, <1>8, SubjectProper DEF TypeOK
    <3>2. PlacedNow \subseteq OrderIDs
      BY <3>1, NoCallIsNone DEF Consistent, AnswerAbout
    <3> QED BY <3>2, <1>3 DEF TypeOK
  <2>2. \A o \in known \cup PlacedNow : accepted'[o] > 0
    <3>1. \A o \in known \cup PlacedNow : accepted[o] > 0 /\ accepted[o] \in Nat /\ accepted'[o] \in Nat
      BY <2>1, <1>3, <1>4 DEF Consistent, ToldIsDone, TypeOK, Effect
    <3> QED BY <2>1, <3>1, <1>4 DEF Effect
  <2>3. gone \cup CancelledNow \subseteq cancels' \cup doubt
    BY <1>4 DEF Consistent, ToldIsDone, Effect
  <2>4. \A o \in PlacedNow \ doubt : terms'[o] = Subject(call).terms
    BY <2>1, <1>14 DEF Consistent, ToldIsDone
  <2>5. \A o \in known \ (doubt \cup PlacedNow) : terms'[o] = believed[o]
    BY <2>1, <1>14 DEF Consistent, ToldIsDone
  <2> QED BY <2>2, <2>3, <2>4, <2>5, <1>5, <1>6, <1>9 DEF ToldIsDone
<1>16. DoneIsTold'
  <2> SUFFICES ASSUME NEW o \in OrderIDs \ doubt
               PROVE  /\ accepted'[o] > 0 => o \in known \cup PlacedNow
                      /\ o \in cancels' => o \in gone \cup CancelledNow
    BY <1>5, <1>6 DEF DoneIsTold
  <2> QED BY <1>14 DEF Consistent, DoneIsTold
<1>17. Followed'
  <2>1. \A q \in open \cup RaisedNow : questions'[q] = questions[q]
    BY <1>4 DEF Consistent, RequestsProper, Effect
  <2> SUFFICES ASSUME NEW o \in wanted \ doubt
               PROVE  \/ o \in known \cup failed \cup PlacedNow
                      \/ \E q \in open \cup RaisedNow : o \in questions'[q].orders
                      \/ Placing(call) /\ o \in About(call)
                         /\ (answer = NoAnswer \/ Placements(answer).err)
    BY <1>5, <1>6, <1>9 DEF Followed
  <2> QED BY <2>1 DEF Consistent, Followed
<1> QED BY <1>10, <1>11, <1>12, <1>13, <1>15, <1>16, <1>17 DEF Consistent

-----------------------------------------------------------------------------
(* The return of a call keeps it, and so does a loss.                      *)

\* What every return has in common.
LEMMA CallIsOver ==
    ASSUME Consistent, call' = NoCall, answer' = NoAnswer,
           UNCHANGED <<accepted, placings, terms, cancels, asked, questions>>, known \subseteq known',
           doubt \subseteq doubt', open' \subseteq open \cup RaisedNow,
           \A r \in late' : r \in late \/ (r = call /\ call # NoCall /\ About(r) \subseteq doubt')
    PROVE  /\ PlacedNow' = {} /\ RaisedNow' = {} /\ CancelledNow' = {}
           /\ RequestsProper' /\ CallWanted' /\ AnswerAbout'
<1>1. PlacedNow' = {} /\ RaisedNow' = {} /\ CancelledNow' = {}
  BY NoAnswerTellsNothing DEF PlacedNow, RaisedNow, CancelledNow
<1>2. CallWanted' /\ AnswerAbout'
  BY <1>1, NoCallIsNone DEF Consistent, CallWanted, AnswerAbout
<1>3. QuestionsProper'
  BY DEF Consistent, RequestsProper, QuestionsProper
<1>4. \A r : Proper(r) => Proper(r)'
  BY DEF Proper
<1>5. \A r \in late' : Proper(r)' /\ About(r)' \subseteq doubt'
  <2> SUFFICES ASSUME NEW r \in late' PROVE Proper(r)' /\ About(r)' \subseteq doubt'
    OBVIOUS
  <2>1. Proper(r) /\ About(r) \subseteq doubt'
    BY DEF Consistent, RequestsProper
  <2>2. About(r)' = About(r)
    BY DEF About, Subject
  <2> QED BY <2>1, <2>2, <1>4
<1>6. (open \subseteq 1..asked /\ RaisedNow \subseteq 1..asked)'
  BY <1>1 DEF Consistent, RequestsProper
<1> QED BY <1>1, <1>2, <1>3, <1>5, <1>6 DEF RequestsProper

LEMMA PlacementReturnsKeeps == Consistent /\ PlacementReturns => Consistent'
<1> SUFFICES ASSUME Consistent, PlacementReturns PROVE Consistent'
  OBVIOUS
<1> USE BoundsAssumption, OrdersAssumption
<1>1. /\ Placing(call) /\ call.kind # "cancel" /\ answer # NoAnswer
      /\ PlacedNow = PlacedIn(answer) /\ RaisedNow = RaisedIn(answer) /\ CancelledNow = {}
  BY DEF PlacementReturns, Placing, PlacedNow, RaisedNow, CancelledNow
<1>2. /\ known' = known \cup PlacedNow
      /\ believed' = [o \in OrderIDs |-> IF o \in PlacedNow THEN Subject(call).terms
                                         ELSE believed[o]]
      /\ open' = open \cup RaisedNow
      /\ failed' = IF Placements(answer).err
                   THEN failed \cup (About(call) \ PlacedNow) ELSE failed
      /\ call' = NoCall /\ answer' = NoAnswer
      /\ UNCHANGED <<calls, lost, late, gone, wanted, doubt>>
      /\ UNCHANGED <<accepted, placings, terms, cancels, asked, questions>>
  BY <1>1 DEF PlacementReturns, Return, gateVars
<1>3. call # NoCall /\ Proper(call) /\ call \in Requests /\ TypeOK /\ QuestionsProper
  BY <1>1, NoCallIsNone DEF Consistent, RequestsProper, TypeOK
<1>4. /\ Subject(call) \in Requests /\ About(call) \subseteq OrderIDs
      /\ PlacedNow \subseteq About(call)
      /\ \A q \in RaisedNow : questions[q].orders \subseteq About(call)
  BY <1>3, SubjectProper DEF Consistent, AnswerAbout
<1>5. /\ PlacedNow' = {} /\ RaisedNow' = {} /\ CancelledNow' = {}
      /\ RequestsProper' /\ CallWanted' /\ AnswerAbout'
  <2>1. \A r \in late' : r \in late
    BY <1>2
  <2>2. open' \subseteq open \cup RaisedNow /\ known \subseteq known' /\ doubt \subseteq doubt'
    BY <1>2
  <2> QED BY <1>2, <2>1, <2>2, CallIsOver
<1>6. TypeOK'
  <2>1. known' \subseteq OrderIDs /\ failed' \subseteq OrderIDs
    BY <1>2, <1>3, <1>4 DEF TypeOK
  <2>2. believed' \in [OrderIDs -> Terms]
    <3>1. Subject(call).terms \in Terms
      BY <1>4 DEF Requests
    <3> QED BY <3>1, <1>2, <1>3 DEF TypeOK
  <2>3. open' \subseteq Replies \cup {NoReply}
    <3>1. open \cup RaisedNow \subseteq 1..asked /\ asked \in 0..MaxQuestions
      BY <1>3 DEF Consistent, RequestsProper, TypeOK
    <3>2. 1..asked \subseteq Replies
      BY <3>1 DEF Replies
    <3> QED BY <3>1, <3>2, <1>2
  <2> QED BY <2>1, <2>2, <2>3, <1>2, <1>3, NoCallIsNone DEF TypeOK
<1>7. ToldIsDone'
  <2>1. \A o \in known' : accepted'[o] > 0
    BY <1>2 DEF Consistent, ToldIsDone
  <2>2. gone' \subseteq cancels' \cup doubt'
    BY <1>2 DEF Consistent, ToldIsDone
  <2>3. \A o \in known' \ doubt' : terms'[o] = believed'[o]
    <3> SUFFICES ASSUME NEW o \in known', o \notin doubt' PROVE terms[o] = believed'[o]
      BY <1>2
    <3>1. o \in OrderIDs
      BY <1>6 DEF TypeOK
    <3>2. CASE o \in PlacedNow
      BY <3>1, <3>2, <1>2 DEF Consistent, ToldIsDone
    <3>3. CASE o \notin PlacedNow
      BY <3>1, <3>3, <1>2 DEF Consistent, ToldIsDone
    <3> QED BY <3>2, <3>3
  <2> QED BY <2>1, <2>2, <2>3, <1>5 DEF ToldIsDone
<1>8. DoneIsTold'
  BY <1>1, <1>2, <1>5 DEF Consistent, DoneIsTold
<1>9. Followed'
  <2> SUFFICES ASSUME NEW o \in wanted \ doubt
               PROVE  \/ o \in known' \cup failed'
                      \/ \E q \in open' : o \in questions[q].orders
    BY <1>2, <1>5 DEF Followed
  <2>1. \/ o \in known \cup failed \cup PlacedNow
        \/ \E q \in open \cup RaisedNow : o \in questions[q].orders
        \/ o \in About(call) /\ Placements(answer).err
    BY <1>1 DEF Consistent, Followed
  <2> QED BY <2>1, <1>2
<1> QED BY <1>5, <1>6, <1>7, <1>8, <1>9 DEF Consistent

LEMMA OtherReturnsKeep == Consistent /\ (CancelReturns \/ WhatIfReturns) => Consistent'
<1> SUFFICES ASSUME Consistent, CancelReturns \/ WhatIfReturns PROVE Consistent'
  OBVIOUS
<1> USE BoundsAssumption, OrdersAssumption
<1>1. /\ ~Placing(call) /\ PlacedNow = {} /\ RaisedNow = {} /\ call # NoCall
  BY NoCallIsNone DEF CancelReturns, WhatIfReturns, Placing, PlacedNow, RaisedNow, NoCall, Request
<1>2. /\ gone' = gone \cup CancelledNow
      /\ call' = NoCall /\ answer' = NoAnswer
      /\ UNCHANGED <<calls, lost, late, open, known, believed, failed, wanted, doubt>>
      /\ UNCHANGED <<accepted, placings, terms, cancels, asked, questions>>
  BY DEF CancelReturns, WhatIfReturns, Return, gateVars, appVars, CancelledNow
<1>3. call \in Requests /\ TypeOK
  BY DEF Consistent, TypeOK
<1>4. /\ PlacedNow' = {} /\ RaisedNow' = {} /\ CancelledNow' = {}
      /\ RequestsProper' /\ CallWanted' /\ AnswerAbout'
  <2>1. \A r \in late' : r \in late
    BY <1>2
  <2>2. open' \subseteq open \cup RaisedNow /\ known \subseteq known' /\ doubt \subseteq doubt'
    BY <1>2
  <2> QED BY <1>2, <2>1, <2>2, CallIsOver
<1>5. TypeOK'
  <2>1. CancelledNow \subseteq OrderIDs
    BY <1>3 DEF CancelledNow, Requests
  <2> QED BY <2>1, <1>2, <1>3, NoCallIsNone DEF TypeOK
<1>6. ToldIsDone'
  BY <1>1, <1>2, <1>4 DEF Consistent, ToldIsDone
<1>7. DoneIsTold'
  BY <1>1, <1>2, <1>4 DEF Consistent, DoneIsTold
<1>8. Followed'
  BY <1>1, <1>2, <1>4, NoCallIsNone DEF Consistent, Followed
<1> QED BY <1>4, <1>5, <1>6, <1>7, <1>8 DEF Consistent

\* An answer that does not arrive puts the orders it is about in doubt.
LEMMA LossKeeps ==
    ASSUME Consistent, call # NoCall, doubt' = doubt \cup About(call), failed \subseteq failed',
           UNCHANGED <<open, known, believed, gone, wanted, accepted, terms, cancels, questions>>,
           PlacedNow' = {}, RaisedNow' = {}, CancelledNow' \subseteq About(call)
    PROVE  ToldIsDone' /\ DoneIsTold' /\ Followed' /\ About(call) \subseteq OrderIDs
<1>1. Proper(call) /\ call \in Requests /\ TypeOK /\ QuestionsProper
  BY DEF Consistent, RequestsProper, TypeOK
<1>2. /\ About(call) \subseteq OrderIDs /\ PlacedNow \subseteq About(call)
      /\ \A q \in RaisedNow : questions[q].orders \subseteq About(call)
  BY <1>1, SubjectProper DEF Consistent, AnswerAbout
<1>3. CancelledNow \subseteq About(call)
  BY DEF CancelledNow, About, Subject
<1>4. ToldIsDone'
  BY <1>2, <1>3 DEF Consistent, ToldIsDone
<1>5. DoneIsTold'
  BY <1>2, <1>3 DEF Consistent, DoneIsTold
<1>6. Followed'
  <2> SUFFICES ASSUME NEW o \in wanted, o \notin doubt, o \notin About(call)
               PROVE  o \in known \cup failed \/ \E q \in open : o \in questions[q].orders
    BY DEF Followed
  <2>1. \/ o \in known \cup failed
        \/ \E q \in open : o \in questions[q].orders
        \/ \E q \in RaisedNow : o \in questions[q].orders
    BY <1>2 DEF Consistent, Followed
  <2> QED BY <2>1, <1>2
<1> QED BY <1>2, <1>4, <1>5, <1>6

LEMMA GiveUpKeeps == Consistent /\ GiveUp => Consistent'
<1> SUFFICES ASSUME Consistent, GiveUp PROVE Consistent'
  OBVIOUS
<1> USE BoundsAssumption, OrdersAssumption
<1>1. /\ call # NoCall /\ lost < MaxLost /\ lost' = lost + 1
      /\ call' = NoCall /\ answer' = NoAnswer
      /\ late' = IF answer = NoAnswer THEN late \cup {call} ELSE late
      /\ doubt' = doubt \cup About(call) /\ failed' = failed \cup About(call)
      /\ UNCHANGED <<calls, open, known, believed, gone, wanted>>
      /\ UNCHANGED <<accepted, placings, terms, cancels, asked, questions>>
  BY DEF GiveUp, gateVars
<1>2. /\ PlacedNow' = {} /\ RaisedNow' = {} /\ CancelledNow' = {}
      /\ RequestsProper' /\ CallWanted' /\ AnswerAbout'
  <2>1. About(call) \subseteq doubt'
    BY <1>1
  <2>2. \A r \in late' : r \in late \/ (r = call /\ call # NoCall /\ About(r) \subseteq doubt')
    BY <1>1, <2>1
  <2>3. open' \subseteq open \cup RaisedNow /\ known \subseteq known' /\ doubt \subseteq doubt'
    BY <1>1
  <2> QED BY <1>1, <2>2, <2>3, CallIsOver
<1>3. ToldIsDone' /\ DoneIsTold' /\ Followed' /\ About(call) \subseteq OrderIDs
  <2>1. failed \subseteq failed'
    BY <1>1
  <2> QED BY <2>1, <1>1, <1>2, LossKeeps
<1>4. TypeOK'
  BY <1>1, <1>3, NoCallIsNone DEF Consistent, TypeOK
<1> QED BY <1>2, <1>3, <1>4 DEF Consistent

LEMMA SpoilKeeps == Consistent /\ Spoil => Consistent'
<1> SUFFICES ASSUME Consistent, Spoil PROVE Consistent'
  OBVIOUS
<1> USE BoundsAssumption, OrdersAssumption
<1>1. /\ answer # NoAnswer /\ lost < MaxLost /\ lost' = lost + 1
      /\ answer' \in {Answer("blank", {}), Answer("array", {Unexpected})}
      /\ doubt' = doubt \cup About(call)
      /\ UNCHANGED <<call, calls, open, known, believed, gone, failed, wanted, late>>
      /\ UNCHANGED <<accepted, placings, terms, cancels, asked, questions>>
  BY DEF Spoil, gateVars
<1>2. call # NoCall /\ Proper(call)
  BY <1>1 DEF Consistent, RequestsProper
<1>3. answer' \in Answers /\ ~Readable(answer')
  BY <1>1, SpoiltIsUnreadable
<1>4. PlacedIn(answer') = {} /\ RaisedIn(answer') = {}
  BY <1>3, UnreadableTellsNothing
<1>5. PlacedNow' = {} /\ RaisedNow' = {} /\ CancelledNow' \subseteq About(call)
  BY <1>1, <1>4 DEF PlacedNow, RaisedNow, CancelledNow, About, Subject
<1>6. ToldIsDone' /\ DoneIsTold' /\ Followed' /\ About(call) \subseteq OrderIDs
  BY <1>1, <1>2, <1>5, LossKeeps
<1>7. TypeOK'
  BY <1>1, <1>3, <1>6 DEF Consistent, TypeOK
<1>8. About(call)' = About(call)
  BY <1>1 DEF About, Subject
<1>9. RequestsProper'
  <2>1. \A r : Proper(r)' <=> Proper(r)
    BY <1>1 DEF Proper
  <2>2. (call # NoCall => Proper(call))'
    BY <1>1, <1>2 DEF Proper
  <2>3. \A r \in late : Proper(r)' /\ About(r)' \subseteq doubt'
    <3> SUFFICES ASSUME NEW r \in late PROVE Proper(r)' /\ About(r)' \subseteq doubt'
      OBVIOUS
    <3>1. Proper(r) /\ About(r) \subseteq doubt
      BY DEF Consistent, RequestsProper
    <3>2. About(r)' = About(r)
      BY <1>1 DEF About, Subject
    <3> QED BY <3>1, <3>2, <2>1, <1>1
  <2>4. QuestionsProper'
    BY <1>1 DEF Consistent, RequestsProper, QuestionsProper
  <2> QED BY <1>1, <1>2, <1>5, <2>2, <2>3, <2>4 DEF Consistent, RequestsProper
<1>10. CallWanted' /\ AnswerAbout'
  BY <1>1, <1>5, <1>8 DEF Consistent, CallWanted, AnswerAbout
<1> QED BY <1>6, <1>7, <1>9, <1>10 DEF Consistent

-----------------------------------------------------------------------------
(* The theorems.                                                           *)

LEMMA ConsistentStep == Consistent /\ [Next]_vars => Consistent'
<1> SUFFICES ASSUME Consistent, [Next]_vars PROVE Consistent'
  OBVIOUS
<1>1. CASE UNCHANGED vars
  <2>1. /\ UNCHANGED <<call, answer, calls, lost, open, known, believed, gone, failed, wanted, doubt>>
        /\ UNCHANGED <<late, accepted, placings, terms, cancels, asked, questions>>
    BY <1>1 DEF vars, callVars, appVars, gateVars
  <2>2. UNCHANGED <<PlacedNow, RaisedNow, CancelledNow, TypeOK>>
    BY <2>1 DEF PlacedNow, RaisedNow, CancelledNow, TypeOK
  <2>3. UNCHANGED <<RequestsProper, CallWanted, AnswerAbout>>
    BY <2>1, <2>2 DEF RequestsProper, QuestionsProper, Proper, CallWanted, AnswerAbout, About, Subject
  <2>4. UNCHANGED <<ToldIsDone, DoneIsTold, Followed>>
    BY <2>1, <2>2 DEF ToldIsDone, DoneIsTold, Followed, About, Subject
  <2> QED BY <2>2, <2>3, <2>4 DEF Consistent
<1>2. CASE Starts
  BY <1>2, StartsKeeps
<1>3. CASE Loop
  BY <1>3, ConfirmKeeps DEF Loop
<1>4. CASE Serve
  BY <1>4, ServeKeeps
<1>5. CASE Returns
  BY <1>5, PlacementReturnsKeeps, OtherReturnsKeep, GiveUpKeeps DEF Returns
<1>6. CASE Spoil
  BY <1>6, SpoilKeeps
<1>7. CASE \E r \in late : ServeLate(r)
  BY <1>7, ServeLateKeeps
<1>8. CASE Rests
  BY <1>8, <1>1 DEF Rests
<1> QED BY <1>1, <1>2, <1>3, <1>4, <1>5, <1>6, <1>7, <1>8 DEF Next

LEMMA ConsistentInvariant == Spec => []Consistent
BY ConsistentInit, ConsistentStep, PTL DEF Spec

\* Every variable keeps its shape, for any number of orders, questions and
\* losses.
THEOREM OrdersTypeCorrect == Spec => []TypeOK
<1>1. Consistent => TypeOK
  BY DEF Consistent
<1> QED BY <1>1, ConsistentInvariant, PTL

\* What the three calls report was done by the gateway.
THEOREM ReportedReal == Spec => []ReportedIsReal
<1>1. Consistent => ReportedIsReal
  <2> SUFFICES ASSUME Consistent PROVE ReportedIsReal
    OBVIOUS
  <2>1. call = NoCall => PlacedNow = {}
    BY NoCallIsNone DEF PlacedNow
  <2> QED BY <2>1 DEF Consistent, ToldIsDone, ReportedIsReal
<1> QED BY <1>1, ConsistentInvariant, PTL

\* What the gateway did is reported, unless an answer was lost.
THEOREM RealReported == Spec => []RealIsReported
<1>1. Consistent => RealIsReported
  <2> SUFFICES ASSUME Consistent PROVE RealIsReported
    OBVIOUS
  <2>1. call = NoCall => PlacedNow = {} /\ CancelledNow = {}
    BY NoCallIsNone DEF PlacedNow, CancelledNow
  <2> QED BY <2>1 DEF Consistent, DoneIsTold, RealIsReported
<1> QED BY <1>1, ConsistentInvariant, PTL

\* No order falls between the shapes of an answer.
THEOREM Forgotten == Spec => []NothingForgotten
<1>1. Consistent => NothingForgotten
  <2> SUFFICES ASSUME Consistent, call = NoCall, NEW o \in wanted \ doubt
               PROVE  o \in known \cup failed \/ \E q \in open \cap Replies : o \in questions[q].orders
    BY DEF NothingForgotten
  <2>1. PlacedNow = {} /\ RaisedNow = {} /\ ~Placing(call)
    BY NoCallIsNone DEF PlacedNow, RaisedNow
  <2>2. open \subseteq Replies
    BY BoundsAssumption DEF Consistent, RequestsProper, TypeOK, Replies
  <2> QED BY <2>1, <2>2 DEF Consistent, Followed
<1> QED BY <1>1, ConsistentInvariant, PTL

-----------------------------------------------------------------------------
(* No call of PlaceOrders has an order accepted twice.  What may still have *)
(* an order accepted for a call is its request, while it is awaited or late, *)
(* or a question about it, as long as it can be answered.  There is one of   *)
(* these at most, and none when the order was accepted.                      *)

Claims(r, o, n) == Subject(r).kind = "place" /\ Subject(r).nr = n /\ o \in Subject(r).orders

Awaited(o, n) == call # NoCall /\ answer = NoAnswer /\ Claims(call, o, n)

Answerable == open \cup RaisedNow

AsksFor(q, o, n) ==
    questions[q].kind = "place" /\ questions[q].nr = n /\ o \in questions[q].orders

Spent(o, n) == n \in placings[o]

OneClaim(o, n) ==
    /\ Awaited(o, n) => /\ ~Spent(o, n)
                        /\ \A r \in late : ~Claims(r, o, n)
                        /\ \A q \in Answerable : ~AsksFor(q, o, n)
    /\ \A r \in late : Claims(r, o, n) =>
            /\ ~Spent(o, n)
            /\ \A x \in late : Claims(x, o, n) => x = r
            /\ \A q \in Answerable : ~AsksFor(q, o, n)
    /\ \A q \in Answerable : AsksFor(q, o, n) =>
            ~Spent(o, n) /\ \A p \in Answerable : AsksFor(p, o, n) => p = q
    /\ n > calls => /\ ~Awaited(o, n) /\ ~Spent(o, n)
                    /\ \A r \in late : ~Claims(r, o, n)
                    /\ \A q \in Answerable : ~AsksFor(q, o, n)

ClaimedOnce == \A o \in OrderIDs, n \in 0..MaxCalls : OneClaim(o, n)

\* Only the gateway accepts anything.
LEMMA OthersAcceptNothing == Starts \/ Loop \/ Returns \/ Spoil \/ Rests => accepted' = accepted
<1>1. Starts => accepted' = accepted
  BY DEF Starts, PlaceOrders, WhatIf, CancelOrder, ModifyOrder, Begin, Send, gateVars
<1>2. Loop => accepted' = accepted
  BY DEF Loop, ConfirmOrder, Send, gateVars, vars
<1>3. Returns => accepted' = accepted
  BY DEF Returns, PlacementReturns, CancelReturns, WhatIfReturns, GiveUp, Return, gateVars
<1>4. Spoil \/ Rests => accepted' = accepted
  BY DEF Spoil, Rests, gateVars, vars
<1> QED BY <1>1, <1>2, <1>3, <1>4

LEMMA ClaimedInit == Init => ClaimedOnce
<1> SUFFICES ASSUME Init, NEW o \in OrderIDs, NEW n \in 0..MaxCalls PROVE OneClaim(o, n)
  BY DEF ClaimedOnce
<1>1. Answerable = {}
  BY NoCallIsNone DEF Init, Answerable, RaisedNow
<1>2. late = {} /\ ~Awaited(o, n) /\ ~Spent(o, n)
  BY DEF Init, Awaited, Spent
<1> QED BY <1>1, <1>2 DEF OneClaim

\* A step that only takes claims away, or begins something else.
LEMMA FewerClaims ==
    ASSUME Consistent, ClaimedOnce, UNCHANGED <<questions, placings>>,
           calls' \in Nat, calls' >= calls,
           late' \subseteq late, Answerable' \subseteq Answerable,
           \A o \in OrderIDs, n \in 0..MaxCalls : Awaited(o, n)' => Awaited(o, n)
    PROVE  ClaimedOnce'
<1> SUFFICES ASSUME NEW o \in OrderIDs, NEW n \in 0..MaxCalls PROVE OneClaim(o, n)'
  BY DEF ClaimedOnce
<1>1. OneClaim(o, n) /\ (Awaited(o, n)' => Awaited(o, n)) /\ (Spent(o, n)' <=> Spent(o, n))
  BY DEF ClaimedOnce, Spent
<1>2. \A r : Claims(r, o, n)' <=> Claims(r, o, n)
  BY DEF Claims, Subject
<1>3. \A q : AsksFor(q, o, n)' <=> AsksFor(q, o, n)
  BY DEF AsksFor
<1>4. n > calls' => n > calls
  BY BoundsAssumption DEF Consistent, TypeOK
<1> HIDE DEF Claims, AsksFor, Awaited, Spent, Answerable
<1> QED BY <1>1, <1>2, <1>3, <1>4 DEF OneClaim

\* A call that begins: one of PlaceOrders has a number of its own, the answer to
\* a question takes the question's claim, and the others claim nothing.
LEMMA SendClaims ==
    ASSUME Consistent, ClaimedOnce, NEW r, Send(r), open' \subseteq open,
           calls' \in Nat, calls' >= calls,
           r.kind = "place" => r.nr > calls /\ r.nr <= calls',
           r.kind = "confirm" => r.reply \in open /\ r.reply \notin open'
    PROVE  ClaimedOnce'
<1> SUFFICES ASSUME NEW o \in OrderIDs, NEW n \in 0..MaxCalls PROVE OneClaim(o, n)'
  BY DEF ClaimedOnce
<1>1. /\ call = NoCall /\ call' = r /\ RaisedNow = {} /\ RaisedNow' = {}
      /\ UNCHANGED <<late, placings, questions>>
  BY SendIsQuiet
<1>2. OneClaim(o, n) /\ (Spent(o, n)' <=> Spent(o, n))
  BY <1>1 DEF ClaimedOnce, Spent
<1>3. \A x : Claims(x, o, n)' <=> Claims(x, o, n)
  BY <1>1 DEF Claims, Subject
<1>4. \A q : AsksFor(q, o, n)' <=> AsksFor(q, o, n)
  BY <1>1 DEF AsksFor
<1>5. Awaited(o, n)' => Claims(r, o, n)
  BY <1>1, <1>3 DEF Awaited
<1>6. Answerable = open /\ Answerable' = open'
  BY <1>1 DEF Answerable
<1>7. calls \in Nat /\ (n > calls' => n > calls)
  BY BoundsAssumption DEF Consistent, TypeOK
<1>8. Claims(r, o, n) => \/ r.kind = "place" /\ n = r.nr
                         \/ r.kind = "confirm" /\ AsksFor(r.reply, o, n)
  BY DEF Claims, AsksFor, Subject
<1>9. CASE r.kind = "place" /\ n = r.nr
  <2>1. /\ n > calls /\ ~(n > calls')
    BY <1>7, <1>9
  <2> QED BY <2>1, <1>1, <1>2, <1>3, <1>4, <1>5, <1>6, <1>9 DEF OneClaim
<1>10. CASE ~(r.kind = "place" /\ n = r.nr)
  <2>1. Awaited(o, n)' => r.reply \in open /\ r.reply \notin open' /\ AsksFor(r.reply, o, n)
    BY <1>5, <1>8, <1>10
  <2> QED BY <2>1, <1>1, <1>2, <1>3, <1>4, <1>6, <1>7 DEF OneClaim
<1> QED BY <1>9, <1>10

\* What the gateway decides about a request spends the request's claims, or hands
\* them on to a question.
LEMMA ServeClaims == Consistent /\ ClaimedOnce /\ Serve => ClaimedOnce'
<1> SUFFICES ASSUME Consistent, ClaimedOnce, Serve, NEW o \in OrderIDs, NEW n \in 0..MaxCalls
             PROVE  OneClaim(o, n)'
  BY DEF ClaimedOnce
<1>1. /\ call # NoCall /\ answer = NoAnswer /\ UNCHANGED <<call, calls, late, open>>
      /\ TypeOK /\ QuestionsProper /\ call \in Requests /\ Proper(call) /\ asked \in Nat
      /\ \A x \in known : accepted[x] > 0
  BY DEF Serve, appVars, Consistent, RequestsProper, ToldIsDone, TypeOK
<1>2. PICK A \in SUBSET About(call), Q \in SUBSET About(call) :
          Process(call, A, Q) /\ answer' \in Told(call, A, Q)
  BY DEF Serve
<1>3. Effect(call, A, Q)
  BY <1>1, <1>2, ProcessEffect
<1>4. A \in SUBSET OrderIDs /\ Q \in SUBSET OrderIDs /\ (Q # {} => asked + 1 \in Replies)
  BY <1>1, <1>3, SubjectProper DEF Effect
<1>5. answer' # NoAnswer /\ RaisedIn(answer') = {asked + 1} \cap {asked + 1 : x \in Q}
  BY <1>1, <1>2, <1>4, ToldReads
<1>6. \A q \in RaisedNow' : Q # {} /\ q = asked'
  BY <1>1, <1>3, <1>5 DEF RaisedNow, Effect
<1>7. /\ Spent(o, n)' <=> Spent(o, n) \/ (o \in A /\ Claims(call, o, n))
      /\ \A x : Proper(x) => (Claims(x, o, n)' <=> Claims(x, o, n))
      /\ \A q \in 1..asked : AsksFor(q, o, n)' <=> AsksFor(q, o, n)
      /\ \A q : Q # {} /\ q = asked' => (AsksFor(q, o, n)' <=> o \in Q /\ Claims(call, o, n))
      /\ A \cap Q = {}
  <2>1. Spent(o, n)' <=> Spent(o, n) \/ (o \in A /\ Claims(call, o, n))
    BY <1>3 DEF Effect, Spent, Claims, About
  <2>2. \A x : Proper(x) => (Claims(x, o, n)' <=> Claims(x, o, n))
    BY <1>3 DEF Effect, Proper, Claims, Subject
  <2>3. \A q \in 1..asked : AsksFor(q, o, n)' <=> AsksFor(q, o, n)
    BY <1>3 DEF Effect, AsksFor
  <2>4. \A q : Q # {} /\ q = asked' => (AsksFor(q, o, n)' <=> o \in Q /\ Claims(call, o, n))
    BY <1>3 DEF Effect, AsksFor, Claims, About
  <2> QED BY <1>3, <2>1, <2>2, <2>3, <2>4 DEF Effect
<1>8. OneClaim(o, n) /\ (Awaited(o, n) <=> Claims(call, o, n)) /\ ~Awaited(o, n)'
  BY <1>1, <1>5 DEF ClaimedOnce, Awaited
<1>9. \A x \in late : Claims(x, o, n)' <=> Claims(x, o, n)
  BY <1>7 DEF Consistent, RequestsProper
<1>10. open \subseteq Answerable /\ \A q \in open : AsksFor(q, o, n)' <=> AsksFor(q, o, n)
  BY <1>7 DEF Consistent, RequestsProper, Answerable
<1>11. \A q \in Answerable' : q \in open \/ (Q # {} /\ q = asked')
  BY <1>1, <1>6 DEF Answerable
<1>12. \A q \in Answerable' : AsksFor(q, o, n)' =>
          \/ q \in open /\ AsksFor(q, o, n)
          \/ q = asked' /\ o \in Q /\ Claims(call, o, n)
  BY <1>7, <1>10, <1>11
<1> QED BY <1>1, <1>7, <1>8, <1>9, <1>10, <1>12 DEF OneClaim

\* Nobody reads the question that a late request leads to.
LEMMA ServeLateClaims ==
    ASSUME Consistent, ClaimedOnce, NEW r \in late, ServeLate(r)
    PROVE  ClaimedOnce'
<1> SUFFICES ASSUME NEW o \in OrderIDs, NEW n \in 0..MaxCalls PROVE OneClaim(o, n)'
  BY DEF ClaimedOnce
<1>1. /\ late' = late \ {r} /\ UNCHANGED <<call, answer, calls, open>>
      /\ TypeOK /\ QuestionsProper /\ r \in Requests /\ Proper(r)
      /\ \A x \in known : accepted[x] > 0
      /\ call # NoCall => Proper(call)
  BY DEF ServeLate, callVars, appVars, Consistent, RequestsProper, ToldIsDone, TypeOK
<1>2. PICK A \in SUBSET About(r), Q \in SUBSET About(r) : Process(r, A, Q)
  BY DEF ServeLate
<1>3. Effect(r, A, Q)
  BY <1>1, <1>2, ProcessEffect
<1>4. /\ Spent(o, n)' <=> Spent(o, n) \/ (o \in A /\ Claims(r, o, n))
      /\ \A x : Proper(x) => (Claims(x, o, n)' <=> Claims(x, o, n))
      /\ \A q \in 1..asked : AsksFor(q, o, n)' <=> AsksFor(q, o, n)
  <2>1. Spent(o, n)' <=> Spent(o, n) \/ (o \in A /\ Claims(r, o, n))
    BY <1>3 DEF Effect, Spent, Claims, About
  <2>2. \A x : Proper(x) => (Claims(x, o, n)' <=> Claims(x, o, n))
    BY <1>3 DEF Effect, Proper, Claims, Subject
  <2>3. \A q \in 1..asked : AsksFor(q, o, n)' <=> AsksFor(q, o, n)
    BY <1>3 DEF Effect, AsksFor
  <2> QED BY <2>1, <2>2, <2>3
<1>5. OneClaim(o, n) /\ (Awaited(o, n)' <=> Awaited(o, n))
  BY <1>1, <1>4 DEF ClaimedOnce, Awaited
<1>6. \A x \in late : Claims(x, o, n)' <=> Claims(x, o, n)
  BY <1>4 DEF Consistent, RequestsProper
<1>7. Answerable' = Answerable /\ \A q \in Answerable : AsksFor(q, o, n)' <=> AsksFor(q, o, n)
  BY <1>1, <1>4 DEF Consistent, RequestsProper, Answerable, RaisedNow
<1> QED BY <1>1, <1>4, <1>5, <1>6, <1>7 DEF OneClaim

\* A request that was not answered is late from now on.
LEMMA GiveUpClaims == Consistent /\ ClaimedOnce /\ GiveUp => ClaimedOnce'
<1> SUFFICES ASSUME Consistent, ClaimedOnce, GiveUp PROVE ClaimedOnce'
  OBVIOUS
<1>1. /\ call # NoCall /\ call' = NoCall /\ answer' = NoAnswer
      /\ late' = IF answer = NoAnswer THEN late \cup {call} ELSE late
      /\ UNCHANGED <<calls, open, placings, questions>>
  BY DEF GiveUp, gateVars
<1>2. /\ Answerable' \subseteq Answerable /\ calls \in Nat
      /\ \A o \in OrderIDs, n \in 0..MaxCalls : ~Awaited(o, n)'
  BY <1>1, NoCallIsNone DEF Answerable, RaisedNow, Awaited, Consistent, TypeOK
<1>3. CASE answer # NoAnswer
  BY <1>1, <1>2, <1>3, FewerClaims
<1>4. CASE answer = NoAnswer
  <2> SUFFICES ASSUME NEW o \in OrderIDs, NEW n \in 0..MaxCalls PROVE OneClaim(o, n)'
    BY DEF ClaimedOnce
  <2>1. OneClaim(o, n) /\ (Spent(o, n)' <=> Spent(o, n)) /\ (Awaited(o, n) <=> Claims(call, o, n))
    BY <1>1, <1>4 DEF ClaimedOnce, Spent, Awaited
  <2>2. \A r : Claims(r, o, n)' <=> Claims(r, o, n)
    BY <1>1 DEF Claims, Subject
  <2>3. \A q : AsksFor(q, o, n)' <=> AsksFor(q, o, n)
    BY <1>1 DEF AsksFor
  <2> QED BY <1>1, <1>2, <1>4, <2>1, <2>2, <2>3 DEF OneClaim
<1> QED BY <1>3, <1>4

LEMMA ClaimedStep == Consistent /\ ClaimedOnce /\ [Next]_vars => ClaimedOnce'
<1> SUFFICES ASSUME Consistent, ClaimedOnce, [Next]_vars PROVE ClaimedOnce'
  OBVIOUS
<1>1. calls \in Nat /\ calls >= calls /\ calls + 1 \in Nat /\ calls + 1 > calls /\ calls + 1 >= calls
  BY BoundsAssumption DEF Consistent, TypeOK
<1>2. CASE UNCHANGED vars
  <2>1. UNCHANGED <<call, answer, calls, late, open, questions, placings>>
    BY <1>2 DEF vars, callVars, appVars, gateVars
  <2>2. Answerable' = Answerable /\ \A o, n : Awaited(o, n)' <=> Awaited(o, n)
    BY <2>1 DEF Answerable, RaisedNow, Awaited, Claims, Subject
  <2> QED BY <1>1, <2>1, <2>2, FewerClaims
<1>3. ASSUME NEW r, Begin(r), r.kind # "confirm", r.kind = "place" => r.nr = calls + 1, open' = open
      PROVE  ClaimedOnce'
  <2>1. Send(r) /\ calls' = calls + 1
    BY <1>3 DEF Begin
  <2> QED BY <1>1, <1>3, <2>1, SendClaims
<1>4. CASE Starts
  <2>1. ASSUME NEW B, PlaceOrders(B) PROVE ClaimedOnce'
    BY <2>1, <1>3 DEF PlaceOrders, Request
  <2>2. ASSUME NEW B, WhatIf(B) PROVE ClaimedOnce'
    BY <2>2, <1>3 DEF WhatIf, Request, appVars
  <2>3. ASSUME NEW o, CancelOrder(o) PROVE ClaimedOnce'
    BY <2>3, <1>3 DEF CancelOrder, Request, appVars
  <2>4. ASSUME NEW o, NEW t, ModifyOrder(o, t) PROVE ClaimedOnce'
    BY <2>4, <1>3 DEF ModifyOrder, Request
  <2> QED BY <1>4, <2>1, <2>2, <2>3, <2>4 DEF Starts
<1>5. CASE Loop
  <2>1. PICK q \in open, yes \in BOOLEAN : ConfirmOrder(q, yes)
    BY <1>5 DEF Loop
  <2> DEFINE r == Request("confirm", {}, Initial, q, yes, 0)
  <2>2. q # NoReply
    BY BoundsAssumption DEF Consistent, RequestsProper, TypeOK, NoReply
  <2>3. Send(r) /\ open' = open \ {q} /\ calls' = calls
    BY <2>1, <2>2 DEF ConfirmOrder
  <2>4. r.kind = "confirm" /\ r.reply = q
    BY DEF Request
  <2> HIDE DEF r
  <2> QED BY <1>1, <2>3, <2>4, SendClaims
<1>6. CASE PlacementReturns \/ CancelReturns \/ WhatIfReturns
  <2>1. /\ call' = NoCall /\ answer' = NoAnswer /\ UNCHANGED <<calls, late, questions, placings>>
        /\ open' \subseteq Answerable
    BY <1>6 DEF PlacementReturns, CancelReturns, WhatIfReturns, Return, appVars, gateVars,
                Answerable, RaisedNow, Placing
  <2>2. Answerable' = open' /\ \A o \in OrderIDs, n \in 0..MaxCalls : ~Awaited(o, n)'
    BY <2>1, NoCallIsNone DEF Answerable, RaisedNow, Awaited
  <2> QED BY <1>1, <2>1, <2>2, FewerClaims
<1>7. CASE Spoil
  <2>1. /\ answer # NoAnswer /\ answer' \in {Answer("blank", {}), Answer("array", {Unexpected})}
        /\ UNCHANGED <<call, calls, open, late, questions, placings>>
    BY <1>7 DEF Spoil, gateVars
  <2>2. answer' # NoAnswer
    BY <2>1 DEF Answer, NoAnswer
  <2>3. ~Readable(answer')
    BY <2>1, SpoiltIsUnreadable
  <2>4. RaisedNow' = {} /\ \A o \in OrderIDs, n \in 0..MaxCalls : ~Awaited(o, n)'
    BY <2>2, <2>3, UnreadableTellsNothing DEF RaisedNow, Awaited
  <2>5. Answerable' \subseteq Answerable
    BY <2>1, <2>4 DEF Answerable
  <2> QED BY <1>1, <2>1, <2>4, <2>5, FewerClaims
<1>8. CASE \E r \in late : ServeLate(r)
  BY <1>8, ServeLateClaims
<1>9. CASE Rests
  BY <1>9, <1>2 DEF Rests
<1> QED
  BY <1>2, <1>4, <1>5, <1>6, <1>7, <1>8, <1>9, ServeClaims, GiveUpClaims DEF Next, Returns

LEMMA ClaimedInvariant == Spec => []ClaimedOnce
BY ClaimedInit, ClaimedStep, ConsistentInvariant, PTL DEF Spec

\* One call of PlaceOrders has an order accepted once, over its questions, their
\* answers and requests that are served late.
THEOREM PlacedOnce == Spec => OncePerPlacing
<1> DEFINE Once == \A o \in OrderIDs : accepted'[o] > accepted[o] => placings'[o] # placings[o]
<1>1. Consistent /\ ClaimedOnce /\ [Next]_vars => [Once]_vars
  <2> SUFFICES ASSUME Consistent, ClaimedOnce, Next, NEW o \in OrderIDs, accepted'[o] > accepted[o]
               PROVE  placings'[o] # placings[o]
    BY DEF vars
  <2>1. /\ TypeOK /\ QuestionsProper /\ accepted[o] \in Nat
        /\ \A x \in known : accepted[x] > 0
    BY DEF Consistent, RequestsProper, ToldIsDone, TypeOK
  <2>2. accepted' # accepted
    BY <2>1
  <2>3. ASSUME NEW r \in Requests, Proper(r), NEW A \in SUBSET About(r), NEW Q \in SUBSET About(r),
               Effect(r, A, Q), \A n \in 0..MaxCalls : Claims(r, o, n) => ~Spent(o, n)
        PROVE  placings'[o] # placings[o]
    <3>1. o \in A /\ Subject(r).kind = "place"
      BY <2>3 DEF Effect
    <3>2. Subject(r).nr \in 0..MaxCalls /\ o \in Subject(r).orders
      BY <2>1, <2>3, <3>1, SubjectProper DEF Requests
    <3>3. Subject(r).nr \notin placings[o]
      BY <2>3, <3>1, <3>2 DEF Claims, Spent
    <3>4. placings'[o] = placings[o] \cup {Subject(r).nr}
      BY <2>3, <3>1 DEF Effect
    <3> QED BY <3>3, <3>4
  <2>4. CASE Serve
    <3>1. call # NoCall /\ answer = NoAnswer /\ call \in Requests /\ Proper(call)
      BY <2>4 DEF Serve, Consistent, RequestsProper, TypeOK
    <3>2. PICK A \in SUBSET About(call), Q \in SUBSET About(call) : Process(call, A, Q)
      BY <2>4 DEF Serve
    <3>3. Effect(call, A, Q)
      BY <2>1, <3>1, <3>2, ProcessEffect
    <3>4. \A n \in 0..MaxCalls : Claims(call, o, n) => ~Spent(o, n)
      BY <3>1 DEF ClaimedOnce, OneClaim, Awaited
    <3> QED BY <2>3, <3>1, <3>3, <3>4
  <2>5. CASE \E r \in late : ServeLate(r)
    <3>1. PICK r \in late : ServeLate(r)
      BY <2>5
    <3>2. r \in Requests /\ Proper(r)
      BY DEF Consistent, RequestsProper, TypeOK
    <3>3. PICK A \in SUBSET About(r), Q \in SUBSET About(r) : Process(r, A, Q)
      BY <3>1 DEF ServeLate
    <3>4. Effect(r, A, Q)
      BY <2>1, <3>2, <3>3, ProcessEffect
    <3>5. \A n \in 0..MaxCalls : Claims(r, o, n) => ~Spent(o, n)
      BY DEF ClaimedOnce, OneClaim
    <3> QED BY <2>3, <3>2, <3>4, <3>5
  <2>6. Starts \/ Loop \/ Returns \/ Spoil \/ Rests => accepted' = accepted
    BY OthersAcceptNothing
  <2> QED BY <2>2, <2>4, <2>5, <2>6 DEF Next
<1>2. Spec => [][Next]_vars
  BY DEF Spec
<1> QED BY <1>1, <1>2, ConsistentInvariant, ClaimedInvariant, PTL DEF OncePerPlacing

\* Nothing that was previewed or abandoned reaches the market, unless an answer
\* was lost.
THEOREM OnlyWanted == Spec => NothingUnwanted
<1> DEFINE Wanted == \A o \in OrderIDs : accepted'[o] > accepted[o] => o \in wanted \cup doubt
<1>1. Consistent /\ [Next]_vars => [Wanted]_vars
  <2> SUFFICES ASSUME Consistent, Next, NEW o \in OrderIDs, accepted'[o] > accepted[o]
               PROVE  o \in wanted \cup doubt
    BY DEF vars
  <2>1. /\ accepted[o] \in Nat /\ TypeOK /\ QuestionsProper
        /\ \A x \in known : accepted[x] > 0
    BY DEF Consistent, RequestsProper, ToldIsDone, TypeOK
  <2>2. accepted' # accepted
    BY <2>1
  <2>3. CASE Serve
    <3>1. call # NoCall /\ call \in Requests /\ Proper(call)
      BY <2>3 DEF Serve, Consistent, RequestsProper, TypeOK
    <3>2. PICK A \in SUBSET About(call), Q \in SUBSET About(call) : Process(call, A, Q)
      BY <2>3 DEF Serve
    <3>3. Effect(call, A, Q)
      BY <2>1, <3>1, <3>2, ProcessEffect
    <3>4. /\ o \in About(call) /\ Subject(call).kind = "place" /\ (call.kind = "confirm" => call.yes)
          /\ Placing(call)
      BY <2>2, <3>2, <3>3 DEF Effect
    <3>5. CASE call.kind = "confirm"
      BY <3>4, <3>5 DEF Consistent, CallWanted, Subject
    <3>6. CASE call.kind # "confirm"
      BY <3>4, <3>6 DEF Consistent, CallWanted, Subject, About
    <3> QED BY <3>5, <3>6
  <2>4. CASE \E r \in late : ServeLate(r)
    <3>1. PICK r \in late : ServeLate(r)
      BY <2>4
    <3>2. r \in Requests /\ Proper(r) /\ About(r) \subseteq doubt
      BY DEF Consistent, RequestsProper, TypeOK
    <3>3. PICK A \in SUBSET About(r), Q \in SUBSET About(r) : Process(r, A, Q)
      BY <3>1 DEF ServeLate
    <3>4. Effect(r, A, Q)
      BY <2>1, <3>2, <3>3, ProcessEffect
    <3> QED BY <3>2, <3>3, <3>4 DEF Effect
  <2>5. Starts \/ Loop \/ Returns \/ Spoil \/ Rests => accepted' = accepted
    BY OthersAcceptNothing
  <2> QED BY <2>2, <2>3, <2>4, <2>5 DEF Next
<1>2. Spec => [][Next]_vars
  BY DEF Spec
<1> QED BY <1>1, <1>2, ConsistentInvariant, PTL DEF NothingUnwanted

=============================================================================
