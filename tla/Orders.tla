------------------------------- MODULE Orders -------------------------------
(***************************************************************************)
(* Placing, confirming, modifying, cancelling and previewing orders:       *)
(* orders.go, one application that uses it as its comments say, and the    *)
(* gateway as far as these comments and the tests describe it.             *)
(*                                                                         *)
(* An answer is a set of elements of three shapes that no field tells      *)
(* apart: a question, a placed order, an error.  A request that the        *)
(* application gave up on may still be served, at any later time.  An      *)
(* order stands for itself and for the gateway's identifier; accounts and  *)
(* the contents of an order are left out, with the customer order id:      *)
(* orders.go passes it on, and what becomes of it is the gateway's.        *)
(***************************************************************************)
EXTENDS Naturals

CONSTANTS
    OrderIDs,      \* the orders the application wants
    NoOrder,       \* the empty OrderID
    Terms,         \* price, quantity and so on
    Initial,       \* the terms of PlaceOrders
    MaxCalls,      \* bound: calls that start something
    MaxQuestions,  \* bound: questions the gateway asks
    MaxLost        \* bound: calls that are given up, and answers that are spoilt

ASSUME OrdersAssumption == NoOrder \notin OrderIDs /\ Initial \in Terms
ASSUME BoundsAssumption == MaxCalls \in Nat /\ MaxQuestions \in Nat /\ MaxLost \in Nat

NoReply == 0                  \* the empty ReplyID
Replies == 1..MaxQuestions

\* nr is the number of the call that starts something, 0 in an answer to a
\* question.
Request(kind, orders, terms, reply, yes, nr) ==
    [kind |-> kind, orders |-> orders, terms |-> terms, reply |-> reply, yes |-> yes, nr |-> nr]
Requests ==
    [kind : {"none", "place", "modify", "confirm", "cancel", "whatif"},
     orders : SUBSET OrderIDs, terms : Terms,
     reply : Replies \cup {NoReply}, yes : BOOLEAN, nr : 0..MaxCalls]
NoCall == Request("none", {}, Initial, NoReply, FALSE, 0)

\* form: the JSON type of order_id.
Elements ==
    [reply : Replies \cup {NoReply}, order : OrderIDs \cup {NoOrder},
     form : {"string", "number", "null", "other"}, error : BOOLEAN]
Element(reply, order, form, error) ==
    [reply |-> reply, order |-> order, form |-> form, error |-> error]
Placed(o, form) == Element(NoReply, o, form, FALSE)
Question(q)     == Element(q, NoOrder, "null", FALSE)
Refused         == Element(NoReply, NoOrder, "null", TRUE)
Unexpected      == Element(NoReply, NoOrder, "other", FALSE)

\* "status" is any HTTP status that is an error, "blank" the answer that leaves
\* its destination untouched and is no error: null, or no content.
Answers == [shape : {"array", "object", "blank", "status"}, elements : SUBSET Elements]
Answer(shape, elements) == [shape |-> shape, elements |-> elements]
NoAnswer == [shape |-> "none", elements |-> {}]

VARIABLES
    call,       \* the request of the call in progress
    answer,     \* what the gateway answered to it
    calls, lost,
    open,       \* questions the application still has to answer
    known,      \* orders reported to it as placed
    believed,   \* the terms they were reported with
    gone,       \* orders reported to it as being cancelled
    failed,     \* orders whose last request was reported as failed
    wanted,     \* auxiliary: orders placed, and not abandoned since
    doubt,      \* auxiliary: orders with a request whose answer did not arrive
    late,       \* requests that were given up, and are not served yet
    accepted,   \* order -> how often the gateway accepted it
    placings,   \* auxiliary: order -> the calls of PlaceOrders it was accepted for
    terms,      \* order -> its terms at the gateway
    cancels,    \* orders the gateway was told to cancel
    asked,      \* questions asked so far
    questions   \* question -> the request it is about

callVars == <<call, answer, calls, lost>>
appVars  == <<open, known, believed, gone, failed, wanted, doubt>>
gateVars == <<accepted, placings, terms, cancels, asked, questions>>
vars == <<callVars, appVars, late, gateVars>>

Init ==
    /\ call = NoCall /\ answer = NoAnswer /\ calls = 0 /\ lost = 0
    /\ open = {} /\ known = {} /\ gone = {} /\ failed = {} /\ wanted = {} /\ doubt = {}
    /\ believed = [o \in OrderIDs |-> Initial]
    /\ late = {}
    /\ accepted = [o \in OrderIDs |-> 0] /\ placings = [o \in OrderIDs |-> {}]
    /\ terms = [o \in OrderIDs |-> Initial]
    /\ cancels = {} /\ asked = 0 /\ questions = [q \in Replies |-> NoCall]

\* What a request is about: a reply, what its question was about.
Subject(r) == IF r.kind = "confirm" THEN questions[r.reply] ELSE r
About(r) == Subject(r).orders

-----------------------------------------------------------------------------
(* Decoding an answer.                                                     *)

\* Mutant: the identifier is a string in every answer, or nothing is decoded.
StringsReadable(a) ==
    a.shape \in {"array", "object"} /\ \A e \in a.elements : e.form \in {"string", "null"}

\* OrderID.UnmarshalJSON takes a string, a number and null; one element that
\* cannot be decoded spoils the whole answer.
Readable(a) ==
    a.shape \in {"array", "object"} /\ \A e \in a.elements : e.form \in {"string", "number", "null"}

OrderIDOf(e) == IF e.form = "null" THEN NoOrder ELSE e.order
OrderPlacement(e) == [reply |-> e.reply, order |-> OrderIDOf(e), error |-> e.error]

\* Mutant: whatever is not placed is a question.
IsNotPlaced(p) == p.order = NoOrder

IsQuestion(p) == p.reply # NoReply /\ p.order = NoOrder

\* Mutant: whatever is not an error is placed.
IsNoError(p) == ~p.error

IsPlaced(p) == p.order # NoOrder

\* Mutant: an error in a bare object is not looked for.
PlacementsOfArray(a) ==
    LET decoded == IF Readable(a) THEN {OrderPlacement(e) : e \in a.elements} ELSE {}
    IN [placements |-> decoded,
        err |-> ~Readable(a) \/ (a.shape = "array" /\ \E p \in decoded : p.error)]

\* What placementRequest returns: the elements also when one of them is an error.
Placements(a) ==
    LET decoded == IF Readable(a) THEN {OrderPlacement(e) : e \in a.elements} ELSE {}
    IN [placements |-> decoded, err |-> ~Readable(a) \/ \E p \in decoded : p.error]

\* What the application reads there.
PlacedIn(a) == {p.order : p \in {r \in Placements(a).placements : IsPlaced(r)}}
RaisedIn(a) == {p.reply : p \in {r \in Placements(a).placements : IsQuestion(r)}}

\* Mutant: an error in the body is not looked for.
ErrorsUnread(a) == a.shape = "blank" \/ (a.shape = "object" /\ Readable(a))

\* What CancelOrder makes of its answer.  Where placementRequest takes a blank
\* answer for an error, CancelOrder has no test for it: the response stays what
\* it was, with no error in it, and the call succeeds.
Succeeds(a) ==
    \/ a.shape = "blank"
    \/ a.shape = "object" /\ Readable(a) /\ ~\E e \in a.elements : e.error

-----------------------------------------------------------------------------
(* The calls, as the application makes them.                               *)

Send(r) ==
    /\ call = NoCall /\ call' = r
    /\ UNCHANGED <<answer, lost, late, gateVars>>

Begin(r) == calls < MaxCalls /\ calls' = calls + 1 /\ Send(r)

\* Orders that are not known to be placed may be sent (again).
PlaceOrders(B) ==
    /\ B # {} /\ Begin(Request("place", B, Initial, NoReply, FALSE, calls + 1))
    /\ failed' = failed \ B /\ wanted' = wanted \cup B
    /\ UNCHANGED <<open, known, believed, gone, doubt>>

ModifyOrder(o, t) ==
    /\ Begin(Request("modify", {o}, t, NoReply, FALSE, calls + 1))
    /\ failed' = failed \ {o}
    /\ UNCHANGED <<open, known, believed, gone, wanted, doubt>>

\* What the application has in mind when it answers a question about placing.
Minds(q, yes) ==
    IF questions[q].kind # "place" THEN wanted
    ELSE IF yes THEN wanted \cup questions[q].orders ELSE wanted \ questions[q].orders

\* Mutant: the answer to a question is always yes.
ConfirmAlways(q, yes) ==
    IF q = NoReply THEN UNCHANGED vars
    ELSE /\ Send(Request("confirm", {}, Initial, q, TRUE, 0))
         /\ open' = open \ {q} /\ failed' = failed \ questions[q].orders
         /\ wanted' = Minds(q, yes)
         /\ UNCHANGED <<calls, known, believed, gone, doubt>>

\* To say no is to abandon.  Without an identifier the call fails at once.
ConfirmOrder(q, yes) ==
    IF q = NoReply THEN UNCHANGED vars
    ELSE /\ Send(Request("confirm", {}, Initial, q, yes, 0))
         /\ open' = open \ {q} /\ failed' = failed \ questions[q].orders
         /\ wanted' = Minds(q, yes)
         /\ UNCHANGED <<calls, known, believed, gone, doubt>>

CancelOrder(o) ==
    /\ Begin(Request("cancel", {o}, Initial, NoReply, FALSE, calls + 1))
    /\ UNCHANGED appVars

WhatIf(B) ==
    /\ B # {} /\ Begin(Request("whatif", B, Initial, NoReply, FALSE, calls + 1))
    /\ UNCHANGED appVars

-----------------------------------------------------------------------------
(* The return of a call.                                                   *)

Return == call' = NoCall /\ answer' = NoAnswer /\ UNCHANGED <<calls, lost, late, gateVars>>

\* PlaceOrders, ModifyOrder or ConfirmOrder returns; the application reads the
\* elements, and takes what an error leaves over as failed.
PlacementReturns ==
    /\ call.kind \in {"place", "modify", "confirm"} /\ answer # NoAnswer
    /\ known' = known \cup PlacedIn(answer)
    /\ believed' = [o \in OrderIDs |-> IF o \in PlacedIn(answer) THEN Subject(call).terms
                                       ELSE believed[o]]
    /\ open' = open \cup RaisedIn(answer)
    /\ failed' = IF Placements(answer).err
                 THEN failed \cup (About(call) \ PlacedIn(answer)) ELSE failed
    /\ Return /\ UNCHANGED <<gone, wanted, doubt>>

CancelReturns ==
    /\ call.kind = "cancel" /\ answer # NoAnswer
    /\ gone' = IF Succeeds(answer) THEN gone \cup call.orders ELSE gone
    /\ Return /\ UNCHANGED <<open, known, believed, failed, wanted, doubt>>

WhatIfReturns ==
    /\ call.kind = "whatif" /\ answer # NoAnswer
    /\ Return /\ UNCHANGED appVars

\* Mutant: a request that failed is sent again.
GiveUpRetrying ==
    /\ call # NoCall /\ lost < MaxLost
    /\ UNCHANGED call /\ answer' = NoAnswer /\ lost' = lost + 1
    /\ late' = IF answer = NoAnswer THEN late \cup {call} ELSE late
    /\ doubt' = doubt \cup About(call)
    /\ UNCHANGED <<calls, open, known, believed, gone, failed, wanted, gateVars>>

\* The context ends or the connection fails, before or after the gateway served
\* the request: the call returns an error and nothing else, and no
\* request is sent twice.
GiveUp ==
    /\ call # NoCall /\ lost < MaxLost
    /\ call' = NoCall /\ answer' = NoAnswer /\ lost' = lost + 1
    /\ late' = IF answer = NoAnswer THEN late \cup {call} ELSE late
    /\ doubt' = doubt \cup About(call)
    /\ failed' = failed \cup About(call)
    /\ UNCHANGED <<calls, open, known, believed, gone, wanted, gateVars>>

\* The answer arrives with null or nothing for a body, cut short, or with a type
\* nobody expects.
Spoil ==
    /\ answer # NoAnswer /\ lost < MaxLost /\ Readable(answer)
    /\ answer' \in {Answer("blank", {}), Answer("array", {Unexpected})}
    /\ lost' = lost + 1 /\ doubt' = doubt \cup About(call)
    /\ UNCHANGED <<call, calls, open, known, believed, gone, failed, wanted, late, gateVars>>

-----------------------------------------------------------------------------
(* The gateway.                                                            *)

\* It accepts A, asks about Q and refuses the others.  What was placed before may
\* be placed once more.
Decide(r, A, Q) ==
    /\ Q \subseteq r.orders \ A
    /\ accepted' = [o \in OrderIDs |-> IF o \in A /\ r.kind = "place"
                                       THEN accepted[o] + 1 ELSE accepted[o]]
    /\ placings' = [o \in OrderIDs |-> IF o \in A /\ r.kind = "place"
                                       THEN placings[o] \cup {r.nr} ELSE placings[o]]
    /\ terms' = [o \in OrderIDs |-> IF o \in A THEN r.terms ELSE terms[o]]
    /\ IF Q = {} THEN UNCHANGED <<asked, questions>>
       ELSE /\ asked < MaxQuestions /\ asked' = asked + 1
            /\ questions' = [questions EXCEPT ![asked + 1] = [r EXCEPT !.orders = Q]]
    /\ UNCHANGED cancels

NoEffect(r) == r.kind = "whatif" \/ (r.kind = "confirm" /\ ~r.yes)

\* A placement, a modification or a yes to a question about one is decided; a
\* cancel is accepted or refused; a no or a preview changes nothing.
Process(r, A, Q) ==
    \/ /\ r.kind \in {"place", "modify"} \/ (r.kind = "confirm" /\ r.yes)
       /\ Decide(Subject(r), A, Q)
    \/ /\ r.kind = "cancel" /\ Q = {} /\ cancels' = cancels \cup A
       /\ UNCHANGED <<accepted, placings, terms, asked, questions>>
    \/ /\ NoEffect(r)
       /\ A = {} /\ Q = {} /\ UNCHANGED gateVars

\* What it answers.  A refusal is an array, a bare object or a status; what has
\* no effect may be answered without an error, too.
Told(r, A, Q) ==
    IF A \cup Q # {}
    THEN {Answer(IF r.kind = "cancel" THEN "object" ELSE "array",
                 {Placed(o, form) : o \in A}
                 \cup {Question(q) : q \in {asked + 1} \cap {asked + 1 : o \in Q}}
                 \cup {e \in {Refused} : A \cup Q # About(r)}) : form \in {"string", "number"}}
    ELSE {Answer("array", {Refused}), Answer("object", {Refused}), Answer("status", {})}
         \cup {a \in {Answer(IF r.kind = "whatif" THEN "object" ELSE "array", {})} : NoEffect(r)}

Serve ==
    /\ call # NoCall /\ answer = NoAnswer
    /\ \E A, Q \in SUBSET About(call) : Process(call, A, Q) /\ answer' \in Told(call, A, Q)
    /\ UNCHANGED <<call, calls, lost, appVars, late>>

\* Nobody waits for the answer any more.
ServeLate(r) ==
    /\ r \in late /\ late' = late \ {r}
    /\ \E A, Q \in SUBSET About(r) : Process(r, A, Q)
    /\ UNCHANGED <<callVars, appVars>>

-----------------------------------------------------------------------------

Starts ==
    \/ \E B \in SUBSET OrderIDs : (B \cap known = {} /\ PlaceOrders(B)) \/ WhatIf(B)
    \/ \E o \in known : CancelOrder(o) \/ \E t \in Terms : ModifyOrder(o, t)

\* The loop that the comment of PlaceOrders asks for.
Loop == \E q \in open, yes \in BOOLEAN : ConfirmOrder(q, yes)

Returns == PlacementReturns \/ CancelReturns \/ WhatIfReturns \/ GiveUp

\* The application rests.
Rests == call = NoCall /\ open = {} /\ UNCHANGED vars

Next == Starts \/ Loop \/ Serve \/ Returns \/ Spoil \/ (\E r \in late : ServeLate(r)) \/ Rests

Spec == Init /\ [][Next]_vars

\* The application goes on with its questions, and a call returns in the end.
FairSpec == Spec /\ WF_vars(Loop) /\ WF_vars(Serve) /\ WF_vars(Returns)

-----------------------------------------------------------------------------

\* Every variable keeps its shape.
TypeOK ==
    /\ call \in Requests /\ answer \in Answers \cup {NoAnswer}
    /\ calls \in 0..MaxCalls /\ lost \in 0..MaxLost
    /\ open \subseteq Replies \cup {NoReply} /\ known \subseteq OrderIDs /\ gone \subseteq OrderIDs
    /\ believed \in [OrderIDs -> Terms] /\ failed \subseteq OrderIDs
    /\ wanted \subseteq OrderIDs /\ doubt \subseteq OrderIDs /\ late \subseteq Requests
    /\ accepted \in [OrderIDs -> Nat] /\ placings \in [OrderIDs -> SUBSET (0..MaxCalls)]
    /\ terms \in [OrderIDs -> Terms]
    /\ cancels \subseteq OrderIDs /\ asked \in 0..MaxQuestions
    /\ questions \in [Replies -> Requests]

\* What the application was told is so: an order reported as placed was accepted,
\* one reported as being cancelled was cancelled, unless the answer was spoilt,
\* and an order has the terms it was last reported with, unless a request about
\* it was never answered.
ReportedIsReal ==
    /\ \A o \in known : accepted[o] > 0
    /\ gone \subseteq cancels \cup doubt
    /\ call = NoCall => \A o \in known \ doubt : terms[o] = believed[o]

\* What the gateway did is reported: an order it accepted or cancelled is known
\* to the application as such, whatever was refused in the same answer and
\* whichever JSON type the identifier has, unless an answer about it did not
\* arrive.
RealIsReported ==
    call = NoCall => \A o \in OrderIDs \ doubt :
        (accepted[o] > 0 => o \in known) /\ (o \in cancels => o \in gone)

\* No order falls between the shapes of an answer: one that the application
\* placed, and did not abandon, is placed, reported as failed, or waits for the
\* application to answer a question.
NothingForgotten ==
    call = NoCall => \A o \in wanted \ doubt :
        o \in known \cup failed \/ \E q \in open \cap Replies : o \in questions[q].orders

\* One call of PlaceOrders has an order accepted once at most, however often it is
\* asked about and confirmed, and whichever of these calls fails or is served
\* late: an order that is on the market twice was sent twice by the application.
OncePerPlacing ==
    [][\A o \in OrderIDs : accepted'[o] > accepted[o] => placings'[o] # placings[o]]_vars

\* Nothing reaches the market that was only previewed, or that was abandoned
\* with a no, unless the answer to a request about it did not arrive.
NothingUnwanted ==
    [][\A o \in OrderIDs : accepted'[o] > accepted[o] => o \in wanted \cup doubt]_vars

\* The loop comes to an end: no answer leaves the application with something to
\* answer for ever.
LoopEnds == []<>(call = NoCall /\ open = {})

=============================================================================
