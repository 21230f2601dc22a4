---------------------------- MODULE SessionProofs ----------------------------
(***************************************************************************)
(* Proofs about Session, for any goroutines, accounts and numbers of calls *)
(* and losses: its types, and what it keeps of the account and of the      *)
(* cookies when calls overlap and answers are lost.                        *)
(***************************************************************************)
EXTENDS Session, TLAPS

\* What an answer on its way says, unless a later switch was served: a switch
\* and a list of accounts name the active account, a list of orders is of the
\* account that it is for.
AnswersTrue ==
    \A t \in Goroutines : ~crossed[t] =>
        /\ pc[t] = "served" /\ request[t].op = "switch" => active = request[t].account
        /\ pc[t] = "served" /\ request[t].op = "accounts" => active = seen[t]
        /\ (request[t].op = "orders" /\ request[t].account # Unknown) =>
               IF pc[t] = "served" THEN seen[t] = request[t].account
                                   ELSE active = request[t].account

\* What is selected is right, known to be wrong, or about to be corrected.
SelectedAccounted ==
    \/ unsure \/ selected \in {active, Unknown}
    \/ \E t \in Goroutines : pc[t] = "served" /\ request[t].op = "switch"

\* A cookie that a request for trades will meet, or has met, is somebody else's.
CookiesAccounted ==
    \A t \in Goroutines : request[t].op = "trades" =>
        /\ pc[t] = "ready" /\ jar => disturbed[t]
        /\ pc[t] \in {"sent", "served"} /\ carried[t] => disturbed[t]

\* A goroutine that makes no call has no request.
IdleClean == \A t \in Goroutines : pc[t] = "idle" => request[t] = NoRequest

\* The inductive invariant.
Accounted ==
    TypeOK /\ IdleClean /\ AnswersTrue /\ SelectedAccounted /\ CookiesAccounted /\ OrdersOfAccount

LEMMA RequestShapes ==
    /\ NoRequest \in Requests
    /\ [NoRequest EXCEPT !.op = "accounts"] \in Requests
    /\ [NoRequest EXCEPT !.op = "orders"] \in Requests
    /\ [NoRequest EXCEPT !.op = "trades"] \in Requests
    /\ \A a \in Accounts, list \in BOOLEAN :
           [op |-> "switch", account |-> a, list |-> list] \in Requests
    /\ \A a \in Accounts \cup {Unknown} :
           [op |-> "orders", account |-> a, list |-> FALSE] \in Requests
    /\ \A r \in Requests :
           /\ r.account \in Accounts \cup {Unknown} /\ r.list \in BOOLEAN
           /\ r.op = "switch" => r.account \in Accounts
BY DEF NoRequest, Requests

\* What each call asks for.
LEMMA CallShape ==
    ASSUME NEW t \in Goroutines, Call(t)
    PROVE  \E r \in Requests :
             /\ Make(t, r) /\ jar' \in {jar, FALSE}
             /\ r.op \in {"switch", "accounts", "orders", "trades"}
             /\ r.op = "orders" => r.account = Unknown
             /\ r.op = "trades" => jar' = FALSE
<1>1. CASE \E a \in Accounts, list \in BOOLEAN : SwitchAccount(t, a, list)
    BY <1>1, RequestShapes DEF SwitchAccount, ClearSessionCookies
<1>2. CASE ListTradableAccounts(t)
    BY <1>2, RequestShapes DEF ListTradableAccounts, NoRequest
<1>3. CASE ListOrders(t)
    BY <1>3, RequestShapes DEF ListOrders, NoRequest
<1>4. CASE ListTrades(t)
    BY <1>4, RequestShapes DEF ListTrades, ClearSessionCookies, NoRequest
<1> QED
    BY <1>1, <1>2, <1>3, <1>4 DEF Call

LEMMA AccountedInit == Init => Accounted
<1> SUFFICES ASSUME Init PROVE Accounted
    OBVIOUS
<1>1. TypeOK
    <2>1. /\ NoOrders \in [asked : Accounts \cup {Unknown}, from : Accounts \cup {Unknown},
                           crossed : BOOLEAN]
          /\ 0 \in 0..MaxCalls /\ 0 \in 0..MaxLost
        BY LimitsAssumption DEF NoOrders
    <2>2. /\ got \in [Goroutines -> [asked : Accounts \cup {Unknown},
                                     from : Accounts \cup {Unknown}, crossed : BOOLEAN]]
          /\ request \in [Goroutines -> Requests]
        BY <2>1, RequestShapes DEF Init
    <2> QED BY <2>1, <2>2 DEF Init, TypeOK
<1>2. IdleClean /\ AnswersTrue /\ SelectedAccounted /\ CookiesAccounted /\ OrdersOfAccount
    BY DEF Init, IdleClean, AnswersTrue, SelectedAccounted, CookiesAccounted, OrdersOfAccount,
        NoRequest, NoOrders
<1> QED BY <1>1, <1>2 DEF Accounted

-----------------------------------------------------------------------------

\* A call makes a request.
LEMMA CallKeeps == ASSUME Accounted, NEW t \in Goroutines, Call(t) PROVE Accounted'
<1>1. PICK r \in Requests :
        /\ Make(t, r) /\ jar' \in {jar, FALSE}
        /\ r.op \in {"switch", "accounts", "orders", "trades"}
        /\ r.op = "orders" => r.account = Unknown
        /\ r.op = "trades" => jar' = FALSE
    BY CallShape
<1> USE DEF Accounted, TypeOK
<1>2. /\ pc' = [pc EXCEPT ![t] = "ready"] /\ request' = [request EXCEPT ![t] = r]
      /\ disturbed' = [disturbed EXCEPT ![t] = FALSE] /\ pc[t] = "idle"
      /\ UNCHANGED <<carried, seen, selected, active, late, got, crossed, unsure, lost>>
    BY <1>1 DEF Make
<1>3. TypeOK'
    <2>1. calls' \in 0..MaxCalls
        BY <1>1, LimitsAssumption DEF Make
    <2>2. /\ pc' \in [Goroutines -> {"idle", "ready", "sent", "served"}]
          /\ request' \in [Goroutines -> Requests]
          /\ disturbed' \in [Goroutines -> BOOLEAN] /\ jar' \in BOOLEAN
        BY <1>1, <1>2
    <2> QED BY <1>2, <2>1, <2>2
<1>4. IdleClean'
    BY <1>2 DEF IdleClean
<1>5. AnswersTrue'
    BY <1>1, <1>2 DEF AnswersTrue
<1>6. SelectedAccounted'
    BY <1>2 DEF SelectedAccounted
<1>7. CookiesAccounted'
    BY <1>1, <1>2 DEF CookiesAccounted
<1>8. OrdersOfAccount'
    BY <1>2 DEF OrdersOfAccount
<1> QED BY <1>3, <1>4, <1>5, <1>6, <1>7, <1>8

LEMMA SendKeeps == ASSUME Accounted, NEW t \in Goroutines, Send(t) PROVE Accounted'
<1> USE DEF Accounted, TypeOK, Send, auxVars
<1>1. TypeOK'
    OBVIOUS
<1>2. IdleClean'
    BY DEF IdleClean
<1>3. AnswersTrue'
    BY DEF AnswersTrue
<1>4. SelectedAccounted'
    BY DEF SelectedAccounted
<1>5. CookiesAccounted'
    BY DEF CookiesAccounted
<1>6. OrdersOfAccount'
    BY DEF OrdersOfAccount
<1> QED BY <1>1, <1>2, <1>3, <1>4, <1>5, <1>6

LEMMA ServeKeeps == ASSUME Accounted, NEW t \in Goroutines, Serve(t) PROVE Accounted'
<1> USE DEF Accounted, TypeOK
<1>0. request[t].op = "switch" => request[t].account \in Accounts
    BY RequestShapes
<1>1. TypeOK'
    BY <1>0 DEF Serve
<1>2. IdleClean'
    BY DEF Serve, IdleClean
<1>3. AnswersTrue'
    <2> SUFFICES ASSUME NEW s \in Goroutines, ~crossed'[s]
        PROVE  /\ pc'[s] = "served" /\ request'[s].op = "switch" => active' = request'[s].account
               /\ pc'[s] = "served" /\ request'[s].op = "accounts" => active' = seen'[s]
               /\ (request'[s].op = "orders" /\ request'[s].account # Unknown) =>
                    IF pc'[s] = "served" THEN seen'[s] = request'[s].account
                                         ELSE active' = request'[s].account
        BY DEF AnswersTrue
    <2>1. CASE s = t
        BY <2>1 DEF Serve, AnswersTrue
    <2>2. CASE s # t
        <3>1. ~crossed[s] /\ request[t].op # "switch" /\ active' = active
            BY <2>2 DEF Serve
        <3> QED BY <2>2, <3>1 DEF Serve, AnswersTrue
    <2> QED BY <2>1, <2>2
<1>4. SelectedAccounted'
    BY DEF Serve, SelectedAccounted
<1>5. CookiesAccounted'
    BY DEF Serve, CookiesAccounted
<1>6. OrdersOfAccount'
    BY DEF Serve, OrdersOfAccount
<1> QED BY <1>1, <1>2, <1>3, <1>4, <1>5, <1>6

LEMMA ServeLateKeeps == Accounted /\ ServeLate => Accounted'
BY DEF Accounted, TypeOK, IdleClean, AnswersTrue, SelectedAccounted, CookiesAccounted,
    OrdersOfAccount, ServeLate, callVars

\* A call that fails forgets its request; a switch that was served is then one
\* that the client does not know of.
LEMMA FailKeeps == ASSUME Accounted, NEW t \in Goroutines, Fail(t) PROVE Accounted'
<1> USE DEF Accounted, TypeOK, Fail, Lose, Done, StoreCookie
<1>1. TypeOK'
    <2>1. lost' \in 0..MaxLost
        BY LimitsAssumption
    <2>2. late' \subseteq Accounts
        BY RequestShapes
    <2>3. /\ pc' \in [Goroutines -> {"idle", "ready", "sent", "served"}]
          /\ request' \in [Goroutines -> Requests] /\ unsure' \in BOOLEAN
        BY RequestShapes
    <2>4. jar' \in BOOLEAN /\ disturbed' \in [Goroutines -> BOOLEAN]
        OBVIOUS
    <2> QED BY <2>1, <2>2, <2>3, <2>4
<1>2. IdleClean'
    BY DEF IdleClean
<1>3. AnswersTrue'
    BY DEF AnswersTrue, NoRequest
<1>4. SelectedAccounted'
    BY DEF SelectedAccounted
<1>5. CookiesAccounted'
    BY DEF CookiesAccounted, NoRequest
<1>6. OrdersOfAccount'
    BY DEF OrdersOfAccount
<1> QED BY <1>1, <1>2, <1>3, <1>4, <1>5, <1>6

\* An answer ends the call or goes on to its second request.
LEMMA AnswerKeeps == ASSUME Accounted, NEW t \in Goroutines, Answer(t) PROVE Accounted'
<1> USE DEF Accounted, TypeOK
<1>0. /\ request[t].account \in Accounts \cup {Unknown} /\ seen[t] \in Accounts \cup {Unknown}
      /\ request[t] \in Requests /\ pc[t] = "served"
    BY RequestShapes DEF Answer
<1>1. PICK next \in {NoRequest, [op |-> "orders", account |-> request[t].account, list |-> FALSE]} :
        /\ request' = [request EXCEPT ![t] = next]
        /\ pc' = [pc EXCEPT ![t] = IF next = NoRequest THEN "idle" ELSE "ready"]
        /\ next # NoRequest => request[t].list
    <2>1. NoRequest # [op |-> "orders", account |-> request[t].account, list |-> FALSE]
        BY DEF NoRequest
    <2>2. CASE request[t].list
        BY <2>1, <2>2 DEF Answer, ThenList
    <2>3. CASE ~request[t].list
        BY <2>3 DEF Answer, Done
    <2> QED BY <2>2, <2>3, <1>0, RequestShapes
<1>2. /\ next \in Requests /\ next.op \in {"none", "orders"}
      /\ next.op = "none" <=> next = NoRequest
      /\ next.op = "orders" => next.account = request[t].account
    <2>1. CASE next = NoRequest
        BY <2>1, RequestShapes DEF NoRequest
    <2>2. CASE next = [op |-> "orders", account |-> request[t].account, list |-> FALSE]
        <3>1. next \in Requests
            BY <1>0, <2>2, RequestShapes
        <3>2. next.op = "orders" /\ next.account = request[t].account
            BY <2>2
        <3>3. next # NoRequest
            BY <3>2 DEF NoRequest
        <3> QED BY <3>1, <3>2, <3>3
    <2> QED BY <2>1, <2>2
<1>3. next.op = "orders" => request[t].op = "switch"
    BY <1>0, <1>1, <1>2 DEF Requests
<1>4. /\ selected' \in Accounts \cup {Unknown} /\ unsure' \in BOOLEAN
      /\ \/ /\ request[t].op \in {"switch", "accounts"} /\ unsure' = crossed[t]
            /\ selected' = IF request[t].op = "switch" THEN request[t].account ELSE seen[t]
         \/ request[t].op # "switch" /\ UNCHANGED <<selected, unsure>>
    BY <1>0 DEF Answer, Learn
<1>5. /\ jar' \in {jar, TRUE}
      /\ disturbed' = [s \in Goroutines |->
                          disturbed[s] \/ (s # t /\ pc[s] = "ready" /\ ~jar /\ jar')]
    BY DEF Answer, StoreCookie
<1>6. /\ got' = IF request[t].op = "orders"
                THEN [got EXCEPT ![t] = [asked |-> request[t].account, from |-> seen[t],
                                         crossed |-> crossed[t]]]
                ELSE got
      /\ UNCHANGED <<carried, seen, active, late, crossed, calls, lost>>
    BY DEF Answer
<1>7. TypeOK'
    BY <1>0, <1>1, <1>2, <1>4, <1>5, <1>6
<1>8. IdleClean'
    BY <1>1 DEF IdleClean
<1>9. AnswersTrue'
    BY <1>0, <1>1, <1>2, <1>3, <1>6 DEF AnswersTrue
<1>10. SelectedAccounted'
    <2>1. CASE /\ request[t].op \in {"switch", "accounts"} /\ unsure' = crossed[t]
               /\ selected' = IF request[t].op = "switch" THEN request[t].account ELSE seen[t]
        BY <1>0, <1>6, <2>1 DEF AnswersTrue, SelectedAccounted
    <2>2. CASE request[t].op # "switch" /\ UNCHANGED <<selected, unsure>>
        BY <1>0, <1>1, <1>6, <2>2 DEF SelectedAccounted
    <2> QED BY <1>4, <2>1, <2>2
<1>11. CookiesAccounted'
    BY <1>1, <1>2, <1>5, <1>6 DEF CookiesAccounted
<1>12. OrdersOfAccount'
    BY <1>0, <1>6 DEF OrdersOfAccount, AnswersTrue
<1> QED BY <1>7, <1>8, <1>9, <1>10, <1>11, <1>12

LEMMA AccountedStep == Accounted /\ [Next]_vars => Accounted'
<1> SUFFICES ASSUME Accounted, [Next]_vars PROVE Accounted'
    OBVIOUS
<1>1. CASE Idle \/ UNCHANGED vars
    BY <1>1 DEF Idle, vars, callVars, auxVars, Accounted, TypeOK, IdleClean, AnswersTrue,
        SelectedAccounted, CookiesAccounted, OrdersOfAccount
<1> QED
    BY <1>1, CallKeeps, SendKeeps, ServeKeeps, ServeLateKeeps, AnswerKeeps, FailKeeps DEF Next

LEMMA AccountedInvariant == Spec => []Accounted
BY AccountedInit, AccountedStep, PTL DEF Spec

\* The types of the session's variables.
THEOREM SessionTypeCorrect == Spec => []TypeOK
<1>1. Accounted => TypeOK
    BY DEF Accounted
<1> QED BY <1>1, AccountedInvariant, PTL

\* SelectedAccount is right, except for switches that overlap or are lost.
THEOREM SelectedRight == Spec => []SelectedIsActive
<1>1. Accounted => SelectedIsActive
    BY DEF Accounted, TypeOK, SelectedAccounted, SelectedIsActive
<1> QED BY <1>1, AccountedInvariant, PTL

\* ListOrdersForAccount returns the orders of its account, except for switches
\* that overlap it.
THEOREM OrdersRight == Spec => []OrdersOfAccount
<1>1. Accounted => OrdersOfAccount
    BY DEF Accounted
<1> QED BY <1>1, AccountedInvariant, PTL

\* Only an answer that comes in between adds a cookie to a request for trades.
THEOREM TradesClean == Spec => []TradesWithoutCookies
<1>1. Accounted => TradesWithoutCookies
    BY DEF Accounted, CookiesAccounted, TradesWithoutCookies
<1> QED BY <1>1, AccountedInvariant, PTL

=============================================================================
