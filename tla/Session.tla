------------------------------- MODULE Session -------------------------------
(***************************************************************************)
(* The account of a brokerage session (ibclientportal.go): SwitchAccount,  *)
(* ListTradableAccounts, ListOrders, ListOrdersForAccount and ListTrades,  *)
(* called by goroutines that share one Client.                             *)
(*                                                                         *)
(* The gateway keeps one active account per session and answers            *)
(* ListOrders for that one.  The client remembers the account it was last  *)
(* told of.  Its cookie jar is replaced by an empty one before some calls; *)
(* here the jar is empty or holds a session cookie of an earlier answer.   *)
(* A call is sent, served by the gateway, and answered; the request or the *)
(* answer may be lost, and a request that its caller gave up may be served *)
(* late.                                                                   *)
(***************************************************************************)
EXTENDS Naturals

CONSTANTS
    Goroutines,  \* users of the client
    Accounts,    \* account ids
    Unknown,     \* no account is known
    MaxCalls,    \* bound: calls made
    MaxLost      \* bound: calls that are lost or refused

ASSUME AccountsAssumption == Unknown \notin Accounts
ASSUME LimitsAssumption == MaxCalls \in Nat /\ MaxLost \in Nat

VARIABLES
    pc,          \* goroutine -> "idle", "ready" to send, "sent", "served" by the gateway
    request,     \* goroutine -> the request it is making
    carried,     \* goroutine -> a session cookie was sent along
    seen,        \* goroutine -> the account that the answer on its way is about
    jar,         \* the jar holds a session cookie
    selected,    \* c.selectedAccount
    active,      \* external: the gateway's account
    late,        \* external: accounts of switches that were given up and may still be served
    got,         \* goroutine -> whose orders were asked for, and whose were returned
    crossed,     \* auxiliary: goroutine -> a switch of another call was served after its own
    unsure,      \* auxiliary: a switch was served that the client has not learned of
    disturbed,   \* auxiliary: goroutine -> an answer came between its clear and its send
    calls, lost

callVars == <<pc, request, carried, seen>>
auxVars  == <<crossed, unsure, disturbed>>
vars == <<callVars, jar, selected, active, late, got, auxVars, calls, lost>>

\* What is requested, and for which account; a switch may be followed by a list.
NoRequest == [op |-> "none", account |-> Unknown, list |-> FALSE]
Requests ==
    [op : {"none", "accounts", "orders", "trades"}, account : Accounts \cup {Unknown}, list : {FALSE}]
        \cup [op : {"switch"}, account : Accounts, list : BOOLEAN]
NoOrders == [asked |-> Unknown, from |-> Unknown, crossed |-> FALSE]

Init ==
    /\ pc = [t \in Goroutines |-> "idle"]
    /\ request = [t \in Goroutines |-> NoRequest]
    /\ carried = [t \in Goroutines |-> FALSE]
    /\ seen = [t \in Goroutines |-> Unknown]
    /\ jar = FALSE /\ selected = Unknown /\ active \in Accounts
    /\ late = {} /\ got = [t \in Goroutines |-> NoOrders]
    /\ crossed = [t \in Goroutines |-> FALSE] /\ unsure = FALSE
    /\ disturbed = [t \in Goroutines |-> FALSE]
    /\ calls = 0 /\ lost = 0

-----------------------------------------------------------------------------
(* The calls.                                                              *)

Make(t, r) ==
    /\ pc[t] = "idle" /\ calls < MaxCalls
    /\ calls' = calls + 1
    /\ pc' = [pc EXCEPT ![t] = "ready"]
    /\ request' = [request EXCEPT ![t] = r]
    /\ disturbed' = [disturbed EXCEPT ![t] = FALSE]
    /\ UNCHANGED <<carried, seen, selected, active, late, got, crossed, unsure, lost>>

ClearSessionCookies == jar' = FALSE

\* SwitchAccount, by itself or as the first half of ListOrdersForAccount.
SwitchAccount(t, a, list) ==
    Make(t, [op |-> "switch", account |-> a, list |-> list]) /\ ClearSessionCookies

ListTradableAccounts(t) == Make(t, [NoRequest EXCEPT !.op = "accounts"]) /\ UNCHANGED jar

ListOrders(t) == Make(t, [NoRequest EXCEPT !.op = "orders"]) /\ UNCHANGED jar

\* Mutant: the cookies are kept.
ListTradesWithCookies(t) == Make(t, [NoRequest EXCEPT !.op = "trades"]) /\ UNCHANGED jar

ListTrades(t) == Make(t, [NoRequest EXCEPT !.op = "trades"]) /\ ClearSessionCookies

\* MakeRequest: the http.Client adds what the jar of the moment holds.
Send(t) ==
    /\ pc[t] = "ready"
    /\ pc' = [pc EXCEPT ![t] = "sent"]
    /\ carried' = [carried EXCEPT ![t] = jar]
    /\ UNCHANGED <<request, seen, jar, selected, active, late, got, auxVars, calls, lost>>

\* The gateway acts on the request.
Serve(t) ==
    /\ pc[t] = "sent"
    /\ pc' = [pc EXCEPT ![t] = "served"]
    /\ active' = IF request[t].op = "switch" THEN request[t].account ELSE active
    /\ seen' = [seen EXCEPT ![t] = active']
    /\ crossed' = [s \in Goroutines |->
                      IF s = t THEN crossed[t] /\ request[t].op \notin {"switch", "accounts"}
                               ELSE crossed[s] \/ request[t].op = "switch"]
    /\ UNCHANGED <<request, carried, jar, selected, late, got, unsure, disturbed, calls, lost>>

\* It acts on a switch that nobody waits for any more.
ServeLate ==
    \E a \in late :
        /\ active' = a /\ late' = late \ {a}
        /\ crossed' = [t \in Goroutines |-> TRUE] /\ unsure' = TRUE
        /\ UNCHANGED <<callVars, jar, selected, got, disturbed, calls, lost>>

\* An answer may bring a session cookie, which is stored in the jar of the
\* moment, or in one that was replaced while it was stored.
StoreCookie(t) ==
    /\ jar' \in {jar, TRUE}
    /\ disturbed' = [s \in Goroutines |->
                        disturbed[s] \/ (s # t /\ pc[s] = "ready" /\ ~jar /\ jar')]

Done(t) == pc' = [pc EXCEPT ![t] = "idle"] /\ request' = [request EXCEPT ![t] = NoRequest]

\* Mutant: setSelectedAccount only in SwitchAccount.
LearnFromSwitch(t) ==
    /\ selected' = IF request[t].op = "switch" THEN request[t].account ELSE selected
    /\ unsure' = IF request[t].op \in {"switch", "accounts"} THEN crossed[t] ELSE unsure

\* setSelectedAccount, with what was asked for, or with what the gateway says,
\* if its answer names an account.
Learn(t) ==
    \/ /\ request[t].op = "switch"
       /\ selected' = request[t].account /\ unsure' = crossed[t]
    \/ /\ request[t].op = "accounts"
       /\ selected' = seen[t] /\ unsure' = crossed[t]
    \/ request[t].op # "switch" /\ UNCHANGED <<selected, unsure>>

\* Mutant: the second half has a second half.
ThenListAgain(t) ==
    /\ pc' = [pc EXCEPT ![t] = "ready"]
    /\ request' = [request EXCEPT ![t] = [op |-> "orders", account |-> @.account, list |-> TRUE]]

\* The second half of ListOrdersForAccount.
ThenList(t) ==
    /\ pc' = [pc EXCEPT ![t] = "ready"]
    /\ request' = [request EXCEPT ![t] = [op |-> "orders", account |-> @.account, list |-> FALSE]]

Answer(t) ==
    /\ pc[t] = "served"
    /\ Learn(t) /\ StoreCookie(t)
    /\ IF request[t].list THEN ThenList(t) ELSE Done(t)
    /\ got' = IF request[t].op = "orders"
              THEN [got EXCEPT ![t] = [asked |-> request[t].account, from |-> seen[t],
                                       crossed |-> crossed[t]]]
              ELSE got
    /\ UNCHANGED <<carried, seen, active, late, crossed, calls, lost>>

\* The request is not sent or refused, or it or its answer is lost or late.  A
\* refusal may bring a cookie too.
Lose(t) ==
    /\ pc[t] # "idle" /\ lost < MaxLost /\ lost' = lost + 1
    /\ StoreCookie(t)
    /\ unsure' = (unsure \/ (pc[t] = "served" /\ request[t].op = "switch"))
    /\ \/ UNCHANGED late
       \/ /\ pc[t] = "sent" /\ request[t].op = "switch"
          /\ late' = late \cup {request[t].account}
    /\ UNCHANGED <<carried, seen, selected, active, got, crossed, calls>>

\* Mutant: ListOrdersForAccount lists whatever became of the switch.
FailThenList(t) == Lose(t) /\ IF request[t].list THEN ThenList(t) ELSE Done(t)

\* The call returns an error.
Fail(t) == Lose(t) /\ Done(t)

\* No more calls.
Idle == calls = MaxCalls /\ late = {} /\ (\A t \in Goroutines : pc[t] = "idle") /\ UNCHANGED vars

Call(t) ==
    \/ \E a \in Accounts, list \in BOOLEAN : SwitchAccount(t, a, list)
    \/ ListTradableAccounts(t) \/ ListOrders(t) \/ ListTrades(t)

Next == Idle \/ ServeLate \/ \E t \in Goroutines : Call(t) \/ Send(t) \/ Serve(t) \/ Answer(t) \/ Fail(t)

Spec == Init /\ [][Next]_vars

-----------------------------------------------------------------------------

\* Every variable keeps its shape.
TypeOK ==
    /\ pc \in [Goroutines -> {"idle", "ready", "sent", "served"}]
    /\ request \in [Goroutines -> Requests]
    /\ carried \in [Goroutines -> BOOLEAN] /\ disturbed \in [Goroutines -> BOOLEAN]
    /\ seen \in [Goroutines -> Accounts \cup {Unknown}]
    /\ jar \in BOOLEAN /\ unsure \in BOOLEAN
    /\ crossed \in [Goroutines -> BOOLEAN]
    /\ selected \in Accounts \cup {Unknown} /\ active \in Accounts /\ late \subseteq Accounts
    /\ got \in [Goroutines -> [asked : Accounts \cup {Unknown}, from : Accounts \cup {Unknown},
                               crossed : BOOLEAN]]
    /\ calls \in 0..MaxCalls /\ lost \in 0..MaxLost

\* While no call is under way, SelectedAccount names the gateway's account, unless
\* the last answer that it was learned from had been crossed by another switch,
\* or the gateway acted on a switch whose caller had given up.
SelectedIsActive ==
    ((\A t \in Goroutines : pc[t] = "idle") /\ ~unsure) => selected \in {active, Unknown}

\* ListOrdersForAccount returns the orders of the account it was asked for, unless
\* a switch of another call was served between its two requests or during the
\* second: whatever else the others call, and whatever is lost.
OrdersOfAccount ==
    \A t \in Goroutines :
        (got[t].asked # Unknown /\ ~got[t].crossed) => got[t].from = got[t].asked

\* A request for trades carries a session cookie only when the answer to somebody
\* else's call came between the clearing of the jar and the request.
TradesWithoutCookies ==
    \A t \in Goroutines :
        (pc[t] \in {"sent", "served"} /\ request[t].op = "trades" /\ carried[t]) => disturbed[t]

=============================================================================
