--------------------------- MODULE RateLimiterMC ---------------------------
(***************************************************************************)
(* An instance of EndpointPacing for TLC, with a list of rules as an       *)
(* application may pass to NewRateLimiter: shaped like                     *)
(* DefaultRateLimitRules, with a rule for every call under /iserver in     *)
(* front of the others, one that names its method in lower case, and one   *)
(* without a prefix.                                                       *)
(***************************************************************************)
EXTENDS EndpointPacing, TLC

CONSTANTS o1, o2, o3, h1, h2, n1, n2

List == <<
    RateLimitRule("POST", <<>>, 9, 0, FALSE),
    RateLimitRule("", <<"iserver">>, 1, 0, FALSE),
    RateLimitRule("get", <<"iserver", "orders">>, 5, 0, TRUE),
    RateLimitRule("GET", <<"iserver", "history">>, 0, 1, FALSE)>>

\* TLC computes a function once when it is the result of @@ or \o.
Once(f) == f @@ [x \in {} |-> 0]
NormalizedTable == normalizeRules(List) \o <<>>

\* Two requests to each of three endpoints, one of them with a query.
CallTable == Once([r \in Requests |->
    CASE r = o1 -> [method |-> "GET", path |-> <<"iserver", "orders">>]
      [] r \in {o2, o3} -> [method |-> "GET", path |-> <<"iserver", "orders", "?", "filters">>]
      [] r \in {h1, h2} -> [method |-> "GET", path |-> <<"iserver", "history">>]
      [] OTHER -> [method |-> "POST", path |-> <<"tickle">>]])

Listed == DOMAIN NormalizedTable
MatchedTable == Once([r \in Requests |->
    matchRule(NormalizedTable, CallTable[r].method, CallTable[r].path)])
IntervalTable == Once([i \in Listed |-> NormalizedTable[i].minInterval])
ConcurrentTable == Once([i \in Listed |-> NormalizedTable[i].maxConcurrent])
PerAccountSet == {i \in Listed : NormalizedTable[i].perAccount}

\* The values of the constants; TLC evaluates what stands here at every use.
GivenRules == List
Calls == CallTable
Matched == MatchedTable
Intervals == IntervalTable
Concurrent == ConcurrentTable
AccountRules == PerAccountSet
ListedRules == Listed

=============================================================================
