--------------------------- MODULE EndpointPacing ---------------------------
(***************************************************************************)
(* Request pacing for a given list of rules: RateLimiter, with the rule of *)
(* each request computed by RateRules from the list that was passed to     *)
(* NewRateLimiter.  A rule is known by its place in the normalized list.   *)
(***************************************************************************)
EXTENDS RateLimiter, RateRules

CONSTANTS
    Given,   \* the list
    Call     \* request -> its method and path

ASSUME ListAssumption ==
    /\ Given \in Seq(RateLimitRules)
    /\ Call \in [Requests -> [method : STRING, path : Seq(STRING)]]

Normalized == normalizeRules(Given)

ASSUME MatchedAssumption ==
    /\ Rules = DOMAIN Normalized /\ NoRule = 0
    /\ RuleOf = [r \in Requests |-> matchRule(Normalized, Call[r].method, Call[r].path)]
    /\ MinInterval = [i \in Rules |-> Normalized[i].minInterval]
    /\ MaxConcurrent = [i \in Rules |-> Normalized[i].maxConcurrent]
    /\ PerAccount = {i \in Rules : Normalized[i].perAccount}

-----------------------------------------------------------------------------

Names(rule, method) == rule.method = "" \/ ToUpper(rule.method) = ToUpper(method)

\* A request to the endpoint that a rule of the list names.
Meant(rule, r) == /\ rule.prefix # <<>> /\ stripQuery(Call[r].path) = rule.prefix
                  /\ Names(rule, Call[r].method)

\* No other rule of the list is about one of these requests and as specific.
Unrivalled(i) ==
    \A j \in DOMAIN Given \ {i} : Given[j].prefix = Given[i].prefix =>
        \A r \in Requests : Meant(Given[i], r) => ~ Names(Given[j], Call[r].method)

\* The places of such rules, with the requests each should decide about.
Endpoint == {e \in (DOMAIN Given) \X Requests : Unrivalled(e[1]) /\ Meant(Given[e[1]], e[2])}

\* Both requests went out under one limiter and, where it matters, one account.
Together(rule, r, s) ==
    /\ Paced(r) /\ Paced(s) /\ used[r].limiter = used[s].limiter
    /\ rule.perAccount => used[r].account = used[s].account

\* What a rule says of its endpoint holds for the requests to that endpoint,
\* whatever more general rules the list has besides and wherever they stand:
\* requests that one limiter let out are the interval apart, if nothing delays
\* them further, and no more than the maximum are in flight, per account or over
\* all accounts as the rule says.
EndpointLimits ==
    \A e \in Endpoint : Paced(e[2]) =>
        LET rule == Given[e[1]]
            r == e[2]
            with == {s \in Requests : <<e[1], s>> \in Endpoint /\ Together(rule, r, s)}
        IN /\ rule.maxConcurrent = 0 =>
                \A s \in with \ {r} : Apart(sentAt[r], sentAt[s], rule.minInterval)
           /\ rule.maxConcurrent > 0 =>
                Cardinality({s \in with : pc[s] = "inflight"}) <= rule.maxConcurrent

=============================================================================
