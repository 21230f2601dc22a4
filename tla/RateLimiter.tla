---------------------------- MODULE RateLimiter ----------------------------
(***************************************************************************)
(* Client-side pacing of REST requests: rate_limit.go and the part of      *)
(* MakeRequest (ibclientportal.go) that uses it.  A request takes a token  *)
(* of the global limiter, then one of its endpoint's limiter, then one of  *)
(* the endpoint's slots, and is sent; it gives the slot back when it is    *)
(* over.  Time is discrete; a goroutine whose delay is over runs before    *)
(* the clock advances, so that what the limiter allows too close together  *)
(* is the limiter's doing and not the scheduler's.                         *)
(*                                                                         *)
(* The limiters of golang.org/x/time/rate are token buckets of size one:   *)
(* here the earliest time at which the next token is due.  The maps of     *)
(* limiters and slots are filled on first use; an entry that was not       *)
(* created yet is a full bucket and an empty set of slots.                 *)
(***************************************************************************)
EXTENDS Integers, FiniteSets

CONSTANTS
    Requests,      \* the requests that may be made, each once
    MaxRequests,   \* bound: how many of them are
    Rules,         \* rate limit rules
    NoRule,        \* no rule matches
    RuleOf,        \* request -> what matchRule finds for it
    Accounts,      \* account ids
    NoAccount,     \* no account is selected
    MinInterval,   \* rule -> time between two requests (0: no limit)
    MaxConcurrent, \* rule -> requests in flight (0: no limit)
    PerAccount,    \* rules that count per account
    Global,        \* time between any two requests
    MaxLimiters,   \* bound: limiters installed by SetRateLimiter
    MaxTime        \* bound: the clock stops here unless someone waits for it

ASSUME RulesAssumption ==
    /\ NoRule \notin Rules /\ RuleOf \in [Requests -> Rules \cup {NoRule}]
    /\ MinInterval \in [Rules -> Nat] /\ MaxConcurrent \in [Rules -> Nat]
    /\ PerAccount \subseteq Rules /\ NoAccount \notin Accounts
ASSUME TimesAssumption ==
    Global \in Nat /\ MaxTime \in Nat /\ MaxLimiters \in Nat /\ MaxRequests \in Nat
ASSUME RequestsAssumption == IsFiniteSet(Requests)

VARIABLES
    now,           \* the clock
    limiter,       \* c.rateLimiter: 0 is nil, others in order of creation
    created,       \* limiters created so far
    pc,            \* request -> where it is
    used,          \* request -> the limiter and the account it started with
    due,           \* request -> when the delay it is in ends
    globalNext,    \* limiter -> when its next global token is due
    ruleNext,      \* key -> when its next token is due
    slots,         \* key -> requests in its semaphore channel
    sentAt,        \* auxiliary: request -> when it was sent
    globalToken,   \* auxiliary: request -> when the global token it took is due
    ruleToken      \* auxiliary: request -> when its endpoint's token is due

limits == <<globalNext, ruleNext, slots>>
tokens == <<globalToken, ruleToken>>
vars == <<now, limiter, created, pc, used, due, limits, sentAt, tokens>>

Never == -1
Places == {"new", "global", "rule", "slot", "inflight", "done", "failed"}
Limiters == 0..MaxLimiters
\* The limiter is part of the key: each has its own maps.
Keys == Limiters \X Rules \X (Accounts \cup {NoAccount})

Limited(r) == RuleOf[r] # NoRule
Interval(r) == IF Limited(r) THEN MinInterval[RuleOf[r]] ELSE 0
Capacity(r) == IF Limited(r) THEN MaxConcurrent[RuleOf[r]] ELSE 0

KeyFor(rule, u) ==
    <<u.limiter, rule, IF rule \in PerAccount THEN u.account ELSE NoAccount>>
Key(r) == KeyFor(RuleOf[r], used[r])

Later(a, b) == IF a > b THEN a ELSE b

Init ==
    /\ now = 0 /\ limiter = 0 /\ created = 0
    /\ pc = [r \in Requests |-> "new"]
    /\ used = [r \in Requests |-> [limiter |-> 0, account |-> NoAccount]]
    /\ due = [r \in Requests |-> 0]
    /\ globalNext = [l \in Limiters |-> 0]
    /\ ruleNext = [k \in Keys |-> 0]
    /\ slots = [k \in Keys |-> {}]
    /\ sentAt = [r \in Requests |-> Never]
    /\ globalToken = [r \in Requests |-> Never] /\ ruleToken = [r \in Requests |-> Never]

-----------------------------------------------------------------------------

\* EnableRateLimits and SetRateLimiter install a fresh limiter, DisableRateLimits nil.
SetRateLimiter ==
    /\ \/ created < MaxLimiters /\ created' = created + 1 /\ limiter' = created'
       \/ limiter # 0 /\ limiter' = 0 /\ UNCHANGED created
    /\ UNCHANGED <<now, pc, used, due, limits, sentAt, tokens>>

Send(r) ==
    /\ pc' = [pc EXCEPT ![r] = "inflight"]
    /\ sentAt' = [sentAt EXCEPT ![r] = now]

\* The account that is selected may be any, where it matters.
Selected(r) == IF RuleOf[r] \in PerAccount THEN Accounts \cup {NoAccount} ELSE {NoAccount}

MayStart == Cardinality({r \in Requests : pc[r] # "new"}) < MaxRequests

\* MakeRequest reads the limiter and the selected account once.
Start(r) ==
    /\ pc[r] = "new" /\ MayStart
    /\ \E a \in Selected(r) :
        used' = [used EXCEPT ![r] = [limiter |-> limiter, account |-> a]]
    /\ IF limiter = 0
       THEN Send(r) /\ UNCHANGED <<due, globalNext, globalToken>>
       ELSE LET act == Later(now, globalNext[limiter]) IN
            /\ due' = [due EXCEPT ![r] = act]
            /\ globalNext' = [globalNext EXCEPT ![limiter] = act + Global]
            /\ globalToken' = [globalToken EXCEPT ![r] = act]
            /\ pc' = [pc EXCEPT ![r] = "global"]
            /\ UNCHANGED sentAt
    /\ UNCHANGED <<now, limiter, created, ruleNext, slots, ruleToken>>

\* Past the endpoint's limiter: on to the semaphore, or out.
PastRule(r) ==
    IF Capacity(r) > 0 THEN pc' = [pc EXCEPT ![r] = "slot"] /\ UNCHANGED sentAt
                       ELSE Send(r)

\* Mutant: limiterForRule does not keep the limiter it creates.
AfterGlobalFresh(r) ==
    /\ pc[r] = "global" /\ due[r] <= now
    /\ IF Interval(r) = 0
       THEN PastRule(r) /\ UNCHANGED <<due, ruleNext, ruleToken>>
       ELSE /\ due' = [due EXCEPT ![r] = now] /\ ruleToken' = [ruleToken EXCEPT ![r] = now]
            /\ pc' = [pc EXCEPT ![r] = "rule"]
            /\ UNCHANGED <<sentAt, ruleNext>>
    /\ UNCHANGED <<now, limiter, created, used, globalNext, slots, globalToken>>

AfterGlobal(r) ==
    /\ pc[r] = "global" /\ due[r] <= now
    /\ IF Interval(r) = 0
       THEN PastRule(r) /\ UNCHANGED <<due, ruleNext, ruleToken>>
       ELSE LET act == Later(now, ruleNext[Key(r)]) IN
            /\ due' = [due EXCEPT ![r] = act]
            /\ ruleNext' = [ruleNext EXCEPT ![Key(r)] = act + Interval(r)]
            /\ ruleToken' = [ruleToken EXCEPT ![r] = act]
            /\ pc' = [pc EXCEPT ![r] = "rule"]
            /\ UNCHANGED sentAt
    /\ UNCHANGED <<now, limiter, created, used, globalNext, slots, globalToken>>

AfterRule(r) ==
    /\ pc[r] = "rule" /\ due[r] <= now
    /\ PastRule(r)
    /\ UNCHANGED <<now, limiter, created, used, due, limits, tokens>>

\* Mutant: a channel with one place too many.
AcquireOneMore(r) ==
    /\ pc[r] = "slot" /\ Cardinality(slots[Key(r)]) <= Capacity(r)
    /\ slots' = [slots EXCEPT ![Key(r)] = @ \cup {r}]
    /\ Send(r)
    /\ UNCHANGED <<now, limiter, created, used, due, globalNext, ruleNext, tokens>>

\* Mutant: a channel with one place too few.
AcquireOneLess(r) ==
    /\ pc[r] = "slot" /\ Cardinality(slots[Key(r)]) < Capacity(r) - 1
    /\ slots' = [slots EXCEPT ![Key(r)] = @ \cup {r}]
    /\ Send(r)
    /\ UNCHANGED <<now, limiter, created, used, due, globalNext, ruleNext, tokens>>

\* The send on the semaphore channel, whose capacity is the rule's.
Acquire(r) ==
    /\ pc[r] = "slot" /\ Cardinality(slots[Key(r)]) < Capacity(r)
    /\ slots' = [slots EXCEPT ![Key(r)] = @ \cup {r}]
    /\ Send(r)
    /\ UNCHANGED <<now, limiter, created, used, due, globalNext, ruleNext, tokens>>

\* The response or an error; the deferred release empties the slot.
Finish(r) ==
    /\ pc[r] = "inflight"
    /\ pc' = [pc EXCEPT ![r] = "done"]
    /\ slots' = [k \in Keys |-> slots[k] \ {r}]
    /\ UNCHANGED <<now, limiter, created, used, due, globalNext, ruleNext, sentAt, tokens>>

\* The wait is refused at once, and no token is taken: the context is over, or
\* its deadline comes before the token would.
Refuse(r) ==
    /\ \/ pc[r] = "new" /\ MayStart /\ limiter # 0 /\ Global > 0
       \/ pc[r] = "global" /\ due[r] <= now /\ Interval(r) > 0
    /\ pc' = [pc EXCEPT ![r] = "failed"]
    /\ UNCHANGED <<now, limiter, created, used, due, limits, sentAt, tokens>>

\* Mutant: a token is taken back although others reserved after it.
TakenBackAlways(next, r, interval) == IF due[r] >= now THEN next - interval ELSE next

\* Mutant: the delay is taken back with the token.
TakenBackTwice(next, r, interval) ==
    IF next = due[r] + interval /\ due[r] >= now THEN due[r] - interval ELSE next

\* Mutant: no token is taken back.
TakenBackNever(next, r, interval) == next

\* A limiter takes back the token of a cancelled delay when nobody reserved after it.
TakenBack(next, r, interval) ==
    IF next = due[r] + interval /\ due[r] >= now THEN due[r] ELSE next

\* Those that took a token which was not given back, and whether one of them
\* took his later than r.
GlobalHolders(l) == {r \in Requests : globalToken[r] # Never /\ used[r].limiter = l}
RuleHolders(k) == {r \in Requests : ruleToken[r] # Never /\ Key(r) = k}
GlobalOvertaken(r) == \E s \in GlobalHolders(used[r].limiter) : globalToken[s] > due[r]
RuleOvertaken(r) == \E s \in RuleHolders(Key(r)) : ruleToken[s] > due[r]

\* The context ends during one of the three waits.  The global token of a
\* request that is cancelled later is spent.
Cancel(r) ==
    /\ pc[r] \in {"global", "rule", "slot"} /\ (pc[r] = "global" => Global > 0)
    /\ pc' = [pc EXCEPT ![r] = "failed"]
    /\ globalNext' = IF pc[r] = "global"
                     THEN [globalNext EXCEPT ![used[r].limiter] = TakenBack(@, r, Global)]
                     ELSE globalNext
    /\ ruleNext' = IF pc[r] = "rule"
                   THEN [ruleNext EXCEPT ![Key(r)] = TakenBack(@, r, Interval(r))]
                   ELSE ruleNext
    /\ globalToken' = IF pc[r] = "global" /\ ~ GlobalOvertaken(r)
                      THEN [globalToken EXCEPT ![r] = Never] ELSE globalToken
    /\ ruleToken' = IF pc[r] = "rule" /\ ~ RuleOvertaken(r)
                    THEN [ruleToken EXCEPT ![r] = Never] ELSE ruleToken
    /\ UNCHANGED <<now, limiter, created, used, due, slots, sentAt>>

Tick ==
    /\ now < MaxTime \/ \E r \in Requests : pc[r] \in {"global", "rule"}
    /\ \A r \in Requests :
        /\ pc[r] \in {"global", "rule"} => due[r] > now
        /\ pc[r] = "slot" => Cardinality(slots[Key(r)]) >= Capacity(r)
    /\ now' = now + 1
    /\ UNCHANGED <<limiter, created, pc, used, due, limits, sentAt, tokens>>

Settled(r) == pc[r] \in {"new", "done", "failed"}

\* All requests that were made are over.
Over == (\A r \in Requests : Settled(r)) /\ UNCHANGED vars

Next ==
    \/ SetRateLimiter \/ Tick \/ Over
    \/ \E r \in Requests : \/ Start(r) \/ AfterGlobal(r) \/ AfterRule(r)
                           \/ Acquire(r) \/ Finish(r) \/ Refuse(r) \/ Cancel(r)

Spec == Init /\ [][Next]_vars

\* The clock runs, a goroutine that may go on does, and the gateway answers.
Progress(r) == AfterGlobal(r) \/ AfterRule(r) \/ Finish(r)
Fairness == /\ WF_vars(Tick) /\ WF_vars(\E r \in Requests : Progress(r))
            /\ SF_vars(\E r \in Requests : Acquire(r))
FairSpec == Spec /\ Fairness

-----------------------------------------------------------------------------

\* Every variable keeps its shape.
TypeOK ==
    /\ now \in Nat /\ limiter \in Limiters /\ created \in Limiters
    /\ pc \in [Requests -> Places]
    /\ used \in [Requests -> [limiter : Limiters, account : Accounts \cup {NoAccount}]]
    /\ due \in [Requests -> Nat] /\ sentAt \in [Requests -> Nat \cup {Never}]
    /\ globalToken \in [Requests -> Nat \cup {Never}]
    /\ ruleToken \in [Requests -> Nat \cup {Never}]
    /\ globalNext \in [Limiters -> Nat] /\ ruleNext \in [Keys -> Nat]
    /\ slots \in [Keys -> SUBSET Requests]

Sent(r) == sentAt[r] # Never
Paced(r) == Sent(r) /\ used[r].limiter # 0
Undelayed(r) == Interval(r) = 0 /\ Capacity(r) = 0
Apart(s, t, d) == s - t >= d \/ t - s >= d

\* Two requests that one limiter let out for the same endpoint (and account,
\* where the rule counts per account) are its interval apart, whoever was
\* cancelled in between and gave its token back.
RuleSpacing ==
    \A r, s \in Requests :
        (r # s /\ Paced(r) /\ Paced(s) /\ Limited(r) /\ Limited(s)
            /\ Capacity(r) = 0 /\ Key(r) = Key(s))
                => Apart(sentAt[r], sentAt[s], Interval(r))

\* A semaphore holds the requests in flight and no other, within its capacity:
\* no slot is lost to an error or to a cancelled wait, none is given out twice.
SlotsMatchFlights ==
    \A k \in Keys :
        /\ slots[k] = {r \in Requests : /\ pc[r] = "inflight" /\ used[r].limiter # 0
                                        /\ Capacity(r) > 0 /\ Key(r) = k}
        /\ slots[k] # {} => Cardinality(slots[k]) <= MaxConcurrent[k[2]]

\* What is left of the global limit: requests that neither an interval nor a
\* semaphore holds back after it are the global interval apart, whoever was
\* cancelled in between.
UndelayedSpacing ==
    \A r, s \in Requests :
        (r # s /\ Paced(r) /\ Paced(s) /\ used[r].limiter = used[s].limiter
            /\ Undelayed(r) /\ Undelayed(s))
                => Apart(sentAt[r], sentAt[s], Global)

\* Whatever delays a request is a token that another took one interval before, and
\* did not give back.  A wait that was refused, one that was cancelled while nobody
\* had reserved behind it, and the time in which a limiter was idle delay nobody.
\* (The token of a cancelled wait that others have overtaken stays spent.)
DelaysHaveCause ==
    \A r \in Requests : due[r] > now =>
        /\ pc[r] = "global" =>
            \E s \in GlobalHolders(used[r].limiter) : globalToken[s] = due[r] - Global
        /\ pc[r] = "rule" =>
            \E s \in RuleHolders(Key(r)) : ruleToken[s] = due[r] - Interval(r)

\* A request that started is answered or cancelled: no wait lasts for ever.
Settles == []<>(\A r \in Requests : Settled(r))

=============================================================================
