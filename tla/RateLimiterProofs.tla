------------------------- MODULE RateLimiterProofs -------------------------
(***************************************************************************)
(* Proofs about RateLimiter: its types, the spacing of the requests of one *)
(* endpoint, the spacing of those that only the global limiter delays, and *)
(* the semaphores.  The argument about spacing is the same for both kinds  *)
(* of limiter: whoever holds a token holds it for a time of his own, the   *)
(* limiter's next token is due an interval after all of them, and nobody   *)
(* leaves a limiter later than his token is due.  That nothing else delays *)
(* anyone takes the account of the tokens of a limiter (Ledger).           *)
(***************************************************************************)
EXTENDS RateLimiter, TLAPS, FiniteSetTheorems

LEMMA IntervalType == \A r \in Requests : Interval(r) \in Nat /\ Capacity(r) \in Nat
  BY RulesAssumption, SMT DEF Interval, Capacity, Limited

LEMMA KeyType ==
  ASSUME TypeOK
  PROVE  \A r \in Requests : Limited(r) => Key(r) \in Keys
  BY RulesAssumption, SMT DEF TypeOK, Key, KeyFor, Keys, Limited

\* A token of the global limiter is due no earlier than now and than the
\* limiter's next one, which moves an interval past it.
LEMMA GlobalReserved ==
  ASSUME TypeOK, NEW r \in Requests, Start(r), limiter # 0
  PROVE  \E act \in Nat :
           /\ act >= now /\ act >= globalNext[limiter] /\ act \in {now, globalNext[limiter]}
           /\ due' = [due EXCEPT ![r] = act]
           /\ globalNext' = [globalNext EXCEPT ![limiter] = act + Global]
           /\ globalToken' = [globalToken EXCEPT ![r] = act]
           /\ pc' = [pc EXCEPT ![r] = "global"]
           /\ UNCHANGED <<sentAt, now, limiter, created, ruleNext, slots, ruleToken>>
<1> DEFINE act == Later(now, globalNext[limiter])
<1>1. /\ act \in Nat /\ act >= now /\ act >= globalNext[limiter]
      /\ act \in {now, globalNext[limiter]}
  BY DEF Later, TypeOK
<1>2. /\ due' = [due EXCEPT ![r] = act]
      /\ globalNext' = [globalNext EXCEPT ![limiter] = act + Global]
      /\ globalToken' = [globalToken EXCEPT ![r] = act]
      /\ pc' = [pc EXCEPT ![r] = "global"]
      /\ UNCHANGED <<sentAt, now, limiter, created, ruleNext, slots, ruleToken>>
  BY DEF Start
<1> HIDE DEF act
<1> QED BY <1>1, <1>2

\* The same of the limiter of an endpoint.
LEMMA RuleReserved ==
  ASSUME TypeOK, NEW r \in Requests, AfterGlobal(r), Interval(r) # 0
  PROVE  \E act \in Nat :
           /\ act >= now /\ act >= ruleNext[Key(r)] /\ act \in {now, ruleNext[Key(r)]}
           /\ due' = [due EXCEPT ![r] = act]
           /\ ruleNext' = [ruleNext EXCEPT ![Key(r)] = act + Interval(r)]
           /\ ruleToken' = [ruleToken EXCEPT ![r] = act]
           /\ pc' = [pc EXCEPT ![r] = "rule"]
           /\ UNCHANGED <<sentAt, now, limiter, created, used, globalNext, slots, globalToken>>
<1> DEFINE act == Later(now, ruleNext[Key(r)])
<1>1. Key(r) \in Keys
  BY KeyType DEF Interval
<1>2. act \in Nat /\ act >= now /\ act >= ruleNext[Key(r)] /\ act \in {now, ruleNext[Key(r)]}
  BY <1>1 DEF Later, TypeOK
<1>3. /\ due' = [due EXCEPT ![r] = act]
      /\ ruleNext' = [ruleNext EXCEPT ![Key(r)] = act + Interval(r)]
      /\ ruleToken' = [ruleToken EXCEPT ![r] = act]
      /\ pc' = [pc EXCEPT ![r] = "rule"]
      /\ UNCHANGED <<sentAt, now, limiter, created, used, globalNext, slots, globalToken>>
  BY DEF AfterGlobal
<1> HIDE DEF act
<1> QED BY <1>2, <1>3

\* A request starts with the limiter of the moment; no other's is touched.
LEMMA StartUses ==
  ASSUME TypeOK, NEW r \in Requests, Start(r)
  PROVE  /\ used' \in [Requests -> [limiter : Limiters, account : Accounts \cup {NoAccount}]]
         /\ used'[r].limiter = limiter
         /\ \A s \in Requests \ {r} : used'[s] = used[s]
<1>1. PICK a \in Accounts \cup {NoAccount} :
         used' = [used EXCEPT ![r] = [limiter |-> limiter, account |-> a]]
  BY DEF Start, Selected
<1> QED BY <1>1 DEF TypeOK

LEMMA TypeStep == TypeOK /\ [Next]_vars => TypeOK'
<1> SUFFICES ASSUME TypeOK, [Next]_vars PROVE TypeOK'
  OBVIOUS
<1> USE DEF TypeOK, Limiters, Never, Places
<1>1. CASE SetRateLimiter
  BY <1>1, TimesAssumption DEF SetRateLimiter, limits, tokens
<1>2. CASE Tick
  BY <1>2 DEF Tick, limits, tokens
<1>3. CASE UNCHANGED vars
  BY <1>3 DEF vars, limits, tokens
<1>4. ASSUME NEW r \in Requests, Start(r) PROVE TypeOK'
  <2>1. CASE limiter = 0
    <3>1. used' \in [Requests -> [limiter : Limiters, account : Accounts \cup {NoAccount}]]
      BY <1>4, StartUses
    <3>2. /\ pc' = [pc EXCEPT ![r] = "inflight"] /\ sentAt' = [sentAt EXCEPT ![r] = now]
          /\ UNCHANGED <<due, now, limiter, created, limits, tokens>>
      BY <1>4, <2>1 DEF Start, Send, limits, tokens
    <3> QED BY <3>1, <3>2 DEF limits, tokens
  <2>2. CASE limiter # 0
    <3>1. PICK act \in Nat :
            /\ due' = [due EXCEPT ![r] = act]
            /\ globalNext' = [globalNext EXCEPT ![limiter] = act + Global]
            /\ globalToken' = [globalToken EXCEPT ![r] = act]
            /\ pc' = [pc EXCEPT ![r] = "global"]
            /\ UNCHANGED <<sentAt, now, limiter, created, ruleNext, slots, ruleToken>>
      BY <1>4, <2>2, GlobalReserved
    <3>2. act + Global \in Nat
      BY TimesAssumption
    <3>3. used' \in [Requests -> [limiter : Limiters, account : Accounts \cup {NoAccount}]]
      BY <1>4, StartUses
    <3> QED BY <3>1, <3>2, <3>3
  <2> QED BY <2>1, <2>2
<1>5. ASSUME NEW r \in Requests, AfterGlobal(r) PROVE TypeOK'
  <2>1. CASE Interval(r) = 0
    BY <1>5, <2>1 DEF AfterGlobal, PastRule, Send
  <2>2. CASE Interval(r) # 0
    <3>1. Key(r) \in Keys
      BY <2>2, KeyType DEF Interval
    <3>2. PICK act \in Nat :
            /\ due' = [due EXCEPT ![r] = act]
            /\ ruleNext' = [ruleNext EXCEPT ![Key(r)] = act + Interval(r)]
            /\ ruleToken' = [ruleToken EXCEPT ![r] = act]
            /\ pc' = [pc EXCEPT ![r] = "rule"]
            /\ UNCHANGED <<sentAt, now, limiter, created, used, globalNext, slots, globalToken>>
      BY <1>5, <2>2, RuleReserved
    <3>3. act + Interval(r) \in Nat
      BY IntervalType
    <3> QED BY <3>1, <3>2, <3>3
  <2> QED BY <2>1, <2>2
<1>6. ASSUME NEW r \in Requests, AfterRule(r) PROVE TypeOK'
  BY <1>6 DEF AfterRule, PastRule, Send, limits, tokens
<1>7. ASSUME NEW r \in Requests, Acquire(r) PROVE TypeOK'
  BY <1>7 DEF Acquire, Send, tokens
<1>8. ASSUME NEW r \in Requests, Finish(r) PROVE TypeOK'
  BY <1>8 DEF Finish, tokens
<1>9. ASSUME NEW r \in Requests, Refuse(r) PROVE TypeOK'
  BY <1>9 DEF Refuse, limits, tokens
<1>10. ASSUME NEW r \in Requests, Cancel(r) PROVE TypeOK'
  <2>1. \A n \in Nat, i \in Nat : TakenBack(n, r, i) \in Nat
    BY DEF TakenBack
  <2>2. globalNext' \in [Limiters -> Nat]
    BY <1>10, <2>1, TimesAssumption DEF Cancel
  <2>3. ruleNext' \in [Keys -> Nat]
    BY <1>10, <2>1, IntervalType DEF Cancel
  <2> QED BY <1>10, <2>2, <2>3 DEF Cancel
<1> QED
  BY <1>1, <1>2, <1>3, <1>4, <1>5, <1>6, <1>7, <1>8, <1>9, <1>10 DEF Next, Over

LEMMA TypeInit == Init => TypeOK
  BY TimesAssumption DEF Init, TypeOK, Limiters, Never, Places

\* Every variable keeps its shape, for every set of rules and requests.
THEOREM LimiterTypeCorrect == Spec => []TypeOK
  BY TypeInit, TypeStep, PTL DEF Spec

-----------------------------------------------------------------------------

\* One step of one request.
Moves(r) == \/ Start(r) \/ AfterGlobal(r) \/ AfterRule(r)
            \/ Acquire(r) \/ Finish(r) \/ Refuse(r) \/ Cancel(r)

\* A request's own variables change in its own steps only.
LEMMA OthersKept ==
  ASSUME TypeOK, NEW r \in Requests, Moves(r), NEW s \in Requests, s # r
  PROVE  /\ pc'[s] = pc[s] /\ due'[s] = due[s] /\ sentAt'[s] = sentAt[s]
         /\ used'[s] = used[s] /\ now' = now
<1>1. CASE Start(r)
  <2>1. pc'[s] = pc[s] /\ due'[s] = due[s] /\ sentAt'[s] = sentAt[s] /\ now' = now
    <3>1. CASE limiter = 0
      BY <1>1, <3>1 DEF Start, Send, TypeOK
    <3>2. CASE limiter # 0
      BY <1>1, <3>2, GlobalReserved DEF TypeOK
    <3> QED BY <3>1, <3>2
  <2> QED BY <1>1, <2>1, StartUses
<1>2. CASE AfterGlobal(r)
  <2>1. CASE Interval(r) = 0
    BY <1>2, <2>1 DEF AfterGlobal, PastRule, Send, TypeOK
  <2>2. CASE Interval(r) # 0
    BY <1>2, <2>2, RuleReserved DEF TypeOK
  <2> QED BY <2>1, <2>2
<1>3. CASE AfterRule(r)
  BY <1>3 DEF AfterRule, PastRule, Send, TypeOK
<1>4. CASE Acquire(r)
  BY <1>4 DEF Acquire, Send, TypeOK
<1>5. CASE Finish(r) \/ Refuse(r) \/ Cancel(r)
  BY <1>5 DEF Finish, Refuse, Cancel, TypeOK
<1> QED BY <1>1, <1>2, <1>3, <1>4, <1>5 DEF Moves

\* What a request's place says of it.
Progressed ==
    \A r \in Requests :
        /\ Sent(r) <=> pc[r] \in {"inflight", "done"}
        /\ pc[r] \in {"global", "rule", "slot"} => used[r].limiter # 0
        /\ pc[r] = "rule" => Interval(r) # 0
        /\ pc[r] = "slot" => Capacity(r) # 0
        /\ pc[r] \in {"global", "rule"} => due[r] >= now

LEMMA ProgressedStep == TypeOK /\ Progressed /\ [Next]_vars => Progressed'
<1> SUFFICES ASSUME TypeOK, Progressed, [Next]_vars PROVE Progressed'
  OBVIOUS
<1> USE DEF Progressed, Sent, Never, Interval, Capacity, Limited
<1>1. CASE SetRateLimiter
  BY <1>1 DEF SetRateLimiter, limits
<1>2. CASE Tick
  <2>1. /\ \A r \in Requests : pc[r] \in {"global", "rule"} => due[r] > now
        /\ now' = now + 1 /\ UNCHANGED <<pc, used, due, sentAt>>
    BY <1>2 DEF Tick
  <2>2. \A r \in Requests : due[r] > now => due[r] >= now + 1
    BY DEF TypeOK
  <2> QED BY <2>1, <2>2
<1>3. CASE UNCHANGED vars
  BY <1>3 DEF vars, limits
<1>4. ASSUME NEW r \in Requests, Moves(r) PROVE Progressed'
  <2> SUFFICES ASSUME NEW s \in Requests
               PROVE  /\ sentAt'[s] # Never <=> pc'[s] \in {"inflight", "done"}
                      /\ pc'[s] \in {"global", "rule", "slot"} => used'[s].limiter # 0
                      /\ pc'[s] = "rule" => Interval(s) # 0
                      /\ pc'[s] = "slot" => Capacity(s) # 0
                      /\ pc'[s] \in {"global", "rule"} => due'[s] >= now'
    OBVIOUS
  <2>1. CASE s # r
    BY <1>4, <2>1, OthersKept
  <2>2. CASE s = r /\ Start(r)
    <3>1. CASE limiter = 0
      BY <2>2, <3>1 DEF Start, Send, TypeOK
    <3>2. CASE limiter # 0
      <4>1. PICK act \in Nat :
              /\ act >= now
              /\ due' = [due EXCEPT ![r] = act]
              /\ pc' = [pc EXCEPT ![r] = "global"]
              /\ UNCHANGED <<sentAt, now>>
        BY <2>2, <3>2, GlobalReserved
      <4>2. pc[r] = "new"
        BY <2>2 DEF Start
      <4>3. used'[s].limiter # 0
        BY <2>2, <3>2, StartUses
      <4> QED BY <2>2, <4>1, <4>2, <4>3 DEF TypeOK
    <3> QED BY <3>1, <3>2
  <2>3. CASE s = r /\ AfterGlobal(r)
    <3>1. CASE Interval(r) = 0
      BY <2>3, <3>1, IntervalType DEF AfterGlobal, PastRule, Send, TypeOK
    <3>2. CASE Interval(r) # 0
      <4>1. PICK act \in Nat :
              /\ act >= now
              /\ due' = [due EXCEPT ![r] = act]
              /\ pc' = [pc EXCEPT ![r] = "rule"]
              /\ UNCHANGED <<sentAt, now, used>>
        BY <2>3, <3>2, RuleReserved
      <4>2. pc[r] = "global"
        BY <2>3 DEF AfterGlobal
      <4> QED BY <2>3, <3>2, <4>1, <4>2 DEF TypeOK
    <3> QED BY <3>1, <3>2
  <2>4. CASE s = r /\ AfterRule(r)
    BY <2>4, IntervalType DEF AfterRule, PastRule, Send, TypeOK
  <2>5. CASE s = r /\ Acquire(r)
    BY <2>5 DEF Acquire, Send, TypeOK
  <2>6. CASE s = r /\ (Finish(r) \/ Refuse(r) \/ Cancel(r))
    BY <2>6 DEF Finish, Refuse, Cancel, TypeOK
  <2> QED BY <1>4, <2>1, <2>2, <2>3, <2>4, <2>5, <2>6 DEF Moves
<1> QED
  BY <1>1, <1>2, <1>3, <1>4 DEF Next, Moves, Over

-----------------------------------------------------------------------------

\* The requests that hold a token of a global limiter: those it delays, and
\* those that nothing delayed since.
Holds(r) == pc[r] = "global" \/ (Paced(r) /\ Undelayed(r))

GlobalTokens ==
    \A r \in Requests : Holds(r) =>
        /\ globalNext[used[r].limiter] >= due[r] + Global
        /\ Sent(r) => sentAt[r] = due[r]
        /\ \A s \in Requests :
            (s # r /\ Holds(s) /\ used[s].limiter = used[r].limiter)
                => Apart(due[r], due[s], Global)

\* A step that hands out no token and takes none back.
LEMMA TokensKept ==
  ASSUME GlobalTokens, globalNext' = globalNext,
         \A r \in Requests : Holds(r)' => /\ Holds(r) /\ due'[r] = due[r] /\ used'[r] = used[r]
                                          /\ Sent(r)' => sentAt'[r] = due[r]
  PROVE  GlobalTokens'
  BY DEF GlobalTokens

LEMMA GlobalTokensStep ==
  ASSUME TypeOK, Progressed, GlobalTokens, [Next]_vars
  PROVE  GlobalTokens'
<1>1. CASE SetRateLimiter \/ Tick \/ UNCHANGED vars
  <2>1. UNCHANGED <<pc, used, due, sentAt, globalNext>>
    BY <1>1 DEF SetRateLimiter, Tick, vars, limits
  <2> QED BY <2>1 DEF GlobalTokens, Holds, Paced, Sent
<1>2. ASSUME NEW r \in Requests, Start(r), limiter = 0 PROVE GlobalTokens'
  <2>1. globalNext' = globalNext /\ pc'[r] = "inflight" /\ used'[r].limiter = 0
    BY <1>2, StartUses DEF Start, Send, TypeOK
  <2>2. ~ Holds(r)'
    BY <2>1 DEF Holds, Paced
  <2>3. \A s \in Requests \ {r} : /\ pc'[s] = pc[s] /\ due'[s] = due[s]
                                  /\ sentAt'[s] = sentAt[s] /\ used'[s] = used[s]
    BY <1>2, OthersKept DEF Moves
  <2>4. \A s \in Requests \ {r} : Holds(s)' => Holds(s)
    BY <2>3 DEF Holds, Paced, Sent
  <2>5. \A s \in Requests \ {r} : Holds(s)' /\ Sent(s)' => sentAt'[s] = due[s]
    BY <2>3, <2>4 DEF GlobalTokens, Sent
  <2> QED BY <2>1, <2>2, <2>3, <2>4, <2>5, TokensKept
<1>3. ASSUME NEW r \in Requests, Start(r), limiter # 0 PROVE GlobalTokens'
  <2>1. PICK act \in Nat :
          /\ act >= globalNext[limiter]
          /\ due' = [due EXCEPT ![r] = act]
          /\ globalNext' = [globalNext EXCEPT ![limiter] = act + Global]
          /\ pc' = [pc EXCEPT ![r] = "global"]
          /\ UNCHANGED <<sentAt, now>>
    BY <1>3, GlobalReserved
  <2>2. used'[r].limiter = limiter
    BY <1>3, StartUses
  <2>3. \A s \in Requests \ {r} : /\ pc'[s] = pc[s] /\ due'[s] = due[s]
                                  /\ sentAt'[s] = sentAt[s] /\ used'[s] = used[s]
    BY <1>3, OthersKept DEF Moves
  <2>4. \A s \in Requests \ {r} : Holds(s)' <=> Holds(s)
    BY <2>3 DEF Holds, Paced, Sent
  <2>5. ~ Sent(r)'
    BY <1>3, <2>1 DEF Start, Progressed, Sent
  <2>6. due'[r] = act /\ globalNext'[limiter] = act + Global
    BY <2>1 DEF TypeOK
  <2>7. \A s \in Requests \ {r} : Holds(s) =>
          /\ globalNext'[used[s].limiter] >= due[s] + Global
          /\ used[s].limiter = limiter => Apart(act, due[s], Global) /\ Apart(due[s], act, Global)
    <3> SUFFICES ASSUME NEW s \in Requests \ {r}, Holds(s)
                 PROVE  /\ globalNext'[used[s].limiter] >= due[s] + Global
                        /\ used[s].limiter = limiter =>
                             Apart(act, due[s], Global) /\ Apart(due[s], act, Global)
      OBVIOUS
    <3>1. globalNext[used[s].limiter] >= due[s] + Global /\ due[s] \in Nat
      BY DEF GlobalTokens, TypeOK
    <3>2. CASE used[s].limiter = limiter
      BY <2>1, <2>6, <3>1, <3>2, TimesAssumption DEF Apart, TypeOK
    <3>3. CASE used[s].limiter # limiter
      BY <2>1, <3>1, <3>3 DEF TypeOK
    <3> QED BY <3>2, <3>3
  <2>8. act + Global >= act + Global
    BY TimesAssumption
  <2> QED BY <2>2, <2>3, <2>4, <2>5, <2>6, <2>7, <2>8 DEF GlobalTokens, Sent
<1>4. ASSUME NEW r \in Requests,
             AfterGlobal(r) \/ AfterRule(r) \/ Acquire(r) \/ Finish(r) \/ Refuse(r)
      PROVE  GlobalTokens'
  <2>1. globalNext' = globalNext
    BY <1>4 DEF AfterGlobal, AfterRule, Acquire, Finish, Refuse, limits
  <2>2. \A s \in Requests \ {r} : /\ pc'[s] = pc[s] /\ due'[s] = due[s]
                                  /\ sentAt'[s] = sentAt[s] /\ used'[s] = used[s]
    BY <1>4, OthersKept DEF Moves
  <2>3. used' = used
    BY <1>4 DEF AfterGlobal, AfterRule, Acquire, Finish, Refuse
  <2>4. Holds(r)' => Holds(r) /\ due'[r] = due[r] /\ (Sent(r)' => sentAt'[r] = due[r])
    <3>1. CASE AfterGlobal(r) /\ Interval(r) = 0
      <4>1. pc[r] = "global" /\ due[r] <= now
        BY <3>1 DEF AfterGlobal
      <4>2. due[r] >= now /\ due[r] \in Nat /\ now \in Nat
        BY <4>1 DEF Progressed, TypeOK
      <4>3. due[r] = now
        BY <4>1, <4>2
      <4> QED BY <3>1, <4>3 DEF AfterGlobal, PastRule, Send, Holds, Paced, Undelayed, TypeOK
    <3>2. CASE AfterGlobal(r) /\ Interval(r) # 0
      <4>1. pc'[r] = "rule"
        BY <3>2, RuleReserved DEF TypeOK
      <4> QED BY <3>2, <4>1 DEF Holds, Undelayed
    <3>3. CASE AfterRule(r)
      BY <3>3 DEF AfterRule, PastRule, Send, Holds, Undelayed, Progressed, TypeOK
    <3>4. CASE Acquire(r)
      BY <3>4 DEF Acquire, Send, Holds, Undelayed, Progressed, TypeOK
    <3>5. CASE Finish(r)
      BY <3>5 DEF Finish, Holds, Paced, Sent, GlobalTokens, TypeOK
    <3>6. CASE Refuse(r)
      BY <3>6 DEF Refuse, Holds, Paced, Sent, Progressed, TypeOK
    <3> QED BY <1>4, <3>1, <3>2, <3>3, <3>4, <3>5, <3>6
  <2>5. \A s \in Requests \ {r} : Holds(s)' => Holds(s)
    BY <2>2 DEF Holds, Paced, Sent
  <2>6. \A s \in Requests \ {r} : Holds(s)' /\ Sent(s)' => sentAt'[s] = due[s]
    BY <2>2, <2>5 DEF GlobalTokens, Sent
  <2> QED BY <2>1, <2>2, <2>3, <2>4, <2>5, <2>6, TokensKept
<1>5. ASSUME NEW r \in Requests, Cancel(r) PROVE GlobalTokens'
  <2>1. pc'[r] = "failed" /\ UNCHANGED <<due, sentAt, used>> /\ ~ Sent(r)
    BY <1>5 DEF Cancel, Progressed, TypeOK
  <2>2. \A s \in Requests \ {r} : pc'[s] = pc[s]
    BY <1>5, OthersKept DEF Moves
  <2>3. \A s \in Requests : Holds(s)' => s # r /\ Holds(s)
    BY <2>1, <2>2 DEF Holds, Paced, Sent
  <2>4. \A s \in Requests : Holds(s)' => globalNext'[used[s].limiter] >= due[s] + Global
    <3> SUFFICES ASSUME NEW s \in Requests, s # r, Holds(s)
                 PROVE  globalNext'[used[s].limiter] >= due[s] + Global
      BY <2>3
    <3>1. globalNext[used[s].limiter] >= due[s] + Global
      BY DEF GlobalTokens
    <3>2. CASE globalNext' = globalNext
      BY <3>1, <3>2
    <3>3. CASE pc[r] = "global" /\ globalNext[used[r].limiter] = due[r] + Global
      <4>1. globalNext' = [globalNext EXCEPT ![used[r].limiter] = due[r]] \/ globalNext' = globalNext
        BY <1>5, <3>3 DEF Cancel, TakenBack, TypeOK
      <4>2. CASE used[s].limiter = used[r].limiter
        <5>1. Apart(due[r], due[s], Global)
          BY <3>3, <4>2 DEF GlobalTokens, Holds
        <5>2. due[r] \in Nat /\ due[s] \in Nat /\ due[s] + Global <= due[r] + Global
          BY <3>1, <3>3, <4>2 DEF TypeOK
        <5>3. due[s] + Global <= due[r]
          BY <5>1, <5>2, TimesAssumption DEF Apart
        <5> QED BY <3>1, <4>1, <4>2, <5>2, <5>3 DEF TypeOK
      <4>3. CASE used[s].limiter # used[r].limiter
        BY <3>1, <4>1, <4>3 DEF TypeOK
      <4> QED BY <4>2, <4>3
    <3>4. \/ globalNext' = globalNext
          \/ pc[r] = "global" /\ globalNext[used[r].limiter] = due[r] + Global
      BY <1>5 DEF Cancel, TakenBack, TypeOK
    <3> QED BY <3>2, <3>3, <3>4
  <2> QED BY <2>1, <2>3, <2>4 DEF GlobalTokens, Sent
<1> QED
  BY <1>1, <1>2, <1>3, <1>4, <1>5 DEF Next, Over

-----------------------------------------------------------------------------

\* The requests that hold a token of their endpoint's limiter: those it delays,
\* and those that nothing delayed since.
RuleHolds(r) ==
    Interval(r) # 0 /\ (pc[r] = "rule" \/ (Paced(r) /\ Capacity(r) = 0))

RuleTokens ==
    \A r \in Requests : RuleHolds(r) =>
        /\ ruleNext[Key(r)] >= due[r] + Interval(r)
        /\ Sent(r) => sentAt[r] = due[r]
        /\ \A s \in Requests :
            (s # r /\ RuleHolds(s) /\ Key(s) = Key(r)) => Apart(due[r], due[s], Interval(r))

\* Requests that share a key share a rule, and so an interval.
LEMMA KeyOfRule ==
  ASSUME NEW r \in Requests, NEW s \in Requests, Key(r) = Key(s)
  PROVE  Interval(r) = Interval(s)
  BY DEF Key, KeyFor, Interval, Limited

\* A step that hands out no token of a rule and takes none back.
LEMMA RuleTokensKept ==
  ASSUME RuleTokens, ruleNext' = ruleNext,
         \A r \in Requests : RuleHolds(r)' =>
            /\ RuleHolds(r) /\ due'[r] = due[r] /\ used'[r] = used[r]
            /\ Sent(r)' => sentAt'[r] = due[r]
  PROVE  RuleTokens'
<1>1. \A r \in Requests : RuleHolds(r)' => Key(r)' = Key(r)
  BY DEF Key, KeyFor
<1> QED BY <1>1 DEF RuleTokens, Interval, Limited

LEMMA RuleTokensStep ==
  ASSUME TypeOK, Progressed, RuleTokens, [Next]_vars
  PROVE  RuleTokens'
<1>1. CASE SetRateLimiter \/ Tick \/ UNCHANGED vars
  <2>1. UNCHANGED <<pc, used, due, sentAt, ruleNext>>
    BY <1>1 DEF SetRateLimiter, Tick, vars, limits
  <2> QED BY <2>1 DEF RuleTokens, RuleHolds, Paced, Sent, Key, KeyFor, Interval, Limited, Capacity
<1>2. ASSUME NEW r \in Requests, Moves(r),
             ruleNext' = ruleNext, ~ RuleHolds(r)'
      PROVE  RuleTokens'
  <2>1. \A s \in Requests \ {r} : /\ pc'[s] = pc[s] /\ due'[s] = due[s]
                                  /\ sentAt'[s] = sentAt[s] /\ used'[s] = used[s]
    BY <1>2, OthersKept
  <2>2. \A s \in Requests \ {r} : RuleHolds(s)' => RuleHolds(s)
    BY <2>1 DEF RuleHolds, Paced, Sent, Interval, Limited, Capacity
  <2>3. \A s \in Requests \ {r} : RuleHolds(s)' /\ Sent(s)' => sentAt'[s] = due[s]
    BY <2>1, <2>2 DEF RuleTokens, Sent
  <2> QED BY <1>2, <2>1, <2>2, <2>3, RuleTokensKept
<1>3. ASSUME NEW r \in Requests, Start(r) PROVE RuleTokens'
  <2>1. ruleNext' = ruleNext
    BY <1>3 DEF Start
  <2>2. CASE limiter = 0
    <3>1. pc'[r] = "inflight" /\ used'[r].limiter = 0
      BY <1>3, <2>2, StartUses DEF Start, Send, TypeOK
    <3> QED BY <1>2, <1>3, <2>1, <3>1 DEF Moves, RuleHolds, Paced
  <2>3. CASE limiter # 0
    <3>1. pc'[r] = "global" /\ sentAt'[r] = sentAt[r]
      BY <1>3, <2>3, GlobalReserved DEF TypeOK
    <3>2. ~ Sent(r)'
      BY <1>3, <3>1 DEF Start, Progressed, Sent
    <3> QED BY <1>2, <1>3, <2>1, <3>1, <3>2 DEF Moves, RuleHolds, Paced
  <2> QED BY <2>2, <2>3
<1>4. ASSUME NEW r \in Requests, AfterGlobal(r), Interval(r) # 0 PROVE RuleTokens'
  <2>1. PICK act \in Nat :
          /\ act >= ruleNext[Key(r)]
          /\ due' = [due EXCEPT ![r] = act]
          /\ ruleNext' = [ruleNext EXCEPT ![Key(r)] = act + Interval(r)]
          /\ pc' = [pc EXCEPT ![r] = "rule"]
          /\ UNCHANGED <<sentAt, used>>
    BY <1>4, RuleReserved
  <2>2. \A s \in Requests \ {r} : /\ pc'[s] = pc[s] /\ due'[s] = due[s]
                                  /\ sentAt'[s] = sentAt[s]
    BY <1>4, OthersKept DEF Moves
  <2>3. \A s \in Requests : Key(s)' = Key(s) /\ (RuleHolds(s) => Key(s) \in Keys)
    BY <2>1, KeyType DEF Key, KeyFor, RuleHolds, Interval
  <2>4. \A s \in Requests \ {r} : RuleHolds(s)' <=> RuleHolds(s)
    BY <2>1, <2>2 DEF RuleHolds, Paced, Sent, Interval, Limited, Capacity
  <2>5. ~ Sent(r)'
    BY <1>4, <2>1 DEF AfterGlobal, Progressed, Sent
  <2>6. Key(r) \in Keys /\ due'[r] = act /\ ruleNext'[Key(r)] = act + Interval(r)
    BY <1>4, <2>1, KeyType DEF TypeOK, Interval
  <2>7. \A s \in Requests \ {r} : RuleHolds(s) =>
          /\ ruleNext'[Key(s)] >= due[s] + Interval(s)
          /\ Key(s) = Key(r) => Apart(act, due[s], Interval(r)) /\ Apart(due[s], act, Interval(s))
    <3> SUFFICES ASSUME NEW s \in Requests \ {r}, RuleHolds(s)
                 PROVE  /\ ruleNext'[Key(s)] >= due[s] + Interval(s)
                        /\ Key(s) = Key(r) =>
                             Apart(act, due[s], Interval(r)) /\ Apart(due[s], act, Interval(s))
      OBVIOUS
    <3>1. ruleNext[Key(s)] >= due[s] + Interval(s) /\ due[s] \in Nat /\ ruleNext[Key(s)] \in Nat
      BY <2>3 DEF RuleTokens, TypeOK
    <3>2. CASE Key(s) = Key(r)
      <4>1. Interval(s) = Interval(r) /\ Interval(r) \in Nat
        BY <3>2, KeyOfRule, IntervalType
      <4> QED BY <2>1, <2>6, <3>1, <3>2, <4>1 DEF Apart
    <3>3. CASE Key(s) # Key(r)
      BY <2>1, <2>3, <3>1, <3>3 DEF TypeOK
    <3> QED BY <3>2, <3>3
  <2>8. act + Interval(r) >= act + Interval(r)
    BY IntervalType
  <2>9. \A s \in Requests : Interval(s)' = Interval(s)
    BY DEF Interval, Limited
  <2> QED BY <2>2, <2>3, <2>4, <2>5, <2>6, <2>7, <2>8, <2>9 DEF RuleTokens, Sent
<1>5. ASSUME NEW r \in Requests, AfterGlobal(r), Interval(r) = 0 PROVE RuleTokens'
  <2>1. ruleNext' = ruleNext
    BY <1>5 DEF AfterGlobal
  <2> QED BY <1>2, <1>5, <2>1 DEF Moves, RuleHolds, Interval, Limited
<1>6. ASSUME NEW r \in Requests, AfterRule(r) \/ Acquire(r) \/ Finish(r) \/ Refuse(r)
      PROVE  RuleTokens'
  <2>1. ruleNext' = ruleNext /\ UNCHANGED <<used, due>>
    BY <1>6 DEF AfterRule, Acquire, Finish, Refuse, limits
  <2>2. \A s \in Requests \ {r} : pc'[s] = pc[s] /\ sentAt'[s] = sentAt[s]
    BY <1>6, OthersKept DEF Moves
  <2>3. RuleHolds(r)' => RuleHolds(r) /\ (Sent(r)' => sentAt'[r] = due[r])
    <3>1. CASE AfterRule(r)
      <4>1. pc[r] = "rule" /\ due[r] <= now
        BY <3>1 DEF AfterRule
      <4>2. due[r] >= now /\ due[r] \in Nat /\ now \in Nat /\ ~ Sent(r)
        BY <4>1 DEF Progressed, TypeOK
      <4>3. due[r] = now /\ ~ Sent(r)
        BY <4>1, <4>2
      <4> QED BY <3>1, <4>1, <4>3 DEF AfterRule, PastRule, Send, RuleHolds, Sent, Paced, TypeOK,
                                      Interval, Limited, Capacity
    <3>2. CASE Acquire(r)
      BY <3>2 DEF Acquire, Send, RuleHolds, Progressed, TypeOK, Capacity, Limited
    <3>3. CASE Finish(r)
      BY <3>3 DEF Finish, RuleHolds, Paced, Sent, RuleTokens, TypeOK, Interval, Limited, Capacity
    <3>4. CASE Refuse(r)
      BY <3>4 DEF Refuse, RuleHolds, Paced, Sent, Progressed, TypeOK
    <3> QED BY <1>6, <3>1, <3>2, <3>3, <3>4
  <2>4. \A s \in Requests \ {r} : RuleHolds(s)' => RuleHolds(s)
    BY <2>1, <2>2 DEF RuleHolds, Paced, Sent, Interval, Limited, Capacity
  <2>5. \A s \in Requests \ {r} : RuleHolds(s)' /\ Sent(s)' => sentAt'[s] = due[s]
    BY <2>2, <2>4 DEF RuleTokens, Sent
  <2> QED BY <2>1, <2>3, <2>4, <2>5, RuleTokensKept
<1>7. ASSUME NEW r \in Requests, Cancel(r) PROVE RuleTokens'
  <2>1. pc'[r] = "failed" /\ UNCHANGED <<due, sentAt, used>> /\ ~ Sent(r)
    BY <1>7 DEF Cancel, Progressed, TypeOK
  <2>2. \A s \in Requests \ {r} : pc'[s] = pc[s]
    BY <1>7, OthersKept DEF Moves
  <2>3. \A s \in Requests : RuleHolds(s)' => s # r /\ RuleHolds(s)
    BY <2>1, <2>2 DEF RuleHolds, Paced, Sent, Interval, Limited, Capacity
  <2>4. \A s \in Requests : Key(s)' = Key(s) /\ Interval(s)' = Interval(s)
    BY <2>1 DEF Key, KeyFor, Interval, Limited
  <2>5. \A s \in Requests : RuleHolds(s)' => ruleNext'[Key(s)] >= due[s] + Interval(s)
    <3> SUFFICES ASSUME NEW s \in Requests, s # r, RuleHolds(s)
                 PROVE  ruleNext'[Key(s)] >= due[s] + Interval(s)
      BY <2>3
    <3>1. /\ ruleNext[Key(s)] >= due[s] + Interval(s) /\ Key(s) \in Keys
          /\ due[s] \in Nat /\ due[r] \in Nat
          /\ Interval(s) \in Nat /\ Interval(r) \in Nat
      BY KeyType, IntervalType DEF RuleTokens, RuleHolds, Interval, TypeOK
    <3>2. CASE ruleNext' = ruleNext
      BY <3>1, <3>2
    <3>3. CASE pc[r] = "rule" /\ ruleNext[Key(r)] = due[r] + Interval(r)
      <4>1. RuleHolds(r) /\ Key(r) \in Keys
        BY <3>3, KeyType DEF RuleHolds, Progressed, Interval
      <4>2. ruleNext' = [ruleNext EXCEPT ![Key(r)] = due[r]] \/ ruleNext' = ruleNext
        BY <1>7, <3>3, <4>1 DEF Cancel, TakenBack, TypeOK
      <4>3. CASE Key(s) = Key(r)
        <5>1. Interval(s) = Interval(r)
          BY <4>3, KeyOfRule
        <5>2. Apart(due[r], due[s], Interval(r))
          BY <4>1, <4>3 DEF RuleTokens
        <5>3. due[s] + Interval(s) <= due[r]
          BY <3>1, <3>3, <4>3, <5>1, <5>2, <4>1 DEF Apart, RuleHolds
        <5> QED BY <3>1, <4>1, <4>2, <4>3, <5>3 DEF TypeOK
      <4>4. CASE Key(s) # Key(r)
        BY <3>1, <4>2, <4>4 DEF TypeOK
      <4> QED BY <4>3, <4>4
    <3>4. \/ ruleNext' = ruleNext
          \/ pc[r] = "rule" /\ ruleNext[Key(r)] = due[r] + Interval(r)
      <4>1. CASE pc[r] = "rule"
        <5>1. Key(r) \in Keys
          BY <4>1, KeyType DEF Progressed, Interval
        <5> QED BY <1>7, <4>1, <5>1 DEF Cancel, TakenBack, TypeOK
      <4>2. CASE pc[r] # "rule"
        BY <1>7, <4>2 DEF Cancel
      <4> QED BY <4>1, <4>2
    <3> QED BY <3>2, <3>3, <3>4
  <2> QED BY <2>1, <2>3, <2>4, <2>5 DEF RuleTokens, Sent
<1> QED
  BY <1>1, <1>3, <1>4, <1>5, <1>6, <1>7 DEF Next, Over

-----------------------------------------------------------------------------

\* The inductive invariant behind both spacings.
Pacing == TypeOK /\ Progressed /\ GlobalTokens /\ RuleTokens

LEMMA PacingInvariant == Spec => []Pacing
<1>1. Init => Pacing
  <2>1. Init => Progressed
    BY DEF Init, Progressed, Sent, Never
  <2>2. Init => GlobalTokens
    BY DEF Init, GlobalTokens, Holds, Paced, Sent, Never
  <2>3. Init => RuleTokens
    BY DEF Init, RuleTokens, RuleHolds, Paced, Sent, Never
  <2> QED BY <2>1, <2>2, <2>3, TypeInit DEF Pacing
<1>2. Pacing /\ [Next]_vars => Pacing'
  BY TypeStep, ProgressedStep, GlobalTokensStep, RuleTokensStep DEF Pacing
<1> QED BY <1>1, <1>2, PTL DEF Spec

\* Requests that one limiter lets out for one endpoint are its interval apart.
THEOREM EndpointPaced == Spec => []RuleSpacing
<1>1. Pacing => RuleSpacing
  <2> SUFFICES ASSUME Pacing, NEW r \in Requests, NEW s \in Requests, r # s,
                      Paced(r), Paced(s), Capacity(r) = 0, Key(r) = Key(s)
               PROVE  Apart(sentAt[r], sentAt[s], Interval(r))
    BY DEF RuleSpacing
  <2>1. Interval(s) = Interval(r) /\ Interval(r) \in Nat
    BY KeyOfRule, IntervalType
  <2>2. CASE Interval(r) # 0 /\ Capacity(s) = 0
    <3>1. RuleHolds(r) /\ RuleHolds(s) /\ Sent(r) /\ Sent(s)
      BY <2>1, <2>2 DEF RuleHolds, Paced
    <3>2. Apart(due[r], due[s], Interval(r)) /\ sentAt[r] = due[r] /\ sentAt[s] = due[s]
      BY <3>1 DEF Pacing, RuleTokens
    <3> QED BY <3>2
  <2>3. CASE Interval(r) = 0
    <3>1. sentAt[r] \in Nat /\ sentAt[s] \in Nat
      BY DEF Pacing, TypeOK, Paced, Sent
    <3> QED BY <2>3, <3>1 DEF Apart
  <2>4. Capacity(s) = Capacity(r)
    BY DEF Key, KeyFor, Capacity, Limited
  <2> QED BY <2>2, <2>3, <2>4
<1> QED BY <1>1, PacingInvariant, PTL

\* Requests that only the global limiter delays are the global interval apart.
THEOREM UndelayedPaced == Spec => []UndelayedSpacing
<1>1. Pacing => UndelayedSpacing
  <2> SUFFICES ASSUME Pacing, NEW r \in Requests, NEW s \in Requests, r # s,
                      Paced(r), Paced(s), Undelayed(r), Undelayed(s),
                      used[r].limiter = used[s].limiter
               PROVE  Apart(sentAt[r], sentAt[s], Global)
    BY DEF UndelayedSpacing
  <2>1. Holds(r) /\ Holds(s) /\ Sent(r) /\ Sent(s)
    BY DEF Holds, Paced
  <2>2. Apart(due[r], due[s], Global) /\ sentAt[r] = due[r] /\ sentAt[s] = due[s]
    BY <2>1 DEF Pacing, GlobalTokens
  <2> QED BY <2>2
<1> QED BY <1>1, PacingInvariant, PTL

-----------------------------------------------------------------------------

\* The request is in flight and holds a slot of the key.
InFlight(k, r) ==
    /\ pc[r] = "inflight" /\ used[r].limiter # 0
    /\ Capacity(r) > 0 /\ Key(r) = k

LEMMA SlotsStep ==
  ASSUME TypeOK, Progressed, SlotsMatchFlights, [Next]_vars
  PROVE  SlotsMatchFlights'
<1> DEFINE Held == \A k \in Keys : slots[k] = {r \in Requests : InFlight(k, r)}
           Bounded == \A k \in Keys : slots[k] # {} => Cardinality(slots[k]) <= MaxConcurrent[k[2]]
<1>0. SlotsMatchFlights <=> Held /\ Bounded
  BY DEF SlotsMatchFlights, InFlight
<1>00. SlotsMatchFlights' <=> Held' /\ Bounded'
  BY DEF SlotsMatchFlights, InFlight
<1>1. ASSUME slots' = slots,
             \A k \in Keys, s \in Requests : InFlight(k, s)' <=> InFlight(k, s)
      PROVE  SlotsMatchFlights'
  BY <1>0, <1>00, <1>1
<1>2. ASSUME NEW r \in Requests, Moves(r), slots' = slots,
             \A k \in Keys : InFlight(k, r)' <=> InFlight(k, r)
      PROVE  SlotsMatchFlights'
  <2>1. \A k \in Keys, s \in Requests \ {r} : InFlight(k, s)' <=> InFlight(k, s)
    BY <1>2, OthersKept DEF InFlight, Key, KeyFor, Capacity, Limited
  <2> QED BY <1>1, <1>2, <2>1
<1>3. CASE SetRateLimiter \/ Tick \/ UNCHANGED vars
  BY <1>1, <1>3 DEF SetRateLimiter, Tick, vars, limits, InFlight, Key, KeyFor, Capacity, Limited
<1>4. ASSUME NEW r \in Requests, Start(r) PROVE SlotsMatchFlights'
  <2>1. slots' = slots /\ pc[r] = "new"
    BY <1>4 DEF Start
  <2>2. CASE limiter = 0
    BY <1>2, <1>4, <2>1, <2>2, StartUses DEF Moves, InFlight
  <2>3. CASE limiter # 0
    <3>1. pc'[r] = "global"
      BY <1>4, <2>3, GlobalReserved DEF TypeOK
    <3> QED BY <1>2, <1>4, <2>1, <3>1 DEF Moves, InFlight
  <2> QED BY <2>2, <2>3
<1>5. ASSUME NEW r \in Requests, AfterGlobal(r) PROVE SlotsMatchFlights'
  <2>1. slots' = slots /\ pc[r] = "global"
    BY <1>5 DEF AfterGlobal
  <2>2. pc'[r] = "inflight" => Capacity(r)' = 0
    <3>1. CASE Interval(r) = 0
      BY <1>5, <3>1, IntervalType DEF AfterGlobal, PastRule, Send, TypeOK, Capacity, Limited
    <3>2. CASE Interval(r) # 0
      BY <1>5, <3>2, RuleReserved DEF TypeOK
    <3> QED BY <3>1, <3>2
  <2> QED BY <1>2, <1>5, <2>1, <2>2 DEF Moves, InFlight
<1>6. ASSUME NEW r \in Requests, AfterRule(r) PROVE SlotsMatchFlights'
  <2>1. slots' = slots /\ pc[r] = "rule"
    BY <1>6 DEF AfterRule, limits
  <2>2. pc'[r] = "inflight" => Capacity(r)' = 0
    BY <1>6, IntervalType DEF AfterRule, PastRule, Send, TypeOK, Capacity, Limited
  <2> QED BY <1>2, <1>6, <2>1, <2>2 DEF Moves, InFlight
<1>7. ASSUME NEW r \in Requests, Acquire(r) PROVE SlotsMatchFlights'
  <2>1. /\ Capacity(r) > 0 /\ used[r].limiter # 0 /\ Limited(r) /\ Key(r) \in Keys
        /\ Key(r)[2] = RuleOf[r] /\ Capacity(r) = MaxConcurrent[RuleOf[r]] /\ Capacity(r) \in Nat
    BY <1>7, IntervalType, KeyType DEF Acquire, Progressed, Capacity, Key, KeyFor
  <2>2. slots' = [slots EXCEPT ![Key(r)] = @ \cup {r}] /\ UNCHANGED used
    BY <1>7 DEF Acquire
  <2>3. \A k \in Keys, s \in Requests : InFlight(k, s)' <=> InFlight(k, s) \/ (s = r /\ k = Key(r))
    <3>1. pc' = [pc EXCEPT ![r] = "inflight"] /\ pc[r] = "slot"
      BY <1>7 DEF Acquire, Send
    <3> QED BY <2>1, <2>2, <3>1 DEF InFlight, Key, KeyFor, Capacity, Limited, TypeOK
  <2>4. Held'
    BY <1>0, <2>1, <2>2, <2>3 DEF TypeOK
  <2>5. Cardinality(slots[Key(r)] \cup {r}) <= MaxConcurrent[Key(r)[2]]
    <3>1. IsFiniteSet(slots[Key(r)])
      BY <2>1, FS_Subset, RequestsAssumption DEF TypeOK
    <3>2. Cardinality(slots[Key(r)]) \in Nat /\ Cardinality(slots[Key(r)]) < Capacity(r)
      BY <1>7, <3>1, FS_CardinalityType DEF Acquire
    <3>3. \/ Cardinality(slots[Key(r)] \cup {r}) = Cardinality(slots[Key(r)]) + 1
          \/ Cardinality(slots[Key(r)] \cup {r}) = Cardinality(slots[Key(r)])
      BY <3>1, FS_AddElement
    <3> QED BY <2>1, <3>2, <3>3
  <2>6. Bounded'
    BY <1>0, <2>1, <2>2, <2>5 DEF TypeOK
  <2> QED BY <1>00, <2>4, <2>6
<1>8. ASSUME NEW r \in Requests, Finish(r) PROVE SlotsMatchFlights'
  <2>1. slots' = [k \in Keys |-> slots[k] \ {r}] /\ pc' = [pc EXCEPT ![r] = "done"] /\ UNCHANGED used
    BY <1>8 DEF Finish
  <2>2. \A k \in Keys, s \in Requests : InFlight(k, s)' <=> InFlight(k, s) /\ s # r
    BY <2>1 DEF InFlight, Key, KeyFor, Capacity, Limited, TypeOK
  <2>3. Held'
    BY <1>0, <2>1, <2>2
  <2>4. Bounded'
    <3> SUFFICES ASSUME NEW k \in Keys, slots[k] \ {r} # {}
                 PROVE  Cardinality(slots[k] \ {r}) <= MaxConcurrent[k[2]]
      BY <2>1
    <3>1. Cardinality(slots[k]) <= MaxConcurrent[k[2]]
      BY <1>0
    <3>2. IsFiniteSet(slots[k])
      BY FS_Subset, RequestsAssumption DEF TypeOK
    <3>3. /\ Cardinality(slots[k] \ {r}) <= Cardinality(slots[k])
          /\ Cardinality(slots[k] \ {r}) \in Nat /\ Cardinality(slots[k]) \in Nat
      BY <3>2, FS_Subset, FS_CardinalityType
    <3>4. MaxConcurrent[k[2]] \in Nat
      BY RulesAssumption DEF Keys
    <3> QED BY <3>1, <3>3, <3>4
  <2> QED BY <1>00, <2>3, <2>4
<1>9. ASSUME NEW r \in Requests, Refuse(r) \/ Cancel(r) PROVE SlotsMatchFlights'
  <2>1. slots' = slots /\ pc[r] # "inflight" /\ pc'[r] = "failed"
    BY <1>9 DEF Refuse, Cancel, limits, TypeOK
  <2> QED BY <1>2, <1>9, <2>1 DEF Moves, InFlight
<1> QED
  BY <1>3, <1>4, <1>5, <1>6, <1>7, <1>8, <1>9 DEF Next, Over

\* The semaphores hold the requests in flight, within their capacity.
THEOREM SlotsKept == Spec => []SlotsMatchFlights
<1>1. Init => SlotsMatchFlights
  BY DEF Init, SlotsMatchFlights
<1>2. Pacing /\ SlotsMatchFlights /\ [Next]_vars => SlotsMatchFlights'
  BY SlotsStep DEF Pacing
<1> QED BY <1>1, <1>2, PacingInvariant, PTL DEF Spec

-----------------------------------------------------------------------------

\* The tokens that the requests B took of one limiter, at the time t: the next is due
\* an interval after each, and after one of them exactly unless the limiter was idle;
\* they are an interval apart, and one that is yet to come follows another at once.
Ledger(B, token, next, gap, t) ==
    /\ \A r \in B : token[r] \in Nat /\ token[r] + gap <= next
    /\ next > t => \E r \in B : token[r] + gap = next
    /\ \A r, s \in B : r # s => Apart(token[r], token[s], gap)
    /\ \A r \in B : token[r] > t => \E s \in B : token[s] = token[r] - gap

\* Time passes, and nothing else happens to a limiter.
LEMMA LedgerKept ==
  ASSUME NEW B, NEW token, NEW token2, NEW next \in Nat, NEW gap \in Nat,
         NEW t \in Nat, NEW t2 \in Nat, t2 >= t, Ledger(B, token, next, gap, t),
         \A s \in B : token2[s] = token[s]
  PROVE  Ledger(B, token2, next, gap, t2)
<1>1. /\ \A r \in B : token[r] \in Nat /\ token[r] + gap <= next
      /\ next > t => \E r \in B : token[r] + gap = next
      /\ \A r, s \in B : r # s => Apart(token[r], token[s], gap)
      /\ \A r \in B : token[r] > t => \E s \in B : token[s] = token[r] - gap
  BY DEF Ledger
<1>2. next > t2 => \E r \in B : token2[r] + gap = next
  BY <1>1
<1>3. \A r \in B : token2[r] > t2 => \E s \in B : token2[s] = token2[r] - gap
  <2> SUFFICES ASSUME NEW r \in B, token2[r] > t2
               PROVE  \E s \in B : token2[s] = token2[r] - gap
    OBVIOUS
  <2>1. token[r] > t /\ token2[r] = token[r]
    BY <1>1
  <2> QED BY <1>1, <2>1
<1> QED BY <1>1, <1>2, <1>3 DEF Ledger

\* A token more.
LEMMA LedgerReserved ==
  ASSUME NEW B, NEW r, r \notin B, NEW token, NEW token2, NEW next \in Nat,
         NEW gap \in Nat, NEW t \in Nat, NEW act \in Nat, Ledger(B, token, next, gap, t),
         act >= t, act >= next, act \in {t, next},
         token2[r] = act, \A s \in B : token2[s] = token[s]
  PROVE  Ledger(B \cup {r}, token2, act + gap, gap, t)
<1> DEFINE C == B \cup {r}
<1>1. /\ \A s \in B : token[s] \in Nat /\ token[s] + gap <= next
      /\ next > t => \E s \in B : token[s] + gap = next
      /\ \A q, s \in B : q # s => Apart(token[q], token[s], gap)
      /\ \A q \in B : token[q] > t => \E s \in B : token[s] = token[q] - gap
  BY DEF Ledger
<1>2. \A s \in C : token2[s] \in Nat /\ token2[s] + gap <= act + gap
  BY <1>1
<1>3. act + gap > t => \E s \in C : token2[s] + gap = act + gap
  OBVIOUS
<1>4. \A s \in B : Apart(token2[r], token2[s], gap) /\ Apart(token2[s], token2[r], gap)
  BY <1>1 DEF Apart
<1>5. \A q, s \in C : q # s => Apart(token2[q], token2[s], gap)
  BY <1>1, <1>4
<1>6. \A q \in C : token2[q] > t => \E s \in C : token2[s] = token2[q] - gap
  <2> SUFFICES ASSUME NEW q \in C, token2[q] > t
               PROVE  \E s \in C : token2[s] = token2[q] - gap
    OBVIOUS
  <2>1. CASE q \in B
    BY <1>1, <2>1
  <2>2. CASE q = r
    <3>1. act = next /\ next > t
      BY <2>2
    <3>2. PICK s \in B : token[s] + gap = next
      BY <1>1, <3>1
    <3>3. token[s] = act - gap
      BY <1>1, <3>1, <3>2
    <3> QED BY <2>2, <3>2, <3>3
  <2> QED BY <2>1, <2>2
<1> HIDE DEF C
<1>7. Ledger(C, token2, act + gap, gap, t)
  BY <1>2, <1>3, <1>5, <1>6 DEF Ledger
<1> QED BY <1>7 DEF C

\* The last token is given back.
LEMMA LedgerGivenBack ==
  ASSUME NEW B, NEW r \in B, NEW token, NEW token2, NEW next \in Nat,
         NEW gap \in Nat \ {0}, NEW t \in Nat, Ledger(B, token, next, gap, t),
         token[r] >= t, \A s \in B : ~ (token[s] > token[r]),
         \A s \in B \ {r} : token2[s] = token[s]
  PROVE  next = token[r] + gap /\ Ledger(B \ {r}, token2, token[r], gap, t)
<1> DEFINE C == B \ {r}
<1>1. /\ \A s \in B : token[s] \in Nat /\ token[s] + gap <= next /\ token[s] <= token[r]
      /\ next > t => \E s \in B : token[s] + gap = next
      /\ \A q, s \in B : q # s => Apart(token[q], token[s], gap)
      /\ \A q \in B : token[q] > t => \E s \in B : token[s] = token[q] - gap
  BY DEF Ledger
<1>2. next = token[r] + gap
  <2>1. next > t
    BY <1>1
  <2>2. PICK s \in B : token[s] + gap = next
    BY <1>1, <2>1
  <2> QED BY <1>1, <2>2
<1>3. \A s \in C : token2[s] \in Nat /\ token2[s] + gap <= token[r]
  BY <1>1 DEF Apart
<1>4. token[r] > t => \E s \in C : token2[s] + gap = token[r]
  <2> SUFFICES ASSUME token[r] > t PROVE \E s \in C : token2[s] + gap = token[r]
    OBVIOUS
  <2>1. PICK s \in B : token[s] = token[r] - gap
    BY <1>1
  <2>2. s # r /\ token[s] + gap = token[r]
    BY <1>1, <2>1
  <2> QED BY <2>2
<1>5. \A q, s \in C : q # s => Apart(token2[q], token2[s], gap)
  BY <1>1
<1>6. \A q \in C : token2[q] > t => \E s \in C : token2[s] = token2[q] - gap
  <2> SUFFICES ASSUME NEW q \in C, token2[q] > t
               PROVE  \E s \in C : token2[s] = token2[q] - gap
    OBVIOUS
  <2>1. PICK s \in B : token[s] = token[q] - gap
    BY <1>1
  <2>2. s # r
    BY <1>1, <2>1
  <2> QED BY <2>1, <2>2
<1> HIDE DEF C
<1>7. Ledger(C, token2, token[r], gap, t)
  BY <1>1, <1>3, <1>4, <1>5, <1>6 DEF Ledger
<1> QED BY <1>2, <1>7 DEF C

\* A request's tokens change in its own steps only.
LEMMA OthersTokens ==
  ASSUME TypeOK, NEW r \in Requests, Moves(r), NEW s \in Requests, s # r
  PROVE  globalToken'[s] = globalToken[s] /\ ruleToken'[s] = ruleToken[s]
<1>1. CASE Start(r)
  <2>1. CASE limiter = 0
    BY <1>1, <2>1 DEF Start
  <2>2. CASE limiter # 0
    BY <1>1, <2>2, GlobalReserved DEF TypeOK
  <2> QED BY <2>1, <2>2
<1>2. CASE AfterGlobal(r)
  <2>1. CASE Interval(r) = 0
    BY <1>2, <2>1 DEF AfterGlobal
  <2>2. CASE Interval(r) # 0
    BY <1>2, <2>2, RuleReserved DEF TypeOK
  <2> QED BY <2>1, <2>2
<1>3. CASE AfterRule(r) \/ Acquire(r) \/ Finish(r) \/ Refuse(r)
  BY <1>3 DEF AfterRule, Acquire, Finish, Refuse, tokens
<1>4. CASE Cancel(r)
  BY <1>4 DEF Cancel, TypeOK
<1> QED BY <1>1, <1>2, <1>3, <1>4 DEF Moves

\* The tokens that go with a request's place.
Entitled ==
    \A r \in Requests :
        /\ pc[r] = "new" => globalToken[r] = Never
        /\ pc[r] \in {"new", "global"} => ruleToken[r] = Never
        /\ pc[r] = "global" => globalToken[r] = due[r]
        /\ pc[r] = "rule" => ruleToken[r] = due[r]

LEMMA EntitledStep ==
  ASSUME TypeOK, Entitled, [Next]_vars
  PROVE  Entitled'
<1>1. CASE SetRateLimiter \/ Tick \/ UNCHANGED vars
  BY <1>1 DEF SetRateLimiter, Tick, vars, tokens, Entitled
<1>2. ASSUME NEW r \in Requests, Moves(r) PROVE Entitled'
  <2> SUFFICES ASSUME NEW s \in Requests
               PROVE  /\ pc'[s] = "new" => globalToken'[s] = Never
                      /\ pc'[s] \in {"new", "global"} => ruleToken'[s] = Never
                      /\ pc'[s] = "global" => globalToken'[s] = due'[s]
                      /\ pc'[s] = "rule" => ruleToken'[s] = due'[s]
    BY DEF Entitled
  <2>1. CASE s # r
    BY <1>2, <2>1, OthersKept, OthersTokens DEF Entitled
  <2>2. CASE s = r /\ Start(r)
    <3>1. CASE limiter = 0
      BY <2>2, <3>1 DEF Start, Send, TypeOK
    <3>2. CASE limiter # 0
      <4>1. PICK act \in Nat :
              /\ due' = [due EXCEPT ![r] = act]
              /\ globalToken' = [globalToken EXCEPT ![r] = act]
              /\ pc' = [pc EXCEPT ![r] = "global"]
              /\ UNCHANGED ruleToken
        BY <2>2, <3>2, GlobalReserved
      <4>2. pc[r] = "new"
        BY <2>2 DEF Start
      <4> QED BY <2>2, <4>1, <4>2 DEF TypeOK, Entitled
    <3> QED BY <3>1, <3>2
  <2>3. CASE s = r /\ AfterGlobal(r)
    <3>1. CASE Interval(r) = 0
      BY <2>3, <3>1 DEF AfterGlobal, PastRule, Send, TypeOK
    <3>2. CASE Interval(r) # 0
      <4>1. PICK act \in Nat :
              /\ due' = [due EXCEPT ![r] = act]
              /\ ruleToken' = [ruleToken EXCEPT ![r] = act]
              /\ pc' = [pc EXCEPT ![r] = "rule"]
        BY <2>3, <3>2, RuleReserved
      <4> QED BY <2>3, <4>1 DEF TypeOK
    <3> QED BY <3>1, <3>2
  <2>4. CASE s = r /\ (AfterRule(r) \/ Acquire(r) \/ Finish(r) \/ Refuse(r) \/ Cancel(r))
    BY <2>4 DEF AfterRule, PastRule, Acquire, Finish, Refuse, Cancel, Send, TypeOK
  <2> QED BY <1>2, <2>1, <2>2, <2>3, <2>4 DEF Moves
<1> QED BY <1>1, <1>2 DEF Next, Moves, Over

-----------------------------------------------------------------------------

GlobalLedger ==
    \A l \in Limiters : Ledger(GlobalHolders(l), globalToken, globalNext[l], Global, now)

\* A limiter that no token is taken of or given back to.
LEMMA GlobalLedgerKept ==
  ASSUME TypeOK, GlobalLedger, NEW l \in Limiters, now' \in Nat, now' >= now,
         globalNext'[l] = globalNext[l], GlobalHolders(l)' = GlobalHolders(l),
         \A s \in GlobalHolders(l) : globalToken'[s] = globalToken[s]
  PROVE  Ledger(GlobalHolders(l)', globalToken', globalNext'[l], Global, now')
<1>1. /\ Ledger(GlobalHolders(l), globalToken, globalNext[l], Global, now)
      /\ globalNext[l] \in Nat /\ now \in Nat /\ Global \in Nat
  BY TimesAssumption DEF GlobalLedger, TypeOK
<1>2. Ledger(GlobalHolders(l), globalToken', globalNext[l], Global, now')
  BY <1>1, LedgerKept
<1> QED BY <1>2

LEMMA GlobalLedgerStep ==
  ASSUME TypeOK, TypeOK', Progressed, Entitled, GlobalLedger, [Next]_vars
  PROVE  GlobalLedger'
<1> SUFFICES ASSUME NEW l \in Limiters
             PROVE  Ledger(GlobalHolders(l)', globalToken', globalNext'[l], Global, now')
  BY DEF GlobalLedger
<1>1. CASE SetRateLimiter \/ Tick \/ UNCHANGED vars
  <2>1. UNCHANGED <<used, globalNext, globalToken>> /\ now' >= now
    BY <1>1 DEF SetRateLimiter, Tick, vars, limits, tokens, TypeOK
  <2>2. now' \in Nat /\ GlobalHolders(l)' = GlobalHolders(l)
    BY <2>1 DEF GlobalHolders, TypeOK
  <2> QED BY <2>1, <2>2, GlobalLedgerKept
<1>2. ASSUME NEW r \in Requests, Moves(r), globalNext'[l] = globalNext[l],
             r \in GlobalHolders(l) <=> r \in GlobalHolders(l)',
             r \in GlobalHolders(l) => globalToken'[r] = globalToken[r]
      PROVE  Ledger(GlobalHolders(l)', globalToken', globalNext'[l], Global, now')
  <2>1. \A s \in Requests \ {r} : globalToken'[s] = globalToken[s] /\ used'[s] = used[s]
    BY <1>2, OthersKept, OthersTokens
  <2>2. now' = now
    BY <1>2 DEF Moves, Start, AfterGlobal, AfterRule, Acquire, Finish, Refuse, Cancel
  <2>3. GlobalHolders(l)' = GlobalHolders(l)
    BY <1>2, <2>1 DEF GlobalHolders
  <2>4. \A s \in GlobalHolders(l) : globalToken'[s] = globalToken[s]
    BY <1>2, <2>1 DEF GlobalHolders
  <2>5. now' \in Nat /\ now' >= now
    BY <2>2 DEF TypeOK
  <2> QED BY <1>2, <2>3, <2>4, <2>5, GlobalLedgerKept
<1>3. ASSUME NEW r \in Requests, Start(r)
      PROVE  Ledger(GlobalHolders(l)', globalToken', globalNext'[l], Global, now')
  <2>0. globalToken[r] = Never /\ r \notin GlobalHolders(l)
    BY <1>3 DEF Start, Entitled, GlobalHolders
  <2>1. CASE limiter = 0
    <3>1. UNCHANGED <<globalNext, globalToken>>
      BY <1>3, <2>1 DEF Start
    <3>2. r \notin GlobalHolders(l)'
      BY <2>0, <3>1 DEF GlobalHolders
    <3> QED BY <1>2, <1>3, <2>0, <3>1, <3>2 DEF Moves
  <2>2. CASE limiter # 0
    <3>1. PICK act \in Nat :
            /\ act >= now /\ act >= globalNext[limiter] /\ act \in {now, globalNext[limiter]}
            /\ globalNext' = [globalNext EXCEPT ![limiter] = act + Global]
            /\ globalToken' = [globalToken EXCEPT ![r] = act]
            /\ UNCHANGED now
      BY <1>3, <2>2, GlobalReserved
    <3>2. used'[r].limiter = limiter
      BY <1>3, StartUses
    <3>3. CASE l # limiter
      <4>1. globalNext'[l] = globalNext[l] /\ r \notin GlobalHolders(l)'
        BY <3>1, <3>2, <3>3 DEF GlobalHolders, TypeOK
      <4> QED BY <1>2, <1>3, <2>0, <4>1 DEF Moves
    <3>4. CASE l = limiter
      <4>1. \A s \in Requests \ {r} : globalToken'[s] = globalToken[s] /\ used'[s] = used[s]
        BY <1>3, OthersKept, OthersTokens DEF Moves
      <4>2. globalToken'[r] = act /\ globalNext'[l] = act + Global
        BY <3>1, <3>4 DEF TypeOK
      <4>3. act # Never
        BY DEF Never
      <4>4. GlobalHolders(l)' = GlobalHolders(l) \cup {r}
        BY <2>0, <3>2, <3>4, <4>1, <4>2, <4>3 DEF GlobalHolders
      <4>5. \A s \in GlobalHolders(l) : globalToken'[s] = globalToken[s]
        BY <2>0, <4>1 DEF GlobalHolders
      <4>6. /\ Ledger(GlobalHolders(l), globalToken, globalNext[l], Global, now)
            /\ globalNext[l] \in Nat /\ now \in Nat /\ Global \in Nat
        BY TimesAssumption DEF GlobalLedger, TypeOK
      <4>7. Ledger(GlobalHolders(l) \cup {r}, globalToken', act + Global, Global, now)
        BY <2>0, <3>1, <3>4, <4>2, <4>5, <4>6, LedgerReserved
      <4> QED BY <3>1, <4>2, <4>4, <4>7
    <3> QED BY <3>3, <3>4
  <2> QED BY <2>1, <2>2
<1>4. ASSUME NEW r \in Requests,
             AfterGlobal(r) \/ AfterRule(r) \/ Acquire(r) \/ Finish(r) \/ Refuse(r)
      PROVE  Ledger(GlobalHolders(l)', globalToken', globalNext'[l], Global, now')
  <2>1. UNCHANGED <<used, globalNext, globalToken>>
    BY <1>4 DEF AfterGlobal, AfterRule, Acquire, Finish, Refuse, limits, tokens
  <2>2. r \in GlobalHolders(l) <=> r \in GlobalHolders(l)'
    BY <2>1 DEF GlobalHolders
  <2> QED BY <1>2, <1>4, <2>1, <2>2 DEF Moves
<1>5. ASSUME NEW r \in Requests, Cancel(r)
      PROVE  Ledger(GlobalHolders(l)', globalToken', globalNext'[l], Global, now')
  <2>0. used' = used
    BY <1>5 DEF Cancel
  <2>1. CASE pc[r] # "global" \/ l # used[r].limiter
    <3>1. globalNext'[l] = globalNext[l]
      BY <1>5, <2>1 DEF Cancel, TypeOK
    <3>2. pc[r] # "global" => globalToken' = globalToken
      BY <1>5 DEF Cancel
    <3>3. l # used[r].limiter => r \notin GlobalHolders(l) /\ r \notin GlobalHolders(l)'
      BY <2>0 DEF GlobalHolders
    <3>4. pc[r] # "global" => GlobalHolders(l)' = GlobalHolders(l)
      BY <2>0, <3>2 DEF GlobalHolders
    <3> QED BY <1>2, <1>5, <2>1, <3>1, <3>2, <3>3, <3>4 DEF Moves
  <2>2. CASE pc[r] = "global" /\ l = used[r].limiter
    <3>1. /\ globalToken[r] = due[r] /\ due[r] >= now /\ due[r] \in Nat
          /\ Global \in Nat \ {0} /\ globalNext[l] \in Nat /\ now \in Nat
      BY <1>5, <2>2, TimesAssumption DEF Cancel, Entitled, Progressed, TypeOK
    <3>2. r \in GlobalHolders(l)
      BY <2>2, <3>1 DEF GlobalHolders, Never
    <3>3. Ledger(GlobalHolders(l), globalToken, globalNext[l], Global, now)
      BY DEF GlobalLedger
    <3>4. CASE GlobalOvertaken(r)
      <4>1. PICK s \in GlobalHolders(l) : globalToken[s] > due[r]
        BY <2>2, <3>4 DEF GlobalOvertaken
      <4>2. globalToken[s] \in Nat /\ globalToken[s] + Global <= globalNext[l]
        BY <3>3, <4>1 DEF Ledger
      <4>3. globalNext[l] # due[r] + Global
        BY <3>1, <4>1, <4>2
      <4>4. globalNext'[l] = globalNext[l] /\ globalToken' = globalToken
        BY <1>5, <2>2, <3>4, <4>3 DEF Cancel, TakenBack, TypeOK
      <4>5. r \in GlobalHolders(l)'
        BY <2>0, <3>2, <4>4 DEF GlobalHolders
      <4> QED BY <1>2, <1>5, <3>2, <4>4, <4>5 DEF Moves
    <3>5. CASE ~ GlobalOvertaken(r)
      <4>1. \A s \in GlobalHolders(l) : ~ (globalToken[s] > globalToken[r])
        BY <2>2, <3>1, <3>5 DEF GlobalOvertaken
      <4>2. \A s \in Requests \ {r} : globalToken'[s] = globalToken[s]
        BY <1>5, OthersTokens DEF Moves
      <4>3. \A s \in GlobalHolders(l) \ {r} : globalToken'[s] = globalToken[s]
        BY <4>2 DEF GlobalHolders
      <4>4. /\ globalNext[l] = due[r] + Global
            /\ Ledger(GlobalHolders(l) \ {r}, globalToken', due[r], Global, now)
        <5>1. globalToken[r] >= now
          BY <3>1
        <5>2. /\ globalNext[l] = globalToken[r] + Global
              /\ Ledger(GlobalHolders(l) \ {r}, globalToken', globalToken[r], Global, now)
          BY <3>1, <3>2, <3>3, <4>1, <4>3, <5>1, LedgerGivenBack
        <5> QED BY <3>1, <5>2
      <4>5. globalNext'[l] = due[r] /\ globalToken'[r] = Never /\ now' = now
        BY <1>5, <2>2, <3>1, <3>5, <4>4 DEF Cancel, TakenBack, TypeOK
      <4>6. GlobalHolders(l)' = GlobalHolders(l) \ {r}
        BY <2>0, <4>2, <4>5 DEF GlobalHolders
      <4> QED BY <4>4, <4>5, <4>6
    <3> QED BY <3>4, <3>5
  <2> QED BY <2>1, <2>2
<1> QED BY <1>1, <1>3, <1>4, <1>5 DEF Next, Over

-----------------------------------------------------------------------------

RuleLedger ==
    \A k \in Keys : Ledger(RuleHolders(k), ruleToken, ruleNext[k], MinInterval[k[2]], now)

LEMMA RuleLedgerKept ==
  ASSUME TypeOK, RuleLedger, NEW k \in Keys, now' \in Nat, now' >= now,
         ruleNext'[k] = ruleNext[k], RuleHolders(k)' = RuleHolders(k),
         \A s \in RuleHolders(k) : ruleToken'[s] = ruleToken[s]
  PROVE  Ledger(RuleHolders(k)', ruleToken', ruleNext'[k], MinInterval[k[2]], now')
<1>1. /\ Ledger(RuleHolders(k), ruleToken, ruleNext[k], MinInterval[k[2]], now)
      /\ ruleNext[k] \in Nat /\ now \in Nat /\ MinInterval[k[2]] \in Nat
  BY RulesAssumption DEF RuleLedger, TypeOK, Keys
<1>2. Ledger(RuleHolders(k), ruleToken', ruleNext[k], MinInterval[k[2]], now')
  BY <1>1, LedgerKept
<1> QED BY <1>2

LEMMA RuleLedgerStep ==
  ASSUME TypeOK, TypeOK', Progressed, Entitled, RuleLedger, [Next]_vars
  PROVE  RuleLedger'
<1> SUFFICES ASSUME NEW k \in Keys
             PROVE  Ledger(RuleHolders(k)', ruleToken', ruleNext'[k], MinInterval[k[2]], now')
  BY DEF RuleLedger
<1>1. CASE SetRateLimiter \/ Tick \/ UNCHANGED vars
  <2>1. UNCHANGED <<used, ruleNext, ruleToken>> /\ now' >= now
    BY <1>1 DEF SetRateLimiter, Tick, vars, limits, tokens, TypeOK
  <2>2. now' \in Nat /\ RuleHolders(k)' = RuleHolders(k)
    BY <2>1 DEF RuleHolders, Key, KeyFor, TypeOK
  <2> QED BY <2>1, <2>2, RuleLedgerKept
<1>2. ASSUME NEW r \in Requests, Moves(r), ruleNext'[k] = ruleNext[k],
             r \in RuleHolders(k) <=> r \in RuleHolders(k)',
             r \in RuleHolders(k) => ruleToken'[r] = ruleToken[r]
      PROVE  Ledger(RuleHolders(k)', ruleToken', ruleNext'[k], MinInterval[k[2]], now')
  <2>1. \A s \in Requests \ {r} : ruleToken'[s] = ruleToken[s] /\ used'[s] = used[s]
    BY <1>2, OthersKept, OthersTokens
  <2>2. now' = now
    BY <1>2 DEF Moves, Start, AfterGlobal, AfterRule, Acquire, Finish, Refuse, Cancel
  <2>3. RuleHolders(k)' = RuleHolders(k)
    BY <1>2, <2>1 DEF RuleHolders, Key, KeyFor
  <2>4. \A s \in RuleHolders(k) : ruleToken'[s] = ruleToken[s]
    BY <1>2, <2>1 DEF RuleHolders
  <2>5. now' \in Nat /\ now' >= now
    BY <2>2 DEF TypeOK
  <2> QED BY <1>2, <2>3, <2>4, <2>5, RuleLedgerKept
<1>3. ASSUME NEW r \in Requests, Start(r)
      PROVE  Ledger(RuleHolders(k)', ruleToken', ruleNext'[k], MinInterval[k[2]], now')
  <2>1. ruleToken' = ruleToken /\ ruleNext' = ruleNext /\ ruleToken[r] = Never
    BY <1>3 DEF Start, Entitled
  <2>2. r \notin RuleHolders(k) /\ r \notin RuleHolders(k)'
    BY <2>1 DEF RuleHolders
  <2> QED BY <1>2, <1>3, <2>1, <2>2 DEF Moves
<1>4. ASSUME NEW r \in Requests,
             \/ AfterGlobal(r) /\ Interval(r) = 0
             \/ AfterRule(r) \/ Acquire(r) \/ Finish(r) \/ Refuse(r)
      PROVE  Ledger(RuleHolders(k)', ruleToken', ruleNext'[k], MinInterval[k[2]], now')
  <2>1. UNCHANGED <<used, ruleNext, ruleToken>>
    BY <1>4 DEF AfterGlobal, AfterRule, Acquire, Finish, Refuse, limits, tokens
  <2>2. r \in RuleHolders(k) <=> r \in RuleHolders(k)'
    BY <2>1 DEF RuleHolders, Key, KeyFor
  <2> QED BY <1>2, <1>4, <2>1, <2>2 DEF Moves
<1>5. ASSUME NEW r \in Requests, AfterGlobal(r), Interval(r) # 0
      PROVE  Ledger(RuleHolders(k)', ruleToken', ruleNext'[k], MinInterval[k[2]], now')
  <2>0. /\ ruleToken[r] = Never /\ r \notin RuleHolders(k)
        /\ Key(r) \in Keys /\ Interval(r) = MinInterval[Key(r)[2]] /\ used' = used
    <3>1. Limited(r) /\ Key(r) \in Keys
      BY <1>5, KeyType DEF Interval
    <3>2. Interval(r) = MinInterval[Key(r)[2]]
      BY <3>1 DEF Interval, Key, KeyFor
    <3> QED BY <1>5, <3>1, <3>2 DEF AfterGlobal, Entitled, RuleHolders
  <2>1. PICK act \in Nat :
          /\ act >= now /\ act >= ruleNext[Key(r)] /\ act \in {now, ruleNext[Key(r)]}
          /\ ruleNext' = [ruleNext EXCEPT ![Key(r)] = act + Interval(r)]
          /\ ruleToken' = [ruleToken EXCEPT ![r] = act]
          /\ UNCHANGED now
    BY <1>5, RuleReserved
  <2>2. Key(r)' = Key(r) /\ \A s \in Requests : Key(s)' = Key(s)
    BY <2>0 DEF Key, KeyFor
  <2>3. CASE k # Key(r)
    <3>1. ruleNext'[k] = ruleNext[k] /\ r \notin RuleHolders(k)'
      BY <2>1, <2>2, <2>3 DEF RuleHolders, TypeOK
    <3> QED BY <1>2, <1>5, <2>0, <3>1 DEF Moves
  <2>4. CASE k = Key(r)
    <3> DEFINE g == MinInterval[k[2]]
    <3>1. \A s \in Requests \ {r} : ruleToken'[s] = ruleToken[s]
      BY <1>5, OthersTokens DEF Moves
    <3>2. g = Interval(r) /\ g \in Nat
      BY <2>0, <2>4, IntervalType
    <3>3. ruleToken'[r] = act /\ ruleNext'[k] = act + g
      BY <2>1, <2>4, <3>2 DEF TypeOK
    <3>4. act # Never
      BY DEF Never
    <3>5. RuleHolders(k)' = RuleHolders(k) \cup {r}
      BY <2>0, <2>2, <2>4, <3>1, <3>3, <3>4 DEF RuleHolders
    <3>6. \A s \in RuleHolders(k) : ruleToken'[s] = ruleToken[s]
      BY <2>0, <3>1 DEF RuleHolders
    <3>7. /\ Ledger(RuleHolders(k), ruleToken, ruleNext[k], g, now)
          /\ ruleNext[k] \in Nat /\ now \in Nat
      BY DEF RuleLedger, TypeOK
    <3>8. act >= now /\ act >= ruleNext[k] /\ act \in {now, ruleNext[k]}
      BY <2>1, <2>4
    <3> HIDE DEF g
    <3>9. Ledger(RuleHolders(k) \cup {r}, ruleToken', act + g, g, now)
      BY <2>0, <3>2, <3>3, <3>6, <3>7, <3>8, LedgerReserved
    <3>10. Ledger(RuleHolders(k)', ruleToken', ruleNext'[k], g, now')
      BY <2>1, <3>3, <3>5, <3>9
    <3> QED BY <3>10 DEF g
  <2> QED BY <2>3, <2>4
<1>6. ASSUME NEW r \in Requests, Cancel(r)
      PROVE  Ledger(RuleHolders(k)', ruleToken', ruleNext'[k], MinInterval[k[2]], now')
  <2>0. used' = used /\ \A s \in Requests : Key(s)' = Key(s)
    BY <1>6 DEF Cancel, Key, KeyFor
  <2>1. CASE pc[r] # "rule" \/ k # Key(r)
    <3>1. ruleNext'[k] = ruleNext[k]
      BY <1>6, <2>1 DEF Cancel, TypeOK
    <3>2. pc[r] # "rule" => ruleToken' = ruleToken
      BY <1>6 DEF Cancel
    <3>3. k # Key(r) => r \notin RuleHolders(k) /\ r \notin RuleHolders(k)'
      BY <2>0 DEF RuleHolders
    <3>4. pc[r] # "rule" => RuleHolders(k)' = RuleHolders(k)
      BY <2>0, <3>2 DEF RuleHolders
    <3> QED BY <1>2, <1>6, <2>1, <3>1, <3>2, <3>3, <3>4 DEF Moves
  <2>2. CASE pc[r] = "rule" /\ k = Key(r)
    <3> DEFINE g == MinInterval[k[2]]
    <3>1. /\ ruleToken[r] = due[r] /\ due[r] >= now /\ due[r] \in Nat
          /\ ruleNext[k] \in Nat /\ now \in Nat
      BY <2>2 DEF Entitled, Progressed, TypeOK
    <3>2. g = Interval(r) /\ g \in Nat \ {0}
      <4>1. Interval(r) # 0 /\ Interval(r) \in Nat
        BY <2>2, IntervalType DEF Progressed
      <4>2. Limited(r)
        BY <4>1 DEF Interval
      <4> QED BY <2>2, <4>1, <4>2 DEF Interval, Key, KeyFor
    <3>3. r \in RuleHolders(k)
      BY <2>2, <3>1 DEF RuleHolders, Never
    <3>4. Ledger(RuleHolders(k), ruleToken, ruleNext[k], g, now)
      BY DEF RuleLedger
    <3> HIDE DEF g
    <3>5. CASE RuleOvertaken(r)
      <4>1. PICK s \in RuleHolders(k) : ruleToken[s] > due[r]
        BY <2>2, <3>5 DEF RuleOvertaken
      <4>2. ruleToken[s] \in Nat /\ ruleToken[s] + g <= ruleNext[k]
        BY <3>4, <4>1 DEF Ledger
      <4>3. ruleNext[k] # due[r] + Interval(r)
        BY <3>1, <3>2, <4>1, <4>2
      <4>4. ruleNext'[k] = ruleNext[k] /\ ruleToken' = ruleToken
        BY <1>6, <2>2, <3>5, <4>3 DEF Cancel, TakenBack, TypeOK
      <4>5. r \in RuleHolders(k)'
        BY <2>0, <3>3, <4>4 DEF RuleHolders
      <4> QED BY <1>2, <1>6, <3>3, <4>4, <4>5 DEF Moves
    <3>6. CASE ~ RuleOvertaken(r)
      <4>1. \A s \in RuleHolders(k) : ~ (ruleToken[s] > ruleToken[r])
        BY <2>2, <3>1, <3>6 DEF RuleOvertaken
      <4>2. \A s \in Requests \ {r} : ruleToken'[s] = ruleToken[s]
        BY <1>6, OthersTokens DEF Moves
      <4>3. \A s \in RuleHolders(k) \ {r} : ruleToken'[s] = ruleToken[s]
        BY <4>2 DEF RuleHolders
      <4>4. /\ ruleNext[k] = due[r] + g
            /\ Ledger(RuleHolders(k) \ {r}, ruleToken', due[r], g, now)
        <5>1. ruleToken[r] >= now /\ ruleNext[k] \in Nat /\ now \in Nat /\ g \in Nat \ {0}
          BY <3>1, <3>2
        <5>2. /\ ruleNext[k] = ruleToken[r] + g
              /\ Ledger(RuleHolders(k) \ {r}, ruleToken', ruleToken[r], g, now)
          BY <3>3, <3>4, <4>1, <4>3, <5>1, LedgerGivenBack
        <5> QED BY <3>1, <5>2
      <4>5. ruleNext'[k] = due[r] /\ ruleToken'[r] = Never /\ now' = now
        <5>1. TakenBack(ruleNext[k], r, Interval(r)) = due[r]
          BY <3>1, <3>2, <4>4 DEF TakenBack
        <5>2. /\ ruleNext' = [ruleNext EXCEPT ![k] = TakenBack(@, r, Interval(r))]
              /\ ruleToken' = [ruleToken EXCEPT ![r] = Never] /\ now' = now
          BY <1>6, <2>2, <3>6 DEF Cancel
        <5> QED BY <5>1, <5>2 DEF TypeOK
      <4>6. RuleHolders(k)' = RuleHolders(k) \ {r}
        BY <2>0, <4>2, <4>5 DEF RuleHolders
      <4>7. Ledger(RuleHolders(k)', ruleToken', ruleNext'[k], g, now')
        BY <4>4, <4>5, <4>6
      <4> QED BY <4>7 DEF g
    <3> QED BY <3>5, <3>6
  <2> QED BY <2>1, <2>2
<1>7. ASSUME NEW r \in Requests, AfterGlobal(r)
      PROVE  Ledger(RuleHolders(k)', ruleToken', ruleNext'[k], MinInterval[k[2]], now')
  BY <1>4, <1>5, <1>7
<1> QED BY <1>1, <1>3, <1>4, <1>6, <1>7 DEF Next, Over

-----------------------------------------------------------------------------

Accounted == Entitled /\ GlobalLedger /\ RuleLedger

\* A delay ends an interval after a token that another took and did not give back:
\* nothing is charged for a wait that was refused, or cancelled as the last.
THEOREM DelaysCaused == Spec => []DelaysHaveCause
<1>1. Init => Accounted
  <2> SUFFICES ASSUME Init PROVE Accounted
    OBVIOUS
  <2>1. Entitled
    BY DEF Init, Entitled
  <2>2. /\ \A l \in Limiters : GlobalHolders(l) = {} /\ globalNext[l] = 0
        /\ \A k \in Keys : RuleHolders(k) = {} /\ ruleNext[k] = 0
        /\ now = 0
    BY DEF Init, GlobalHolders, RuleHolders
  <2>3. GlobalLedger
    BY <2>2 DEF GlobalLedger, Ledger
  <2>4. RuleLedger
    BY <2>2 DEF RuleLedger, Ledger
  <2> QED BY <2>1, <2>3, <2>4 DEF Accounted
<1>2. Pacing /\ Pacing' /\ Accounted /\ [Next]_vars => Accounted'
  BY EntitledStep, GlobalLedgerStep, RuleLedgerStep DEF Pacing, Accounted
<1>3. Pacing /\ Accounted => DelaysHaveCause
  <2> SUFFICES ASSUME Pacing, Accounted, NEW r \in Requests, due[r] > now
               PROVE  /\ pc[r] = "global" =>
                           \E s \in GlobalHolders(used[r].limiter) :
                               globalToken[s] = due[r] - Global
                      /\ pc[r] = "rule" =>
                           \E s \in RuleHolders(Key(r)) : ruleToken[s] = due[r] - Interval(r)
    BY DEF DelaysHaveCause
  <2>0. TypeOK /\ Progressed /\ Entitled /\ GlobalLedger /\ RuleLedger
    BY DEF Pacing, Accounted
  <2>1. ASSUME pc[r] = "global"
        PROVE  \E s \in GlobalHolders(used[r].limiter) : globalToken[s] = due[r] - Global
    <3>1. globalToken[r] = due[r] /\ due[r] \in Nat /\ used[r].limiter \in Limiters
      BY <2>0, <2>1 DEF Entitled, TypeOK
    <3>2. r \in GlobalHolders(used[r].limiter)
      BY <3>1 DEF GlobalHolders, Never
    <3> QED BY <2>0, <3>1, <3>2 DEF GlobalLedger, Ledger
  <2>2. ASSUME pc[r] = "rule"
        PROVE  \E s \in RuleHolders(Key(r)) : ruleToken[s] = due[r] - Interval(r)
    <3>1. ruleToken[r] = due[r] /\ due[r] \in Nat /\ Limited(r)
      BY <2>0, <2>2 DEF Entitled, Progressed, Interval, TypeOK
    <3>2. Key(r) \in Keys /\ Interval(r) = MinInterval[Key(r)[2]]
      BY <2>0, <3>1, KeyType DEF Interval, Key, KeyFor
    <3>3. r \in RuleHolders(Key(r))
      BY <3>1 DEF RuleHolders, Never
    <3> QED BY <2>0, <3>1, <3>2, <3>3 DEF RuleLedger, Ledger
  <2> QED BY <2>1, <2>2
<1> QED BY <1>1, <1>2, <1>3, PacingInvariant, PTL DEF Spec

=============================================================================
