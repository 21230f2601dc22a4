------------------------------ MODULE RateRules ------------------------------
(***************************************************************************)
(* Which rate limit rule a request meets: normalizeRules, matchRule and    *)
(* stripQuery of rate_limit.go.  A path is a sequence of pieces, cut where *)
(* a prefix may end, be it inside a segment; "?" is the piece that begins  *)
(* a query.  Among the prefixes of one path, more pieces are more          *)
(* characters.                                                             *)
(***************************************************************************)
EXTENDS Integers, Sequences

RateLimitRules ==
    [method : STRING, prefix : Seq(STRING), minInterval : Nat, maxConcurrent : Nat,
     perAccount : BOOLEAN]
RateLimitRule(method, prefix, minInterval, maxConcurrent, perAccount) ==
    [method |-> method, prefix |-> prefix, minInterval |-> minInterval,
     maxConcurrent |-> maxConcurrent, perAccount |-> perAccount]

ToUpper(method) == IF method = "get" THEN "GET" ELSE IF method = "post" THEN "POST" ELSE method

Upper(rule) == [rule EXCEPT !.method = ToUpper(@)]

\* The list after each turn of the loop.  A rule without a prefix is dropped,
\* rather than matching every request.
KeptOf(rules) ==
    LET out[i \in 0..Len(rules)] ==
            IF i = 0 THEN <<>>
            ELSE IF rules[i].prefix = <<>> THEN out[i - 1]
            ELSE Append(out[i - 1], Upper(rules[i]))
    IN out
normalizeRules(rules) == KeptOf(rules)[Len(rules)]

stripQuery(path) ==
    LET before(n) == n < Len(path) /\ path[n + 1] = "?" /\ \A i \in 1..n : path[i] # "?"
    IN IF \E i \in DOMAIN path : path[i] = "?"
       THEN SubSeq(path, 1, CHOOSE n \in 0..Len(path) : before(n)) ELSE path

HasPrefix(path, prefix) == Len(prefix) <= Len(path) /\ SubSeq(path, 1, Len(prefix)) = prefix

\* A rule without a method is about every method.
Fits(rule, method, path) ==
    rule.method \in {"", ToUpper(method)} /\ HasPrefix(stripQuery(path), rule.prefix)

\* Mutant: the loop stops at the first rule that fits.
FirstOf(rules, method, path) ==
    LET best[i \in 0..Len(rules)] ==
            IF i = 0 THEN 0
            ELSE IF best[i - 1] = 0 /\ Fits(rules[i], method, path) THEN i ELSE best[i - 1]
    IN best

\* The place of the best rule after each turn of the loop; 0 is no rule, whose
\* bestLen is -1.
BestOf(rules, method, path) ==
    LET best[i \in 0..Len(rules)] ==
            IF i = 0 THEN 0
            ELSE IF Fits(rules[i], method, path)
                    /\ (best[i - 1] = 0 \/ Len(rules[i].prefix) > Len(rules[best[i - 1]].prefix))
                 THEN i
            ELSE best[i - 1]
    IN best

matchRule(rules, method, path) == BestOf(rules, method, path)[Len(rules)]

=============================================================================
