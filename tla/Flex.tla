-------------------------------- MODULE Flex --------------------------------
(***************************************************************************)
(* Download of a report from the Flex Web Service (flex/flex.go): ask for  *)
(* it with SendRequest, then poll GetStatement with the reference that     *)
(* came back until the report has been generated.  A poll that is answered *)
(* with a transient code is repeated after a pause, at most MaxTries       *)
(* times; everything else ends the download.  The context may end at any   *)
(* time, during a request or during a pause.                               *)
(*                                                                         *)
(* Answers are reduced to what Download tells apart: the codes that mean   *)
(* "try again shortly", the one that means "too many requests", and any    *)
(* other error: codes, statuses, bodies that do not parse, connections     *)
(* that break.  Two downloads of one client share nothing but constants,   *)
(* so one is modelled.  ensureDefaults makes those positive.               *)
(***************************************************************************)
EXTENDS Integers

CONSTANTS
    MaxTries,       \* polls of one download
    RetryDelay,     \* pause after "try again shortly"
    ThrottleDelay,  \* pause after "too many requests"
    MaxTime         \* bound: the clock stops here unless a pause is under way

ASSUME DelaysAssumption ==
    /\ MaxTries \in Nat \ {0} /\ MaxTime \in Nat
    /\ RetryDelay \in Nat \ {0} /\ ThrottleDelay \in Nat /\ RetryDelay <= ThrottleDelay

VARIABLES
    now,      \* the clock
    over,     \* the context has ended
    pc,       \* "new", "request" (sent), "ready" to poll, "poll" (sent), "pause", "done"
    answer,   \* what the server answered to the request that is under way
    try,      \* the loop counter of Download
    wake,     \* when the pause ends
    lastErr,  \* the transient code that Download keeps of the last poll
    outcome,  \* what Download returned, with the code its error wraps
    readyAt,  \* external: when the report was generated
    sent,     \* auxiliary: when the last poll was sent
    begun,    \* auxiliary: when the first poll was sent
    heard,    \* auxiliary: the last transient answer to a poll, when it came, how many there were
    refused   \* auxiliary: a poll for a report that was ready got a transient answer

server == <<readyAt, refused>>
history == <<sent, begun, heard>>
vars == <<now, over, pc, answer, try, wake, lastErr, outcome, server, history>>

Never == -1
Transient == {"soon", "throttled"}
NoOutcome == [result |-> "none", code |-> "none"]
Outcomes == [result : {"none", "report", "failed", "cancelled", "unfinished"},
             code : Transient \cup {"none", "error"}]

\* Mutant: the two delays are swapped.
DelaySwapped(code) == IF code = "throttled" THEN RetryDelay ELSE ThrottleDelay

\* retrySoon and throttled choose the delay; other codes have none.
Delay(code) == IF code = "throttled" THEN ThrottleDelay ELSE RetryDelay

Init ==
    /\ now = 0 /\ over = FALSE /\ pc = "new" /\ answer = "none" /\ try = 0 /\ wake = 0
    /\ lastErr = "none" /\ outcome = NoOutcome /\ readyAt = Never /\ refused = FALSE
    /\ sent = Never /\ begun = Never /\ heard = [code |-> "none", at |-> Never, times |-> 0]

\* Download returns; code is that of the error it returns or wraps.
Return(result, code) ==
    /\ pc' = "done" /\ outcome' = [result |-> result, code |-> code]
    /\ UNCHANGED <<now, over, try, wake, lastErr, server, history>>

\* It returns the report, or the error that the server answered with.
ReturnAnswer ==
    IF answer = "report" THEN Return("report", "none") ELSE Return("failed", answer)

-----------------------------------------------------------------------------
(* The server.                                                             *)

Generate ==
    /\ readyAt = Never /\ (pc = "ready" \/ begun # Never \/ answer = "reference")
    /\ readyAt' = now
    /\ UNCHANGED <<now, over, pc, answer, try, wake, lastErr, outcome, refused, history>>

\* The server answers, or the connection fails.
Serve ==
    /\ pc \in {"request", "poll"} /\ answer = "none"
    /\ answer' \in Transient \cup {"error"}
                     \cup (IF pc = "request" THEN {"reference"} ELSE {})
                     \cup (IF pc = "poll" /\ readyAt # Never THEN {"report"} ELSE {})
    /\ refused' = (refused \/ (readyAt # Never /\ answer' \in Transient))
    /\ UNCHANGED <<now, over, pc, try, wake, lastErr, outcome, readyAt, history>>

EndContext == ~over /\ over' = TRUE
              /\ UNCHANGED <<now, pc, answer, try, wake, lastErr, outcome, server, history>>

-----------------------------------------------------------------------------
(* The client.                                                             *)

\* A request whose context is over before it is sent, or before its answer was
\* read, fails.
Abort ==
    /\ over /\ pc \in {"new", "request", "ready", "poll"}
    /\ answer' = "none"
    /\ Return("cancelled", "none")

SendRequest ==
    /\ pc = "new" /\ ~over
    /\ pc' = "request"
    /\ UNCHANGED <<now, over, answer, try, wake, lastErr, outcome, server, history>>

\* Any error of SendRequest, a transient code included, ends the download.
Requested ==
    /\ pc = "request" /\ answer # "none"
    /\ answer' = "none"
    /\ IF answer = "reference"
       THEN pc' = "ready" /\ UNCHANGED <<now, over, try, wake, lastErr, outcome, server, history>>
       ELSE ReturnAnswer

GetStatement ==
    /\ pc = "ready" /\ ~over
    /\ pc' = "poll" /\ sent' = now /\ begun' = IF begun = Never THEN now ELSE begun
    /\ UNCHANGED <<now, over, answer, try, wake, lastErr, outcome, server, heard>>

\* Mutant: the throttled code is not looked for.
PolledUnthrottled ==
    /\ pc = "poll" /\ answer # "none"
    /\ answer' = "none"
    /\ IF answer = "soon"
       THEN /\ pc' = "pause" /\ wake' = now + Delay(answer)
            /\ lastErr' = answer
            /\ heard' = [code |-> answer, at |-> now, times |-> heard.times + 1]
            /\ UNCHANGED <<now, over, try, outcome, server, sent, begun>>
       ELSE ReturnAnswer

\* The answer to a poll: pause, or return the report or the error.
Polled ==
    /\ pc = "poll" /\ answer # "none"
    /\ answer' = "none"
    /\ IF answer \in Transient
       THEN /\ pc' = "pause" /\ wake' = now + Delay(answer)
            /\ lastErr' = answer
            /\ heard' = [code |-> answer, at |-> now, times |-> heard.times + 1]
            /\ UNCHANGED <<now, over, try, outcome, server, sent, begun>>
       ELSE ReturnAnswer

\* Too many tries: the error wraps the transient one that the last poll met.
Unfinished == [result |-> "unfinished", code |-> lastErr]

\* Mutant: the bound is tested before the counter goes up.
AwakeOnceMore ==
    /\ pc = "pause" /\ wake <= now
    /\ try' = try + 1
    /\ IF try < MaxTries THEN pc' = "ready" /\ UNCHANGED outcome
                         ELSE pc' = "done" /\ outcome' = Unfinished
    /\ UNCHANGED <<now, over, answer, wake, lastErr, server, history>>

\* Mutant: one try too few.
AwakeOnceLess ==
    /\ pc = "pause" /\ wake <= now
    /\ try' = try + 1
    /\ IF try' + 1 < MaxTries THEN pc' = "ready" /\ UNCHANGED outcome
                              ELSE pc' = "done" /\ outcome' = Unfinished
    /\ UNCHANGED <<now, over, answer, wake, lastErr, server, history>>

\* Mutant: sleepContext waits for the context only.
AwakeByContext == FALSE /\ UNCHANGED vars

\* The pause is over, after the last try too.
Awake ==
    /\ pc = "pause" /\ wake <= now
    /\ try' = try + 1
    /\ IF try' < MaxTries THEN pc' = "ready" /\ UNCHANGED outcome
                          ELSE pc' = "done" /\ outcome' = Unfinished
    /\ UNCHANGED <<now, over, answer, wake, lastErr, server, history>>

\* sleepContext returns early when the context ends, and may also do so when
\* both have happened.
SleepCut == pc = "pause" /\ over /\ UNCHANGED answer /\ Return("cancelled", "none")

Tick ==
    /\ now < MaxTime \/ (pc = "pause" /\ now < wake)
    /\ now' = now + 1
    /\ UNCHANGED <<over, pc, answer, try, wake, lastErr, outcome, server, history>>

Done == pc = "done" /\ UNCHANGED vars

Download == SendRequest \/ Requested \/ GetStatement \/ Polled \/ Awake \/ SleepCut \/ Abort

Next == Generate \/ Serve \/ EndContext \/ Tick \/ Done \/ Download

Spec == Init /\ [][Next]_vars

\* The clock runs, Download goes on when it can, and a request is answered or
\* its connection fails.  A report need not be generated, nor a context end.
FairSpec == Spec /\ WF_vars(Tick) /\ WF_vars(Serve) /\ WF_vars(Download)

-----------------------------------------------------------------------------

\* Every variable keeps its shape, and no more than MaxTries polls are made.
TypeOK ==
    /\ now \in Nat /\ over \in BOOLEAN /\ refused \in BOOLEAN
    /\ pc \in {"new", "request", "ready", "poll", "pause", "done"}
    /\ answer \in Transient \cup {"none", "reference", "report", "error"}
    /\ try \in 0..MaxTries /\ (pc \in {"ready", "poll", "pause"} => try < MaxTries)
    /\ wake \in Nat /\ lastErr \in Transient \cup {"none"} /\ outcome \in Outcomes
    /\ readyAt \in Nat \cup {Never} /\ sent \in Nat \cup {Never} /\ begun \in Nat \cup {Never}
    /\ heard \in [code : Transient \cup {"none"}, at : Nat \cup {Never}, times : Nat]

\* After a transient answer the server is left alone for as long as its code
\* asks: the next poll comes no sooner.
PollsSpaced ==
    (pc = "poll" /\ try > 0) => sent >= heard.at + (IF heard.code = "throttled" THEN ThrottleDelay
                                                                               ELSE RetryDelay)

\* Download gives up on a report only when all that MaxTries polls promise was
\* waited for: the report was generated later than the last of them can have
\* been sent, or the server refused it although it was there.
GaveUpLate ==
    (outcome.result = "unfinished" /\ readyAt # Never)
        => refused \/ readyAt >= begun + (MaxTries - 1) * RetryDelay

\* A code that asks to be tried again reaches the caller from the request for
\* the report, or, once polling has begun, inside the error that tells that the
\* report did not finish: then every one of MaxTries polls met such a code, and
\* the caller gets that of the last.  An error of that kind always has one.
TransientsExhausted ==
    /\ outcome.result = "unfinished" => outcome.code \in Transient
    /\ (outcome.code \in Transient /\ begun # Never)
            => heard.times = MaxTries /\ heard.code = outcome.code

\* Every download ends, although the report may never be generated and the
\* context may last for ever.
Ends == <>(pc = "done")

=============================================================================
