----------------------------- MODULE FlexProofs -----------------------------
(***************************************************************************)
(* Proofs about Flex, for any number of tries and any delays: its types    *)
(* and the bound on polls, the pauses between polls, and what a download   *)
(* that gave up has waited for and has heard.                              *)
(***************************************************************************)
EXTENDS Flex, TLAPS

\* The time of the poll number k, at the earliest.
Promised(k) == begun + k * RetryDelay

\* What each place of Download knows about its polls and its pauses.
BeforePolls == pc \in {"new", "request"} => begun = Never /\ try = 0 /\ heard.times = 0

ReadyToPoll ==
    pc = "ready" =>
        /\ answer = "none" /\ heard.times = try
        /\ begun = Never => try = 0
        /\ begun # Never => now >= Promised(try)
        /\ try > 0 => now >= heard.at + Delay(heard.code)

InPoll ==
    pc = "poll" =>
        /\ begun # Never /\ sent >= Promised(try) /\ sent <= now
        /\ answer # "reference" /\ heard.times = try
        /\ try > 0 => sent >= heard.at + Delay(heard.code)
        /\ (answer \in Transient /\ readyAt # Never /\ ~refused) => readyAt >= sent

InPause ==
    pc = "pause" =>
        /\ begun # Never /\ answer = "none" /\ wake >= Promised(try + 1)
        /\ heard.times = try + 1 /\ lastErr = heard.code /\ lastErr \in Transient
        /\ wake >= heard.at + Delay(heard.code)
        /\ now >= Promised(try)
        /\ (readyAt # Never /\ ~refused) => readyAt >= Promised(try)

AfterPolls ==
    /\ pc # "done" => outcome = NoOutcome
    /\ outcome.result = "unfinished" =>
        /\ now >= Promised(MaxTries - 1)
        /\ (readyAt # Never /\ ~refused) => readyAt >= Promised(MaxTries - 1)

\* The inductive invariant.
Accounted ==
    /\ TypeOK /\ BeforePolls /\ ReadyToPoll /\ InPoll /\ InPause /\ AfterPolls
    /\ TransientsExhausted

LEMMA NextMultiple ==
    ASSUME NEW k \in Nat
    PROVE  k * RetryDelay \in Nat /\ (k + 1) * RetryDelay = k * RetryDelay + RetryDelay
BY DelaysAssumption

LEMMA DelayBounds ==
    ASSUME NEW code
    PROVE  Delay(code) \in Nat /\ Delay(code) >= RetryDelay
BY DelaysAssumption DEF Delay

LEMMA AccountedInit == Init => Accounted
<1> SUFFICES ASSUME Init PROVE Accounted
    OBVIOUS
<1>1. TypeOK
    <2>1. heard \in [code : Transient \cup {"none"}, at : Nat \cup {Never}, times : Nat]
        BY DEF Init
    <2>2. try \in 0..MaxTries /\ now \in Nat /\ wake \in Nat
        BY DelaysAssumption DEF Init
    <2>3. outcome \in Outcomes
        BY DEF Init, Outcomes, NoOutcome
    <2> QED BY <2>1, <2>2, <2>3 DEF Init, TypeOK
<1>2. BeforePolls /\ ReadyToPoll /\ InPoll /\ InPause
    BY DEF Init, BeforePolls, ReadyToPoll, InPoll, InPause
<1>3. AfterPolls /\ TransientsExhausted
    BY DEF Init, AfterPolls, TransientsExhausted, NoOutcome, Transient
<1> QED BY <1>1, <1>2, <1>3 DEF Accounted

-----------------------------------------------------------------------------

\* What a download that ends leaves behind.
LEMMA ReturnKeeps ==
    ASSUME Accounted, NEW result \in {"report", "failed", "cancelled"},
           NEW code \in Transient \cup {"none", "error"}, Return(result, code),
           answer' = "none" \/ UNCHANGED answer,
           code \in Transient => begun = Never
    PROVE  Accounted'
<1> USE DEF Accounted, Return, server, history
<1>1. TypeOK'
    BY DEF TypeOK, Outcomes
<1>2. BeforePolls' /\ ReadyToPoll' /\ InPoll' /\ InPause'
    BY DEF BeforePolls, ReadyToPoll, InPoll, InPause
<1>3. AfterPolls' /\ TransientsExhausted'
    BY DEF AfterPolls, TransientsExhausted
<1> QED BY <1>1, <1>2, <1>3

\* The server and the clock.
LEMMA OutsideKeeps ==
    ASSUME Accounted, Generate \/ Serve \/ EndContext \/ Tick PROVE Accounted'
<1> USE DelaysAssumption DEF Accounted, TypeOK
<1>0. \A k \in Nat : k * RetryDelay \in Nat
    BY NextMultiple
<1>1. CASE Generate
    <2> USE <1>1 DEF Generate, history, Never
    <2>1. TypeOK' /\ BeforePolls' /\ ReadyToPoll' /\ TransientsExhausted'
        BY DEF BeforePolls, ReadyToPoll, TransientsExhausted, Promised
    <2>2. InPoll' /\ InPause' /\ AfterPolls'
        BY DEF InPoll, InPause, AfterPolls, Promised
    <2> QED BY <2>1, <2>2
<1>2. CASE Serve
    <2> USE <1>2 DEF Serve, history, Transient
    <2>1. TypeOK' /\ BeforePolls' /\ ReadyToPoll' /\ TransientsExhausted'
        BY DEF BeforePolls, ReadyToPoll, TransientsExhausted, Promised
    <2>2. InPoll'
        BY DEF InPoll, Promised
    <2>3. InPause' /\ AfterPolls'
        BY DEF InPause, AfterPolls, Promised
    <2> QED BY <2>1, <2>2, <2>3
<1>3. CASE EndContext
    BY <1>3 DEF EndContext, server, history, BeforePolls, ReadyToPoll, InPoll, InPause,
        AfterPolls, TransientsExhausted, Promised
<1>4. CASE Tick
    <2> USE <1>4 DEF Tick, server, history
    <2>1. TypeOK' /\ BeforePolls' /\ TransientsExhausted'
        BY DEF BeforePolls, TransientsExhausted
    <2>2. ReadyToPoll'
        <3>1. Promised(try)' = Promised(try) /\ (begun # Never => Promised(try) \in Int)
            BY <1>0 DEF Promised
        <3>2. try > 0 => heard.at + Delay(heard.code) \in Int
            BY DelayBounds DEF Never
        <3> QED BY <3>1, <3>2 DEF ReadyToPoll, Never
    <2>3. InPoll' /\ InPause' /\ AfterPolls'
        <3>1. MaxTries - 1 \in Nat /\ try \in Nat
            OBVIOUS
        <3>2. \A k \in Nat : Promised(k) \in Int /\ Promised(k)' = Promised(k)
            BY <1>0 DEF Promised, Never
        <3> QED BY <3>1, <3>2 DEF InPoll, InPause, AfterPolls
    <2> QED BY <2>1, <2>2, <2>3
<1> QED BY <1>1, <1>2, <1>3, <1>4

\* The request for the report.
LEMMA RequestKeeps == ASSUME Accounted, SendRequest \/ Requested PROVE Accounted'
<1>1. CASE SendRequest
    BY <1>1 DEF SendRequest, server, history, Accounted, TypeOK, BeforePolls, ReadyToPoll,
        InPoll, InPause, AfterPolls, TransientsExhausted, Promised
<1>2. CASE Requested /\ answer = "reference"
    BY <1>2, DelaysAssumption DEF Requested, server, history, Accounted, TypeOK, BeforePolls,
        ReadyToPoll, InPoll, InPause, AfterPolls, TransientsExhausted, Promised
<1>3. CASE Requested /\ answer # "reference"
    <2>1. ReturnAnswer /\ answer' = "none" /\ begun = Never
        BY <1>3 DEF Requested, Accounted, BeforePolls
    <2>2. answer = "report" \/ answer \in Transient \cup {"none", "error"}
        BY <1>3 DEF Accounted, TypeOK
    <2> QED BY <2>1, <2>2, ReturnKeeps DEF ReturnAnswer, Transient
<1> QED BY <1>1, <1>2, <1>3

\* A poll is sent.
LEMMA GetStatementKeeps == ASSUME Accounted, GetStatement PROVE Accounted'
<1> USE DelaysAssumption DEF Accounted, TypeOK, GetStatement, server, Never
<1>1. TypeOK' /\ BeforePolls' /\ ReadyToPoll' /\ InPause'
    BY DEF BeforePolls, ReadyToPoll, InPause
<1>2. InPoll'
    <2>1. sent' = now /\ begun' # Never /\ now \in Nat
        OBVIOUS
    <2>2. now >= begun' + try * RetryDelay
        <3>1. CASE begun = Never
            <4>1. try = 0 /\ begun' = now
                BY <3>1 DEF ReadyToPoll
            <4> QED BY <4>1
        <3>2. CASE begun # Never
            BY <3>2 DEF ReadyToPoll, Promised
        <3> QED BY <3>1, <3>2
    <2>3. answer' \notin Transient
        BY DEF ReadyToPoll, Transient
    <2> QED BY <2>1, <2>2, <2>3 DEF InPoll, ReadyToPoll, Promised
<1>3. AfterPolls' /\ TransientsExhausted'
    BY DEF AfterPolls, TransientsExhausted, NoOutcome, Transient
<1> QED BY <1>1, <1>2, <1>3

\* A poll is answered.
LEMMA PolledKeeps == ASSUME Accounted, Polled PROVE Accounted'
<1>1. CASE answer \in Transient
    <2> USE <1>1, DelaysAssumption DEF Accounted, TypeOK, Polled, server
    <2>1. /\ Delay(answer) \in Nat /\ Delay(answer) >= RetryDelay
          /\ try * RetryDelay \in Nat /\ (try + 1) * RetryDelay = try * RetryDelay + RetryDelay
        BY DelayBounds, NextMultiple
    <2>2. /\ pc = "poll" /\ pc' = "pause" /\ answer' = "none" /\ wake' = now + Delay(answer)
          /\ heard' = [code |-> answer, at |-> now, times |-> heard.times + 1]
          /\ lastErr' = answer /\ heard.times = try
          /\ UNCHANGED <<now, over, try, outcome, readyAt, refused, sent, begun>>
        BY DEF InPoll
    <2>3. TypeOK'
        <3>1. /\ heard' \in [code : Transient \cup {"none"}, at : Nat \cup {Never}, times : Nat]
              /\ wake' \in Nat
            BY <2>1, <2>2
        <3> QED BY <2>2, <3>1
    <2>4. InPause'
        <3>1. /\ begun # Never /\ begun \in Nat /\ sent \in Int /\ sent <= now
              /\ sent >= begun + try * RetryDelay
            BY <2>1, <2>2 DEF InPoll, Promised, Never
        <3>2. wake' >= heard'.at + Delay(heard'.code)
            BY <2>1, <2>2
        <3>3. now >= begun + try * RetryDelay
            BY <2>1, <3>1
        <3>4. wake' >= begun + (try + 1) * RetryDelay
            BY <2>1, <2>2, <3>3, <3>1
        <3>5. (readyAt # Never /\ ~refused) => readyAt >= begun + try * RetryDelay
            BY <2>1, <2>2, <3>1 DEF InPoll, Never
        <3> QED BY <2>2, <3>1, <3>2, <3>3, <3>4, <3>5 DEF InPause, Promised
    <2>5. BeforePolls' /\ ReadyToPoll' /\ InPoll' /\ AfterPolls' /\ TransientsExhausted'
        BY <2>2 DEF BeforePolls, ReadyToPoll, InPoll, AfterPolls, TransientsExhausted,
            Transient
    <2> QED BY <2>3, <2>4, <2>5
<1>2. CASE answer \notin Transient
    <2>1. /\ ReturnAnswer /\ answer' = "none"
          /\ answer \in {"none", "report", "error"}
        BY <1>2 DEF Polled, Accounted, TypeOK, InPoll
    <2> QED BY <1>2, <2>1, ReturnKeeps DEF ReturnAnswer, Transient
<1> QED BY <1>1, <1>2

\* A pause is over.
LEMMA AwakeKeeps == ASSUME Accounted, Awake PROVE Accounted'
<1> USE DelaysAssumption DEF Accounted, TypeOK
<1>1. /\ pc = "pause" /\ wake <= now /\ try' = try + 1 /\ answer = "none" /\ try < MaxTries
      /\ heard.times = try + 1 /\ lastErr = heard.code /\ lastErr \in Transient
      /\ UNCHANGED <<now, over, answer, wake, lastErr, readyAt, refused, sent, begun, heard>>
    BY DEF Awake, server, history, InPause
<1>2. /\ now \in Nat /\ wake \in Nat /\ begun \in Nat /\ begun # Never
      /\ (try + 1) * RetryDelay \in Nat /\ try * RetryDelay \in Nat
      /\ now >= begun + (try + 1) * RetryDelay /\ now >= begun + try * RetryDelay
      /\ (readyAt # Never /\ ~refused) => readyAt >= begun + try * RetryDelay
    BY <1>1, NextMultiple DEF InPause, Promised, Never
<1>3. now >= heard.at + Delay(heard.code)
    <2>1. heard.at \in Int /\ Delay(heard.code) \in Nat
        BY DelayBounds DEF Never
    <2> QED BY <1>1, <1>2, <2>1 DEF InPause
<1>4. CASE try' < MaxTries
    <2>1. pc' = "ready" /\ UNCHANGED outcome
        BY <1>4 DEF Awake
    <2> QED
        BY <1>1, <1>2, <1>3, <1>4, <2>1
        DEF BeforePolls, ReadyToPoll, InPoll, InPause, AfterPolls, TransientsExhausted, Promised
<1>5. CASE ~(try' < MaxTries)
    <2>1. pc' = "done" /\ outcome' = Unfinished /\ try = MaxTries - 1
        BY <1>1, <1>5 DEF Awake
    <2>2. TypeOK'
        BY <1>1, <2>1 DEF Outcomes, Unfinished
    <2>3. AfterPolls' /\ TransientsExhausted'
        BY <1>1, <1>2, <2>1 DEF AfterPolls, TransientsExhausted, Unfinished, Promised
    <2> QED BY <2>1, <2>2, <2>3 DEF BeforePolls, ReadyToPoll, InPoll, InPause
<1> QED BY <1>4, <1>5

\* The context ends in a request or in a pause.
LEMMA CancelKeeps == ASSUME Accounted, Abort \/ SleepCut PROVE Accounted'
<1>1. Return("cancelled", "none") /\ (answer' = "none" \/ UNCHANGED answer)
    BY DEF Abort, SleepCut
<1> QED BY <1>1, ReturnKeeps DEF Transient

LEMMA AccountedStep == Accounted /\ [Next]_vars => Accounted'
<1> SUFFICES ASSUME Accounted, [Next]_vars PROVE Accounted'
    OBVIOUS
<1>1. CASE Done \/ UNCHANGED vars
    BY <1>1 DEF Done, vars, server, history, Accounted, TypeOK, BeforePolls, ReadyToPoll,
        InPoll, InPause, AfterPolls, TransientsExhausted, Promised
<1> QED
    BY <1>1, OutsideKeeps, RequestKeeps, GetStatementKeeps, PolledKeeps, AwakeKeeps, CancelKeeps
    DEF Next, Download

LEMMA AccountedInvariant == Spec => []Accounted
BY AccountedInit, AccountedStep, PTL DEF Spec

-----------------------------------------------------------------------------

\* The types of a download's variables, and at most MaxTries polls.
THEOREM DownloadTypeCorrect == Spec => []TypeOK
<1>1. Accounted => TypeOK
    BY DEF Accounted
<1> QED BY <1>1, AccountedInvariant, PTL

\* A poll waits for the delay that the answer to the one before it asks for.
THEOREM PollsApart == Spec => []PollsSpaced
<1>1. Accounted => PollsSpaced
    BY DEF Accounted, InPoll, PollsSpaced, Delay
<1> QED BY <1>1, AccountedInvariant, PTL

\* A download that gives up on a report that the server has, and did not refuse,
\* has waited for it as long as it promises to.
THEOREM GivesUpLate == Spec => []GaveUpLate
<1>1. Accounted => GaveUpLate
    BY DEF Accounted, AfterPolls, GaveUpLate, Promised
<1> QED BY <1>1, AccountedInvariant, PTL

\* Once polling has begun, a transient code reaches the caller only after every
\* poll met one, as the code of the last, and a download that gave up tells one.
THEOREM GivesUpWithLastCode == Spec => []TransientsExhausted
<1>1. Accounted => TransientsExhausted
    BY DEF Accounted
<1> QED BY <1>1, AccountedInvariant, PTL

=============================================================================
