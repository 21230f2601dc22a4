------------------------------- MODULE Probe -------------------------------
(***************************************************************************)
(* One run of cmd/ibclientportal-mdprobe: a baseline snapshot of one       *)
(* contract, a websocket stream that subscribes to many, a snapshot of the *)
(* same contract while they are held, and the clean-up.  Each of these     *)
(* takes market data lines of the account, which the gateway holds until   *)
(* it is told to let go.  The operator may press Ctrl-C at any time, which *)
(* cancels the context of the run.  The report compares the two snapshots  *)
(* and, for each contract that streams, the updates before and after the   *)
(* second one, to say what the gateway does beyond its limit.              *)
(*                                                                         *)
(* The stream lives as StreamLife says, which module Stream implements: it *)
(* reconnects, a cancelled context ends it only between connections, and a *)
(* Close that runs while it dials may not end it.  What is added here is   *)
(* what a connection replays.                                              *)
(***************************************************************************)
EXTENDS Naturals, FiniteSets

CONSTANTS
    Streamed,      \* contracts to stream
    Probed,        \* the contract of the two snapshots
    Attempts,      \* --snapshot-attempts
    MayInterrupt,  \* Ctrl-C may be pressed
    Limits,        \* the numbers of lines that the gateway may have to give
    Delays,        \* the numbers of calls of a poll that its price may be late by
    MaxFailures,   \* bound: REST calls that fail
    MaxDrops,      \* bound: connections that drop
    MaxUpdates     \* bound: updates of one contract

ASSUME ContractsAssumption == Probed \notin Streamed /\ IsFiniteSet(Streamed)
ASSUME BoundsAssumption ==
    /\ Attempts \in Nat \ {0} /\ Limits \subseteq Nat \ {0} /\ Delays \subseteq Nat \ {0}
    /\ MaxFailures \in Nat /\ MaxDrops \in Nat /\ MaxUpdates \in Nat

VARIABLES
    pc,            \* where run is
    todo,          \* contracts the loop in progress has left
    polls,         \* snapshots taken in this poll
    erred,         \* a snapshot of this poll has an error
    interrupted,   \* the context is cancelled
    stream,        \* the stage of its life that the stream is in
    closed,        \* Close was called
    recorded,      \* contracts the stream would replay
    reported,      \* CleanupErrors is not empty
    seen,          \* the tracker: contract -> its updates, and whether one had a price
    before,        \* the copy of it that is taken when the quotes have settled
    snapshots,     \* poll -> how it ended
    quoted,        \* contracts with a price when the quotes have settled
    stillTicking, wentSilent,
    held,          \* contracts whose lines the gateway holds
    gateway,       \* how many lines it gives, whether it has a price for Probed, how late
    displaced,     \* auxiliary: contracts that lost their line to a snapshot
    fresh,         \* auxiliary: contracts with an update since the copy was taken
    failures, drops

control == <<pc, todo, polls, erred>>
streamVars == <<stream, closed, recorded>>
evidence == <<seen, before, quoted, stillTicking, wentSilent, fresh>>
network == <<held, displaced, failures>>
Life == INSTANCE StreamLife

vars == <<control, interrupted, streamVars, reported, evidence, snapshots, network, gateway, drops>>

Polling == {"baseline", "saturated"}
Points == Polling \cup
    {"preflight", "baselineWait", "release", "countdown", "dial", "subscribe", "settle",
     "saturatedWait", "post", "unsubscribe", "releaseProbe", "releaseAll", "watch",
     "aborted", "done"}
Outcomes == {"price", "error", "empty"}
Nothing == [c \in Streamed |-> [updates |-> 0, hasPrice |-> FALSE]]

Init ==
    /\ pc = "preflight" /\ todo = {} /\ polls = 0 /\ erred = FALSE
    /\ Life!Init /\ recorded = {} /\ reported = FALSE
    /\ seen = Nothing /\ before = Nothing /\ fresh = {}
    /\ snapshots = [p \in Polling |-> "unrun"]
    /\ quoted = {} /\ stillTicking = {} /\ wentSilent = {}
    /\ held = {} /\ displaced = {} /\ failures = 0 /\ drops = 0
    /\ gateway \in [limit : Limits, quotable : BOOLEAN, slow : Delays]

-----------------------------------------------------------------------------
(* REST calls: "effects" are the sets of lines that the gateway may hold   *)
(* when it has done what it was asked.                                     *)

\* The call reaches the gateway, and its answer reaches the caller.
Answered(effects) == held' \in effects /\ UNCHANGED <<failures, interrupted>>

\* The call, or its answer, is lost.
Lost(effects) ==
    /\ failures < MaxFailures /\ failures' = failures + 1
    /\ held' \in {held} \cup effects /\ UNCHANGED interrupted

\* Ctrl-C cancels the call while the gateway may be at it.
Cancelled(effects) ==
    /\ MayInterrupt /\ ~interrupted /\ interrupted' = TRUE
    /\ held' \in {held} \cup effects /\ UNCHANGED failures

\* A call with a context that is over does nothing.
Refused == interrupted /\ UNCHANGED <<held, failures, interrupted>>

-----------------------------------------------------------------------------
(* The two polls.                                                          *)

Full(lines) == Cardinality(lines) >= gateway.limit

\* What the gateway may do about the line of a snapshot: the line is there, or
\* free, or there is none: it refuses, or takes that of another contract.
Granted ==
    IF Probed \in held THEN {held}
    ELSE IF ~Full(held) THEN {held \cup {Probed}}
    ELSE {held} \cup {(held \ {c}) \cup {Probed} : c \in held}

\* What its answer may be: it has a price, if there is one at all, when as many
\* calls of the poll have passed as it takes, or sooner; with a line that it took
\* from another contract in the middle of the poll, or takes now, later.
Says(answer) ==
    CASE answer = "price" -> gateway.quotable /\ Probed \in held'
      [] answer = "empty" -> \/ ~gateway.quotable \/ polls < gateway.slow
                             \/ Probed \notin held \/ displaced # {}
      [] answer = "error" -> Probed \notin held'

Snapshot(answer) ==
    /\ \/ ~interrupted /\ Answered(Granted) /\ Says(answer)
       \/ ~interrupted /\ Lost(Granted) /\ answer = "error"
       \/ Cancelled(Granted) /\ answer = "error"
       \/ Refused /\ answer = "error"
    /\ displaced' = displaced \cup (held \ held')

OfBaseline == pc \in {"baseline", "baselineWait"}
AfterPoll == IF OfBaseline THEN "release" ELSE "post"

PollEnds(outcome) ==
    /\ pc' = AfterPoll /\ polls' = 0 /\ erred' = FALSE
    /\ snapshots' = [snapshots EXCEPT ![IF OfBaseline THEN "baseline" ELSE "saturated"] = outcome]

NoPrice(withError) == IF withError THEN "error" ELSE "empty"

\* Mutant: the two polls count their attempts together.
PollTogether ==
    /\ pc \in Polling
    /\ \E answer \in Outcomes :
        /\ Snapshot(answer)
        /\ snapshots' = [snapshots EXCEPT ![pc] = answer] /\ UNCHANGED erred
        /\ polls' = polls + 1
        /\ pc' = IF answer = "price" \/ polls + 1 = Attempts THEN AfterPoll
                 ELSE IF OfBaseline THEN "baselineWait" ELSE "saturatedWait"
    /\ UNCHANGED <<todo, streamVars, reported, evidence, gateway, drops>>

\* One call of pollSnapshot; it ends with a price or the last attempt.
Poll ==
    /\ pc \in Polling
    /\ \E answer \in Outcomes :
        /\ Snapshot(answer)
        /\ \/ answer = "price" /\ PollEnds("price")
           \/ /\ answer # "price" /\ polls + 1 = Attempts
              /\ PollEnds(NoPrice(erred \/ answer = "error"))
           \/ /\ answer # "price" /\ polls + 1 < Attempts
              /\ pc' = IF OfBaseline THEN "baselineWait" ELSE "saturatedWait"
              /\ polls' = polls + 1 /\ erred' = (erred \/ answer = "error")
              /\ UNCHANGED snapshots
    /\ UNCHANGED <<todo, streamVars, reported, evidence, gateway, drops>>

\* Mutant: an attempt is not counted.
PollPauseForgetful ==
    /\ pc \in {"baselineWait", "saturatedWait"}
    /\ \/ /\ pc' = IF OfBaseline THEN "baseline" ELSE "saturated"
          /\ polls' = polls - 1 /\ UNCHANGED <<erred, snapshots>>
       \/ interrupted /\ PollEnds(NoPrice(erred))
    /\ UNCHANGED <<todo, interrupted, streamVars, reported, evidence, network, gateway, drops>>

\* The pause between two calls; both of its channels may be ready.
PollPause ==
    /\ pc \in {"baselineWait", "saturatedWait"}
    /\ \/ /\ pc' = IF OfBaseline THEN "baseline" ELSE "saturated"
          /\ UNCHANGED <<polls, erred, snapshots>>
       \/ interrupted /\ PollEnds(NoPrice(erred))
    /\ UNCHANGED <<todo, interrupted, streamVars, reported, evidence, network, gateway, drops>>

-----------------------------------------------------------------------------
(* The run up to the clean-up.                                             *)

GoTo(point) == pc' = point /\ UNCHANGED <<todo, polls, erred>>
CleanUp == pc' = "unsubscribe" /\ todo' = Streamed /\ UNCHANGED <<polls, erred>>

\* What a step of the run that calls nobody leaves alone, but for "evidence".
Local == UNCHANGED <<interrupted, streamVars, reported, snapshots, network, gateway, drops>>

\* Tickle, /iserver/accounts and the contracts: nothing is taken yet.
Preflight ==
    /\ pc = "preflight" /\ (GoTo("aborted") \/ GoTo("baseline"))
    /\ Local /\ UNCHANGED evidence

\* The line of the baseline is given back with the context of the run; a
\* failure is logged.
ReleaseBaseline ==
    /\ pc = "release" /\ GoTo("countdown")
    /\ \/ ~interrupted /\ (Answered({held \ {Probed}}) \/ Lost({held \ {Probed}}))
       \/ Cancelled({held \ {Probed}})
       \/ Refused
    /\ UNCHANGED <<streamVars, reported, evidence, snapshots, displaced, gateway, drops>>

Countdown ==
    /\ pc = "countdown"
    /\ \/ GoTo("dial")
       \/ interrupted /\ GoTo("aborted")
    /\ Local /\ UNCHANGED evidence

\* From here on the clean-up is deferred.
Dial ==
    /\ pc = "dial"
    /\ \/ /\ ~interrupted /\ Life!Dial /\ pc' = "subscribe" /\ todo' = Streamed
          /\ UNCHANGED <<polls, erred, recorded>>
       \/ GoTo("aborted") /\ UNCHANGED <<streamVars, interrupted>>
    /\ UNCHANGED <<reported, evidence, snapshots, network, gateway, drops>>

\* What streams is held if there is a line for it.
Streams(contracts) ==
    {held} \cup {lines \in {held \cup contracts} : Cardinality(lines) <= gateway.limit}

\* SubscribeMarketData records, and writes to the connection there is; it never
\* fails.
SubscribeOne ==
    /\ pc = "subscribe"
    /\ \E c \in todo :
        /\ todo' = todo \ {c} /\ recorded' = recorded \cup {c}
        /\ held' \in IF stream = "up" THEN Streams({c}) ELSE {held}
    /\ UNCHANGED <<pc, polls, erred, interrupted, stream, closed, reported, evidence, snapshots,
                   displaced, failures, gateway, drops>>

Subscribed ==
    /\ pc = "subscribe" /\ todo = {} /\ GoTo("settle")
    /\ Local /\ UNCHANGED evidence

\* The window in which quotes settle, and the copy of the tracker.
Settle ==
    /\ pc = "settle"
    /\ \/ /\ GoTo("saturated") /\ before' = seen
          /\ quoted' = {c \in Streamed : seen[c].hasPrice}
          /\ UNCHANGED <<seen, stillTicking, wentSilent, fresh>>
       \/ interrupted /\ CleanUp /\ UNCHANGED evidence
    /\ Local

\* The window in which contracts may fall silent, and what is made of it.
Post ==
    /\ pc = "post" /\ CleanUp
    /\ \/ /\ stillTicking' = {c \in quoted : seen[c].updates > before[c].updates}
          /\ wentSilent' = quoted \ stillTicking'
          /\ UNCHANGED <<seen, before, quoted, fresh>>
       \/ interrupted /\ UNCHANGED evidence
    /\ Local

Watching == {"subscribe", "settle", "saturated", "saturatedWait", "post"}
SinceCopy == {"saturated", "saturatedWait", "post"}

\* Mutant: the copy shares the entries of the tracker.
UpdateShared ==
    /\ pc \in Watching /\ stream \in {"up", "deaf"}
    /\ \E c \in held \cap Streamed, price \in BOOLEAN :
        /\ seen[c].updates < MaxUpdates
        /\ seen' = [seen EXCEPT ![c].updates = @ + 1, ![c].hasPrice = @ \/ price]
        /\ before' = IF pc \in SinceCopy THEN [before EXCEPT ![c] = seen'[c]] ELSE before
        /\ fresh' = IF pc \in SinceCopy THEN fresh \cup {c} ELSE fresh
    /\ Local /\ UNCHANGED <<control, quoted, stillTicking, wentSilent>>

\* The tracker counts an update of a contract that has a line.  After the last
\* window nobody reads the tracker any more.
Update ==
    /\ pc \in Watching /\ stream \in {"up", "deaf"}
    /\ \E c \in held \cap Streamed, price \in BOOLEAN :
        /\ seen[c].updates < MaxUpdates
        /\ seen' = [seen EXCEPT ![c] = [updates |-> @.updates + 1, hasPrice |-> @.hasPrice \/ price]]
        /\ fresh' = IF pc \in SinceCopy THEN fresh \cup {c} ELSE fresh
    /\ Local /\ UNCHANGED <<control, before, quoted, stillTicking, wentSilent>>

-----------------------------------------------------------------------------
(* The clean-up, with a context of its own.                                *)

\* UnsubscribeMarketData forgets, and writes; what is written may be lost with
\* the connection, and what cannot be written is an error.
UnsubscribeOne ==
    /\ pc = "unsubscribe"
    /\ \E c \in todo :
        /\ todo' = todo \ {c} /\ recorded' = recorded \ {c}
        /\ IF stream = "up"
           THEN held' \in {held, held \ {c}} /\ UNCHANGED reported
           ELSE reported' = TRUE /\ UNCHANGED held
    /\ UNCHANGED <<pc, polls, erred, interrupted, stream, closed, evidence, snapshots, displaced,
                   failures, gateway, drops>>

\* stream.Close closes a connection once more when it was lost already, which may
\* be an error.
CloseStream ==
    /\ pc = "unsubscribe" /\ todo = {} /\ GoTo("releaseProbe")
    /\ Life!Close
    /\ reported' \in {reported, reported \/ stream # "up"}
    /\ UNCHANGED <<recorded, evidence, snapshots, network, gateway, drops>>

\* A REST call of the clean-up; an error is reported.
CleanUpCall(from, to, effect) ==
    /\ pc = from /\ GoTo(to)
    /\ \/ Answered({effect}) /\ UNCHANGED reported
       \/ Lost({effect}) /\ reported' = TRUE
    /\ UNCHANGED <<streamVars, evidence, snapshots, displaced, gateway, drops>>

ReleaseProbe == CleanUpCall("releaseProbe", "releaseAll", held \ {Probed})

\* Mutant: the caller's context is used, and its end is no error.
ReleaseAllWithCallersContext ==
    \/ ~interrupted /\ CleanUpCall("releaseAll", "watch", {})
    \/ interrupted /\ CleanUpCall("releaseAll", "watch", held)

\* /iserver/marketdata/unsubscribeall drops every line of the session.
ReleaseAll == CleanUpCall("releaseAll", "watch", {})

\* <-watchDone: the updates channel is closed when the stream has ended.
WatchDone ==
    /\ pc = "watch" /\ stream = "ended" /\ GoTo("done")
    /\ Local /\ UNCHANGED evidence

-----------------------------------------------------------------------------
(* The operator, and the stream.                                           *)

\* If the stream sees it, it does so in StreamStops.
Interrupt ==
    /\ MayInterrupt /\ ~interrupted /\ interrupted' = TRUE
    /\ UNCHANGED <<control, streamVars, reported, evidence, snapshots, network, gateway, drops>>

\* What the stream does by itself does not touch the run.
StreamOnly == UNCHANGED <<control, recorded, reported, evidence, snapshots, displaced, failures,
                          gateway>>

\* A lost connection.
Drop ==
    /\ Life!Drop /\ drops < MaxDrops /\ drops' = drops + 1
    /\ StreamOnly /\ UNCHANGED held

\* A connection is installed, and what is recorded is replayed.
Redial ==
    /\ Life!Redial /\ held' \in UNION {Streams(r) : r \in SUBSET recorded}
    /\ StreamOnly /\ UNCHANGED drops

\* Supervise sees a Close or a cancelled context.
StreamStops == Life!StreamStops /\ StreamOnly /\ UNCHANGED <<held, drops>>

\* The program is over.
Exited == pc \in {"aborted", "done"} /\ UNCHANGED vars

Run == \/ Preflight \/ Poll \/ PollPause \/ ReleaseBaseline \/ Countdown \/ Dial
       \/ SubscribeOne \/ Subscribed \/ Settle \/ Post
       \/ UnsubscribeOne \/ CloseStream \/ ReleaseProbe \/ ReleaseAll \/ WatchDone

Next == Run \/ Update \/ Interrupt \/ Drop \/ Redial \/ StreamStops \/ Exited

Spec == Init /\ [][Next]_vars

\* The run goes on, and a stream that is dialling gets a connection or stops.
FairSpec == Spec /\ WF_vars(Run) /\ WF_vars(Redial \/ StreamStops)

-----------------------------------------------------------------------------
(* The report.                                                             *)

\* Mutant: the baseline is not looked at.
VerdictWithoutBaseline ==
    IF "unrun" \in {snapshots["baseline"], snapshots["saturated"]} THEN "inconclusive"
    ELSE CASE snapshots["saturated"] = "error" -> "rejects"
           [] snapshots["saturated"] = "empty" -> "silent"
           [] snapshots["saturated"] = "price" ->
                IF stillTicking = {} THEN "indeterminate"
                ELSE IF wentSilent = {} THEN "not reached" ELSE "displaces"

\* The line that the report prints about the gateway.
Verdict ==
    IF snapshots["baseline"] # "price" \/ snapshots["saturated"] = "unrun" THEN "inconclusive"
    ELSE CASE snapshots["saturated"] = "error" -> "rejects"
           [] snapshots["saturated"] = "empty" -> "silent"
           [] snapshots["saturated"] = "price" ->
                IF stillTicking = {} THEN "indeterminate"
                ELSE IF wentSilent = {} THEN "not reached" ELSE "displaces"

-----------------------------------------------------------------------------

\* Every variable keeps its shape.
TypeOK ==
    /\ pc \in Points /\ todo \subseteq Streamed /\ polls \in 0..Attempts - 1
    /\ interrupted \in BOOLEAN /\ closed \in BOOLEAN /\ reported \in BOOLEAN /\ erred \in BOOLEAN
    /\ stream \in {"none", "up", "dialing", "deaf", "ended"}
    /\ recorded \subseteq Streamed /\ held \subseteq Streamed \cup {Probed}
    /\ {seen, before} \subseteq [Streamed -> [updates : 0..MaxUpdates, hasPrice : BOOLEAN]]
    /\ snapshots \in [Polling -> Outcomes \cup {"unrun"}]
    /\ quoted \subseteq Streamed /\ fresh \subseteq Streamed
    /\ gateway \in [limit : Limits, quotable : BOOLEAN, slow : Delays]
    /\ failures \in 0..MaxFailures /\ drops \in 0..MaxDrops

\* A run that got as far as the stream leaves no line behind, unless it reports
\* that it could not clean up: whatever was interrupted, lost or dropped, and
\* whatever a reconnect replayed in the middle of the clean-up.
LeavesNothing == pc = "done" /\ ~reported => held = {}

\* A run comes to an end unless the stream was closed while it dialled.
EndsUnlessDeaf == <>(pc \in {"aborted", "done"} \/ stream = "deaf")

\* What the report says of a contract is what happened since its quotes settled:
\* still ticking if it had an update, silent if it had none, and a contract that
\* never had a price is not in it.
DisplacementSound ==
    /\ stillTicking \subseteq fresh /\ wentSilent \cap fresh = {}
    /\ stillTicking \cup wentSilent \in {{}, quoted}

\* Why the last snapshot may have failed other than for the want of a line: a
\* price takes more calls than a poll makes, Ctrl-C ended it, or a call was lost.
Excused == Attempts <= gateway.slow \/ interrupted \/ failures > 0

\* The verdict blames the limit only for a limit that was reached, and says that
\* the limit was not reached only if it is higher than the contracts it quoted,
\* or a displaced contract had an update before it lost its line.
VerdictRight ==
    pc \in {"aborted", "done"} =>
        /\ Verdict \in {"rejects", "silent"} /\ ~Excused =>
              gateway.limit <= Cardinality(Streamed)
        /\ Verdict = "not reached" =>
              gateway.limit > Cardinality(quoted) \/ displaced \cap quoted \cap fresh # {}

\* The probe always releases what it took, including on Ctrl-C (main.go:30-32).
AlwaysReleases == pc \in {"aborted", "done"} /\ ~reported => held = {}

=============================================================================
