------------------------------- MODULE Stream -------------------------------
(***************************************************************************)
(* The streaming client of stream.go: one websocket to the Client Portal   *)
(* Gateway, the goroutines that share it, and the callers of its API.      *)
(*                                                                         *)
(*   "supervise"   reads the connection, reconnects and replays            *)
(*   "renew"       re-sends every subscription before the gateway drops it *)
(*   "heartbeat"   writes a keep-alive                                     *)
(*   Callers       SubscribeMarketData, UnsubscribeMarketData, Close       *)
(*                                                                         *)
(* A goroutine that has frames to write keeps them in its outbox.          *)
(* writeText is two steps, LockWrite and WriteMessage: what it read under  *)
(* the lock can be stale when it writes.  Connections are numbered in the  *)
(* order they are dialled; conn = 0 is the nil connection that DialStream  *)
(* starts from.  Frames other than market data and the contents of a frame *)
(* are abstracted: dispatch ignores the first, and nothing depends on the  *)
(* second.  Delays (backoff, ticker periods) are abstracted to "later".    *)
(***************************************************************************)
EXTENDS Integers, Sequences

CONSTANTS
    Conids,      \* contract identifiers
    FieldSets,   \* the field lists a caller may ask for
    NoFields,    \* not subscribed
    Callers,     \* goroutines that use the API
    Owns,        \* <<caller, conid>>: who (un)subscribes what
    MaxConns,    \* bound: connections dialled; the last one stays up
    MaxCalls,    \* bound: Subscribe and Unsubscribe calls
    MaxCloses,   \* bound: Close calls
    MayCancel,   \* whether the context may be cancelled
    MaxFrames,   \* bound: market-data frames per connection
    UpdatesCap   \* capacity of the updates channel (256 in the code)

Loops == {"renew", "heartbeat"}
Goroutines == Callers \cup Loops \cup {"supervise"}

ASSUME BoundsAssumption ==
    /\ MaxConns \in Nat \ {0} /\ MaxCalls \in Nat /\ MaxCloses \in Nat
    /\ MaxFrames \in Nat /\ UpdatesCap \in Nat \ {0} /\ MayCancel \in BOOLEAN
ASSUME NamesAssumption ==
    /\ NoFields \notin FieldSets
    /\ Callers \cap {"renew", "heartbeat", "supervise", "nobody"} = {}
    /\ Owns \subseteq Callers \X Conids

VARIABLES
    subs,       \* conid -> fields recorded for replay (s.subs)
    outbox,     \* goroutine -> frames it still has to write
    writing,    \* the frame being written under writeMu, or Unlocked
    conn,       \* the published connection (s.conn)
    dialed,     \* connections dialled so far
    link,       \* connection -> state of its socket
    feed,       \* conid -> fields the gateway streams on conn
    sent,       \* frames the gateway has sent on conn
    sup,        \* control point of DialStream, then of supervise
    rd,         \* frames supervise has read from conn
    held,       \* the frame in dispatch
    updates,    \* the updates channel
    last,       \* auxiliary: the last frame put on the channel
    loops,      \* the loops that are running
    closing,    \* callers inside Close, before conn.Close
    done,       \* s.done is closed
    cancelled,  \* s.ctx is cancelled
    err,        \* s.err
    calls,      \* Subscribe and Unsubscribe calls made
    closes      \* Close calls made

recVars   == <<subs, calls>>
writeVars == <<outbox, writing>>
connVars  == <<conn, dialed, link>>
gateVars  == <<feed, sent>>
readVars  == <<rd, held, updates, last>>
lifeVars  == <<loops, closing, done, cancelled, err, closes>>
vars == <<recVars, writeVars, connVars, gateVars, sup, readVars, lifeVars>>

Fields == FieldSets \cup {NoFields}
NoSubs == [k \in Conids |-> NoFields]

Smd(k, f) == [op |-> "smd", conid |-> k, fields |-> f]
Umd(k)    == [op |-> "umd", conid |-> k]
Tic       == [op |-> "tic"]
Commands  == {Smd(k, f) : k \in Conids, f \in FieldSets}
             \cup {Umd(k) : k \in Conids} \cup {Tic}

Frame(c, n) == [conn |-> c, seq |-> n]
Frames   == [conn : 0..MaxConns, seq : 0..MaxFrames]
NoFrame  == Frame(0, 0)
Unlocked == [by |-> "nobody"]

SupPoints == {"dial", "await", "install", "snapshot", "replay", "read",
              "dispatch", "free", "checkDone", "checkCtx", "wait", "stopped",
              "ended", "failed"}
Init ==
    /\ subs = NoSubs /\ calls = 0
    /\ outbox = [t \in Goroutines |-> {}] /\ writing = Unlocked
    /\ conn = 0 /\ dialed = 0 /\ link = [c \in 1..MaxConns |-> "none"]
    /\ feed = NoSubs /\ sent = 0
    /\ sup = "dial"
    /\ rd = 0 /\ held = NoFrame /\ updates = <<>> /\ last = NoFrame
    /\ loops = {} /\ closing = {} /\ closes = 0
    /\ done = FALSE /\ cancelled = FALSE /\ err = "none"

-----------------------------------------------------------------------------
(* Writing: writeText, and the snapshot that resubscribeAll writes.        *)

Busy(t) == outbox[t] # {} \/ writing.by = t

\* Mutant of Replay: what is not recorded is replayed as well.
ReplayEverything(recorded) == {Smd(k, recorded[k]) : k \in Conids}

\* resubscribeAll copies s.subs under subsMu and then sends from the copy.
Replay(recorded) == {Smd(k, recorded[k]) : k \in {j \in Conids : recorded[j] # NoFields}}

\* writeMu is taken, then the current connection is read.  Which frame of an
\* outbox goes first is the map iteration order.
LockWrite(t) ==
    /\ writing = Unlocked
    /\ \E m \in outbox[t] :
        /\ writing' = [by |-> t, msg |-> m, on |-> conn]
        /\ outbox' = [outbox EXCEPT ![t] = @ \ {m}]
    /\ UNCHANGED <<recVars, connVars, gateVars, sup, readVars, lifeVars>>

\* The gateway applies the frames of a connection in the order they are written.
Applied(m, fd) ==
    IF m.op = "tic" THEN fd
    ELSE [fd EXCEPT ![m.conid] = IF m.op = "smd" THEN m.fields ELSE NoFields]

\* A write to a connection that is broken or closed fails or goes nowhere; the
\* error is returned by Unsubscribe and ignored by everyone else.
WriteMessage(t) ==
    /\ writing # Unlocked /\ writing.by = t
    /\ feed' = IF writing.on = conn /\ link[conn] = "up"
               THEN Applied(writing.msg, feed) ELSE feed
    /\ writing' = Unlocked
    /\ UNCHANGED <<recVars, outbox, connVars, sent, sup, readVars, lifeVars>>

-----------------------------------------------------------------------------
(* The API.  A caller makes one call at a time, once DialStream returned.  *)

Ready(t) == conn # 0 /\ ~Busy(t) /\ t \notin closing

Subscribe(t, k, f) ==
    /\ Ready(t) /\ <<t, k>> \in Owns /\ calls < MaxCalls
    /\ subs' = [subs EXCEPT ![k] = f]
    /\ outbox' = [outbox EXCEPT ![t] = {Smd(k, f)}]
    /\ calls' = calls + 1
    /\ UNCHANGED <<writing, connVars, gateVars, sup, readVars, lifeVars>>

Unsubscribe(t, k) ==
    /\ Ready(t) /\ <<t, k>> \in Owns /\ calls < MaxCalls
    /\ subs' = [subs EXCEPT ![k] = NoFields]
    /\ outbox' = [outbox EXCEPT ![t] = {Umd(k)}]
    /\ calls' = calls + 1
    /\ UNCHANGED <<writing, connVars, gateVars, sup, readVars, lifeVars>>

\* Close closes done (once), then the connection that is published by then.
CloseDone(t) ==
    /\ Ready(t) /\ closes < MaxCloses
    /\ done' = TRUE
    /\ closing' = closing \cup {t}
    /\ closes' = closes + 1
    /\ UNCHANGED <<recVars, writeVars, connVars, gateVars, sup, readVars,
                   loops, cancelled, err>>

CloseConn(t) ==
    /\ t \in closing
    /\ closing' = closing \ {t}
    /\ link' = [link EXCEPT ![conn] = "closed"]
    /\ feed' = NoSubs
    /\ UNCHANGED <<recVars, writeVars, conn, dialed, sent, sup, readVars,
                   loops, done, cancelled, err, closes>>

\* The application takes an update off the channel, when it pleases.
Receive ==
    /\ updates # <<>>
    /\ updates' = Tail(updates)
    /\ UNCHANGED <<recVars, writeVars, connVars, gateVars, sup, rd, held, last, lifeVars>>

Cancel ==
    /\ MayCancel /\ ~cancelled
    /\ cancelled' = TRUE
    /\ UNCHANGED <<recVars, writeVars, connVars, gateVars, sup, readVars,
                   loops, closing, done, err, closes>>

-----------------------------------------------------------------------------
(* connect: Tickle and the websocket dial, then the wait for "sts".        *)

\* DialStream gives up on its first failure; supervise backs off and retries.
GiveUp == IF conn = 0 THEN "failed" ELSE "wait"

\* Both requests carry the context: none succeeds once it is cancelled.
DialSocket ==
    /\ sup = "dial" /\ ~cancelled /\ dialed < MaxConns
    /\ dialed' = dialed + 1
    /\ link' = [link EXCEPT ![dialed'] = "handshake"]
    /\ sup' = "await"
    /\ UNCHANGED <<recVars, writeVars, conn, gateVars, readVars, lifeVars>>

DialFails ==
    /\ sup = "dial"
    /\ sup' = GiveUp
    /\ UNCHANGED <<recVars, writeVars, connVars, gateVars, readVars, lifeVars>>

\* awaitEstablished only watches a deadline: cancellation does not disturb it.
Established ==
    /\ sup = "await"
    /\ link' = [link EXCEPT ![dialed] = "up"]
    /\ sup' = "install"
    /\ UNCHANGED <<recVars, writeVars, conn, dialed, gateVars, readVars, lifeVars>>

\* Mutant of AwaitFails: the socket of a failed handshake is not closed.
AwaitFailsLeaking ==
    /\ sup = "await" /\ dialed < MaxConns
    /\ sup' = GiveUp
    /\ UNCHANGED <<recVars, writeVars, connVars, gateVars, readVars, lifeVars>>

\* Deadline, dropped socket, or a session that is not authenticated.
AwaitFails ==
    /\ sup = "await" /\ dialed < MaxConns
    /\ link' = [link EXCEPT ![dialed] = "closed"]
    /\ sup' = GiveUp
    /\ UNCHANGED <<recVars, writeVars, conn, dialed, gateVars, readVars, lifeVars>>

-----------------------------------------------------------------------------
(* supervise, and the part of DialStream that starts it.                   *)

\* Mutant of Install: a new connection is read without a replay.
InstallWithoutReplay ==
    /\ sup = "install"
    /\ conn' = dialed
    /\ feed' = NoSubs /\ sent' = 0 /\ rd' = 0
    /\ sup' = "read" /\ loops' = Loops
    /\ UNCHANGED <<recVars, writeVars, dialed, link, held, updates, last,
                   closing, done, cancelled, err, closes>>

\* setConn.  DialStream then starts the goroutines; supervise goes on to replay.
Install ==
    /\ sup = "install"
    /\ conn' = dialed
    /\ feed' = NoSubs /\ sent' = 0 /\ rd' = 0
    /\ IF conn = 0 THEN sup' = "read" /\ loops' = Loops
                   ELSE sup' = "snapshot" /\ UNCHANGED loops
    /\ UNCHANGED <<recVars, writeVars, dialed, link, held, updates, last,
                   closing, done, cancelled, err, closes>>

Snapshot ==
    /\ sup = "snapshot"
    /\ outbox' = [outbox EXCEPT !["supervise"] = Replay(subs)]
    /\ sup' = "replay"
    /\ UNCHANGED <<recVars, writing, connVars, gateVars, readVars, lifeVars>>

ReplayDone ==
    /\ sup = "replay" /\ ~Busy("supervise")
    /\ sup' = "read"
    /\ UNCHANGED <<recVars, writeVars, connVars, gateVars, readVars, lifeVars>>

\* Frames that were buffered are still read after the connection failed.
ReadFrame ==
    /\ sup = "read" /\ rd < sent
    /\ rd' = rd + 1
    /\ held' = Frame(conn, rd')
    /\ sup' = "dispatch"
    /\ UNCHANGED <<recVars, writeVars, connVars, gateVars, updates, last, lifeVars>>

ReadFails ==
    /\ sup = "read" /\ link[conn] # "up"
    /\ sup' = "free"
    /\ UNCHANGED <<recVars, writeVars, connVars, gateVars, readVars, lifeVars>>

\* Mutant of Deliver: a full channel drops the update instead of waiting.
DeliverOrDrop ==
    /\ sup = "dispatch"
    /\ IF Len(updates) < UpdatesCap
       THEN updates' = Append(updates, held) /\ last' = held
       ELSE UNCHANGED <<updates, last>>
    /\ held' = NoFrame
    /\ sup' = "read"
    /\ UNCHANGED <<recVars, writeVars, connVars, gateVars, rd, lifeVars>>

\* dispatch waits for room in the channel, or for Close; not for the context.
Deliver ==
    /\ sup = "dispatch" /\ Len(updates) < UpdatesCap
    /\ updates' = Append(updates, held)
    /\ last' = held /\ held' = NoFrame
    /\ sup' = "read"
    /\ UNCHANGED <<recVars, writeVars, connVars, gateVars, rd, lifeVars>>

\* Mutant of Abandon: dispatch does not watch done.
AbandonNever == FALSE /\ UNCHANGED vars

Abandon ==
    /\ sup = "dispatch" /\ done
    /\ held' = NoFrame
    /\ sup' = "read"
    /\ UNCHANGED <<recVars, writeVars, connVars, gateVars, rd, updates, last, lifeVars>>

FreeConn ==
    /\ sup = "free"
    /\ link' = [link EXCEPT ![conn] = "closed"]
    /\ feed' = NoSubs
    /\ sup' = "checkDone"
    /\ UNCHANGED <<recVars, writeVars, conn, dialed, sent, readVars, lifeVars>>

\* Mutant of CheckDone: done is not looked at before the stream dials again.
CheckDoneNot ==
    /\ sup = "checkDone"
    /\ sup' = "checkCtx"
    /\ UNCHANGED <<recVars, writeVars, connVars, gateVars, readVars, lifeVars>>

CheckDone ==
    /\ sup = "checkDone"
    /\ sup' = IF done THEN "ended" ELSE "checkCtx"
    /\ UNCHANGED <<recVars, writeVars, connVars, gateVars, readVars, lifeVars>>

\* setErr followed by the deferred close(s.updates): sup = "ended" is the
\* closed channel, before which Err means nothing.
CheckCtx ==
    /\ sup = "checkCtx"
    /\ IF cancelled THEN sup' = "ended" /\ err' = "cancelled"
                    ELSE sup' = "wait" /\ UNCHANGED err
    /\ UNCHANGED <<recVars, writeVars, connVars, gateVars, readVars,
                   loops, closing, done, cancelled, closes>>

\* The select of wait: when the timer and a stop are both ready, either wins.
WaitElapsed ==
    /\ sup = "wait"
    /\ sup' = "dial"
    /\ UNCHANGED <<recVars, writeVars, connVars, gateVars, readVars, lifeVars>>

\* Mutant of WaitStopped: the backoff does not watch the context.
WaitStoppedByClose ==
    /\ sup = "wait" /\ done
    /\ sup' = "stopped"
    /\ UNCHANGED <<recVars, writeVars, connVars, gateVars, readVars, lifeVars>>

WaitStopped ==
    /\ sup = "wait" /\ (done \/ cancelled)
    /\ sup' = "stopped"
    /\ UNCHANGED <<recVars, writeVars, connVars, gateVars, readVars, lifeVars>>

Stopped ==
    /\ sup = "stopped"
    /\ sup' = "ended"
    /\ err' = IF cancelled THEN "cancelled" ELSE err
    /\ UNCHANGED <<recVars, writeVars, connVars, gateVars, readVars,
                   loops, closing, done, cancelled, closes>>

-----------------------------------------------------------------------------
(* The two tickers, and their exit.                                        *)

\* Mutant of RenewTick: the ticker fires and nothing is sent again.
RenewTickIdle == "renew" \in loops /\ ~Busy("renew") /\ UNCHANGED vars

RenewTick ==
    /\ "renew" \in loops /\ ~Busy("renew")
    /\ outbox' = [outbox EXCEPT !["renew"] = Replay(subs)]
    /\ UNCHANGED <<recVars, writing, connVars, gateVars, sup, readVars, lifeVars>>

HeartbeatTick ==
    /\ "heartbeat" \in loops /\ ~Busy("heartbeat")
    /\ outbox' = [outbox EXCEPT !["heartbeat"] = {Tic}]
    /\ UNCHANGED <<recVars, writing, connVars, gateVars, sup, readVars, lifeVars>>

\* Mutant of LoopExit: the loops watch Close only.
LoopExitByClose(t) ==
    /\ t \in loops /\ ~Busy(t) /\ done
    /\ loops' = loops \ {t}
    /\ UNCHANGED <<recVars, writeVars, connVars, gateVars, sup, readVars,
                   closing, done, cancelled, err, closes>>

LoopExit(t) ==
    /\ t \in loops /\ ~Busy(t) /\ (done \/ cancelled)
    /\ loops' = loops \ {t}
    /\ UNCHANGED <<recVars, writeVars, connVars, gateVars, sup, readVars,
                   closing, done, cancelled, err, closes>>

-----------------------------------------------------------------------------
(* The gateway and the network.                                            *)

Emit ==
    /\ conn # 0 /\ link[conn] = "up" /\ feed # NoSubs /\ sent < MaxFrames
    /\ sent' = sent + 1
    /\ UNCHANGED <<recVars, writeVars, connVars, feed, sup, readVars, lifeVars>>

Pending(m) ==
    \/ \E t \in Goroutines : m \in outbox[t]
    \/ writing # Unlocked /\ writing.msg = m /\ writing.on = conn

\* The gateway drops a subscription that has not been renewed for 10 minutes.
\* Recorded ones are renewed in time while the renewal loop runs; it may have
\* stopped although the connection is up.  No copy is left to send either.
Expire(k) ==
    /\ feed[k] # NoFields /\ (subs[k] = NoFields \/ "renew" \notin loops)
    /\ \A f \in FieldSets : ~Pending(Smd(k, f))
    /\ feed' = [feed EXCEPT ![k] = NoFields]
    /\ UNCHANGED <<recVars, writeVars, connVars, sent, sup, readVars, lifeVars>>

\* An established connection drops; the last one that may be dialled does not.
Break(c) ==
    /\ link[c] = "up" /\ c < MaxConns
    /\ link' = [link EXCEPT ![c] = "broken"]
    /\ feed' = IF c = conn THEN NoSubs ELSE feed
    /\ UNCHANGED <<recVars, writeVars, conn, dialed, sent, sup, readVars, lifeVars>>
-----------------------------------------------------------------------------

Connect == DialSocket \/ DialFails \/ Established \/ AwaitFails
Supervise ==
    \/ Install \/ Snapshot \/ ReplayDone
    \/ ReadFrame \/ ReadFails \/ Deliver \/ Abandon \/ FreeConn
    \/ CheckDone \/ CheckCtx \/ WaitElapsed \/ WaitStopped \/ Stopped
Write(t) == LockWrite(t) \/ WriteMessage(t)
Call(t) ==
    \/ \E k \in Conids : Unsubscribe(t, k) \/ \E f \in FieldSets : Subscribe(t, k, f)
    \/ CloseDone(t) \/ CloseConn(t)
Environment == Receive \/ Cancel \/ Emit \/ (\E k \in Conids : Expire(k))
               \/ (\E c \in 1..MaxConns : Break(c))

\* Nothing to do until the gateway sends or drops the connection, or for ever:
\* supervise has ended or waits in a read, and nobody else runs.
Quiet ==
    /\ sup \in {"read", "ended", "failed"} /\ loops = {} /\ closing = {}
    /\ \A t \in Goroutines : ~Busy(t)
    /\ UNCHANGED vars

Next ==
    \/ Connect \/ Supervise \/ Environment \/ Quiet
    \/ RenewTick \/ HeartbeatTick
    \/ \E t \in Loops : LoopExit(t)
    \/ \E t \in Goroutines : Write(t)
    \/ \E t \in Callers : Call(t)

Spec == Init /\ [][Next]_vars

\* Every goroutine keeps running; sync.Mutex does not starve a waiter (SF on
\* LockWrite), and a select with a stop ready does not lose to its timer for
\* ever (SF on LoopExit and WaitStopped): the timer has only just been set.
SupervisorFairness ==
    /\ WF_vars(Connect) /\ WF_vars(Supervise) /\ SF_vars(WaitStopped)
    /\ SF_vars(LockWrite("supervise"))
    /\ WF_vars(\E t \in Goroutines : WriteMessage(t))
    /\ WF_vars(\E t \in Callers : CloseConn(t))
LoopFairness == /\ SF_vars(\E t \in Loops : LoopExit(t))
                /\ SF_vars(\E t \in Loops : LockWrite(t))
WriterFairness == \A t \in Goroutines : SF_vars(LockWrite(t))

\* The gateway accepts a connection in the end, and expires what is not renewed.
GatewayFairness == SF_vars(DialSocket) /\ \A k \in Conids : WF_vars(Expire(k))

\* The application keeps receiving.
ConsumerFairness == WF_vars(Receive)

\* Each with no more fairness than what it is used to show needs.
CloseSpec    == Spec /\ SupervisorFairness
ReceiveSpec  == CloseSpec /\ ConsumerFairness
ShutdownSpec == CloseSpec /\ LoopFairness
ConvergeSpec == CloseSpec /\ WriterFairness /\ GatewayFairness /\ WF_vars(RenewTick)

-----------------------------------------------------------------------------
(* Properties.                                                             *)

\* Every variable keeps its shape, and control points only take known values.
TypeOK ==
    /\ subs \in [Conids -> Fields] /\ feed \in [Conids -> Fields]
    /\ outbox \in [Goroutines -> SUBSET Commands]
    /\ writing \in {Unlocked} \cup [by : Goroutines, msg : Commands, on : 0..MaxConns]
    /\ conn \in 0..MaxConns /\ dialed \in 0..MaxConns
    /\ link \in [1..MaxConns -> {"none", "handshake", "up", "broken", "closed"}]
    /\ sup \in SupPoints
    /\ sent \in 0..MaxFrames /\ rd \in 0..MaxFrames
    /\ held \in Frames /\ last \in Frames /\ updates \in Seq(Frames)
    /\ loops \subseteq Loops /\ closing \subseteq Callers
    /\ done \in BOOLEAN /\ cancelled \in BOOLEAN
    /\ err \in {"none", "cancelled"}
    /\ calls \in 0..MaxCalls /\ closes \in 0..MaxCloses

OneOwner == \A s, t \in Callers, k \in Conids :
                <<s, k>> \in Owns /\ <<t, k>> \in Owns => s = t

OnItsWay(k) == \E f \in FieldSets : Pending(Smd(k, f))

\* When each conid is managed by one goroutine, a recorded subscription is never
\* forgotten on a connection that works, until Close or a cancelled context ends
\* the renewals: the gateway streams it, or a frame that asks for it will be
\* written to that very connection, or the replay that will find it recorded has
\* not been taken yet.  Rests on recording before sending
\* (stream.go:393-397) and on publishing the connection before copying the
\* subscriptions (stream.go:323-324).
NoLostSubscription ==
    \A k \in Conids :
        (OneOwner /\ conn # 0 /\ link[conn] = "up" /\ "renew" \in loops /\ subs[k] # NoFields)
            => feed[k] # NoFields \/ OnItsWay(k) \/ sup = "snapshot"

\* A socket that has not been closed on this side is the published connection
\* while supervise uses it, or the one a running connect has just dialled: none
\* leaks over failed handshakes, reconnects or the end of the stream.
NoOrphanConnection ==
    \A c \in 1..MaxConns :
        link[c] \in {"handshake", "up", "broken"} =>
            \/ c = conn /\ sup \in {"snapshot", "replay", "read", "dispatch", "free"}
            \/ c = dialed /\ sup \in {"await", "install"}

\* The stream implements the service it promises to the reader of Updates.
Service == INSTANCE StreamService WITH
    requests <- (IF done THEN {"close"} ELSE {}) \cup (IF cancelled THEN {"cancel"} ELSE {}),
    ended <- sup = "ended",
    err <- IF sup = "ended" THEN err ELSE "none"
ImplementsService == Service!Spec

\* Without a connection, supervise will see that it is asked to end before it
\* dials again, or has seen it.
Stopping ==
    \/ sup \in {"snapshot", "replay", "read", "dispatch", "free", "checkDone"}
       /\ (done \/ cancelled)
    \/ sup = "checkCtx" /\ cancelled
    \/ sup \in {"stopped", "ended"}

Connected == conn # 0 /\ link[conn] = "up"

\* The stage of its life that the stream is in.  A Close that is not over will
\* close the connection.
Stage ==
    CASE conn = 0                            -> "none"
      [] Connected /\ ~done                  -> "up"
      [] Connected /\ done /\ closing = {}   -> "deaf"
      [] OTHER -> IF Connected \/ Stopping THEN "ended" ELSE "dialing"

\* The stream lives as StreamLife says: whatever calls, replays and lost
\* connections come together, a stream that has no connection and is asked to end
\* before supervise looks dials no more, and one that is closed has a connection
\* only if the Close came while it dialled.  The probe rests on this.
Life == INSTANCE StreamLife WITH
    stream <- Stage, closed <- done, interrupted <- cancelled
LivesAsPromised == Life!Spec

\* Whatever the calls, renewals and reconnects overtook on the way, once they
\* cease and a connection holds, the gateway streams exactly what is recorded.
Converges == <>[](feed = subs)

\* A stream whose life is over stops, whatever came before (an earlier Close that
\* lost the race against a reconnect, for instance): a Close while it is connected
\* is enough, even with a full channel that nobody drains.  Only the context is not
\* seen by a supervise that waits for room in the channel.
EndedStops == Stage = "ended" ~> sup = "ended" \/ (sup = "dispatch" /\ ~done)

\* After Close or a cancelled context the two tickers end and stay ended, a
\* DialStream that was cancelled on its last step included.
LoopsEnd == (done \/ cancelled) ~> [](loops = {})

\* A cancelled context ends the stream unless a connection is up, or supervise
\* waits for the consumer to take an update.
CancelSeenBetweenConnections ==
    cancelled ~> \/ sup \in {"ended", "failed", "dispatch"}
                 \/ conn # 0 /\ link[conn] = "up"

(* What the documentation says and the code does not do. *)

Settled ==
    /\ conn # 0 /\ link[conn] = "up" /\ sup = "read"
    /\ \A t \in Goroutines : ~Busy(t)

\* UnsubscribeMarketData stops the stream of the conid (stream.go:403).
UnsubscribeStops ==
    Settled => \A k \in Conids : subs[k] = NoFields => feed[k] = NoFields

\* Close ends the reconnect loop (stream.go:457-458), also in the middle of it.
CloseWhileConnectingEnds ==
    (closing # {} /\ sup \in {"dial", "await", "install"}) ~> sup = "ended"

\* Cancelling the context ends the stream (stream.go:166-167).
CancelEnds == cancelled ~> sup \in {"ended", "failed"}

=============================================================================
