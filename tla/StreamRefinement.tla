-------------------------- MODULE StreamRefinement --------------------------
(***************************************************************************)
(* Stream implements StreamService, the service its documentation promises *)
(* the reader of Updates, and StreamLife, what the owner of a stream may   *)
(* rely on: every step of the client is a step of each, or leaves it alone.*)
(***************************************************************************)
EXTENDS StreamProofs

\* The update in dispatch is the one read last; what was put on the channel
\* before it came earlier, and directly before it unless Close was called.
DeliveryOrder ==
    LET delivered == IF sup = "dispatch" THEN rd - 1 ELSE rd IN
    /\ sup = "dispatch" => conn # 0 /\ rd > 0 /\ held = Frame(conn, rd)
    /\ last.conn < conn \/ (last.conn = conn /\ last.seq <= delivered)
    /\ done \/ last = Frame(conn, delivered) \/ (last.conn < conn /\ delivered = 0)

\* The stream ends on a request, and only its last step records an error.
EndOrder ==
    /\ sup = "stopped" => done \/ cancelled
    /\ sup # "ended" => err = "none"

RefineInv == TypeOK /\ DialOrder /\ DeliveryOrder /\ EndOrder

LEMMA RefineInit == Init => RefineInv
<1> SUFFICES ASSUME Init PROVE RefineInv
    OBVIOUS
<1>1. TypeOK
    BY TypeInit
<1>2. DialOrder /\ EndOrder
    BY DEF Init, DialOrder, EndOrder
<1>3. DeliveryOrder
    BY DEF Init, DeliveryOrder, NoFrame, Frame
<1> QED
    BY <1>1, <1>2, <1>3 DEF RefineInv

LEMMA DeliveryOrderNext == RefineInv /\ [Next]_vars => DeliveryOrder'
<1> SUFFICES ASSUME RefineInv, [Next]_vars PROVE DeliveryOrder'
    OBVIOUS
<1> USE DEF RefineInv, DeliveryOrder, Frame, recVars, writeVars, connVars, gateVars,
        readVars, lifeVars
<1>0. conn \in Nat /\ dialed \in Nat /\ rd \in Nat /\ sent \in Nat /\ done \in BOOLEAN
        /\ last \in [conn : 0..MaxConns, seq : 0..MaxFrames]
    BY BoundsAssumption DEF TypeOK, Frames
<1>1. CASE Connect
    BY <1>1 DEF Connect, DialSocket, DialFails, Established, AwaitFails, GiveUp
<1>2. CASE Supervise
    <2>1. CASE Install
        <3>1. conn' > last.conn /\ last.conn \in Nat /\ conn' \in Nat
            BY <1>0, <2>1, BoundsAssumption DEF Install, DialOrder
        <3>2. rd' = 0 /\ sup' # "dispatch" /\ last' = last
            BY <2>1 DEF Install
        <3>3. last.conn < conn' /\ rd' = 0 /\ rd' \in Nat
            BY <1>0, <3>1, <3>2 DEF Install
        <3> QED BY <3>2, <3>3 DEF DeliveryOrder
    <2>2. CASE ReadFrame
        BY <1>0, <2>2 DEF ReadFrame, DialOrder
    <2>3. CASE Deliver
        BY <1>0, <2>3 DEF Deliver
    <2>4. CASE Abandon
        BY <1>0, <2>4 DEF Abandon
    <2>5. CASE Snapshot \/ ReplayDone \/ ReadFails \/ FreeConn \/ CheckDone
        BY <1>0, <2>5 DEF Snapshot, ReplayDone, ReadFails, FreeConn, CheckDone
    <2>6. CASE CheckCtx \/ WaitElapsed \/ WaitStopped \/ Stopped
        BY <1>0, <2>6 DEF CheckCtx, WaitElapsed, WaitStopped, Stopped
    <2> QED
        BY <1>2, <2>1, <2>2, <2>3, <2>4, <2>5, <2>6 DEF Supervise
<1>3. CASE Environment
    BY <1>3 DEF Environment, Receive, Cancel, Emit, Expire, Break
<1>4. ASSUME NEW t \in Goroutines, Write(t) PROVE DeliveryOrder'
    BY <1>4 DEF Write, LockWrite, WriteMessage
<1>5. ASSUME NEW t \in Callers, Call(t) PROVE DeliveryOrder'
    BY <1>5 DEF Call, Subscribe, Unsubscribe, CloseDone, CloseConn
<1>6. CASE RenewTick \/ HeartbeatTick \/ Quiet \/ UNCHANGED vars
    BY <1>6 DEF RenewTick, HeartbeatTick, Quiet, vars
<1>7. ASSUME NEW t \in Loops, LoopExit(t) PROVE DeliveryOrder'
    BY <1>7 DEF LoopExit
<1> QED
    BY <1>1, <1>2, <1>3, <1>4, <1>5, <1>6, <1>7 DEF Next

LEMMA EndOrderNext == RefineInv /\ [Next]_vars => EndOrder'
<1> SUFFICES ASSUME RefineInv, [Next]_vars PROVE EndOrder'
    OBVIOUS
<1> USE DEF RefineInv, EndOrder, recVars, writeVars, connVars, gateVars, readVars, lifeVars
<1>1. CASE Connect
    BY <1>1 DEF Connect, DialSocket, DialFails, Established, AwaitFails, GiveUp
<1>2. CASE Supervise
    BY <1>2 DEF Supervise, Install, Snapshot, ReplayDone, ReadFrame, ReadFails, Deliver,
        Abandon, FreeConn, CheckDone, CheckCtx, WaitElapsed, WaitStopped, Stopped
<1>3. CASE Environment
    BY <1>3 DEF Environment, Receive, Cancel, Emit, Expire, Break
<1>4. ASSUME NEW t \in Goroutines, Write(t) PROVE EndOrder'
    BY <1>4 DEF Write, LockWrite, WriteMessage
<1>5. ASSUME NEW t \in Callers, Call(t) PROVE EndOrder'
    BY <1>5 DEF Call, Subscribe, Unsubscribe, CloseDone, CloseConn
<1>6. CASE RenewTick \/ HeartbeatTick \/ Quiet \/ UNCHANGED vars
    BY <1>6 DEF RenewTick, HeartbeatTick, Quiet, vars
<1>7. ASSUME NEW t \in Loops, LoopExit(t) PROVE EndOrder'
    BY <1>7 DEF LoopExit
<1> QED
    BY <1>1, <1>2, <1>3, <1>4, <1>5, <1>6, <1>7 DEF Next

LEMMA RefineNext == RefineInv /\ [Next]_vars => RefineInv'
BY TypeNext, DialOrderNext, DeliveryOrderNext, EndOrderNext DEF RefineInv

-----------------------------------------------------------------------------
(* The step simulation.                                                    *)

LEMMA ServiceStep == RefineInv /\ [Next]_vars => [Service!Next]_(Service!vars)
<1> SUFFICES ASSUME RefineInv, [Next]_vars PROVE [Service!Next]_(Service!vars)
    OBVIOUS
<1> USE DEF Service!vars, recVars, writeVars, connVars, gateVars, readVars, lifeVars
<1>1. CASE Connect
    BY <1>1 DEF Connect, DialSocket, DialFails, Established, AwaitFails, GiveUp
<1>2. CASE Supervise
    <2>1. CASE Install \/ Snapshot \/ ReplayDone \/ ReadFrame \/ ReadFails \/ Abandon
        BY <2>1 DEF Install, Snapshot, ReplayDone, ReadFrame, ReadFails, Abandon
    <2>2. CASE Deliver
        <3>1. held \in Frames /\ conn \in Nat /\ rd \in Nat /\ done \in BOOLEAN
            BY <2>2, BoundsAssumption DEF RefineInv, TypeOK
        <3>2. Service!Follows(held) \/ (done /\ Service!Overtakes(held))
            <4>1. last \in [conn : 0..MaxConns, seq : 0..MaxFrames]
                BY DEF RefineInv, TypeOK, Frames
            <4>2. /\ held.conn = conn /\ held.seq = rd /\ rd > 0
                  /\ last.conn < conn \/ (last.conn = conn /\ last.seq <= rd - 1)
                  /\ done \/ last = Frame(conn, rd - 1) \/ (last.conn < conn /\ rd - 1 = 0)
                BY <2>2 DEF Deliver, RefineInv, DeliveryOrder, Frame
            <4> QED
                BY <3>1, <4>1, <4>2, BoundsAssumption
                DEF Service!Follows, Service!Overtakes, Frame
        <3>3. Service!Deliver(held)
            BY <2>2, <3>2 DEF Deliver, Service!Deliver
        <3> QED
            BY <3>1, <3>3 DEF Service!Next
    <2>3. CASE FreeConn \/ WaitElapsed \/ WaitStopped
        BY <2>3 DEF FreeConn, WaitElapsed, WaitStopped
    <2>4. CASE CheckDone
        BY <2>4 DEF CheckDone, RefineInv, EndOrder, Service!Next, Service!End
    <2>5. CASE CheckCtx
        BY <2>5 DEF CheckCtx, RefineInv, EndOrder, Service!Next, Service!End
    <2>6. CASE Stopped
        BY <2>6 DEF Stopped, RefineInv, EndOrder, Service!Next, Service!End
    <2> QED
        BY <1>2, <2>1, <2>2, <2>3, <2>4, <2>5, <2>6 DEF Supervise
<1>3. CASE Environment
    <2>1. CASE Receive
        BY <2>1 DEF Receive, Service!Receive, Service!Next
    <2>2. CASE Cancel
        <3>1. Service!Request("cancel")
            BY <2>2 DEF Cancel, Service!Request
        <3> QED BY <3>1 DEF Service!Next
    <2>3. CASE Emit \/ (\E k \in Conids : Expire(k)) \/ (\E c \in 1..MaxConns : Break(c))
        BY <2>3 DEF Emit, Expire, Break
    <2> QED
        BY <1>3, <2>1, <2>2, <2>3 DEF Environment
<1>4. ASSUME NEW t \in Goroutines, Write(t) PROVE UNCHANGED Service!vars
    BY <1>4 DEF Write, LockWrite, WriteMessage
<1>5. ASSUME NEW t \in Callers, Call(t) PROVE [Service!Next]_(Service!vars)
    <2>1. CASE CloseDone(t)
        <3>1. Service!Request("close")
            BY <2>1 DEF CloseDone, Service!Request
        <3> QED BY <3>1 DEF Service!Next
    <2>2. CASE CloseConn(t)
        BY <2>2 DEF CloseConn
    <2>3. ASSUME NEW k \in Conids,
                 Unsubscribe(t, k) \/ \E f \in FieldSets : Subscribe(t, k, f)
          PROVE  UNCHANGED Service!vars
        BY <2>3 DEF Subscribe, Unsubscribe
    <2> QED
        BY <1>5, <2>1, <2>2, <2>3 DEF Call
<1>6. CASE RenewTick \/ HeartbeatTick \/ Quiet \/ UNCHANGED vars
    BY <1>6 DEF RenewTick, HeartbeatTick, Quiet, vars
<1>7. ASSUME NEW t \in Loops, LoopExit(t) PROVE UNCHANGED Service!vars
    BY <1>7 DEF LoopExit
<1> QED
    BY <1>1, <1>2, <1>3, <1>4, <1>5, <1>6, <1>7 DEF Next

\* The client delivers updates and ends as its documentation promises.
THEOREM StreamImplementsService == Spec => ImplementsService
<1>1. Init => Service!Init
    BY DEF Init, Service!Init, NoFrame, Frame
<1> QED
    BY <1>1, RefineInit, RefineNext, ServiceStep, PTL
    DEF Spec, ImplementsService, Service!Spec

-----------------------------------------------------------------------------
(* The life of a stream.                                                   *)

\* Nobody closes a stream before DialStream returned it, Close closes done first,
\* and supervise serves a connection for as long as it works.
LifeOrder ==
    /\ conn = 0 => ~done
    /\ closing # {} => done
    /\ Connected => sup \in {"snapshot", "replay", "read", "dispatch"}

LifeInv == TypeOK /\ DialOrder /\ LifeOrder

LEMMA LifeInit == Init => LifeInv
BY TypeInit DEF Init, LifeInv, DialOrder, LifeOrder, Connected

LEMMA LifeOrderNext == LifeInv /\ [Next]_vars => LifeOrder'
<1> SUFFICES ASSUME LifeInv, [Next]_vars PROVE LifeOrder'
    OBVIOUS
<1> USE DEF LifeInv, LifeOrder, Connected, recVars, writeVars, connVars, gateVars, readVars,
        lifeVars
<1>0. conn \in Nat /\ dialed \in Nat
    BY DEF TypeOK
<1>1. CASE Connect
    <2>1. sup \in {"dial", "await"} /\ UNCHANGED <<conn, done, closing>>
        BY <1>1 DEF Connect, DialSocket, DialFails, Established, AwaitFails
    <2>2. conn # 0 => link'[conn] = link[conn]
        <3>1. CASE DialSocket
            <4>1. dialed' # conn
                BY <1>0, <3>1 DEF DialSocket, DialOrder
            <4> QED BY <3>1, <4>1 DEF DialSocket, TypeOK
        <3>2. CASE Established \/ AwaitFails
            <4>1. dialed # conn
                BY <1>0, <3>2 DEF Established, AwaitFails, DialOrder
            <4>2. link' \in {[link EXCEPT ![dialed] = v] : v \in {"up", "closed"}}
                BY <3>2 DEF Established, AwaitFails
            <4>3. conn # 0 => conn \in DOMAIN link
                BY BoundsAssumption DEF TypeOK
            <4> QED BY <4>1, <4>2, <4>3
        <3>3. CASE DialFails
            BY <3>3 DEF DialFails
        <3> QED BY <1>1, <3>1, <3>2, <3>3 DEF Connect
    <2> QED BY <2>1, <2>2
<1>2. CASE Supervise
    <2>1. CASE Install
        BY <2>1 DEF Install, DialOrder, TypeOK
    <2>2. CASE Snapshot \/ ReplayDone \/ ReadFrame \/ ReadFails \/ Deliver \/ Abandon
        BY <2>2 DEF Snapshot, ReplayDone, ReadFrame, ReadFails, Deliver, Abandon
    <2>3. CASE FreeConn
        BY <2>3 DEF FreeConn, TypeOK
    <2>4. CASE CheckDone \/ CheckCtx \/ WaitElapsed \/ WaitStopped \/ Stopped
        BY <2>4 DEF CheckDone, CheckCtx, WaitElapsed, WaitStopped, Stopped
    <2> QED BY <1>2, <2>1, <2>2, <2>3, <2>4 DEF Supervise
<1>3. CASE Environment
    <2>1. CASE Receive \/ Cancel \/ Emit \/ \E k \in Conids : Expire(k)
        BY <2>1 DEF Receive, Cancel, Emit, Expire
    <2>2. ASSUME NEW c \in 1..MaxConns, Break(c) PROVE LifeOrder'
        <3>1. UNCHANGED <<conn, sup, done, closing>> /\ (Connected' => Connected)
            BY <1>0, <2>2 DEF Break, TypeOK
        <3> QED BY <3>1
    <2> QED BY <1>3, <2>1, <2>2 DEF Environment
<1>4. ASSUME NEW t \in Goroutines, Write(t) PROVE LifeOrder'
    BY <1>4 DEF Write, LockWrite, WriteMessage
<1>5. ASSUME NEW t \in Callers, Call(t) PROVE LifeOrder'
    BY <1>5 DEF Call, Subscribe, Unsubscribe, CloseDone, CloseConn, Ready, TypeOK
<1>6. CASE RenewTick \/ HeartbeatTick \/ Quiet \/ UNCHANGED vars
    BY <1>6 DEF RenewTick, HeartbeatTick, Quiet, vars
<1>7. ASSUME NEW t \in Loops, LoopExit(t) PROVE LifeOrder'
    BY <1>7 DEF LoopExit
<1> QED
    BY <1>1, <1>2, <1>3, <1>4, <1>5, <1>6, <1>7 DEF Next

LEMMA LifeNext == LifeInv /\ [Next]_vars => LifeInv'
BY TypeNext, DialOrderNext, LifeOrderNext DEF LifeInv

\* What leaves the connection, Close and the context alone changes the stage only
\* by where supervise is.
LEMMA StageKept ==
    ASSUME UNCHANGED <<conn, done, cancelled, closing>>, Connected' <=> Connected,
           Connected \/ (Stopping' <=> Stopping)
    PROVE  Stage' = Stage
BY DEF Stage, Connected, Stopping

LEMMA LifeStep == LifeInv /\ LifeInv' /\ [Next]_vars => [Life!Next]_(Life!vars)
<1> SUFFICES ASSUME LifeInv, LifeInv', [Next]_vars PROVE [Life!Next]_(Life!vars)
    OBVIOUS
<1> USE DEF recVars, writeVars, connVars, gateVars, readVars, lifeVars
<1>a. UNCHANGED <<Stage, done, cancelled>> => UNCHANGED Life!vars
    BY DEF Life!vars
<1>1. CASE Connect
    <2>1. UNCHANGED <<conn, done, cancelled, closing>>
        BY <1>1 DEF Connect, DialSocket, DialFails, Established, AwaitFails
    <2>2. ~Stopping /\ ~Stopping'
        BY <1>1 DEF Connect, DialSocket, DialFails, Established, AwaitFails, GiveUp, Stopping
    <2>3. ~Connected /\ ~Connected'
        BY <1>1 DEF Connect, DialSocket, DialFails, Established, AwaitFails, GiveUp, LifeInv,
            LifeOrder
    <2> QED BY <2>1, <2>2, <2>3, <1>a, StageKept
<1>2. CASE Supervise
    <2>1. CASE Install
        <3>1. /\ ~Connected /\ ~Stopping /\ conn' # 0 /\ UNCHANGED <<done, cancelled, closing>>
              /\ ~Connected' => (Stopping' <=> done \/ cancelled)
            BY <2>1 DEF Install, LifeInv, LifeOrder, DialOrder, TypeOK, Stopping
        <3>2. Stage = IF conn = 0 THEN "none" ELSE "dialing"
            BY <3>1 DEF Stage
        <3>3. CASE Connected'
            <4>1. Stage' = IF ~done THEN "up" ELSE IF closing = {} THEN "deaf" ELSE "ended"
                BY <3>1, <3>3 DEF Stage
            <4>2. Life!Dial \/ Life!Redial \/ Life!StreamStops
                BY <3>1, <3>2, <4>1 DEF Life!Dial, Life!Redial, Life!StreamStops, LifeInv, LifeOrder
            <4> QED BY <4>2 DEF Life!Next
        <3>4. CASE ~Connected'
            <4>1. Stage' = IF done \/ cancelled THEN "ended" ELSE "dialing"
                BY <3>1, <3>4 DEF Stage
            <4>2. Life!Dial \/ Life!StreamStops \/ UNCHANGED Life!vars
                BY <3>1, <3>2, <4>1
                DEF Life!Dial, Life!Lost, Life!StreamStops, Life!vars
            <4> QED BY <4>2 DEF Life!Next
        <3> QED BY <3>3, <3>4
    <2>2. CASE Snapshot \/ ReplayDone \/ ReadFrame \/ ReadFails \/ Deliver \/ Abandon
        <3>1. /\ UNCHANGED <<conn, link, done, cancelled, closing>>
              /\ Stopping' <=> Stopping
            BY <2>2 DEF Snapshot, ReplayDone, ReadFrame, ReadFails, Deliver, Abandon, Stopping
        <3>2. Connected' <=> Connected
            BY <3>1 DEF Connected
        <3> QED BY <3>1, <3>2, <1>a, StageKept
    <2>3. CASE FreeConn
        <3>1. /\ UNCHANGED <<conn, done, cancelled, closing>>
              /\ Stopping' <=> Stopping
            BY <2>3 DEF FreeConn, Stopping
        <3>2. ~Connected' /\ ~Connected
            BY <2>3 DEF FreeConn, LifeInv, LifeOrder
        <3> QED BY <3>1, <3>2, <1>a, StageKept
    <2>4. CASE CheckDone \/ CheckCtx \/ WaitElapsed \/ WaitStopped \/ Stopped
        <3>1. UNCHANGED <<conn, link, done, cancelled, closing>>
            BY <2>4 DEF CheckDone, CheckCtx, WaitElapsed, WaitStopped, Stopped
        <3>2. ~Connected /\ ~Connected' /\ conn # 0
            BY <2>4, <3>1 DEF CheckDone, CheckCtx, WaitElapsed, WaitStopped, Stopped, LifeInv,
                LifeOrder, DialOrder, Connected
        <3>3. /\ Stopping => Stopping'
              /\ Stopping' => Stopping \/ done \/ cancelled
            BY <2>4 DEF CheckDone, CheckCtx, WaitElapsed, WaitStopped, Stopped, Stopping
        <3>4. Stage = (IF Stopping THEN "ended" ELSE "dialing")
              /\ Stage' = (IF Stopping' THEN "ended" ELSE "dialing")
            BY <3>1, <3>2 DEF Stage
        <3>5. UNCHANGED Life!vars \/ Life!StreamStops
            BY <3>1, <3>3, <3>4 DEF Life!vars, Life!StreamStops
        <3> QED BY <3>5 DEF Life!Next
    <2> QED BY <1>2, <2>1, <2>2, <2>3, <2>4 DEF Supervise
<1>3. CASE Environment
    <2>1. CASE Cancel
        <3>1. UNCHANGED <<conn, link, sup, done, closing>> /\ cancelled'
            BY <2>1 DEF Cancel
        <3>2. (Connected' <=> Connected) /\ (Stopping => Stopping')
            BY <3>1 DEF Connected, Stopping
        <3>3. Stage' = Stage \/ (Stage = "dialing" /\ Stage' = "ended")
            BY <3>1, <3>2 DEF Stage, Connected
        <3>4. Life!Interrupt
            BY <3>1, <3>3, <2>1 DEF Life!Interrupt, Cancel
        <3> QED BY <3>4 DEF Life!Next
    <2>2. CASE Receive \/ Emit \/ \E k \in Conids : Expire(k)
        <3>1. UNCHANGED <<conn, link, sup, done, cancelled, closing>>
            BY <2>2 DEF Receive, Emit, Expire
        <3> QED BY <3>1, <1>a, StageKept DEF Connected, Stopping
    <2>3. ASSUME NEW c \in 1..MaxConns, Break(c) PROVE [Life!Next]_(Life!vars)
        <3>1. UNCHANGED <<conn, sup, done, cancelled, closing>> /\ (Stopping' <=> Stopping)
            BY <2>3 DEF Break, Stopping
        <3>2. CASE Connected /\ c = conn
            <4>1. ~Connected' /\ (Stopping' <=> done \/ cancelled) /\ conn # 0
                BY <2>3, <3>1, <3>2 DEF Break, Connected, LifeInv, LifeOrder, TypeOK, Stopping
            <4>2. Stage' = IF done \/ cancelled THEN "ended" ELSE "dialing"
                BY <3>1, <4>1 DEF Stage
            <4>3. Stage \in {"up", "deaf"} \/ (Stage = "ended" /\ done)
                BY <3>2 DEF Stage, Connected
            <4>4. Life!Drop \/ UNCHANGED Life!vars
                BY <3>1, <4>2, <4>3 DEF Life!Drop, Life!Lost, Life!vars
            <4> QED BY <4>4 DEF Life!Next
        <3>3. CASE ~(Connected /\ c = conn)
            <4>1. Connected' <=> Connected
                BY <2>3, <3>1, <3>3 DEF Break, Connected, TypeOK, LifeInv
            <4> QED BY <3>1, <4>1, <1>a, StageKept
        <3> QED BY <3>2, <3>3
    <2> QED BY <1>3, <2>1, <2>2, <2>3 DEF Environment
<1>4. ASSUME NEW t \in Goroutines, Write(t) PROVE UNCHANGED Life!vars
    <2>1. UNCHANGED <<conn, link, sup, done, cancelled, closing>>
        BY <1>4 DEF Write, LockWrite, WriteMessage
    <2> QED BY <2>1, <1>a, StageKept DEF Connected, Stopping
<1>5. ASSUME NEW t \in Callers, Call(t) PROVE [Life!Next]_(Life!vars)
    <2>1. CASE CloseDone(t)
        <3>1. /\ UNCHANGED <<conn, link, sup, cancelled>> /\ done' /\ closing' # {} /\ conn # 0
              /\ done' = TRUE
            BY <2>1 DEF CloseDone, Ready
        <3>2. (Connected' <=> Connected) /\ (Stopping => Stopping')
            BY <3>1 DEF Connected, Stopping
        <3>3. Stage # "none" /\ (Stage = "dialing" => ~Connected)
            BY <3>1 DEF Stage
        <3>4. Stage' \in {"dialing", "ended"} /\ (Stage' = "dialing" => Stage = "dialing")
            BY <3>1, <3>2 DEF Stage
        <3>5. Life!Close
            BY <3>1, <3>3, <3>4 DEF Life!Close
        <3> QED BY <3>5 DEF Life!Next
    <2>2. CASE CloseConn(t)
        <3>1. UNCHANGED <<conn, sup, done, cancelled>> /\ closing # {} /\ done
            BY <2>2 DEF CloseConn, LifeInv, LifeOrder
        <3>2. ~Connected' /\ (Stopping' <=> Stopping) /\ (Connected => Stopping)
            BY <2>2, <3>1 DEF CloseConn, Connected, Stopping, LifeInv, LifeOrder, TypeOK
        <3>3. Stage' = Stage
            BY <3>1, <3>2 DEF Stage
        <3> QED BY <3>1, <3>3, <1>a
    <2>3. ASSUME NEW k \in Conids,
                 Unsubscribe(t, k) \/ \E f \in FieldSets : Subscribe(t, k, f)
          PROVE  UNCHANGED Life!vars
        <3>1. UNCHANGED <<conn, link, sup, done, cancelled, closing>>
            BY <2>3 DEF Subscribe, Unsubscribe
        <3> QED BY <3>1, <1>a, StageKept DEF Connected, Stopping
    <2> QED BY <1>5, <2>1, <2>2, <2>3 DEF Call
<1>6. CASE RenewTick \/ HeartbeatTick \/ Quiet \/ UNCHANGED vars
    <2>1. UNCHANGED <<conn, link, sup, done, cancelled, closing>>
        BY <1>6 DEF RenewTick, HeartbeatTick, Quiet, vars
    <2> QED BY <2>1, <1>a, StageKept DEF Connected, Stopping
<1>7. ASSUME NEW t \in Loops, LoopExit(t) PROVE UNCHANGED Life!vars
    <2>1. UNCHANGED <<conn, link, sup, done, cancelled, closing>>
        BY <1>7 DEF LoopExit
    <2> QED BY <2>1, <1>a, StageKept DEF Connected, Stopping
<1> QED
    BY <1>1, <1>2, <1>3, <1>4, <1>5, <1>6, <1>7 DEF Next

\* The stream lives as StreamLife says, which is what the probe assumes of it.
THEOREM StreamLivesAsPromised == Spec => LivesAsPromised
<1>1. Init => Life!Init
    BY DEF Init, Life!Init, Stage, Connected
<1>2. LifeInv /\ [Next]_vars => LifeInv' /\ [Life!Next]_(Life!vars)
    BY LifeNext, LifeStep
<1> QED
    BY <1>1, LifeInit, <1>2, PTL DEF Spec, LivesAsPromised, Life!Spec

=============================================================================
