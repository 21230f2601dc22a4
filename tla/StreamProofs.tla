---------------------------- MODULE StreamProofs ----------------------------
(***************************************************************************)
(* Proofs about Stream, for every number of conids, callers, connections   *)
(* and calls: TypeOK, NoOrphanConnection and NoLostSubscription.           *)
(***************************************************************************)
EXTENDS Stream, TLAPS

-----------------------------------------------------------------------------
(* Commands.                                                               *)

\* What the three shapes of a frame are, and that they are told apart by op.
LEMMA CommandShapes ==
    /\ \A k \in Conids, f \in FieldSets : Smd(k, f) \in Commands
    /\ \A k \in Conids : Umd(k) \in Commands
    /\ Tic \in Commands
    /\ \A k \in Conids, j \in Conids, f \in FieldSets : Smd(k, f) # Umd(j)
    /\ \A k \in Conids : Tic # Umd(k)
    /\ \A k \in Conids, f \in FieldSets : Tic # Smd(k, f)
    /\ \A k \in Conids, j \in Conids : Umd(k) = Umd(j) => k = j
    /\ \A m \in Commands :
        \/ \E k \in Conids, f \in FieldSets : m = Smd(k, f)
        \/ \E k \in Conids : m = Umd(k)
        \/ m = Tic
<1>1. \A k \in Conids, j \in Conids, f \in FieldSets : Smd(k, f).op # Umd(j).op
    BY DEF Smd, Umd
<1>2. \A k \in Conids, f \in FieldSets : Tic.op # Umd(k).op /\ Tic.op # Smd(k, f).op
    BY DEF Tic, Smd, Umd
<1>3. \A k \in Conids : Tic.op # Umd(k).op
    BY DEF Tic, Umd
<1>4. \A k \in Conids : Umd(k).conid = k
    BY DEF Umd
<1> QED
    BY <1>1, <1>2, <1>3, <1>4 DEF Commands

\* The gateway's reaction to a frame, by the shape of the frame.
LEMMA AppliedCases ==
    ASSUME NEW fd \in [Conids -> Fields]
    PROVE  /\ \A k \in Conids, f \in FieldSets :
                Applied(Smd(k, f), fd) = [fd EXCEPT ![k] = f]
           /\ \A k \in Conids : Applied(Umd(k), fd) = [fd EXCEPT ![k] = NoFields]
           /\ Applied(Tic, fd) = fd
BY DEF Applied, Smd, Umd, Tic

LEMMA AppliedType ==
    ASSUME NEW fd \in [Conids -> Fields], NEW m \in Commands
    PROVE  Applied(m, fd) \in [Conids -> Fields]
<1>1. CASE \E k \in Conids, f \in FieldSets : m = Smd(k, f)
    BY <1>1, AppliedCases DEF Fields
<1>2. CASE \E k \in Conids : m = Umd(k)
    BY <1>2, AppliedCases DEF Fields
<1>3. CASE m = Tic
    BY <1>3, AppliedCases
<1> QED
    BY <1>1, <1>2, <1>3, CommandShapes

\* A replay asks for each recorded subscription, with its fields, and for no other.
LEMMA ReplayContents ==
    ASSUME NEW recorded \in [Conids -> Fields]
    PROVE  /\ Replay(recorded) \subseteq Commands
           /\ \A k \in Conids : recorded[k] # NoFields =>
                recorded[k] \in FieldSets /\ Smd(k, recorded[k]) \in Replay(recorded)
           /\ \A k \in Conids : Umd(k) \notin Replay(recorded)
<1>1. \A m \in Replay(recorded) :
        \E k \in Conids : recorded[k] \in FieldSets /\ m = Smd(k, recorded[k])
    BY DEF Replay, Fields
<1>2. \A k \in Conids : recorded[k] # NoFields => Smd(k, recorded[k]) \in Replay(recorded)
    BY DEF Replay
<1> QED
    BY <1>1, <1>2, CommandShapes DEF Fields

-----------------------------------------------------------------------------
(* Type correctness.                                                       *)

LEMMA TypeInit == Init => TypeOK
<1> SUFFICES ASSUME Init PROVE TypeOK
    OBVIOUS
<1>1. NoFrame \in Frames
    BY BoundsAssumption DEF NoFrame, Frame, Frames
<1>2. NoSubs \in [Conids -> Fields]
    BY DEF NoSubs, Fields
<1>3. outbox \in [Goroutines -> SUBSET Commands]
    BY DEF Init
<1>4. link \in [1..MaxConns -> {"none", "handshake", "up", "broken", "closed"}]
    BY DEF Init
<1>5. updates \in Seq(Frames)
    BY DEF Init
<1>6. /\ conn \in 0..MaxConns /\ dialed \in 0..MaxConns
      /\ sent \in 0..MaxFrames /\ rd \in 0..MaxFrames
      /\ calls \in 0..MaxCalls /\ closes \in 0..MaxCloses
    BY BoundsAssumption DEF Init
<1>7. /\ loops \subseteq Loops /\ closing \subseteq Callers
      /\ done \in BOOLEAN /\ cancelled \in BOOLEAN
    BY DEF Init
<1>8. writing = Unlocked
    BY DEF Init
<1> QED
    BY <1>1, <1>2, <1>3, <1>4, <1>5, <1>6, <1>7, <1>8 DEF Init, TypeOK, SupPoints

LEMMA TypeConnect == TypeOK /\ Connect => TypeOK'
<1> SUFFICES ASSUME TypeOK, Connect PROVE TypeOK'
    OBVIOUS
<1> USE BoundsAssumption DEF TypeOK, SupPoints, recVars, writeVars, connVars, gateVars,
        readVars, lifeVars
<1>1. CASE DialSocket BY <1>1 DEF DialSocket
<1>2. CASE DialFails BY <1>2 DEF DialFails, GiveUp
<1>3. CASE Established BY <1>3 DEF Established
<1>4. CASE AwaitFails BY <1>4 DEF AwaitFails, GiveUp
<1> QED BY <1>1, <1>2, <1>3, <1>4 DEF Connect

LEMMA TypeSupervise == TypeOK /\ Supervise => TypeOK'
<1> SUFFICES ASSUME TypeOK, Supervise PROVE TypeOK'
    OBVIOUS
<1> USE BoundsAssumption DEF TypeOK, SupPoints, recVars, writeVars, connVars, gateVars,
        readVars, lifeVars
<1>0. NoFrame \in Frames /\ NoSubs \in [Conids -> Fields]
    BY DEF NoFrame, Frame, Frames, NoSubs, Fields
<1>1. CASE Install BY <1>1, <1>0 DEF Install
<1>2. CASE Snapshot BY <1>2, ReplayContents DEF Snapshot
<1>3. CASE ReplayDone BY <1>3 DEF ReplayDone
<1>4. CASE ReadFrame
    <2>1. rd + 1 \in 0..MaxFrames /\ Frame(conn, rd + 1) \in Frames
        BY <1>4 DEF ReadFrame, Frame, Frames
    <2> QED BY <1>4, <2>1 DEF ReadFrame
<1>5. CASE ReadFails BY <1>5 DEF ReadFails
<1>6. CASE Deliver
    <2>1. Append(updates, held) \in Seq(Frames)
        OBVIOUS
    <2> QED BY <1>6, <1>0, <2>1 DEF Deliver
<1>7. CASE Abandon BY <1>7, <1>0 DEF Abandon
<1>8. CASE FreeConn BY <1>8, <1>0 DEF FreeConn
<1>9. CASE CheckDone BY <1>9 DEF CheckDone
<1>10. CASE CheckCtx BY <1>10 DEF CheckCtx
<1>11. CASE WaitElapsed BY <1>11 DEF WaitElapsed
<1>12. CASE WaitStopped BY <1>12 DEF WaitStopped
<1>13. CASE Stopped BY <1>13 DEF Stopped
<1> QED
    BY <1>1, <1>2, <1>3, <1>4, <1>5, <1>6, <1>7, <1>8, <1>9, <1>10, <1>11, <1>12, <1>13
    DEF Supervise

LEMMA TypeEnvironment == TypeOK /\ Environment => TypeOK'
<1> SUFFICES ASSUME TypeOK, Environment PROVE TypeOK'
    OBVIOUS
<1> USE BoundsAssumption DEF TypeOK, SupPoints, recVars, writeVars, connVars, gateVars,
        readVars, lifeVars
<1>1. CASE Receive
    <2>1. Tail(updates) \in Seq(Frames)
        BY <1>1 DEF Receive
    <2> QED BY <1>1, <2>1 DEF Receive
<1>2. CASE Cancel BY <1>2 DEF Cancel
<1>3. CASE Emit BY <1>3 DEF Emit
<1>4. ASSUME NEW k \in Conids, Expire(k) PROVE TypeOK'
    BY <1>4 DEF Expire, Fields
<1>5. ASSUME NEW c \in 1..MaxConns, Break(c) PROVE TypeOK'
    BY <1>5 DEF Break, NoSubs, Fields
<1> QED BY <1>1, <1>2, <1>3, <1>4, <1>5 DEF Environment

LEMMA TypeWrite == ASSUME NEW t \in Goroutines PROVE TypeOK /\ Write(t) => TypeOK'
<1> SUFFICES ASSUME TypeOK, Write(t) PROVE TypeOK'
    OBVIOUS
<1> USE BoundsAssumption DEF TypeOK, recVars, writeVars, connVars, gateVars,
        readVars, lifeVars
<1>1. CASE LockWrite(t) BY <1>1 DEF LockWrite
<1>2. CASE WriteMessage(t)
    <2>1. writing.msg \in Commands
        BY <1>2 DEF WriteMessage
    <2>2. feed' \in [Conids -> Fields]
        BY <1>2, <2>1, AppliedType DEF WriteMessage
    <2> QED BY <1>2, <2>2 DEF WriteMessage
<1> QED BY <1>1, <1>2 DEF Write

LEMMA TypeCall == ASSUME NEW t \in Callers PROVE TypeOK /\ Call(t) => TypeOK'
<1> SUFFICES ASSUME TypeOK, Call(t) PROVE TypeOK'
    OBVIOUS
<1> USE BoundsAssumption DEF TypeOK, recVars, writeVars, connVars, gateVars,
        readVars, lifeVars
<1>1. ASSUME NEW k \in Conids, Unsubscribe(t, k) PROVE TypeOK'
    <2>1. subs' \in [Conids -> Fields] /\ calls' \in 0..MaxCalls
        BY <1>1 DEF Unsubscribe, Fields
    <2>2. {Umd(k)} \in SUBSET Commands
        BY CommandShapes
    <2>3. outbox' \in [Goroutines -> SUBSET Commands]
        BY <1>1, <2>2 DEF Unsubscribe
    <2> QED BY <1>1, <2>1, <2>3 DEF Unsubscribe
<1>2. ASSUME NEW k \in Conids, NEW f \in FieldSets, Subscribe(t, k, f) PROVE TypeOK'
    <2>1. subs' \in [Conids -> Fields] /\ calls' \in 0..MaxCalls
        BY <1>2 DEF Subscribe, Fields
    <2>2. {Smd(k, f)} \in SUBSET Commands
        BY CommandShapes
    <2>3. outbox' \in [Goroutines -> SUBSET Commands]
        BY <1>2, <2>2 DEF Subscribe
    <2> QED BY <1>2, <2>1, <2>3 DEF Subscribe
<1>3. CASE CloseDone(t) BY <1>3 DEF CloseDone
<1>4. CASE CloseConn(t) BY <1>4 DEF CloseConn, NoSubs, Fields
<1> QED BY <1>1, <1>2, <1>3, <1>4 DEF Call

LEMMA TypeNext == TypeOK /\ [Next]_vars => TypeOK'
<1> SUFFICES ASSUME TypeOK, [Next]_vars PROVE TypeOK'
    OBVIOUS
<1> USE DEF recVars, writeVars, connVars, gateVars, readVars, lifeVars
<1>1. CASE UNCHANGED vars BY <1>1 DEF vars, TypeOK
<1>2. CASE Quiet BY <1>2 DEF Quiet, vars, TypeOK
<1>3. CASE RenewTick BY <1>3, ReplayContents DEF RenewTick, TypeOK
<1>4. CASE HeartbeatTick BY <1>4, CommandShapes DEF HeartbeatTick, TypeOK
<1>5. ASSUME NEW t \in Loops, LoopExit(t) PROVE TypeOK'
    BY <1>5 DEF LoopExit, TypeOK
<1> QED
    BY <1>1, <1>2, <1>3, <1>4, <1>5, TypeConnect, TypeSupervise, TypeEnvironment,
       TypeWrite, TypeCall DEF Next

\* Type correctness of the stream client.
THEOREM TypeCorrect == Spec => []TypeOK
BY TypeInit, TypeNext, PTL DEF Spec

-----------------------------------------------------------------------------
(* No socket leaks.                                                        *)

\* Every socket that is not closed is the published one or the one being dialled.
THEOREM NoSocketLeaks == Spec => []NoOrphanConnection
<1> USE DEF recVars, writeVars, connVars, gateVars, readVars, lifeVars
<1>1. Init => NoOrphanConnection
    BY DEF Init, NoOrphanConnection
<1>2. TypeOK /\ NoOrphanConnection /\ [Next]_vars => NoOrphanConnection'
    <2> SUFFICES ASSUME TypeOK, NoOrphanConnection, [Next]_vars
                 PROVE  NoOrphanConnection'
        OBVIOUS
    <2> USE DEF NoOrphanConnection
    <2>1. CASE Connect
        <3>1. CASE DialSocket
            BY <3>1 DEF DialSocket, TypeOK
        <3>2. CASE DialFails
            BY <3>2 DEF DialFails
        <3>3. CASE Established
            BY <3>3 DEF Established, TypeOK
        <3>4. CASE AwaitFails
            BY <3>4 DEF AwaitFails, TypeOK
        <3> QED
            BY <2>1, <3>1, <3>2, <3>3, <3>4 DEF Connect
    <2>2. CASE Supervise
        <3>1. CASE Install
            BY <2>2, <3>1 DEF Install
        <3>2. CASE FreeConn
            BY <3>2 DEF FreeConn, TypeOK
        <3>3. CASE Snapshot \/ ReplayDone \/ ReadFrame \/ ReadFails \/ Deliver \/ Abandon
            BY <3>3 DEF Snapshot, ReplayDone, ReadFrame, ReadFails, Deliver, Abandon
        <3>4. CASE CheckDone \/ CheckCtx \/ WaitElapsed \/ WaitStopped \/ Stopped
            BY <3>4 DEF CheckDone, CheckCtx, WaitElapsed, WaitStopped, Stopped
        <3> QED
            BY <2>2, <3>1, <3>2, <3>3, <3>4 DEF Supervise
    <2>3. CASE Environment
        <3>1. CASE Receive \/ Cancel \/ Emit
            BY <3>1 DEF Receive, Cancel, Emit
        <3>2. ASSUME NEW k \in Conids, Expire(k) PROVE NoOrphanConnection'
            BY <3>2 DEF Expire
        <3>3. ASSUME NEW c \in 1..MaxConns, Break(c) PROVE NoOrphanConnection'
            BY <3>3 DEF Break, TypeOK
        <3> QED
            BY <2>3, <3>1, <3>2, <3>3 DEF Environment
    <2>4. ASSUME NEW t \in Goroutines, Write(t) PROVE NoOrphanConnection'
        BY <2>4 DEF Write, LockWrite, WriteMessage
    <2>5. ASSUME NEW t \in Callers, Call(t) PROVE NoOrphanConnection'
        <3>1. CASE CloseConn(t)
            BY <3>1 DEF CloseConn, TypeOK
        <3>2. CASE CloseDone(t)
            BY <3>2 DEF CloseDone
        <3>3. ASSUME NEW k \in Conids,
                     Unsubscribe(t, k) \/ \E f \in FieldSets : Subscribe(t, k, f)
              PROVE  NoOrphanConnection'
            BY <3>3 DEF Subscribe, Unsubscribe
        <3> QED
            BY <2>5, <3>1, <3>2, <3>3 DEF Call
    <2>6. CASE RenewTick \/ HeartbeatTick \/ Quiet \/ UNCHANGED vars
        BY <2>6 DEF RenewTick, HeartbeatTick, Quiet, vars
    <2>7. ASSUME NEW t \in Loops, LoopExit(t) PROVE NoOrphanConnection'
        BY <2>7 DEF LoopExit
    <2> QED
        BY <2>1, <2>2, <2>3, <2>4, <2>5, <2>6, <2>7 DEF Next
<1> QED
    BY <1>1, <1>2, TypeCorrect, PTL DEF Spec

-----------------------------------------------------------------------------
(* No subscription is lost.                                                *)
(*                                                                         *)
(* NoLostSubscription alone is not inductive: an unsubscribe frame that is *)
(* written for a conid recorded again would break it.  UnsubscribeOwned    *)
(* excludes that frame: with one owner per conid, the only goroutine that  *)
(* could record the conid again is still inside the call that sends it.    *)

\* A connection is dialled before it is published, supervise has one at most that
\* is not published yet, and starts with a published one.
DialOrder ==
    /\ conn <= dialed
    /\ sup \notin {"dial", "await", "install", "failed"} => conn # 0
    /\ sup \in {"await", "install"} => conn < dialed

\* Nobody has a Stream to subscribe on before DialStream returns.
NothingRecordedYet == conn = 0 => subs = NoSubs

WillUnsubscribe(t, k) ==
    \/ Umd(k) \in outbox[t]
    \/ writing # Unlocked /\ writing.by = t /\ writing.msg = Umd(k)

\* An unsubscribe frame belongs to the owner of the conid, who has not recorded
\* it again.
UnsubscribeOwned ==
    \A t \in Goroutines, k \in Conids : WillUnsubscribe(t, k) =>
        t \in Callers /\ <<t, k>> \in Owns /\ (OneOwner => subs[k] = NoFields)

LostInv == TypeOK /\ DialOrder /\ NothingRecordedYet /\ UnsubscribeOwned /\ NoLostSubscription

LEMMA LostInit == Init => LostInv
<1> SUFFICES ASSUME Init PROVE LostInv
    OBVIOUS
<1>1. TypeOK
    BY TypeInit
<1>2. DialOrder /\ NothingRecordedYet
    BY DEF Init, DialOrder, NothingRecordedYet
<1>3. UnsubscribeOwned
    BY DEF Init, UnsubscribeOwned, WillUnsubscribe
<1>4. NoLostSubscription
    BY DEF Init, NoLostSubscription
<1> QED
    BY <1>1, <1>2, <1>3, <1>4 DEF LostInv

LEMMA DialOrderNext == TypeOK /\ DialOrder /\ [Next]_vars => DialOrder'
<1> SUFFICES ASSUME TypeOK, DialOrder, [Next]_vars PROVE DialOrder'
    OBVIOUS
<1> USE DEF DialOrder, recVars, writeVars, connVars, gateVars, readVars, lifeVars
<1>1. CASE Connect
    BY <1>1 DEF Connect, DialSocket, DialFails, Established, AwaitFails, GiveUp, TypeOK
<1>2. CASE Supervise
    <2>1. CASE Install
        BY <2>1 DEF Install, TypeOK
    <2>2. CASE Snapshot \/ ReplayDone \/ ReadFrame \/ ReadFails \/ Deliver \/ Abandon
        BY <2>2 DEF Snapshot, ReplayDone, ReadFrame, ReadFails, Deliver, Abandon
    <2>3. CASE FreeConn \/ CheckDone \/ CheckCtx \/ WaitElapsed \/ WaitStopped \/ Stopped
        BY <2>3 DEF FreeConn, CheckDone, CheckCtx, WaitElapsed, WaitStopped, Stopped
    <2> QED
        BY <1>2, <2>1, <2>2, <2>3 DEF Supervise
<1>3. CASE Environment
    BY <1>3 DEF Environment, Receive, Cancel, Emit, Expire, Break
<1>4. ASSUME NEW t \in Goroutines, Write(t) PROVE DialOrder'
    BY <1>4 DEF Write, LockWrite, WriteMessage
<1>5. ASSUME NEW t \in Callers, Call(t) PROVE DialOrder'
    BY <1>5 DEF Call, Subscribe, Unsubscribe, CloseDone, CloseConn
<1>6. CASE RenewTick \/ HeartbeatTick \/ Quiet \/ UNCHANGED vars
    BY <1>6 DEF RenewTick, HeartbeatTick, Quiet, vars
<1>7. ASSUME NEW t \in Loops, LoopExit(t) PROVE DialOrder'
    BY <1>7 DEF LoopExit
<1> QED
    BY <1>1, <1>2, <1>3, <1>4, <1>5, <1>6, <1>7 DEF Next

LEMMA NothingRecordedYetNext ==
    TypeOK /\ DialOrder /\ NothingRecordedYet /\ [Next]_vars => NothingRecordedYet'
<1> SUFFICES ASSUME TypeOK, DialOrder, NothingRecordedYet, [Next]_vars
             PROVE  NothingRecordedYet'
    OBVIOUS
<1> USE DEF NothingRecordedYet, recVars, writeVars, connVars, gateVars, readVars, lifeVars
<1>1. CASE Connect
    BY <1>1 DEF Connect, DialSocket, DialFails, Established, AwaitFails
<1>2. CASE Supervise
    <2>1. CASE Install
        BY <2>1 DEF Install, TypeOK, DialOrder
    <2>2. CASE Snapshot \/ ReplayDone \/ ReadFrame \/ ReadFails \/ Deliver \/ Abandon
        BY <2>2 DEF Snapshot, ReplayDone, ReadFrame, ReadFails, Deliver, Abandon
    <2>3. CASE FreeConn \/ CheckDone \/ CheckCtx \/ WaitElapsed \/ WaitStopped \/ Stopped
        BY <2>3 DEF FreeConn, CheckDone, CheckCtx, WaitElapsed, WaitStopped, Stopped
    <2> QED
        BY <1>2, <2>1, <2>2, <2>3 DEF Supervise
<1>3. CASE Environment
    BY <1>3 DEF Environment, Receive, Cancel, Emit, Expire, Break
<1>4. ASSUME NEW t \in Goroutines, Write(t) PROVE NothingRecordedYet'
    BY <1>4 DEF Write, LockWrite, WriteMessage
<1>5. ASSUME NEW t \in Callers, Call(t) PROVE NothingRecordedYet'
    BY <1>5 DEF Call, Subscribe, Unsubscribe, CloseDone, CloseConn, Ready
<1>6. CASE RenewTick \/ HeartbeatTick \/ Quiet \/ UNCHANGED vars
    BY <1>6 DEF RenewTick, HeartbeatTick, Quiet, vars
<1>7. ASSUME NEW t \in Loops, LoopExit(t) PROVE NothingRecordedYet'
    BY <1>7 DEF LoopExit
<1> QED
    BY <1>1, <1>2, <1>3, <1>4, <1>5, <1>6, <1>7 DEF Next

\* The steps that touch what is recorded or what is still to be written.
LEMMA WritingSteps ==
    [Next]_vars =>
        \/ \E t \in Goroutines : LockWrite(t) \/ WriteMessage(t)
        \/ \E t \in Callers, k \in Conids :
                Unsubscribe(t, k) \/ \E f \in FieldSets : Subscribe(t, k, f)
        \/ Snapshot \/ RenewTick \/ HeartbeatTick
        \/ UNCHANGED <<subs, outbox, writing>>
<1> SUFFICES ASSUME [Next]_vars
             PROVE  \/ \E t \in Goroutines : LockWrite(t) \/ WriteMessage(t)
                    \/ \E t \in Callers, k \in Conids :
                            Unsubscribe(t, k) \/ \E f \in FieldSets : Subscribe(t, k, f)
                    \/ Snapshot \/ RenewTick \/ HeartbeatTick
                    \/ UNCHANGED <<subs, outbox, writing>>
    OBVIOUS
<1> USE DEF recVars, writeVars
<1>1. CASE Connect
    BY <1>1 DEF Connect, DialSocket, DialFails, Established, AwaitFails
<1>2. CASE Supervise
    BY <1>2 DEF Supervise, Install, ReplayDone, ReadFrame, ReadFails, Deliver,
        Abandon, FreeConn, CheckDone, CheckCtx, WaitElapsed, WaitStopped, Stopped
<1>3. CASE Environment
    BY <1>3 DEF Environment, Receive, Cancel, Emit, Expire, Break
<1>4. ASSUME NEW t \in Goroutines, Write(t) PROVE LockWrite(t) \/ WriteMessage(t)
    BY <1>4 DEF Write
<1>5. ASSUME NEW t \in Callers, Call(t)
      PROVE  \/ \E k \in Conids : Unsubscribe(t, k) \/ \E f \in FieldSets : Subscribe(t, k, f)
             \/ UNCHANGED <<subs, outbox, writing>>
    BY <1>5 DEF Call, CloseDone, CloseConn
<1>6. CASE Quiet \/ UNCHANGED vars
    BY <1>6 DEF Quiet, vars
<1>7. ASSUME NEW t \in Loops, LoopExit(t) PROVE UNCHANGED <<subs, outbox, writing>>
    BY <1>7 DEF LoopExit
<1> QED
    BY <1>1, <1>2, <1>3, <1>4, <1>5, <1>6, <1>7 DEF Next

LEMMA UnsubscribeOwnedNext == TypeOK /\ UnsubscribeOwned /\ [Next]_vars => UnsubscribeOwned'
<1> SUFFICES ASSUME TypeOK, UnsubscribeOwned, [Next]_vars,
                    NEW t \in Goroutines, NEW k \in Conids, WillUnsubscribe(t, k)'
             PROVE  t \in Callers /\ <<t, k>> \in Owns /\ (OneOwner => subs'[k] = NoFields)
    BY DEF UnsubscribeOwned, OneOwner
<1> USE DEF recVars
<1>1. CASE \E u \in Goroutines : LockWrite(u)
    <2>1. WillUnsubscribe(t, k) /\ subs' = subs
        BY <1>1 DEF LockWrite, WillUnsubscribe, TypeOK
    <2> QED BY <2>1 DEF UnsubscribeOwned
<1>2. CASE \E u \in Goroutines : WriteMessage(u)
    <2>1. WillUnsubscribe(t, k) /\ subs' = subs
        BY <1>2 DEF WriteMessage, WillUnsubscribe, TypeOK
    <2> QED BY <2>1 DEF UnsubscribeOwned
<1>3. ASSUME NEW u \in Callers, NEW j \in Conids, Unsubscribe(u, j)
      PROVE  t \in Callers /\ <<t, k>> \in Owns /\ (OneOwner => subs'[k] = NoFields)
    <2>1. CASE t = u
        <3>1. k = j
            BY <1>3, <2>1, CommandShapes DEF Unsubscribe, Ready, Busy, WillUnsubscribe, TypeOK
        <3> QED BY <1>3, <2>1, <3>1 DEF Unsubscribe, TypeOK
    <2>2. CASE t # u
        <3>1. WillUnsubscribe(t, k)
            BY <1>3, <2>2 DEF Unsubscribe, WillUnsubscribe, TypeOK
        <3>2. subs'[k] = subs[k] \/ subs'[k] = NoFields
            BY <1>3 DEF Unsubscribe, TypeOK
        <3> QED BY <3>1, <3>2 DEF UnsubscribeOwned
    <2> QED BY <2>1, <2>2
<1>4. ASSUME NEW u \in Callers, NEW j \in Conids, NEW f \in FieldSets, Subscribe(u, j, f)
      PROVE  t \in Callers /\ <<t, k>> \in Owns /\ (OneOwner => subs'[k] = NoFields)
    <2>1. t # u
        BY <1>4, CommandShapes DEF Subscribe, Ready, Busy, WillUnsubscribe, TypeOK
    <2>2. WillUnsubscribe(t, k)
        BY <1>4, <2>1 DEF Subscribe, WillUnsubscribe, TypeOK
    <2>3. OneOwner => k # j
        BY <1>4, <2>1, <2>2 DEF UnsubscribeOwned, OneOwner, Subscribe
    <2> QED BY <1>4, <2>2, <2>3 DEF UnsubscribeOwned, Subscribe, TypeOK
<1>5. CASE Snapshot
    <2>1. WillUnsubscribe(t, k) /\ subs' = subs
        BY <1>5, ReplayContents DEF Snapshot, WillUnsubscribe, TypeOK
    <2> QED BY <2>1 DEF UnsubscribeOwned
<1>6. CASE RenewTick
    <2>1. WillUnsubscribe(t, k) /\ subs' = subs
        BY <1>6, ReplayContents DEF RenewTick, WillUnsubscribe, TypeOK
    <2> QED BY <2>1 DEF UnsubscribeOwned
<1>7. CASE HeartbeatTick
    <2>1. WillUnsubscribe(t, k) /\ subs' = subs
        BY <1>7, CommandShapes DEF HeartbeatTick, WillUnsubscribe, TypeOK
    <2> QED BY <2>1 DEF UnsubscribeOwned
<1>8. CASE UNCHANGED <<subs, outbox, writing>>
    BY <1>8 DEF UnsubscribeOwned, WillUnsubscribe
<1> QED
    BY <1>1, <1>2, <1>3, <1>4, <1>5, <1>6, <1>7, <1>8, WritingSteps

\* Where a recorded subscription is safe.
Safe(k) == feed[k] # NoFields \/ OnItsWay(k) \/ sup = "snapshot"

\* A step that writes nothing keeps a subscription safe as long as it leaves the
\* connection, what the gateway streams and a due snapshot alone.
LEMMA SafeKept ==
    ASSUME NEW k \in Conids, Safe(k), UNCHANGED <<outbox, writing, conn>>,
           feed'[k] = feed[k], sup = "snapshot" => sup' = "snapshot"
    PROVE  Safe(k)'
BY DEF Safe, OnItsWay, Pending

LEMMA NoLostNext == LostInv /\ [Next]_vars => NoLostSubscription'
<1> SUFFICES ASSUME LostInv, [Next]_vars, NEW k \in Conids, OneOwner,
                    conn' # 0, link'[conn'] = "up", "renew" \in loops', subs'[k] # NoFields
             PROVE  Safe(k)'
    BY DEF NoLostSubscription, Safe, OneOwner
<1> USE DEF LostInv, recVars, writeVars, connVars, gateVars, readVars, lifeVars
<1>0. (conn # 0 /\ link[conn] = "up" /\ "renew" \in loops /\ subs[k] # NoFields) => Safe(k)
    BY DEF NoLostSubscription, Safe
<1>1. CASE Connect
    <2>1. CASE DialSocket \/ DialFails \/ AwaitFails
        <3>1. conn # 0 /\ link[conn] = "up" /\ subs[k] # NoFields
            <4>1. CASE DialSocket
                BY <4>1 DEF DialSocket, TypeOK
            <4>2. CASE DialFails
                BY <4>2 DEF DialFails
            <4>3. CASE AwaitFails
                BY <4>3 DEF AwaitFails, TypeOK
            <4> QED BY <2>1, <4>1, <4>2, <4>3
        <3> QED BY <1>0, <2>1, <3>1, SafeKept DEF DialSocket, DialFails, AwaitFails
    <2>2. CASE Established
        <3>1. conn # 0 /\ link[conn] = "up" /\ subs[k] # NoFields
            BY <2>2 DEF Established, TypeOK, DialOrder
        <3> QED BY <1>0, <2>2, <3>1, SafeKept DEF Established
    <2> QED BY <1>1, <2>1, <2>2 DEF Connect
<1>2. CASE Supervise
    <2>1. CASE Install
        <3>1. conn # 0
            BY <2>1 DEF Install, NothingRecordedYet, NoSubs
        <3> QED BY <2>1, <3>1 DEF Install, Safe
    <2>2. CASE Snapshot
        <3>1. Smd(k, subs[k]) \in outbox'["supervise"] /\ subs[k] \in FieldSets
            BY <2>2, ReplayContents DEF Snapshot, TypeOK, Goroutines
        <3> QED BY <3>1 DEF Safe, OnItsWay, Pending, Goroutines
    <2>3. CASE ReplayDone \/ ReadFrame \/ ReadFails \/ Deliver \/ Abandon
        BY <1>0, <2>3, SafeKept DEF ReplayDone, ReadFrame, ReadFails, Deliver, Abandon
    <2>4. CASE FreeConn
        BY <2>4 DEF FreeConn, TypeOK
    <2>5. CASE CheckDone \/ CheckCtx \/ WaitElapsed \/ WaitStopped \/ Stopped
        BY <1>0, <2>5, SafeKept DEF CheckDone, CheckCtx, WaitElapsed, WaitStopped, Stopped
    <2> QED BY <1>2, <2>1, <2>2, <2>3, <2>4, <2>5 DEF Supervise
<1>3. CASE Environment
    <2>1. CASE Receive \/ Cancel \/ Emit
        BY <1>0, <2>1, SafeKept DEF Receive, Cancel, Emit
    <2>2. ASSUME NEW j \in Conids, Expire(j) PROVE Safe(k)'
        BY <1>0, <2>2, SafeKept DEF Expire, TypeOK
    <2>3. ASSUME NEW c \in 1..MaxConns, Break(c) PROVE Safe(k)'
        <3>1. c # conn
            BY <2>3 DEF Break, TypeOK
        <3> QED BY <1>0, <2>3, <3>1, SafeKept DEF Break, TypeOK
    <2> QED BY <1>3, <2>1, <2>2, <2>3 DEF Environment
<1>4. ASSUME NEW t \in Goroutines, LockWrite(t) PROVE Safe(k)'
    <2>1. Safe(k)
        BY <1>0, <1>4 DEF LockWrite
    <2>2. ASSUME NEW f \in FieldSets, Pending(Smd(k, f)) PROVE Pending(Smd(k, f))'
        <3>1. PICK u \in Goroutines : Smd(k, f) \in outbox[u]
            BY <1>4, <2>2 DEF LockWrite, Pending
        <3>2. PICK m \in outbox[t] :
                /\ writing' = [by |-> t, msg |-> m, on |-> conn]
                /\ outbox' = [outbox EXCEPT ![t] = @ \ {m}]
            BY <1>4 DEF LockWrite
        <3>3. CASE m = Smd(k, f)
            <4>1. writing'.msg = m /\ writing'.on = conn' /\ writing'.by \in Goroutines
                BY <1>4, <3>2 DEF LockWrite
            <4>2. writing' # Unlocked
                BY <4>1, NamesAssumption DEF Unlocked, Goroutines, Loops
            <4> QED BY <3>3, <4>1, <4>2 DEF Pending
        <3>4. CASE m # Smd(k, f)
            <4>1. Smd(k, f) \in outbox'[u]
                BY <3>1, <3>2, <3>4 DEF TypeOK
            <4> QED BY <4>1 DEF Pending
        <3> QED BY <3>3, <3>4
    <2> QED BY <1>4, <2>1, <2>2 DEF LockWrite, Safe, OnItsWay
<1>5. ASSUME NEW t \in Goroutines, WriteMessage(t) PROVE Safe(k)'
    <2>1. Safe(k) /\ link[conn] = "up" /\ subs[k] # NoFields
        BY <1>0, <1>5 DEF WriteMessage
    <2>2. writing.msg \in Commands /\ UNCHANGED <<outbox, sup>> /\ feed \in [Conids -> Fields]
        BY <1>5 DEF WriteMessage, TypeOK
    <2>3. CASE \E f \in FieldSets : writing.msg = Smd(k, f) /\ writing.on = conn
        <3>1. feed'[k] # NoFields
            BY <1>5, <2>1, <2>2, <2>3, AppliedCases, NamesAssumption DEF WriteMessage
        <3> QED BY <3>1 DEF Safe
    <2>4. CASE ~ \E f \in FieldSets : writing.msg = Smd(k, f) /\ writing.on = conn
        <3>1. OnItsWay(k) => OnItsWay(k)'
            BY <2>2, <2>4 DEF OnItsWay, Pending
        <3>2. writing.msg # Umd(k)
            BY <1>5, <2>1 DEF WriteMessage, UnsubscribeOwned, WillUnsubscribe
        <3>3. writing.on = conn => Applied(writing.msg, feed)[k] = feed[k]
            <4> SUFFICES ASSUME writing.on = conn PROVE Applied(writing.msg, feed)[k] = feed[k]
                OBVIOUS
            <4>1. ASSUME NEW j \in Conids, NEW f \in FieldSets, writing.msg = Smd(j, f)
                  PROVE  Applied(writing.msg, feed)[k] = feed[k]
                BY <2>2, <2>4, <4>1, AppliedCases
            <4>2. ASSUME NEW j \in Conids, writing.msg = Umd(j)
                  PROVE  Applied(writing.msg, feed)[k] = feed[k]
                BY <2>2, <3>2, <4>2, AppliedCases
            <4>3. CASE writing.msg = Tic
                BY <2>2, <4>3, AppliedCases
            <4> QED BY <2>2, <4>1, <4>2, <4>3, CommandShapes
        <3>4. feed'[k] = feed[k]
            BY <1>5, <3>3 DEF WriteMessage
        <3> QED BY <2>1, <2>2, <3>1, <3>4 DEF Safe
    <2> QED BY <2>3, <2>4
<1>6. ASSUME NEW t \in Callers, NEW j \in Conids, Unsubscribe(t, j) PROVE Safe(k)'
    <2>1. k # j /\ Safe(k)
        BY <1>0, <1>6 DEF Unsubscribe, TypeOK
    <2>2. OnItsWay(k) => OnItsWay(k)'
        BY <1>6 DEF Unsubscribe, Ready, Busy, OnItsWay, Pending, TypeOK
    <2> QED BY <1>6, <2>1, <2>2 DEF Unsubscribe, Safe
<1>7. ASSUME NEW t \in Callers, NEW j \in Conids, NEW f \in FieldSets, Subscribe(t, j, f)
      PROVE  Safe(k)'
    <2>1. CASE k = j
        <3>1. Smd(k, f) \in outbox'[t]
            BY <1>7, <2>1 DEF Subscribe, TypeOK, Goroutines
        <3> QED BY <3>1 DEF Safe, OnItsWay, Pending, Goroutines
    <2>2. CASE k # j
        <3>1. Safe(k)
            BY <1>0, <1>7, <2>2 DEF Subscribe, TypeOK
        <3>2. OnItsWay(k) => OnItsWay(k)'
            BY <1>7 DEF Subscribe, Ready, Busy, OnItsWay, Pending, TypeOK
        <3> QED BY <1>7, <3>1, <3>2 DEF Subscribe, Safe
    <2> QED BY <2>1, <2>2
<1>8. CASE RenewTick \/ HeartbeatTick
    <2>1. Safe(k)
        BY <1>0, <1>8 DEF RenewTick, HeartbeatTick
    <2>2. OnItsWay(k) => OnItsWay(k)'
        BY <1>8 DEF RenewTick, HeartbeatTick, Busy, OnItsWay, Pending, TypeOK
    <2> QED BY <1>8, <2>1, <2>2 DEF RenewTick, HeartbeatTick, Safe
<1>9. ASSUME NEW t \in Callers, CloseDone(t) \/ CloseConn(t) PROVE Safe(k)'
    <2>1. CASE CloseDone(t)
        BY <1>0, <2>1, SafeKept DEF CloseDone
    <2>2. CASE CloseConn(t)
        BY <2>2 DEF CloseConn, TypeOK
    <2> QED BY <1>9, <2>1, <2>2
<1>10. CASE Quiet \/ UNCHANGED vars
    BY <1>0, <1>10, SafeKept DEF Quiet, vars
<1>11. ASSUME NEW t \in Loops, LoopExit(t) PROVE Safe(k)'
    BY <1>0, <1>11, SafeKept DEF LoopExit
<1> QED
    BY <1>1, <1>2, <1>3, <1>4, <1>5, <1>6, <1>7, <1>8, <1>9, <1>10, <1>11
    DEF Next, Call, Write

\* No recorded subscription is forgotten on a working connection, as long as the
\* renewal loop runs.
THEOREM SubscriptionsKept == Spec => []NoLostSubscription
<1>1. LostInv /\ [Next]_vars => LostInv'
    BY TypeNext, DialOrderNext, NothingRecordedYetNext, UnsubscribeOwnedNext, NoLostNext
    DEF LostInv
<1>2. LostInv => NoLostSubscription
    BY DEF LostInv
<1> QED
    BY LostInit, <1>1, <1>2, PTL DEF Spec

=============================================================================
