---------------------------- MODULE ProbeProofs ----------------------------
(***************************************************************************)
(* A run of the probe that reports no clean-up error leaves no line held.  *)
(* The clean-up makes the stream forget each contract before it closes it, *)
(* so that a late reconnect has nothing to replay once the gateway was     *)
(* told to drop everything.                                                *)
(*                                                                         *)
(* The report is right about each contract because the tracker's counts    *)
(* only grow, and the verdict is right about the limit because a contract  *)
(* that has a price has a line, or lost it to a snapshot.                  *)
(***************************************************************************)
EXTENDS Probe, FiniteSetTheorems, TLAPS

\* What a reconnect may replay shrinks with the loop of the clean-up.
Forgetting ==
    /\ pc = "unsubscribe" => recorded \subseteq todo
    /\ pc \in {"releaseProbe", "releaseAll", "watch", "done"} => recorded = {}

\* The inductive invariant of the clean-up.
Released ==
    TypeOK /\ Forgetting /\ (pc \in {"watch", "done"} /\ ~reported => held = {})

-----------------------------------------------------------------------------
(* What the calls do.                                                      *)

\* Why a call may fail, or the limit be reached.
Blamed == interrupted \/ failures > 0 \/ gateway.limit <= Cardinality(Streamed)

\* What a REST call may do.
LEMMA CallEffect ==
  ASSUME failures \in 0..MaxFailures, interrupted \in BOOLEAN, NEW effects,
         Answered(effects) \/ Lost(effects) \/ Cancelled(effects) \/ Refused
  PROVE  /\ held' \in {held} \cup effects /\ failures' \in 0..MaxFailures
         /\ interrupted' \in BOOLEAN /\ (interrupted => interrupted') /\ failures' >= failures
<1>1. failures < MaxFailures => failures + 1 \in 0..MaxFailures /\ failures + 1 >= failures
  BY BoundsAssumption
<1>2. failures >= failures
  BY BoundsAssumption
<1> QED BY <1>1, <1>2 DEF Answered, Lost, Cancelled, Refused

\* The lines after a snapshot.
LEMMA GrantedLines ==
  ASSUME held \subseteq Streamed \cup {Probed}, NEW lines \in Granted
  PROVE  /\ lines \subseteq Streamed \cup {Probed}
         /\ Probed \in held => lines = held
         /\ Probed \notin lines => lines = held /\ Full(held)
         /\ held \ lines # {} => Probed \notin held /\ Full(held)
<1>1. CASE Probed \in held
  BY <1>1 DEF Granted
<1>2. CASE Probed \notin held /\ ~Full(held)
  BY <1>2 DEF Granted
<1>3. CASE Probed \notin held /\ Full(held)
  BY <1>3 DEF Granted
<1> QED BY <1>1, <1>2, <1>3

\* What a snapshot may do, and what its answer tells.
SnapshotEffect(answer) ==
    /\ held' \in {held} \cup Granted /\ held' \subseteq Streamed \cup {Probed}
    /\ failures' \in 0..MaxFailures /\ interrupted' \in BOOLEAN
    /\ interrupted => interrupted'
    /\ failures' >= failures
    /\ displaced' = displaced \cup (held \ held')
    /\ held \ held' # {} => gateway.limit <= Cardinality(Streamed)
    /\ Probed \in held => Probed \in held'
    /\ answer = "price" => gateway.quotable /\ Probed \in held'
    /\ answer = "empty" =>
          /\ \/ ~gateway.quotable \/ polls < gateway.slow
             \/ Probed \notin held \/ displaced # {}
          /\ Probed \in held' \/ gateway.limit <= Cardinality(Streamed)
    /\ answer = "error" =>
          interrupted' \/ failures' > 0 \/ gateway.limit <= Cardinality(Streamed)

LEMMA SnapshotHas ==
  ASSUME TypeOK, NEW answer \in Outcomes, Snapshot(answer)
  PROVE  SnapshotEffect(answer)
<1>1. Answered(Granted) \/ Lost(Granted) \/ Cancelled(Granted) \/ Refused
  BY DEF Snapshot
<1>2. /\ held' \in {held} \cup Granted /\ failures' \in 0..MaxFailures
      /\ interrupted' \in BOOLEAN /\ (interrupted => interrupted') /\ failures' >= failures
  BY <1>1, CallEffect DEF TypeOK
<1>3. /\ held' \subseteq Streamed \cup {Probed}
      /\ Probed \in held => held' = held
  BY <1>2, GrantedLines DEF TypeOK
<1>4. ASSUME held' \in {held} \cup Granted,
             (held' \in Granted /\ Probed \notin held') \/ held \ held' # {}
      PROVE  gateway.limit <= Cardinality(Streamed)
  <2>1. Probed \notin held /\ Full(held)
    BY <1>4, GrantedLines DEF TypeOK
  <2>2. held \subseteq Streamed
    BY <2>1 DEF TypeOK
  <2>3. Cardinality(held) <= Cardinality(Streamed) /\ Cardinality(held) \in Nat
        /\ Cardinality(Streamed) \in Nat
    BY <2>2, ContractsAssumption, FS_Subset, FS_CardinalityType
  <2>4. gateway.limit \in Nat
    BY BoundsAssumption DEF TypeOK
  <2> QED BY <2>1, <2>3, <2>4 DEF Full
<1>5. displaced' = displaced \cup (held \ held')
  BY DEF Snapshot
<1>6. answer = "price" \/ answer = "empty" => Answered(Granted) /\ Says(answer)
  BY DEF Snapshot
<1>7. answer = "price" => gateway.quotable /\ Probed \in held'
  BY <1>6 DEF Says
<1>8. ASSUME answer = "empty"
      PROVE  /\ \/ ~gateway.quotable \/ polls < gateway.slow
                \/ Probed \notin held \/ displaced # {}
             /\ Probed \in held' \/ gateway.limit <= Cardinality(Streamed)
  <2>1. held' \in Granted
    BY <1>6, <1>8 DEF Answered
  <2>2. \/ ~gateway.quotable \/ polls < gateway.slow
        \/ Probed \notin held \/ displaced # {}
    BY <1>6, <1>8 DEF Says
  <2> QED BY <2>1, <2>2, <1>4
<1>9. ASSUME answer = "error"
      PROVE  interrupted' \/ failures' > 0 \/ gateway.limit <= Cardinality(Streamed)
  <2>1. CASE Answered(Granted) /\ Says(answer)
    BY <2>1, <1>4, <1>9 DEF Answered, Says
  <2>2. CASE Lost(Granted)
    BY <2>2, BoundsAssumption DEF Lost, TypeOK
  <2>3. CASE Cancelled(Granted) \/ Refused
    BY <2>3 DEF Cancelled, Refused
  <2> QED BY <2>1, <2>2, <2>3 DEF Snapshot
<1>10. held \ held' # {} => gateway.limit <= Cardinality(Streamed)
  BY <1>2, <1>4
<1> QED BY <1>2, <1>3, <1>5, <1>7, <1>8, <1>9, <1>10 DEF SnapshotEffect

\* The ways a call of a poll may go on.
PollGoesOn(answer) ==
    /\ SnapshotEffect(answer)
    /\ pc \in Polling
    /\ \/ answer = "price" /\ PollEnds("price")
       \/ answer # "price" /\ polls + 1 = Attempts /\ PollEnds(NoPrice(erred \/ answer = "error"))
       \/ /\ answer # "price" /\ polls + 1 < Attempts
          /\ pc' = IF OfBaseline THEN "baselineWait" ELSE "saturatedWait"
          /\ polls' = polls + 1 /\ erred' = (erred \/ answer = "error")
          /\ UNCHANGED snapshots
    /\ UNCHANGED <<todo, streamVars, reported, evidence, gateway, drops>>

LEMMA PollHas ==
  ASSUME TypeOK, Poll
  PROVE  \E answer \in Outcomes : PollGoesOn(answer)
<1> HIDE DEF TypeOK
<1>1. PICK answer \in Outcomes :
        /\ Snapshot(answer)
        /\ \/ answer = "price" /\ PollEnds("price")
           \/ answer # "price" /\ polls + 1 = Attempts
              /\ PollEnds(NoPrice(erred \/ answer = "error"))
           \/ /\ answer # "price" /\ polls + 1 < Attempts
              /\ pc' = IF OfBaseline THEN "baselineWait" ELSE "saturatedWait"
              /\ polls' = polls + 1 /\ erred' = (erred \/ answer = "error")
              /\ UNCHANGED snapshots
  BY ZenonT(30) DEF Poll
<1>2. SnapshotEffect(answer)
  BY <1>1, SnapshotHas
<1>3. pc \in Polling /\ UNCHANGED <<todo, streamVars, reported, evidence, gateway, drops>>
  BY DEF Poll
<1> QED BY <1>1, <1>2, <1>3, ZenonT(30) DEF PollGoesOn

\* What the end of a poll leaves.
LEMMA EndTypes ==
  ASSUME TypeOK, NEW outcome \in Outcomes, PollEnds(outcome)
  PROVE  /\ pc' \in {"release", "post"} /\ polls' \in 0..Attempts - 1 /\ erred' \in BOOLEAN
         /\ snapshots' \in [Polling -> Outcomes \cup {"unrun"}]
<1>1. 0 \in 0..Attempts - 1
  BY BoundsAssumption
<1> QED BY <1>1 DEF PollEnds, TypeOK, AfterPoll, Polling

LEMMA NoPriceType == \A e \in BOOLEAN : NoPrice(e) \in Outcomes
  BY DEF NoPrice, Outcomes

-----------------------------------------------------------------------------
(* The clean-up.                                                           *)

LEMMA ReleasedInit == Init => Released
<1> SUFFICES ASSUME Init PROVE Released
  OBVIOUS
<1>1. 0 \in 0..Attempts - 1 /\ 0 \in 0..MaxFailures /\ 0 \in 0..MaxDrops /\ 0 \in 0..MaxUpdates
  BY BoundsAssumption
<1>2. Nothing \in [Streamed -> [updates : 0..MaxUpdates, hasPrice : BOOLEAN]]
  BY <1>1 DEF Nothing
<1>3. snapshots \in [Polling -> Outcomes \cup {"unrun"}]
  BY DEF Init
<1> QED BY <1>1, <1>2, <1>3 DEF Init, Life!Init, Released, TypeOK, Points, Forgetting

LEMMA ReleasedStep == Released /\ [Next]_vars => Released'
<1> SUFFICES ASSUME Released, [Next]_vars PROVE Released'
  OBVIOUS
<1> USE BoundsAssumption DEF Released, TypeOK, Points, Forgetting, streamVars, evidence, control,
      network
<1>1. CASE Preflight
  BY <1>1 DEF Preflight, GoTo, Local, Polling
<1>2. CASE Poll
  <2> HIDE DEF Released, TypeOK
  <2>1. TypeOK
    BY DEF Released
  <2>2. PICK answer \in Outcomes : PollGoesOn(answer)
    BY <1>2, <2>1, PollHas
  <2>3. /\ pc' \in {"release", "post", "baselineWait", "saturatedWait"}
        /\ polls' \in 0..Attempts - 1 /\ erred' \in BOOLEAN
        /\ snapshots' \in [Polling -> Outcomes \cup {"unrun"}]
    <3>1. CASE answer = "price" /\ PollEnds("price")
      BY <3>1, <2>1, EndTypes DEF Outcomes
    <3>2. CASE PollEnds(NoPrice(erred \/ answer = "error"))
      BY <3>2, <2>1, EndTypes, NoPriceType DEF TypeOK
    <3>3. CASE /\ polls + 1 < Attempts
               /\ pc' = IF OfBaseline THEN "baselineWait" ELSE "saturatedWait"
               /\ polls' = polls + 1 /\ erred' = (erred \/ answer = "error")
               /\ UNCHANGED snapshots
      BY <3>3, <2>1 DEF TypeOK
    <3> QED BY <2>2, <3>1, <3>2, <3>3 DEF PollGoesOn
  <2>4. SnapshotEffect(answer) /\ pc \in Polling
        /\ UNCHANGED <<todo, streamVars, reported, evidence, gateway, drops>>
    BY <2>2 DEF PollGoesOn
  <2> QED BY <2>3, <2>4 DEF SnapshotEffect, Polling, Released, TypeOK
<1>3. CASE PollPause
  <2> HIDE DEF Released, TypeOK
  <2>1. CASE UNCHANGED <<polls, erred, snapshots>>
             /\ pc' = IF OfBaseline THEN "baseline" ELSE "saturated"
    BY <1>3, <2>1 DEF PollPause, Polling, Released, TypeOK
  <2>2. CASE PollEnds(NoPrice(erred))
    <3>1. /\ pc' \in {"release", "post"} /\ polls' \in 0..Attempts - 1 /\ erred' \in BOOLEAN
          /\ snapshots' \in [Polling -> Outcomes \cup {"unrun"}]
      BY <2>2, EndTypes, NoPriceType DEF Released, TypeOK
    <3> QED BY <1>3, <3>1 DEF PollPause, Released, TypeOK
  <2> QED BY <1>3, <2>1, <2>2 DEF PollPause
<1>4. CASE ReleaseBaseline
  <2>1. /\ held' \in {held, held \ {Probed}} /\ failures' \in 0..MaxFailures
        /\ interrupted' \in BOOLEAN
    BY <1>4, CallEffect DEF ReleaseBaseline
  <2> QED BY <1>4, <2>1 DEF ReleaseBaseline, GoTo
<1>5. CASE Countdown
  BY <1>5 DEF Countdown, GoTo, Local
<1>6. CASE Dial
  BY <1>6 DEF Dial, Life!Dial, Life!Lost, GoTo
<1>7. CASE SubscribeOne
  <2>1. PICK c \in todo :
          /\ recorded' = recorded \cup {c} /\ todo' = todo \ {c}
          /\ held' \in {held, held \cup {c}}
    BY <1>7 DEF SubscribeOne, Streams
  <2> QED BY <1>7, <2>1 DEF SubscribeOne
<1>8. CASE Subscribed
  BY <1>8 DEF Subscribed, GoTo, Local
<1>9. CASE Settle
  <2>1. /\ seen' = seen /\ before' \in {before, seen} /\ fresh' = fresh
        /\ quoted' \in {quoted, {c \in Streamed : seen[c].hasPrice}}
    BY <1>9 DEF Settle
  <2>2. pc = "settle" /\ Local /\ (GoTo("saturated") \/ CleanUp)
    BY <1>9 DEF Settle
  <2>3. CASE GoTo("saturated")
    BY <2>1, <2>2, <2>3 DEF Local, GoTo, Polling
  <2>4. CASE CleanUp
    BY <2>1, <2>2, <2>4 DEF Local, CleanUp
  <2> QED BY <2>2, <2>3, <2>4
<1>10. CASE Post
  <2>1. UNCHANGED <<seen, before, quoted, fresh>>
    BY <1>10 DEF Post
  <2> QED BY <1>10, <2>1 DEF Post, CleanUp, Local
<1>11. CASE Update
  <2>1. PICK c \in held \cap Streamed, price \in BOOLEAN :
          /\ seen[c].updates < MaxUpdates
          /\ seen' = [seen EXCEPT ![c] = [updates |-> seen[c].updates + 1,
                                          hasPrice |-> seen[c].hasPrice \/ price]]
          /\ fresh' = IF pc \in SinceCopy THEN fresh \cup {c} ELSE fresh
    BY <1>11 DEF Update
  <2>2. [updates |-> seen[c].updates + 1, hasPrice |-> seen[c].hasPrice \/ price]
          \in [updates : 0..MaxUpdates, hasPrice : BOOLEAN]
    <3>1. seen[c] \in [updates : 0..MaxUpdates, hasPrice : BOOLEAN]
      OBVIOUS
    <3> HIDE DEF Released, TypeOK
    <3>2. seen[c].updates + 1 \in 0..MaxUpdates
      BY <2>1, <3>1
    <3> QED BY <3>1, <3>2
  <2>3. seen' \in [Streamed -> [updates : 0..MaxUpdates, hasPrice : BOOLEAN]]
    BY <2>1, <2>2
  <2>4. UNCHANGED <<control, before, quoted>> /\ Local
    BY <1>11 DEF Update
  <2> QED BY <2>1, <2>3, <2>4 DEF Local
<1>12. CASE UnsubscribeOne
  <2>1. PICK c \in todo :
          /\ todo' = todo \ {c} /\ recorded' = recorded \ {c}
          /\ held' \in {held, held \ {c}} /\ reported' \in {reported, TRUE}
    BY <1>12 DEF UnsubscribeOne
  <2> QED BY <1>12, <2>1 DEF UnsubscribeOne
<1>13. CASE CloseStream
  BY <1>13 DEF CloseStream, Life!Close, GoTo
<1>14. CASE ReleaseProbe
  <2>1. /\ held' \in {held, held \ {Probed}} /\ failures' \in 0..MaxFailures
        /\ interrupted' \in BOOLEAN
    BY <1>14, CallEffect DEF ReleaseProbe, CleanUpCall
  <2> QED BY <1>14, <2>1 DEF ReleaseProbe, CleanUpCall, GoTo
<1>15. CASE ReleaseAll
  <2>1. /\ held' \in {held, {}} /\ failures' \in 0..MaxFailures /\ interrupted' \in BOOLEAN
    BY <1>15, CallEffect DEF ReleaseAll, CleanUpCall
  <2>2. reported' \in BOOLEAN /\ (~reported' => held' = {})
    BY <1>15 DEF ReleaseAll, CleanUpCall, Answered
  <2> QED BY <1>15, <2>1, <2>2 DEF ReleaseAll, CleanUpCall, GoTo
<1>16. CASE WatchDone
  BY <1>16 DEF WatchDone, GoTo, Local
<1>17. CASE Interrupt
  BY <1>17 DEF Interrupt
<1>18. CASE Drop
  BY <1>18 DEF Drop, Life!Drop, Life!Lost, StreamOnly
<1>19. CASE Redial
  <2>1. PICK r \in SUBSET recorded : held' \in Streams(r)
    <3>1. held' \in UNION {Streams(r) : r \in SUBSET recorded}
      BY <1>19 DEF Redial
    <3> QED BY <3>1
  <2>2. held' \in {held, held \cup r}
    BY <2>1 DEF Streams
  <2>3. pc \in {"watch", "done"} => held' = held
    <3>1. pc \in {"watch", "done"} => r = {}
      OBVIOUS
    <3>2. r = {} => held \cup r = held
      OBVIOUS
    <3> QED BY <2>2, <3>1, <3>2
  <2>4. held' \subseteq Streamed \cup {Probed}
    BY <2>2
  <2>5. UNCHANGED <<control, closed, recorded, interrupted, reported, evidence, snapshots,
                    failures, gateway, drops>>
    BY <1>19 DEF Redial, Life!Redial, StreamOnly
  <2>6. stream' \in {"deaf", "up"}
    BY <1>19 DEF Redial, Life!Redial
  <2>7. TypeOK'
    BY <2>4, <2>5, <2>6
  <2>8. Forgetting'
    BY <2>5
  <2> QED BY <2>3, <2>5, <2>7, <2>8
<1>20. CASE StreamStops
  BY <1>20 DEF StreamStops, Life!StreamStops, StreamOnly
<1>21. CASE UNCHANGED vars
  BY <1>21 DEF vars
<1> QED
  BY <1>1, <1>2, <1>3, <1>4, <1>5, <1>6, <1>7, <1>8, <1>9, <1>10, <1>11, <1>12, <1>13, <1>14,
     <1>15, <1>16, <1>17, <1>18, <1>19, <1>20, <1>21 DEF Next, Run, Exited

LEMMA ReleasedInvariant == Spec => []Released
  BY ReleasedInit, ReleasedStep, PTL DEF Spec

\* Every variable keeps its shape.
THEOREM ProbeTypeCorrect == Spec => []TypeOK
<1>1. Released => TypeOK
  BY DEF Released
<1> QED BY <1>1, ReleasedInvariant, PTL

\* A run that reports no clean-up error leaves no line behind.
THEOREM ProbeLeavesNothing == Spec => []LeavesNothing
<1>1. Released => LeavesNothing
  BY DEF Released, LeavesNothing
<1> QED BY <1>1, ReleasedInvariant, PTL

-----------------------------------------------------------------------------
(* The report about each contract.                                         *)

Early == {"preflight", "baseline", "baselineWait", "release", "countdown", "dial", "subscribe",
          "settle"}

\* The tracker's counts tell the updates since the copy.
Counted ==
    /\ pc \in Early => quoted = {} /\ fresh = {}
    /\ pc \in Early \cup SinceCopy => stillTicking = {} /\ wentSilent = {}
    /\ pc \in SinceCopy => \A c \in Streamed :
          /\ seen[c].updates >= before[c].updates
          /\ c \in fresh <=> seen[c].updates > before[c].updates
    /\ DisplacementSound

\* A step that the report does not notice.
Unnoticed ==
    /\ UNCHANGED evidence
    /\ pc' \in Early => pc \in Early
    /\ pc' \in SinceCopy => pc \in SinceCopy
    /\ pc \notin Early \cup SinceCopy => pc' \notin Early \cup SinceCopy

LEMMA StepsNoticed ==
  ASSUME TypeOK, [Next]_vars
  PROVE  Settle \/ Post \/ Update \/ Unnoticed
<1> USE DEF Early, SinceCopy, Unnoticed
<1>1. CASE Preflight \/ Countdown \/ Subscribed \/ WatchDone
  BY <1>1 DEF Preflight, Countdown, Subscribed, WatchDone, GoTo, Local
<1>2. CASE Poll
  <2> HIDE DEF TypeOK
  <2>1. PICK answer \in Outcomes : PollGoesOn(answer)
    BY <1>2, PollHas
  <2> QED BY <2>1 DEF PollGoesOn, PollEnds, AfterPoll, OfBaseline, Polling
<1>3. CASE PollPause
  BY <1>3 DEF PollPause, PollEnds, AfterPoll, OfBaseline
<1>4. CASE ReleaseBaseline \/ Dial
  BY <1>4 DEF ReleaseBaseline, Dial, GoTo
<1>5. CASE SubscribeOne \/ UnsubscribeOne
  BY <1>5 DEF SubscribeOne, UnsubscribeOne
<1>6. CASE CloseStream \/ ReleaseProbe \/ ReleaseAll
  BY <1>6 DEF CloseStream, ReleaseProbe, ReleaseAll, CleanUpCall, GoTo
<1>7. CASE Interrupt
  BY <1>7 DEF Interrupt, control
<1>8. CASE Drop \/ Redial \/ StreamStops
  BY <1>8 DEF Drop, Redial, StreamStops, StreamOnly, control
<1>9. CASE UNCHANGED vars
  BY <1>9 DEF vars, control
<1> QED
  BY <1>1, <1>2, <1>3, <1>4, <1>5, <1>6, <1>7, <1>8, <1>9 DEF Next, Run, Exited

LEMMA CountedStep == TypeOK /\ Counted /\ [Next]_vars => Counted'
<1> SUFFICES ASSUME TypeOK, Counted, [Next]_vars PROVE Counted'
  OBVIOUS
<1> USE DEF Early, SinceCopy
<1>1. CASE Unnoticed
  BY <1>1 DEF Unnoticed, evidence, Counted, DisplacementSound
<1>2. CASE Settle
  <2>1. CASE GoTo("saturated") /\ before' = seen
    <3>1. /\ pc = "settle" /\ pc' = "saturated" /\ seen' = seen
          /\ UNCHANGED <<stillTicking, wentSilent, fresh>>
      BY <1>2, <2>1 DEF Settle, GoTo, CleanUp
    <3>2. \A c \in Streamed : seen[c].updates \in Nat
      BY BoundsAssumption DEF TypeOK
    <3>3. \A c \in Streamed : seen'[c].updates = before'[c].updates
      BY <2>1, <3>1
    <3> QED BY <2>1, <3>1, <3>2, <3>3 DEF Counted, DisplacementSound
  <2>2. CASE CleanUp /\ UNCHANGED evidence
    BY <1>2, <2>2 DEF Settle, CleanUp, evidence, Counted, DisplacementSound
  <2> QED BY <1>2, <2>1, <2>2 DEF Settle
<1>3. CASE Post
  <2>1. pc = "post" /\ pc' = "unsubscribe"
    BY <1>3 DEF Post, CleanUp
  <2>2. CASE UNCHANGED evidence
    BY <2>1, <2>2 DEF evidence, Counted, DisplacementSound
  <2>3. CASE /\ stillTicking' = {c \in quoted : seen[c].updates > before[c].updates}
             /\ wentSilent' = quoted \ stillTicking'
             /\ UNCHANGED <<seen, before, quoted, fresh>>
    <3>1. \A c \in quoted : c \in fresh <=> seen[c].updates > before[c].updates
      BY <2>1 DEF Counted, TypeOK
    <3>2. stillTicking' = quoted \cap fresh
      BY <2>3, <3>1
    <3> QED BY <2>1, <2>3, <3>2 DEF Counted, DisplacementSound
  <2> QED BY <1>3, <2>2, <2>3 DEF Post
<1>4. CASE Update
  <2>1. PICK c \in held \cap Streamed, price \in BOOLEAN :
          /\ seen' = [seen EXCEPT ![c] = [updates |-> seen[c].updates + 1,
                                          hasPrice |-> seen[c].hasPrice \/ price]]
          /\ fresh' = IF pc \in SinceCopy THEN fresh \cup {c} ELSE fresh
    BY <1>4 DEF Update
  <2>2. /\ UNCHANGED <<pc, before, quoted, stillTicking, wentSilent>>
        /\ pc \in Early \cup SinceCopy
    BY <1>4 DEF Update, control, Watching
  <2>3. \A d \in Streamed :
          /\ seen[d].updates \in Nat /\ before[d].updates \in Nat
          /\ seen'[d].updates = IF d = c THEN seen[d].updates + 1 ELSE seen[d].updates
    BY <2>1, BoundsAssumption DEF TypeOK
  <2>4. ASSUME pc \in SinceCopy, NEW d \in Streamed
        PROVE  /\ seen'[d].updates >= before[d].updates
               /\ d \in fresh' <=> seen'[d].updates > before[d].updates
    BY <2>1, <2>3, <2>4 DEF Counted
  <2>5. DisplacementSound'
    BY <2>1, <2>2 DEF Counted, DisplacementSound
  <2> QED BY <2>1, <2>2, <2>4, <2>5 DEF Counted
<1> QED BY <1>1, <1>2, <1>3, <1>4, StepsNoticed

\* What the report says of a contract is what happened since its quotes settled.
THEOREM ProbeDisplacementSound == Spec => []DisplacementSound
<1>1. Init => Counted
  BY DEF Init, Counted, Early, SinceCopy, DisplacementSound
<1>2. Counted => DisplacementSound
  BY DEF Counted
<1> QED BY <1>1, <1>2, CountedStep, ProbeTypeCorrect, PTL DEF Spec

-----------------------------------------------------------------------------
(* The verdict.                                                            *)

PollPoints == Polling \cup {"baselineWait", "saturatedWait"}

\* What no step undoes, and where the lines of a step come from.
Onward ==
    /\ gateway' = gateway
    /\ interrupted => interrupted'
    /\ failures \in Nat /\ failures' \in Nat /\ failures' >= failures
    /\ displaced \subseteq displaced'
    /\ held' \subseteq held \/ held' \in Granted \/ Cardinality(held') <= gateway.limit
    /\ pc' \in Early \cup SinceCopy => held \subseteq held' \cup displaced' \cup {Probed}
    /\ pc \in PollPoints /\ Probed \in held => Probed \in held'

LEMMA StepsOnward ==
  ASSUME TypeOK, [Next]_vars
  PROVE  Onward
<1> DEFINE Free == UNCHANGED <<interrupted, network, gateway>>
<1>0. failures \in Nat /\ failures >= failures
  BY BoundsAssumption DEF TypeOK
<1>a. Free => Onward
  BY <1>0 DEF Onward, network
<1>b. ASSUME UNCHANGED <<displaced, gateway>>,
             pc' \notin Early \cup SinceCopy /\ pc \notin PollPoints,
             NEW effect \in SUBSET held,
             Answered({effect}) \/ Lost({effect}) \/ Cancelled({effect}) \/ Refused
      PROVE  Onward
  <2>1. held' \in {held} \cup {effect} /\ failures' \in 0..MaxFailures
        /\ (interrupted => interrupted') /\ failures' >= failures
    BY <1>b, CallEffect DEF TypeOK
  <2> QED BY <2>1, <1>0, <1>b, BoundsAssumption DEF Onward
<1> USE DEF Early, SinceCopy
<1>1. CASE Preflight \/ Countdown \/ Subscribed \/ Settle \/ Post \/ Update \/ WatchDone
  BY <1>1, <1>a DEF Preflight, Countdown, Subscribed, Settle, Post, Update, WatchDone, Local
<1>2. CASE Poll
  <2> HIDE DEF TypeOK
  <2>1. PICK answer \in Outcomes : PollGoesOn(answer)
    BY <1>2, PollHas
  <2>2. SnapshotEffect(answer) /\ gateway' = gateway
    BY <2>1 DEF PollGoesOn
  <2> QED BY <2>2, <1>0, BoundsAssumption DEF SnapshotEffect, Onward
<1>3. CASE PollPause
  BY <1>3, <1>a DEF PollPause
<1>4. CASE ReleaseBaseline
  <2>1. /\ held' \in {held, held \ {Probed}} /\ failures' \in 0..MaxFailures
        /\ (interrupted => interrupted') /\ failures' >= failures
    BY <1>4, CallEffect DEF ReleaseBaseline, TypeOK
  <2>2. pc = "release" /\ UNCHANGED <<displaced, gateway>>
    BY <1>4 DEF ReleaseBaseline
  <2> QED BY <2>1, <2>2, <1>0, BoundsAssumption DEF Onward, PollPoints, Polling
<1>5. CASE Dial
  BY <1>5, <1>a DEF Dial, Life!Dial
<1>6. CASE SubscribeOne
  <2>1. PICK c \in todo : held' \in Streams({c}) \cup {held}
    BY <1>6 DEF SubscribeOne
  <2>2. pc = "subscribe" /\ UNCHANGED <<interrupted, displaced, failures, gateway>>
    BY <1>6 DEF SubscribeOne
  <2>3. held \subseteq held' /\ (held' = held \/ Cardinality(held') <= gateway.limit)
    BY <2>1 DEF Streams
  <2> QED BY <2>2, <2>3, <1>0 DEF Onward
<1>7. CASE UnsubscribeOne
  <2>1. held' \subseteq held /\ pc = "unsubscribe" /\ pc' = pc
        /\ UNCHANGED <<interrupted, displaced, failures, gateway>>
    BY <1>7 DEF UnsubscribeOne
  <2> QED BY <2>1, <1>0 DEF Onward, PollPoints, Polling
<1>8. CASE CloseStream
  BY <1>8, <1>a DEF CloseStream, Life!Close
<1>9. CASE ReleaseProbe
  <2>1. /\ Answered({held \ {Probed}}) \/ Lost({held \ {Probed}})
        /\ pc = "releaseProbe" /\ pc' = "releaseAll" /\ UNCHANGED <<displaced, gateway>>
    BY <1>9 DEF ReleaseProbe, CleanUpCall, GoTo
  <2> QED BY <2>1, <1>b DEF PollPoints, Polling
<1>10. CASE ReleaseAll
  <2>1. /\ Answered({{}}) \/ Lost({{}})
        /\ pc = "releaseAll" /\ pc' = "watch" /\ UNCHANGED <<displaced, gateway>>
    BY <1>10 DEF ReleaseAll, CleanUpCall, GoTo
  <2>2. {} \in SUBSET held
    OBVIOUS
  <2> QED BY <2>1, <2>2, <1>b DEF PollPoints, Polling
<1>11. CASE Interrupt
  BY <1>11, <1>0 DEF Interrupt, Onward, network
<1>12. CASE Drop \/ StreamStops
  BY <1>12, <1>a DEF Drop, Life!Drop, StreamStops, Life!StreamStops, StreamOnly, network
<1>13. CASE Redial
  <2>1. PICK r \in SUBSET recorded : held' \in Streams(r)
    <3>1. held' \in UNION {Streams(r) : r \in SUBSET recorded}
      BY <1>13 DEF Redial
    <3> QED BY <3>1
  <2>2. held \subseteq held' /\ (held' = held \/ Cardinality(held') <= gateway.limit)
    BY <2>1 DEF Streams
  <2>3. UNCHANGED <<interrupted, displaced, failures, gateway>>
    BY <1>13 DEF Redial, Life!Redial, StreamOnly
  <2> QED BY <2>2, <2>3, <1>0 DEF Onward
<1>14. CASE UNCHANGED vars
  BY <1>14, <1>a DEF vars
<1> QED
  BY <1>1, <1>2, <1>3, <1>4, <1>5, <1>6, <1>7, <1>8, <1>9, <1>10, <1>11, <1>12, <1>13, <1>14
  DEF Next, Run, Exited

\* There are never more lines than the gateway gives.
LEMMA RoomStep ==
  ASSUME TypeOK, Onward, Cardinality(held) <= gateway.limit
  PROVE  Cardinality(held') <= gateway'.limit
<1>0. gateway.limit \in Nat /\ IsFiniteSet(held) /\ Cardinality(held) \in Nat
  <2>1. gateway.limit \in Nat /\ held \subseteq Streamed \cup {Probed}
    BY BoundsAssumption DEF TypeOK
  <2>2. IsFiniteSet(Streamed \cup {Probed})
    BY ContractsAssumption, FS_AddElement
  <2>3. IsFiniteSet(held)
    BY <2>1, <2>2, FS_Subset
  <2> QED BY <2>1, <2>3, FS_CardinalityType
<1>1. CASE held' \subseteq held
  <2>1. Cardinality(held') <= Cardinality(held) /\ Cardinality(held') \in Nat
    BY <1>0, <1>1, FS_Subset, FS_CardinalityType
  <2> QED BY <1>0, <2>1 DEF Onward
<1>2. CASE held' \in Granted
  <2>1. CASE held' = held
    BY <2>1 DEF Onward
  <2>2. CASE ~Full(held) /\ Probed \notin held /\ held' = held \cup {Probed}
    <3>1. Cardinality(held') = Cardinality(held) + 1
      BY <2>2, <1>0, FS_AddElement
    <3> QED BY <3>1, <2>2, <1>0 DEF Full, Onward
  <2>3. CASE \E c \in held : Probed \notin held /\ held' = (held \ {c}) \cup {Probed}
    <3>1. PICK c \in held : Probed \notin held /\ held' = (held \ {c}) \cup {Probed}
      BY <2>3
    <3>2. IsFiniteSet(held \ {c}) /\ Cardinality(held \ {c}) = Cardinality(held) - 1
      BY <3>1, <1>0, FS_RemoveElement
    <3>3. Cardinality(held') = Cardinality(held \ {c}) + 1
      BY <3>1, <3>2, FS_AddElement
    <3> QED BY <3>2, <3>3, <1>0 DEF Onward
  <2> QED BY <1>2, <2>1, <2>2, <2>3 DEF Granted
<1> QED BY <1>1, <1>2 DEF Onward

\* A contract that was quoted paid with its line, or there was room for one more.
Afforded == gateway.limit > Cardinality(quoted) \/ displaced \cap quoted # {}

SnapshotAhead == Early \cup {"saturated", "saturatedWait"}

\* What the outcomes of the polls have behind them.
Reasoned ==
    /\ Cardinality(held) <= gateway.limit
    /\ erred \/ (\E p \in Polling : snapshots[p] = "error") => Blamed
    /\ polls > 0 => pc \in PollPoints /\ (Probed \in held \/ Blamed)
    /\ snapshots["baseline"] = "price" => gateway.quotable
    /\ snapshots["baseline"] = "price" /\ snapshots["saturated"] = "empty" =>
          Blamed \/ Attempts <= gateway.slow
    /\ displaced # {} => Blamed
    /\ pc \in SnapshotAhead => snapshots["saturated"] = "unrun"
    /\ pc \in Early \cup SinceCopy =>
          \A c \in Streamed : seen[c].hasPrice \/ c \in quoted => c \in held \cup displaced
    /\ snapshots["saturated"] = "price" => Afforded

\* A step that neither polls nor counts.
Quiet ==
    /\ UNCHANGED <<polls, erred, snapshots, quoted, seen, displaced>>
    /\ pc \in PollPoints => pc' = pc
    /\ pc' \in SnapshotAhead => pc \in SnapshotAhead
    /\ pc' \in Early \cup SinceCopy => pc \in Early \cup SinceCopy

LEMMA StepsQuiet ==
  ASSUME TypeOK, [Next]_vars
  PROVE  Poll \/ PollPause \/ Settle \/ Update \/ Quiet
<1> USE DEF Quiet, PollPoints, Polling, SnapshotAhead, Early, SinceCopy, control, evidence,
      network
<1>1. CASE Preflight \/ Countdown \/ Subscribed \/ WatchDone
  BY <1>1 DEF Preflight, Countdown, Subscribed, WatchDone, GoTo, Local
<1>2. CASE Post
  BY <1>2 DEF Post, CleanUp, Local
<1>3. CASE ReleaseBaseline \/ Dial
  BY <1>3 DEF ReleaseBaseline, Dial, GoTo
<1>4. CASE SubscribeOne \/ UnsubscribeOne
  BY <1>4 DEF SubscribeOne, UnsubscribeOne
<1>5. CASE CloseStream \/ ReleaseProbe \/ ReleaseAll
  BY <1>5 DEF CloseStream, ReleaseProbe, ReleaseAll, CleanUpCall, GoTo
<1>6. CASE Interrupt
  BY <1>6 DEF Interrupt
<1>7. CASE Drop \/ Redial \/ StreamStops
  BY <1>7 DEF Drop, Redial, StreamStops, StreamOnly
<1>8. CASE UNCHANGED vars
  BY <1>8 DEF vars
<1> QED
  BY <1>1, <1>2, <1>3, <1>4, <1>5, <1>6, <1>7, <1>8 DEF Next, Run, Exited

\* What was blamed stays so, and what had its line stays so.
LEMMA OnwardKeeps ==
  ASSUME TypeOK, Onward
  PROVE  /\ Blamed => Blamed'
         /\ UNCHANGED quoted => (Afforded => Afforded')
         /\ pc' \in Early \cup SinceCopy =>
               \A c \in Streamed : c \in held \cup displaced => c \in held' \cup displaced'
<1>1. Blamed => Blamed'
  BY DEF Onward, Blamed
<1>2. UNCHANGED quoted => (Afforded => Afforded')
  BY DEF Onward, Afforded
<1>3. pc' \in Early \cup SinceCopy =>
        \A c \in Streamed : c \in held \cup displaced => c \in held' \cup displaced'
  BY ContractsAssumption DEF Onward
<1> QED BY <1>1, <1>2, <1>3

\* With a price, the quoted contracts and Probed all have a line, or one lost it.
LEMMA PriceAfforded ==
  ASSUME TypeOK, Cardinality(held') <= gateway'.limit, gateway' = gateway,
         held' \subseteq Streamed \cup {Probed}, Probed \in held',
         UNCHANGED quoted, quoted \subseteq held' \cup displaced'
  PROVE  Afforded'
<1>1. CASE displaced' \cap quoted # {}
  BY <1>1 DEF Afforded
<1>2. CASE displaced' \cap quoted = {}
  <2>1. Probed \notin quoted /\ quoted \subseteq held' \ {Probed}
    BY <1>2, ContractsAssumption DEF TypeOK
  <2>2. IsFiniteSet(held')
    <3>1. IsFiniteSet(Streamed \cup {Probed})
      BY ContractsAssumption, FS_AddElement
    <3> QED BY <3>1, FS_Subset
  <2>3. /\ IsFiniteSet(held' \ {Probed})
        /\ Cardinality(held' \ {Probed}) = Cardinality(held') - 1
    BY <2>2, FS_RemoveElement
  <2>4. Cardinality(quoted) <= Cardinality(held' \ {Probed})
    BY <2>1, <2>3, FS_Subset
  <2>5. Cardinality(quoted) \in Nat /\ Cardinality(held') \in Nat /\ gateway.limit \in Nat
    <3>1. IsFiniteSet(quoted)
      BY <2>1, <2>3, FS_Subset
    <3> QED BY <3>1, <2>2, FS_CardinalityType, BoundsAssumption DEF TypeOK
  <2> QED BY <2>3, <2>4, <2>5 DEF Afforded
<1> QED BY <1>1, <1>2

LEMMA PollReasoned ==
  ASSUME TypeOK, Reasoned, Onward, NEW answer \in Outcomes, PollGoesOn(answer),
         Cardinality(held') <= gateway'.limit
  PROVE  Reasoned'
<1> DEFINE Wanted == answer = "price" => quoted \subseteq held' \cup displaced'
<1>1. /\ SnapshotEffect(answer) /\ pc \in Polling
      /\ UNCHANGED <<todo, streamVars, reported, seen, before, quoted, gateway>>
  BY DEF PollGoesOn, evidence
<1>2. /\ Blamed => Blamed'
      /\ Afforded => Afforded'
      /\ answer = "error" => Blamed'
      /\ answer = "empty" =>
            /\ Probed \in held' \/ Blamed'
            /\ ~gateway.quotable \/ polls < gateway.slow \/ Probed \notin held \/ displaced # {}
      /\ displaced' # {} => Blamed'
      /\ answer = "price" => gateway.quotable
      /\ Probed \in held => Probed \in held'
  <2>1. (Blamed => Blamed') /\ (Afforded => Afforded')
    BY <1>1, OnwardKeeps
  <2>2. displaced' # {} => Blamed'
    BY <1>1, <2>1 DEF SnapshotEffect, Blamed, Reasoned
  <2> QED BY <1>1, <2>1, <2>2 DEF SnapshotEffect, Blamed
<1>3. pc \in Early \cup SinceCopy
  BY <1>1 DEF Polling, Early, SinceCopy
<1>4. \A c \in Streamed : seen[c].hasPrice \/ c \in quoted => c \in held' \cup displaced'
  BY <1>1, <1>3, ContractsAssumption DEF Reasoned, SnapshotEffect
<1>5. answer = "price" => Afforded'
  BY <1>1, <1>4, PriceAfforded DEF SnapshotEffect, TypeOK
<1>6. polls \in Nat /\ Attempts \in Nat /\ gateway' = gateway /\ seen' = seen /\ quoted' = quoted
  BY <1>1, BoundsAssumption DEF TypeOK
<1>7. snapshots["saturated"] = "unrun"
  BY <1>1 DEF Reasoned, Polling, SnapshotAhead, Early
<1>8. CASE /\ answer # "price" /\ polls + 1 < Attempts
           /\ pc' = IF OfBaseline THEN "baselineWait" ELSE "saturatedWait"
           /\ polls' = polls + 1 /\ erred' = (erred \/ answer = "error")
           /\ UNCHANGED snapshots
  <2>1. erred' \/ (\E p \in Polling : snapshots'[p] = "error") => Blamed'
    BY <1>2, <1>8 DEF Reasoned
  <2>2. pc' \in PollPoints /\ (Probed \in held' \/ Blamed')
    BY <1>2, <1>8 DEF Outcomes, PollPoints
  <2> QED BY <2>1, <2>2, <1>2, <1>4, <1>6, <1>7, <1>8 DEF Reasoned
<1>9. ASSUME NEW outcome \in Outcomes, PollEnds(outcome),
             outcome = "error" => Blamed',
             outcome = "price" => gateway.quotable /\ Afforded',
             outcome = "empty" => ~gateway.quotable \/ Blamed' \/ Attempts <= gateway.slow
      PROVE  Reasoned'
  <2>1. /\ pc' = AfterPoll /\ polls' = 0 /\ erred' = FALSE
        /\ snapshots' = [snapshots EXCEPT ![IF OfBaseline THEN "baseline" ELSE "saturated"]
                                          = outcome]
    BY <1>9 DEF PollEnds
  <2>2. OfBaseline <=> pc = "baseline"
    BY <1>1 DEF OfBaseline, Polling
  <2>3. CASE pc = "baseline"
    <3>1. /\ snapshots'["baseline"] = outcome /\ snapshots'["saturated"] = "unrun"
          /\ pc' = "release"
      BY <2>1, <2>2, <2>3, <1>7 DEF AfterPoll, TypeOK, Polling
    <3> QED BY <2>1, <3>1, <1>2, <1>4, <1>6, <1>9 DEF Reasoned, Polling
  <2>4. CASE pc = "saturated"
    <3>1. /\ snapshots'["baseline"] = snapshots["baseline"] /\ snapshots'["saturated"] = outcome
          /\ pc' = "post"
      BY <2>1, <2>2, <2>4 DEF AfterPoll, TypeOK, Polling
    <3>2. "post" \notin SnapshotAhead
      BY DEF SnapshotAhead, Early
    <3> QED BY <2>1, <3>1, <3>2, <1>2, <1>4, <1>6, <1>9 DEF Reasoned, Polling
  <2> QED BY <1>1, <2>3, <2>4 DEF Polling
<1>10. CASE answer = "price" /\ PollEnds("price")
  BY <1>2, <1>5, <1>9, <1>10
<1>11. CASE answer # "price" /\ polls + 1 = Attempts
            /\ PollEnds(NoPrice(erred \/ answer = "error"))
  <2>1. CASE erred \/ answer = "error"
    <3>1. Blamed' /\ PollEnds("error")
      BY <2>1, <1>2, <1>11 DEF NoPrice, Reasoned
    <3> QED BY <3>1, <1>9 DEF Outcomes
  <2>2. CASE ~(erred \/ answer = "error")
    <3>1. answer = "empty" /\ PollEnds("empty")
      BY <2>2, <1>11 DEF NoPrice, Outcomes
    <3>2. ~gateway.quotable \/ Blamed' \/ Attempts <= gateway.slow
      <4>1. gateway.slow \in Nat /\ gateway.slow > 0
        <5>1. gateway.slow \in Delays
          BY DEF TypeOK
        <5>2. Delays \subseteq Nat \ {0}
          BY BoundsAssumption
        <5>3. gateway.slow \in Nat \ {0}
          BY <5>1, <5>2
        <5> QED BY <5>3
      <4>2. /\ polls < gateway.slow => Attempts <= gateway.slow
            /\ polls > 0 \/ Attempts <= gateway.slow
        BY <4>1, <1>6, <1>11
      <4> QED BY <4>2, <3>1, <1>2 DEF Reasoned
    <3> QED BY <3>1, <3>2, <1>9 DEF Outcomes
  <2> QED BY <2>1, <2>2
<1> QED BY <1>8, <1>10, <1>11 DEF PollGoesOn

LEMMA PauseReasoned ==
  ASSUME TypeOK, Reasoned, Onward, PollPause, Cardinality(held') <= gateway'.limit
  PROVE  Reasoned'
<1>1. /\ pc \in {"baselineWait", "saturatedWait"}
      /\ UNCHANGED <<interrupted, seen, before, quoted, held, displaced, failures, gateway>>
  BY DEF PollPause, evidence, network
<1>2. (Blamed <=> Blamed') /\ (Afforded <=> Afforded')
  BY <1>1 DEF Blamed, Afforded
<1>3. snapshots["saturated"] = "unrun"
  BY <1>1 DEF Reasoned, SnapshotAhead, Early
<1>4. pc \in Early \cup SinceCopy /\ pc \in PollPoints
  BY <1>1 DEF Early, SinceCopy, PollPoints
<1>5. CASE /\ pc' = IF OfBaseline THEN "baseline" ELSE "saturated"
           /\ UNCHANGED <<polls, erred, snapshots>>
  <2>1. pc' \in PollPoints
    BY <1>5 DEF PollPoints, Polling
  <2> QED BY <1>1, <1>2, <1>3, <1>4, <1>5, <2>1 DEF Reasoned
<1>6. CASE interrupted /\ PollEnds(NoPrice(erred))
  <2>1. Blamed'
    BY <1>2, <1>6 DEF Blamed
  <2>2. PICK outcome \in {"error", "empty"} :
          /\ polls' = 0 /\ erred' = FALSE /\ pc' = AfterPoll
          /\ snapshots' = [snapshots EXCEPT ![IF OfBaseline THEN "baseline" ELSE "saturated"]
                                            = outcome]
    BY <1>6 DEF PollEnds, NoPrice
  <2>3. CASE pc = "baselineWait"
    <3>1. /\ snapshots'["baseline"] = outcome /\ snapshots'["saturated"] = "unrun"
          /\ pc' = "release"
      BY <2>2, <2>3, <1>3 DEF AfterPoll, OfBaseline, TypeOK, Polling
    <3> QED BY <1>1, <1>4, <2>1, <2>2, <3>1 DEF Reasoned, Polling
  <2>4. CASE pc = "saturatedWait"
    <3>1. /\ snapshots'["baseline"] = snapshots["baseline"] /\ snapshots'["saturated"] = outcome
          /\ pc' = "post"
      BY <2>2, <2>4 DEF AfterPoll, OfBaseline, TypeOK, Polling
    <3>2. "post" \notin SnapshotAhead
      BY DEF SnapshotAhead, Early
    <3> QED BY <1>1, <1>4, <2>1, <2>2, <3>1, <3>2 DEF Reasoned, Polling
  <2> QED BY <1>1, <2>3, <2>4
<1> QED BY <1>5, <1>6 DEF PollPause

LEMMA ReasonedStep == TypeOK /\ Reasoned /\ [Next]_vars => Reasoned'
<1> SUFFICES ASSUME TypeOK, Reasoned, [Next]_vars PROVE Reasoned'
  OBVIOUS
<1>1. Onward
  BY StepsOnward
<1>2. Cardinality(held') <= gateway'.limit
  BY <1>1, RoomStep DEF Reasoned
<1>3. /\ Blamed => Blamed'
      /\ UNCHANGED quoted => (Afforded => Afforded')
      /\ pc' \in Early \cup SinceCopy =>
            \A c \in Streamed : c \in held \cup displaced => c \in held' \cup displaced'
      /\ gateway' = gateway
      /\ pc \in PollPoints /\ Probed \in held => Probed \in held'
  BY <1>1, OnwardKeeps DEF Onward
<1>4. CASE Quiet
  <2>1. polls' > 0 => pc' \in PollPoints /\ (Probed \in held' \/ Blamed')
    BY <1>3, <1>4 DEF Quiet, Reasoned
  <2>2. pc' \in Early \cup SinceCopy =>
          \A c \in Streamed : seen'[c].hasPrice \/ c \in quoted' => c \in held' \cup displaced'
    BY <1>3, <1>4 DEF Quiet, Reasoned
  <2>3. /\ erred' \/ (\E p \in Polling : snapshots'[p] = "error") => Blamed'
        /\ snapshots'["saturated"] = "price" => Afforded'
        /\ pc' \in SnapshotAhead => snapshots'["saturated"] = "unrun"
    BY <1>3, <1>4 DEF Quiet, Reasoned
  <2>4. /\ snapshots'["baseline"] = "price" => gateway'.quotable
        /\ snapshots'["baseline"] = "price" /\ snapshots'["saturated"] = "empty" =>
              Blamed' \/ Attempts <= gateway'.slow
        /\ displaced' # {} => Blamed'
    BY <1>3, <1>4 DEF Quiet, Reasoned
  <2> QED BY <1>2, <2>1, <2>2, <2>3, <2>4 DEF Reasoned
<1>5. CASE Poll
  <2>1. PICK answer \in Outcomes : PollGoesOn(answer)
    BY <1>5, PollHas
  <2> QED BY <1>1, <1>2, <2>1, PollReasoned
<1>6. CASE PollPause
  BY <1>1, <1>2, <1>6, PauseReasoned
<1>7. CASE Settle
  <2>1. /\ pc = "settle" /\ pc' \in {"saturated", "unsubscribe"}
        /\ UNCHANGED <<polls, erred, interrupted, seen, snapshots, held, displaced, failures,
                       gateway>>
        /\ quoted' \in {quoted, {c \in Streamed : seen[c].hasPrice}}
    <3>1. Local /\ seen' = seen /\ quoted' \in {quoted, {c \in Streamed : seen[c].hasPrice}}
      BY <1>7 DEF Settle, evidence
    <3>2. pc = "settle" /\ (GoTo("saturated") \/ CleanUp)
      BY <1>7 DEF Settle
    <3> QED BY <3>1, <3>2 DEF Local, network, GoTo, CleanUp
  <2>2. /\ snapshots["saturated"] = "unrun" /\ polls \in Nat /\ ~(polls > 0)
        /\ pc \in Early \cup SinceCopy
    BY <2>1 DEF Reasoned, SnapshotAhead, Early, SinceCopy, PollPoints, Polling, TypeOK
  <2>3. Blamed <=> Blamed'
    BY <2>1 DEF Blamed
  <2>4. \A c \in Streamed : seen'[c].hasPrice \/ c \in quoted' => c \in held' \cup displaced'
    BY <2>1, <2>2 DEF Reasoned
  <2> QED BY <1>2, <2>1, <2>2, <2>3, <2>4 DEF Reasoned
<1>8. CASE Update
  <2>1. PICK c \in held \cap Streamed, price \in BOOLEAN :
          seen' = [seen EXCEPT ![c] = [updates |-> seen[c].updates + 1,
                                       hasPrice |-> seen[c].hasPrice \/ price]]
    BY <1>8 DEF Update
  <2>2. /\ UNCHANGED <<pc, polls, erred, quoted, interrupted, snapshots, held, displaced, failures,
                       gateway>>
        /\ pc \in Early \cup SinceCopy
    BY <1>8 DEF Update, Local, control, network, Watching, Early, SinceCopy
  <2>3. Blamed <=> Blamed'
    BY <2>2 DEF Blamed
  <2>4. Afforded <=> Afforded'
    BY <2>2 DEF Afforded
  <2>5. ASSUME NEW d \in Streamed, seen'[d].hasPrice \/ d \in quoted'
        PROVE  d \in held' \cup displaced'
    <3>1. CASE d = c
      BY <3>1, <2>1, <2>2
    <3>2. CASE d # c
      <4>1. seen'[d] = seen[d]
        BY <3>2, <2>1 DEF TypeOK
      <4> QED BY <4>1, <2>2, <2>5 DEF Reasoned
    <3> QED BY <3>1, <3>2
  <2> QED BY <1>2, <2>2, <2>3, <2>4, <2>5 DEF Reasoned
<1> QED BY <1>4, <1>5, <1>6, <1>7, <1>8, StepsQuiet

LEMMA ReasonedInit == Init => Reasoned
<1> SUFFICES ASSUME Init PROVE Reasoned
  OBVIOUS
<1>1. Cardinality(held) <= gateway.limit
  <2>1. gateway.limit \in Nat
    BY BoundsAssumption DEF Init
  <2> QED BY <2>1, FS_EmptySet DEF Init
<1>2. \A c \in Streamed : ~seen[c].hasPrice /\ c \notin quoted
  BY DEF Init, Nothing
<1>3. /\ snapshots["baseline"] = "unrun" /\ snapshots["saturated"] = "unrun"
      /\ \A p \in Polling : snapshots[p] # "error"
  BY DEF Init, Polling
<1> QED BY <1>1, <1>2, <1>3 DEF Init, Reasoned

LEMMA ReasonedInvariant == Spec => [](TypeOK /\ Counted /\ Reasoned)
<1>1. Init => Counted
  BY DEF Init, Counted, Early, SinceCopy, DisplacementSound
<1> QED BY <1>1, ReasonedInit, CountedStep, ReasonedStep, ProbeTypeCorrect, PTL DEF Spec

\* The verdict blames the limit, or clears it, with reason.
THEOREM ProbeVerdictRight == Spec => []VerdictRight
<1>1. ASSUME TypeOK, Counted, Reasoned PROVE VerdictRight
  <2>1. \A p \in Polling : snapshots[p] \in Outcomes \cup {"unrun"}
    BY <1>1 DEF TypeOK
  <2>2. CASE snapshots["baseline"] # "price" \/ snapshots["saturated"] = "unrun"
    BY <2>2 DEF VerdictRight, Verdict
  <2>3. CASE snapshots["baseline"] = "price" /\ snapshots["saturated"] \in {"error", "empty"}
    <3>1. Blamed \/ Attempts <= gateway.slow
      BY <1>1, <2>3 DEF Reasoned, Polling
    <3>2. Verdict \in {"rejects", "silent"}
      BY <2>3 DEF Verdict
    <3> QED BY <3>1, <3>2 DEF VerdictRight, Blamed, Excused
  <2>4. CASE snapshots["baseline"] = "price" /\ snapshots["saturated"] = "price"
    <3>1. Verdict = IF stillTicking = {} THEN "indeterminate"
                    ELSE IF wentSilent = {} THEN "not reached" ELSE "displaces"
      BY <2>4 DEF Verdict
    <3>2. ASSUME stillTicking # {}, wentSilent = {}
          PROVE  gateway.limit > Cardinality(quoted) \/ displaced \cap quoted \cap fresh # {}
      <4>1. quoted \subseteq fresh
        BY <1>1, <3>2 DEF Counted, DisplacementSound
      <4> QED BY <4>1, <1>1, <2>4 DEF Reasoned, Afforded
    <3> QED BY <3>1, <3>2 DEF VerdictRight
  <2> QED BY <2>1, <2>2, <2>3, <2>4 DEF Polling, Outcomes
<1> QED BY <1>1, ReasonedInvariant, PTL

=============================================================================
