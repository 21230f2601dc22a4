---------------------------- MODULE StreamService ----------------------------
(***************************************************************************)
(* What stream.go promises the application that drains Stream.Updates,    *)
(* without connections, goroutines or locks: updates come in the order the *)
(* gateway sent them, none is skipped within a connection before Close is  *)
(* called, the channel is closed once and only after Close or a cancelled  *)
(* context, and Err then tells the two apart as far as the code can.       *)
(***************************************************************************)
EXTENDS Integers, Sequences

CONSTANTS
    Frames,      \* [conn, seq]: the seq-th update of the conn-th connection
    UpdatesCap   \* capacity of the updates channel

VARIABLES
    updates,     \* the updates channel
    last,        \* the last update put on it
    requests,    \* which of "close" and "cancel" have been asked for
    ended,       \* the channel is closed
    err          \* what Err returns once it is

vars == <<updates, last, requests, ended, err>>

Init ==
    /\ updates = <<>> /\ last = [conn |-> 0, seq |-> 0]
    /\ requests = {} /\ ended = FALSE /\ err = "none"

\* The successor on the same connection, or the first update of a later one.
Follows(u) ==
    \/ u.conn = last.conn /\ u.seq = last.seq + 1
    \/ u.conn > last.conn /\ u.seq = 1

\* Once Close is called, updates may be dropped but are not reordered.
Overtakes(u) == u.conn > last.conn \/ (u.conn = last.conn /\ u.seq > last.seq)

Deliver(u) ==
    /\ ~ended /\ Len(updates) < UpdatesCap
    /\ Follows(u) \/ ("close" \in requests /\ Overtakes(u))
    /\ updates' = Append(updates, u)
    /\ last' = u
    /\ UNCHANGED <<requests, ended, err>>

Receive ==
    /\ updates # <<>>
    /\ updates' = Tail(updates)
    /\ UNCHANGED <<last, requests, ended, err>>

Request(r) ==
    /\ requests' = requests \cup {r}
    /\ UNCHANGED <<updates, last, ended, err>>

End ==
    /\ ~ended /\ ended' = TRUE
    /\ \/ "close" \in requests /\ err' = "none"
       \/ "cancel" \in requests /\ err' = "cancelled"
    /\ UNCHANGED <<updates, last, requests>>

Next ==
    \/ \E u \in Frames : Deliver(u)
    \/ Receive \/ End
    \/ \E r \in {"close", "cancel"} : Request(r)

Spec == Init /\ [][Next]_vars

=============================================================================
