----------------------------- MODULE StreamLife -----------------------------
(***************************************************************************)
(* The life of a Stream as its owner may rely on it, without goroutines,   *)
(* sockets or subscriptions: what a lost connection, Close and the end of  *)
(* the context do to it, and when each of them goes unnoticed.             *)
(***************************************************************************)

VARIABLES
    stream,      \* "none" before DialStream returns, "up", "dialing",
                 \* "deaf" (closed, and reading a connection all the same),
                 \* "ended" (nothing keeps supervise from its end any more)
    closed,      \* Close was called
    interrupted  \* the context is cancelled

vars == <<stream, closed, interrupted>>

Init == stream = "none" /\ closed = FALSE /\ interrupted = FALSE

\* A stream that is asked to end when its connection is lost does not dial again.
Lost == IF closed \/ interrupted THEN "ended" ELSE "dialing"

\* DialStream returns, with a connection that may be gone already.
Dial ==
    /\ stream = "none" /\ stream' \in {"up", Lost}
    /\ UNCHANGED <<closed, interrupted>>

Drop ==
    /\ stream \in {"up", "deaf"} /\ stream' = Lost
    /\ UNCHANGED <<closed, interrupted>>

\* A dial that succeeds installs its connection, closed or not; one that waits
\* for its handshake does not see the context either.
Redial ==
    /\ stream = "dialing" /\ stream' = IF closed THEN "deaf" ELSE "up"
    /\ UNCHANGED <<closed, interrupted>>

\* Between two attempts supervise sees a Close or a cancelled context.
StreamStops ==
    /\ stream = "dialing" /\ (closed \/ interrupted) /\ stream' = "ended"
    /\ UNCHANGED <<closed, interrupted>>

\* Close ends a stream that has a connection.  One that dials may be past the
\* places where it would see Close; a later Close ends it then.
Close ==
    /\ stream # "none" /\ closed' = TRUE
    /\ stream' \in IF stream = "dialing" THEN {"dialing", "ended"} ELSE {"ended"}
    /\ UNCHANGED interrupted

\* The end of the context does nothing to a stream that has a connection.
Interrupt ==
    /\ interrupted' = TRUE
    /\ stream' \in IF stream = "dialing" THEN {"dialing", "ended"} ELSE {stream}
    /\ UNCHANGED closed

Next == Dial \/ Drop \/ Redial \/ StreamStops \/ Close \/ Interrupt

Spec == Init /\ [][Next]_vars

=============================================================================
