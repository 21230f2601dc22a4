------------------------------ MODULE StreamMC ------------------------------
(***************************************************************************)
(* Instances of Stream for TLC.                                            *)
(***************************************************************************)
EXTENDS Stream, TLC

CONSTANTS alice, bob, aapl, msft

\* Each conid is managed by one goroutine.
Separate == {<<alice, aapl>>, <<bob, msft>>}
\* Both goroutines manage every conid.
Shared == Callers \X Conids
\* One goroutine manages everything; the other one only closes.
Alone == {alice} \X Conids

=============================================================================
