--------------------------- MODULE ConnPoolHistory ----------------------------
(***************************************************************************)
(* ConnPool with a history variable that says which connections had been   *)
(* closed already when a caller entered GetConnection.                     *)
(***************************************************************************)
EXTENDS ConnPool

VARIABLE gone   \* gone[c]: the connections shut down when c's call began

HInit == Init /\ gone = [c \in Callers |-> {}]

Entering(c) == pc[c] = "idle" /\ pc'[c] # "idle"
Leaving(c)  == pc[c] # "idle" /\ pc'[c] = "idle"

HNext == /\ Serve
         /\ gone' = [c \in Callers |->
                       IF Entering(c) THEN {n \in Conns : state[n] = "shutdown"}
                       ELSE IF Leaving(c) THEN {} ELSE gone[c]]

HSpec == HInit /\ [][HNext]_<<vars, gone>>

\* "Unhealthy connections (Shutdown or TransientFailure) are evicted and
\* replaced": a call does not return a connection that was already in Shutdown
\* when the call began.  A caller that joins a flight after its leader has
\* stored the connection and before singleflight forgets the flight gets the
\* leader's connection whatever has become of it since.
NeverReturnsClosed == [][\A c \in Callers : Leaving(c) => res'[c] \notin gone[c]]_vars
===============================================================================
