------------------------------ MODULE MCConnPool ------------------------------
(* Instances of ConnPool for TLC. *)
EXTENDS ConnPool, TLC

\* Callers, URLs and connections are interchangeable.
Symmetry == Permutations(Callers) \union Permutations(URLs) \union Permutations(Conns)

\* One cluster may never answer a dial; dialling the others returns a connection
\* or an error (grpc.NewClient does not wait for the network).
SlowURL == CHOOSE u \in URLs : TRUE
SlowDial ==
    Spec /\ Scheduling
         /\ \A c \in Callers : WF_vars(url[c] # SlowURL /\ (Dial(c) \/ DialFails(c)))

\* "This ensures that a slow dial to one cluster does not block connections to
\* other clusters" (ConnPool): a call for one of them returns, whatever
\* evictions, failed dials and other callers do. The callers being interchangeable,
\* one stands for all; the URLs too, so every call returns while all dials do.
Client == CHOOSE c \in Callers : TRUE
OtherClustersServed == (url[Client] \notin {SlowURL, None}) ~> pc[Client] = "idle"
===============================================================================
