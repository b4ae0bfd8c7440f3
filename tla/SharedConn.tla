------------------------------ MODULE SharedConn ------------------------------
(***************************************************************************)
(* What redpanda/cloud/connpool.go promises to its callers, with the mutex *)
(* and the singleflight group left out: every URL has at most one shared   *)
(* connection, a connection is shared under one URL once in its life, it   *)
(* is retired before another one takes its place, and a caller is answered *)
(* with a connection that was shared under the URL it asked for, or with   *)
(* an error.  ConnPool implements this specification.                      *)
(***************************************************************************)

CONSTANTS Callers,  \* goroutines that ask for connections
          URLs,     \* the keys of the pool
          Conns,    \* identities of the connections that may be dialled
          None      \* "no connection": an empty key, an error, no answer

VARIABLES shared,   \* shared[u]: the connection u is served with, or None
          once,     \* once[u]: every connection ever shared under u
          retired,  \* connections taken out of service
          asks,     \* asks[c]: the URL caller c waits for, or None
          answer    \* answer[c]: what the last request of c got

vars == <<shared, once, retired, asks, answer>>

Init == /\ shared  = [u \in URLs |-> None]
        /\ once    = [u \in URLs |-> {}]
        /\ retired = {}
        /\ asks    = [c \in Callers |-> None]
        /\ answer  = [c \in Callers |-> None]

\* A caller asks for the connection of u; what it held before is forgotten.
Ask(c, u) ==
    /\ asks[c] = None
    /\ asks' = [asks EXCEPT ![c] = u]
    /\ answer' = [answer EXCEPT ![c] = None]
    /\ UNCHANGED <<shared, once, retired>>

\* A connection that never served any URL becomes the one of u.
Share(u, n) ==
    /\ shared[u] = None
    /\ n \notin retired
    /\ \A v \in URLs : n \notin once[v]
    /\ shared' = [shared EXCEPT ![u] = n]
    /\ once' = [once EXCEPT ![u] = @ \union {n}]
    /\ UNCHANGED <<retired, asks, answer>>

\* The connections of some URLs leave service for good (one eviction, or
\* every entry at once).
Retire(us) ==
    /\ us # {}
    /\ \A u \in us : shared[u] # None
    /\ retired' = retired \union {shared[u] : u \in us}
    /\ shared' = [u \in URLs |-> IF u \in us THEN None ELSE shared[u]]
    /\ UNCHANGED <<once, asks, answer>>

\* One request, or every request that waited for the same dial, is answered.
Answer(cs, a) ==
    /\ \A c \in cs : asks[c] # None /\ (a # None => a \in once[asks[c]])
    /\ asks' = [c \in Callers |-> IF c \in cs THEN None ELSE asks[c]]
    /\ answer' = [c \in Callers |-> IF c \in cs THEN a ELSE answer[c]]
    /\ UNCHANGED <<shared, once, retired>>

Next == \/ \E c \in Callers, u \in URLs : Ask(c, u)
        \/ \E u \in URLs, n \in Conns : Share(u, n)
        \/ \E us \in SUBSET URLs : Retire(us)
        \/ \E cs \in SUBSET Callers, a \in Conns \union {None} : Answer(cs, a)

Spec == Init /\ [][Next]_vars
===============================================================================
