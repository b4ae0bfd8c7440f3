------------------------------- MODULE ConnPool -------------------------------
(***************************************************************************)
(* redpanda/cloud/connpool.go: the pool of gRPC connections every resource *)
(* of the provider shares.  A caller is a goroutine inside GetConnection   *)
(* (Terraform runs many resource operations at once in one provider        *)
(* process).  Sections under ConnPool.mu are a Lock step and one step that *)
(* does the section's work and unlocks on its way out; the singleflight    *)
(* group is its map of calls in flight.                                    *)
(***************************************************************************)
EXTENDS FiniteSets

CONSTANTS Callers,  \* goroutines that call GetConnection
          URLs,     \* cluster URLs, the keys of ConnPool.conns
          Conns,    \* identities of *grpc.ClientConn values that can be dialled
          None      \* nil: a missing map entry, an error, a free mutex

ASSUME NoneAssumption == None \notin Callers \union URLs \union Conns

VARIABLES
    mu,        \* ConnPool.mu: the caller that holds it, or None
    conns,     \* ConnPool.conns: URL -> connection or None
    flight,    \* ConnPool.sf: URL -> the caller that leads the call, or None
    state,     \* conn.GetState(): "unborn" before the dial, "up" for the
               \* healthy states, "failing" (TransientFailure), "shutdown"
    target,    \* the URL a connection was dialled for
    closing,   \* connections whose "go conn.Close()" has not run yet
    pc,        \* where in GetConnection each caller is
    url,       \* the argument of its call, None between calls
    res        \* the connection it has in hand: what the flight will return,
               \* and, between calls, what its last call returned

vars == <<mu, conns, flight, state, target, closing, pc, url, res>>

Locking  == {"fast", "check", "store"}             \* at mu.Lock()
Locked   == {"fastLocked", "checkLocked", "storeLocked"}
Leading  == {"check", "checkLocked", "dial", "store", "storeLocked", "land"}
Steps    == {"idle", "do", "wait"} \union {"fast", "fastLocked"} \union Leading

Held(p) == CASE p = "fast"  -> "fastLocked"
             [] p = "check" -> "checkLocked"
             [] OTHER       -> "storeLocked"

isHealthy(n) == state[n] \notin {"shutdown", "failing"}

\* The connections dialled and not yet closed or handed to a closing goroutine.
Open == {n \in Conns : state[n] \notin {"unborn", "shutdown"} /\ n \notin closing}

Init == /\ mu      = None
        /\ conns   = [u \in URLs |-> None]
        /\ flight  = [u \in URLs |-> None]
        /\ state   = [n \in Conns |-> "unborn"]
        /\ target  = [n \in Conns |-> None]
        /\ closing = {}
        /\ pc      = [c \in Callers |-> "idle"]
        /\ url     = [c \in Callers |-> None]
        /\ res     = [c \in Callers |-> None]

Goto(c, step) == pc' = [pc EXCEPT ![c] = step]

-------------------------------------------------------------------------------
(* GetConnection                                                           *)

Call(c, u) ==
    /\ pc[c] = "idle"
    /\ Goto(c, "fast")
    /\ url' = [url EXCEPT ![c] = u]
    /\ res' = [res EXCEPT ![c] = None]
    /\ UNCHANGED <<mu, conns, flight, state, target, closing>>

Lock(c) ==
    /\ pc[c] \in Locking
    /\ mu = None
    /\ mu' = c
    /\ Goto(c, Held(pc[c]))
    /\ UNCHANGED <<conns, flight, state, target, closing, url, res>>

\* Mutant of Evict: the evicted connection is not closed.
EvictWithoutClose(u) ==
    /\ conns' = [conns EXCEPT ![u] = None]
    /\ UNCHANGED closing

\* An unhealthy entry is dropped from the map and closed in a goroutine.
Evict(u) ==
    IF conns[u] = None
    THEN UNCHANGED <<conns, closing>>
    ELSE /\ conns' = [conns EXCEPT ![u] = None]
         /\ closing' = closing \union {conns[u]}

\* Mutant of FastHit: the early return forgets to unlock.
FastHitKeepsLock(c) ==
    /\ pc[c] = "fastLocked"
    /\ conns[url[c]] # None
    /\ isHealthy(conns[url[c]])
    /\ Goto(c, "idle")
    /\ url' = [url EXCEPT ![c] = None]
    /\ res' = [res EXCEPT ![c] = conns[url[c]]]
    /\ UNCHANGED <<mu, conns, flight, state, target, closing>>

FastHit(c) ==
    /\ pc[c] = "fastLocked"
    /\ conns[url[c]] # None
    /\ isHealthy(conns[url[c]])
    /\ mu' = None
    /\ Goto(c, "idle")
    /\ url' = [url EXCEPT ![c] = None]
    /\ res' = [res EXCEPT ![c] = conns[url[c]]]
    /\ UNCHANGED <<conns, flight, state, target, closing>>

FastMiss(c) ==
    /\ pc[c] = "fastLocked"
    /\ conns[url[c]] # None => ~ isHealthy(conns[url[c]])
    /\ Evict(url[c])
    /\ mu' = None
    /\ Goto(c, "do")
    /\ UNCHANGED <<flight, state, target, url, res>>

\* Mutant of Lead: every caller dials, no singleflight.
LeadAlways(c) ==
    /\ pc[c] = "do"
    /\ flight' = [flight EXCEPT ![url[c]] = c]
    /\ Goto(c, "check")
    /\ UNCHANGED <<mu, conns, state, target, closing, url, res>>

\* sf.Do: the first caller for a URL leads, later ones wait for its result.
Lead(c) ==
    /\ pc[c] = "do"
    /\ flight[url[c]] = None
    /\ flight' = [flight EXCEPT ![url[c]] = c]
    /\ Goto(c, "check")
    /\ UNCHANGED <<mu, conns, state, target, closing, url, res>>

Join(c) ==
    /\ pc[c] = "do"
    /\ flight[url[c]] # None
    /\ Goto(c, "wait")
    /\ UNCHANGED <<mu, conns, flight, state, target, closing, url, res>>

CheckHit(c) ==
    /\ pc[c] = "checkLocked"
    /\ conns[url[c]] # None
    /\ isHealthy(conns[url[c]])
    /\ mu' = None
    /\ Goto(c, "land")
    /\ res' = [res EXCEPT ![c] = conns[url[c]]]
    /\ UNCHANGED <<conns, flight, state, target, closing, url>>

\* Mutant of CheckMiss: the unhealthy entry is left for the store to overwrite.
CheckMissKeepsEntry(c) ==
    /\ pc[c] = "checkLocked"
    /\ conns[url[c]] # None => ~ isHealthy(conns[url[c]])
    /\ mu' = None
    /\ Goto(c, "dial")
    /\ UNCHANGED <<conns, closing, flight, state, target, url, res>>

\* Mutant of CheckMiss: the mutex stays locked during the dial.
CheckMissKeepsLock(c) ==
    /\ pc[c] = "checkLocked"
    /\ conns[url[c]] # None => ~ isHealthy(conns[url[c]])
    /\ Evict(url[c])
    /\ Goto(c, "dial")
    /\ UNCHANGED <<mu, flight, state, target, url, res>>

CheckMiss(c) ==
    /\ pc[c] = "checkLocked"
    /\ conns[url[c]] # None => ~ isHealthy(conns[url[c]])
    /\ Evict(url[c])
    /\ mu' = None
    /\ Goto(c, "dial")
    /\ UNCHANGED <<flight, state, target, url, res>>

\* spawnFunc, without the mutex: a fresh connection in state Idle ...
Dial(c) ==
    /\ pc[c] = "dial"
    /\ \E n \in Conns :
          /\ state[n] = "unborn"
          /\ state' = [state EXCEPT ![n] = "up"]
          /\ target' = [target EXCEPT ![n] = url[c]]
          /\ res' = [res EXCEPT ![c] = n]
    /\ Goto(c, "store")
    /\ UNCHANGED <<mu, conns, flight, closing, url>>

\* ... or an error, which the flight returns.
DialFails(c) ==
    /\ pc[c] = "dial"
    /\ Goto(c, "land")
    /\ UNCHANGED <<mu, conns, flight, state, target, closing, url, res>>

Store(c) ==
    /\ pc[c] = "storeLocked"
    /\ conns' = [conns EXCEPT ![url[c]] = res[c]]
    /\ mu' = None
    /\ Goto(c, "land")
    /\ UNCHANGED <<flight, state, target, closing, url, res>>

\* The callers that get the result of the flight c leads: c and its followers.
Landing(c) == {c} \union {w \in Callers : pc[w] = "wait" /\ url[w] = url[c]}

\* The end of singleflight's doCall: the waiters wake with the leader's result
\* and the call leaves the group's map.
Land(c) ==
    /\ pc[c] = "land"
    /\ flight' = [flight EXCEPT ![url[c]] = None]
    /\ pc'  = [w \in Callers |-> IF w \in Landing(c) THEN "idle" ELSE pc[w]]
    /\ url' = [w \in Callers |-> IF w \in Landing(c) THEN None ELSE url[w]]
    /\ res' = [w \in Callers |-> IF w \in Landing(c) THEN res[c] ELSE res[w]]
    /\ UNCHANGED <<mu, conns, state, target, closing>>

-------------------------------------------------------------------------------
(* The closing goroutines, CloseAll, and grpc's connectivity state machine *)

Close(n) ==
    /\ n \in closing
    /\ state' = [state EXCEPT ![n] = "shutdown"]
    /\ closing' = closing \ {n}
    /\ UNCHANGED <<mu, conns, flight, target, pc, url, res>>

\* CloseAll holds mu from its first statement to its last.
CloseAll ==
    /\ mu = None
    /\ \E u \in URLs : conns[u] # None
    /\ state' = [n \in Conns |->
                   IF \E u \in URLs : conns[u] = n THEN "shutdown" ELSE state[n]]
    /\ conns' = [u \in URLs |-> None]
    /\ UNCHANGED <<mu, flight, target, closing, pc, url, res>>

Fail(n) ==
    /\ state[n] = "up"
    /\ state' = [state EXCEPT ![n] = "failing"]
    /\ UNCHANGED <<mu, conns, flight, target, closing, pc, url, res>>

Recover(n) ==
    /\ state[n] = "failing"
    /\ state' = [state EXCEPT ![n] = "up"]
    /\ UNCHANGED <<mu, conns, flight, target, closing, pc, url, res>>

-------------------------------------------------------------------------------
\* What a caller does by itself once it has called.
Work(c) == \/ FastHit(c) \/ FastMiss(c)
           \/ Lead(c) \/ Join(c)
           \/ CheckHit(c) \/ CheckMiss(c)
           \/ Store(c) \/ Land(c)

\* Normal operation: "intentionally not called during normal operation" says
\* the source of CloseAll.
Serve == \/ \E c \in Callers : \/ \E u \in URLs : Call(c, u)
                               \/ Lock(c) \/ Work(c)
                               \/ Dial(c) \/ DialFails(c)
         \/ \E n \in Conns : Close(n) \/ Fail(n) \/ Recover(n)

Next == Serve \/ CloseAll

Spec == Init /\ [][Next]_vars

\* Go runs every runnable goroutine (weak fairness of a caller's own steps and
\* of the closing goroutines); sync.Mutex hands itself to a waiter that has
\* starved for 1ms (strong fairness of Lock). Nothing is said of the dial.
Scheduling == /\ \A c \in Callers : SF_vars(Lock(c)) /\ WF_vars(Work(c))
              /\ \A n \in Conns : WF_vars(Close(n))

-------------------------------------------------------------------------------
(* Properties                                                              *)

TypeOK == /\ mu \in Callers \union {None}
          /\ conns \in [URLs -> Conns \union {None}]
          /\ flight \in [URLs -> Callers \union {None}]
          /\ state \in [Conns -> {"unborn", "up", "failing", "shutdown"}]
          /\ target \in [Conns -> URLs \union {None}]
          /\ closing \in SUBSET Conns
          /\ pc \in [Callers -> Steps]
          /\ url \in [Callers -> URLs \union {None}]
          /\ res \in [Callers -> Conns \union {None}]

\* A caller past the start of its call knows its URL; a waiter waits for a
\* flight somebody leads, so that nobody waits for ever; the leader of a flight
\* is the one caller between sf.Do and the end of its function for that URL.
FlightInv ==
    /\ \A c \in Callers : url[c] = None <=> pc[c] = "idle"
    /\ \A c \in Callers : pc[c] = "wait" => flight[url[c]] # None
    /\ \A c \in Callers : pc[c] \in Leading => flight[url[c]] = c
    /\ \A u \in URLs : flight[u] # None =>
          pc[flight[u]] \in Leading /\ url[flight[u]] = u

\* ConnPool.mu is held by exactly the caller inside a locked section: no early
\* return forgets to unlock.
MutexInv == \A c \in Callers : mu = c <=> pc[c] \in Locked

\* Between the double check and the store nobody fills the entry the leader is
\* about to fill: a store never overwrites (and so leaks) a connection.
NoOverwrite == \A c \in Callers :
    pc[c] \in {"dial", "store", "storeLocked"} => conns[url[c]] = None

\* The connection a leader dialled and has not stored yet.
InHand(n) == {c \in Callers : pc[c] \in {"store", "storeLocked"} /\ res[c] = n}

\* Nothing leaks: a connection that was dialled and not closed is in the pool
\* under the URL it was dialled for, or in the hand of the leader that is about
\* to store it, or with a goroutine that will close it.
NoLeak == \A n \in Conns : state[n] \notin {"unborn", "shutdown"} =>
    \/ n \in closing
    \/ target[n] # None /\ conns[target[n]] = n
    \/ InHand(n) # {}

\* The pool never serves a connection it has closed or given to a closing
\* goroutine, nor one dialled for another cluster.
PoolServesOpen == \A u \in URLs : conns[u] # None =>
    conns[u] \in Open /\ target[conns[u]] = u

\* A call never returns a connection to another cluster than the one asked for:
\* followers share the result of the flight for their own URL.
RightCluster == \A c \in Callers :
    pc[c] # "idle" /\ res[c] # None => target[res[c]] = url[c]

\* "share a single gRPC connection": no two open connections to one URL, not
\* even while one is being replaced.
SingleConnection == \A m, n \in Open : target[m] = target[n] => m = n

\* What makes the parts above inductive: a connection in a leader's hand is
\* fresh, is nobody else's and is not in the pool.
HandInv ==
    /\ \A c \in Callers : pc[c] \in {"store", "storeLocked"} =>
          /\ res[c] \in Open
          /\ \A u \in URLs : conns[u] # res[c]
    /\ \A c \in Callers : pc[c] \notin {"store", "storeLocked", "land", "idle"} =>
          res[c] = None
    /\ \A c \in Callers : res[c] # None => state[res[c]] # "unborn"
    /\ \A n \in Conns : state[n] = "unborn" => target[n] = None
    /\ \A n \in closing : state[n] \notin {"unborn", "shutdown"}

\* The inductive invariant.
IInv == /\ TypeOK /\ FlightInv /\ MutexInv /\ NoOverwrite
        /\ NoLeak /\ PoolServesOpen /\ RightCluster /\ HandInv

\* The pool implements SharedConn: a connection is shared from the moment it is
\* stored, and retired from the moment it is evicted.
Shared == INSTANCE SharedConn WITH
    shared  <- conns,
    once    <- [u \in URLs |-> {n \in Conns : target[n] = u /\ InHand(n) = {}}],
    retired <- {n \in Conns : n \in closing \/ state[n] = "shutdown"},
    asks    <- url,
    answer  <- [c \in Callers |-> IF pc[c] = "idle" THEN res[c] ELSE None]

Implements == Shared!Spec

===============================================================================
