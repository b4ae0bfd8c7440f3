---------------------------- MODULE ConnPoolProofs ----------------------------
(***************************************************************************)
(* Theorems of ConnPool, for any sets of callers, URLs and connections:    *)
(* IInv is inductive (one lemma per action), nothing leaks, a URL has one  *)
(* open connection at most, and the pool implements SharedConn.            *)
(***************************************************************************)
EXTENDS ConnPool, TLAPS

\* The empty pool satisfies the inductive invariant.
LEMMA InitIInv == Init => IInv
  <1> SUFFICES ASSUME Init PROVE IInv
    OBVIOUS
  <1> USE NoneAssumption DEF Init, Steps, Leading, Locked
  <1>1. TypeOK
    BY DEF TypeOK
  <1>2. FlightInv /\ MutexInv /\ NoOverwrite
    BY DEF FlightInv, MutexInv, NoOverwrite
  <1>3. NoLeak /\ PoolServesOpen /\ RightCluster
    BY DEF NoLeak, PoolServesOpen, RightCluster
  <1>4. HandInv
    BY DEF HandInv
  <1> QED BY <1>1, <1>2, <1>3, <1>4 DEF IInv

\* A new call only moves its caller to the fast path.
LEMMA CallIInv == ASSUME IInv, NEW c \in Callers, NEW u \in URLs, Call(c, u) PROVE IInv'
  <1> USE NoneAssumption DEF IInv, Call, Goto, Steps, Leading, Locked
  <1>1. TypeOK'
    BY DEF TypeOK
  <1>2. FlightInv'
    BY DEF TypeOK, FlightInv
  <1>3. MutexInv'
    BY DEF TypeOK, MutexInv
  <1>4. NoOverwrite'
    BY DEF TypeOK, NoOverwrite
  <1>5. NoLeak'
    BY DEF TypeOK, NoLeak, InHand
  <1>6. PoolServesOpen'
    BY DEF TypeOK, PoolServesOpen, Open
  <1>7. RightCluster'
    BY DEF TypeOK, RightCluster
  <1>8. HandInv'
    BY DEF TypeOK, HandInv, Open
  <1> QED BY <1>1, <1>2, <1>3, <1>4, <1>5, <1>6, <1>7, <1>8

\* Taking the mutex disturbs nothing but the mutex invariant.
LEMMA LockIInv == ASSUME IInv, NEW c \in Callers, Lock(c) PROVE IInv'
  <1> USE NoneAssumption DEF IInv, Lock, Goto, Locking, Held, Steps, Leading, Locked
  <1>1. TypeOK'
    BY DEF TypeOK
  <1>2. FlightInv'
    BY DEF TypeOK, FlightInv
  <1>3. MutexInv'
    BY DEF TypeOK, MutexInv
  <1>4. NoOverwrite'
    BY DEF TypeOK, NoOverwrite
  <1>5. NoLeak'
    BY DEF TypeOK, NoLeak, InHand
  <1>6. PoolServesOpen'
    BY DEF TypeOK, PoolServesOpen, Open
  <1>7. RightCluster'
    BY DEF TypeOK, RightCluster
  <1>8. HandInv'
    BY DEF TypeOK, HandInv, Open
  <1> QED BY <1>1, <1>2, <1>3, <1>4, <1>5, <1>6, <1>7, <1>8

\* A fast-path hit hands out a pooled connection and releases the mutex.
LEMMA FastHitIInv == ASSUME IInv, NEW c \in Callers, FastHit(c) PROVE IInv'
  <1> USE NoneAssumption DEF IInv, FastHit, Goto, isHealthy, Steps, Leading, Locked
  <1>1. TypeOK'
    BY DEF TypeOK, FlightInv
  <1>2. FlightInv'
    BY DEF TypeOK, FlightInv
  <1>3. MutexInv'
    BY DEF TypeOK, MutexInv
  <1>4. NoOverwrite'
    BY DEF TypeOK, NoOverwrite
  <1>5. NoLeak'
    BY DEF TypeOK, NoLeak, InHand
  <1>6. PoolServesOpen'
    BY DEF TypeOK, PoolServesOpen, Open
  <1>7. RightCluster'
    BY DEF TypeOK, RightCluster
  <1>8. HandInv'
    BY DEF TypeOK, HandInv, Open, FlightInv, PoolServesOpen
  <1> QED BY <1>1, <1>2, <1>3, <1>4, <1>5, <1>6, <1>7, <1>8

\* A fast-path eviction moves the entry to the closing goroutine.
LEMMA FastMissIInv == ASSUME IInv, NEW c \in Callers, FastMiss(c) PROVE IInv'
  <1> USE NoneAssumption DEF IInv, FastMiss, Goto, Evict, isHealthy, Steps, Leading, Locked
  <1>1. TypeOK'
    BY DEF TypeOK, FlightInv
  <1>2. FlightInv'
    BY DEF TypeOK, FlightInv
  <1>3. MutexInv'
    BY DEF TypeOK, MutexInv
  <1>4. NoOverwrite'
    BY DEF TypeOK, NoOverwrite, FlightInv
  <1>5. NoLeak'
    BY DEF TypeOK, NoLeak, InHand
  <1>6. PoolServesOpen'
    BY DEF TypeOK, PoolServesOpen, Open, FlightInv
  <1>7. RightCluster'
    BY DEF TypeOK, RightCluster
  <1>8. HandInv'
    BY DEF TypeOK, HandInv, Open, FlightInv, PoolServesOpen
  <1> QED BY <1>1, <1>2, <1>3, <1>4, <1>5, <1>6, <1>7, <1>8

\* The first caller for a URL becomes the leader of its flight.
LEMMA LeadIInv == ASSUME IInv, NEW c \in Callers, Lead(c) PROVE IInv'
  <1> USE NoneAssumption DEF IInv, Lead, Goto, Steps, Leading, Locked
  <1>1. TypeOK'
    BY DEF TypeOK
  <1>2. FlightInv'
    BY DEF TypeOK, FlightInv
  <1>3. MutexInv'
    BY DEF TypeOK, MutexInv
  <1>4. NoOverwrite'
    BY DEF TypeOK, NoOverwrite, FlightInv
  <1>5. NoLeak'
    BY DEF TypeOK, NoLeak, InHand
  <1>6. PoolServesOpen'
    BY DEF TypeOK, PoolServesOpen, Open
  <1>7. RightCluster'
    BY DEF TypeOK, RightCluster
  <1>8. HandInv'
    BY DEF TypeOK, HandInv, Open
  <1> QED BY <1>1, <1>2, <1>3, <1>4, <1>5, <1>6, <1>7, <1>8

\* A later caller waits, and there is a flight to wait for.
LEMMA JoinIInv == ASSUME IInv, NEW c \in Callers, Join(c) PROVE IInv'
  <1> USE NoneAssumption DEF IInv, Join, Goto, Steps, Leading, Locked
  <1>1. TypeOK'
    BY DEF TypeOK
  <1>2. FlightInv'
    BY DEF TypeOK, FlightInv
  <1>3. MutexInv'
    BY DEF TypeOK, MutexInv
  <1>4. NoOverwrite'
    BY DEF TypeOK, NoOverwrite
  <1>5. NoLeak'
    BY DEF TypeOK, NoLeak, InHand
  <1>6. PoolServesOpen'
    BY DEF TypeOK, PoolServesOpen, Open
  <1>7. RightCluster'
    BY DEF TypeOK, RightCluster
  <1>8. HandInv'
    BY DEF TypeOK, HandInv, Open
  <1> QED BY <1>1, <1>2, <1>3, <1>4, <1>5, <1>6, <1>7, <1>8

\* The leader found that another flight had filled the entry.
LEMMA CheckHitIInv == ASSUME IInv, NEW c \in Callers, CheckHit(c) PROVE IInv'
  <1> USE NoneAssumption DEF IInv, CheckHit, Goto, isHealthy, Steps, Leading, Locked
  <1>1. TypeOK'
    BY DEF TypeOK, FlightInv
  <1>2. FlightInv'
    BY DEF TypeOK, FlightInv
  <1>3. MutexInv'
    BY DEF TypeOK, MutexInv
  <1>4. NoOverwrite'
    BY DEF TypeOK, NoOverwrite
  <1>5. NoLeak'
    BY DEF TypeOK, NoLeak, InHand
  <1>6. PoolServesOpen'
    BY DEF TypeOK, PoolServesOpen, Open
  <1>7. RightCluster'
    BY DEF TypeOK, RightCluster, FlightInv, PoolServesOpen
  <1>8. HandInv'
    BY DEF TypeOK, HandInv, Open, FlightInv, PoolServesOpen
  <1> QED BY <1>1, <1>2, <1>3, <1>4, <1>5, <1>6, <1>7, <1>8

\* After the double check the entry is empty, and stays so for the leader.
LEMMA CheckMissIInv == ASSUME IInv, NEW c \in Callers, CheckMiss(c) PROVE IInv'
  <1> USE NoneAssumption DEF IInv, CheckMiss, Goto, Evict, isHealthy, Steps, Leading, Locked
  <1>1. TypeOK'
    BY DEF TypeOK, FlightInv
  <1>2. FlightInv'
    BY DEF TypeOK, FlightInv
  <1>3. MutexInv'
    BY DEF TypeOK, MutexInv
  <1>4. NoOverwrite'
    BY DEF TypeOK, NoOverwrite, FlightInv
  <1>5. NoLeak'
    BY DEF TypeOK, NoLeak, InHand
  <1>6. PoolServesOpen'
    BY DEF TypeOK, PoolServesOpen, Open, FlightInv
  <1>7. RightCluster'
    BY DEF TypeOK, RightCluster
  <1>8. HandInv'
    BY DEF TypeOK, HandInv, Open, FlightInv, PoolServesOpen
  <1> QED BY <1>1, <1>2, <1>3, <1>4, <1>5, <1>6, <1>7, <1>8

\* A dialled connection is fresh and in its leader's hand alone.
LEMMA DialIInv == ASSUME IInv, NEW c \in Callers, Dial(c) PROVE IInv'
  <1> USE NoneAssumption DEF IInv, Dial, Goto, Steps, Leading, Locked
  <1>1. TypeOK'
    BY DEF TypeOK
  <1>2. FlightInv'
    BY DEF TypeOK, FlightInv
  <1>3. MutexInv'
    BY DEF TypeOK, MutexInv
  <1>4. NoOverwrite'
    BY DEF TypeOK, NoOverwrite
  <1>5. NoLeak'
    BY DEF TypeOK, NoLeak, InHand
  <1>6. PoolServesOpen'
    BY DEF TypeOK, PoolServesOpen, Open
  <1>7. RightCluster'
    BY DEF TypeOK, RightCluster, HandInv
  <1>8. HandInv'
    BY DEF TypeOK, HandInv, Open, PoolServesOpen
  <1> QED BY <1>1, <1>2, <1>3, <1>4, <1>5, <1>6, <1>7, <1>8

\* A failed dial leaves nothing behind.
LEMMA DialFailsIInv == ASSUME IInv, NEW c \in Callers, DialFails(c) PROVE IInv'
  <1> USE NoneAssumption DEF IInv, DialFails, Goto, Steps, Leading, Locked
  <1>1. TypeOK'
    BY DEF TypeOK
  <1>2. FlightInv'
    BY DEF TypeOK, FlightInv
  <1>3. MutexInv'
    BY DEF TypeOK, MutexInv
  <1>4. NoOverwrite'
    BY DEF TypeOK, NoOverwrite
  <1>5. NoLeak'
    BY DEF TypeOK, NoLeak, InHand
  <1>6. PoolServesOpen'
    BY DEF TypeOK, PoolServesOpen, Open
  <1>7. RightCluster'
    BY DEF TypeOK, RightCluster
  <1>8. HandInv'
    BY DEF TypeOK, HandInv, Open
  <1> QED BY <1>1, <1>2, <1>3, <1>4, <1>5, <1>6, <1>7, <1>8

\* The leader puts its connection into the entry it found empty.
LEMMA StoreIInv == ASSUME IInv, NEW c \in Callers, Store(c) PROVE IInv'
  <1> USE NoneAssumption DEF IInv, Store, Goto, Steps, Leading, Locked
  <1>1. TypeOK'
    BY DEF TypeOK
  <1>2. FlightInv'
    BY DEF TypeOK, FlightInv
  <1>3. MutexInv'
    BY DEF TypeOK, MutexInv
  <1>4. NoOverwrite'
    BY DEF TypeOK, NoOverwrite, FlightInv, RightCluster
  <1>5. NoLeak'
    BY DEF TypeOK, NoLeak, InHand, FlightInv, RightCluster, NoOverwrite
  <1>6. PoolServesOpen'
    BY DEF TypeOK, PoolServesOpen, Open, HandInv, RightCluster
  <1>7. RightCluster'
    BY DEF TypeOK, RightCluster
  <1>8. HandInv'
    BY DEF TypeOK, HandInv, Open, FlightInv, RightCluster
  <1> QED BY <1>1, <1>2, <1>3, <1>4, <1>5, <1>6, <1>7, <1>8

\* The flight ends: its leader and its followers leave together.
LEMMA LandIInv == ASSUME IInv, NEW c \in Callers, Land(c) PROVE IInv'
  <1> USE NoneAssumption DEF IInv, Land, Landing, Steps, Leading, Locked
  <1>1. TypeOK'
    BY DEF TypeOK
  <1>2. FlightInv'
    BY DEF TypeOK, FlightInv
  <1>3. MutexInv'
    BY DEF TypeOK, MutexInv
  <1>4. NoOverwrite'
    BY DEF TypeOK, NoOverwrite
  <1>5. NoLeak'
    <2>1. ASSUME NEW n \in Conns PROVE InHand(n)' = InHand(n)
      BY DEF TypeOK, InHand
    <2> QED BY <2>1 DEF TypeOK, NoLeak
  <1>6. PoolServesOpen'
    BY DEF TypeOK, PoolServesOpen, Open
  <1>7. RightCluster'
    BY DEF TypeOK, RightCluster
  <1>8. HandInv'
    BY DEF TypeOK, HandInv, Open
  <1> QED BY <1>1, <1>2, <1>3, <1>4, <1>5, <1>6, <1>7, <1>8

\* A closing goroutine shuts down a connection that nobody serves.
LEMMA CloseIInv == ASSUME IInv, NEW n \in Conns, Close(n) PROVE IInv'
  <1> USE NoneAssumption DEF IInv, Close, Steps, Leading, Locked
  <1>1. TypeOK'
    BY DEF TypeOK
  <1>2. FlightInv'
    BY DEF TypeOK, FlightInv
  <1>3. MutexInv'
    BY DEF TypeOK, MutexInv
  <1>4. NoOverwrite'
    BY DEF TypeOK, NoOverwrite
  <1>5. NoLeak'
    BY DEF TypeOK, NoLeak, InHand
  <1>6. PoolServesOpen'
    BY DEF TypeOK, PoolServesOpen, Open
  <1>7. RightCluster'
    BY DEF TypeOK, RightCluster
  <1>8. HandInv'
    BY DEF TypeOK, HandInv, Open
  <1> QED BY <1>1, <1>2, <1>3, <1>4, <1>5, <1>6, <1>7, <1>8

\* A transport failure touches the connectivity state only.
LEMMA FailIInv == ASSUME IInv, NEW n \in Conns, Fail(n) PROVE IInv'
  <1> USE NoneAssumption DEF IInv, Fail, Steps, Leading, Locked
  <1>1. TypeOK'
    BY DEF TypeOK
  <1>2. FlightInv'
    BY DEF TypeOK, FlightInv
  <1>3. MutexInv'
    BY DEF TypeOK, MutexInv
  <1>4. NoOverwrite'
    BY DEF TypeOK, NoOverwrite
  <1>5. NoLeak'
    BY DEF TypeOK, NoLeak, InHand
  <1>6. PoolServesOpen'
    BY DEF TypeOK, PoolServesOpen, Open
  <1>7. RightCluster'
    BY DEF TypeOK, RightCluster
  <1>8. HandInv'
    BY DEF TypeOK, HandInv, Open
  <1> QED BY <1>1, <1>2, <1>3, <1>4, <1>5, <1>6, <1>7, <1>8

\* So does a recovery.
LEMMA RecoverIInv == ASSUME IInv, NEW n \in Conns, Recover(n) PROVE IInv'
  <1> USE NoneAssumption DEF IInv, Recover, Steps, Leading, Locked
  <1>1. TypeOK'
    BY DEF TypeOK
  <1>2. FlightInv'
    BY DEF TypeOK, FlightInv
  <1>3. MutexInv'
    BY DEF TypeOK, MutexInv
  <1>4. NoOverwrite'
    BY DEF TypeOK, NoOverwrite
  <1>5. NoLeak'
    BY DEF TypeOK, NoLeak, InHand
  <1>6. PoolServesOpen'
    BY DEF TypeOK, PoolServesOpen, Open
  <1>7. RightCluster'
    BY DEF TypeOK, RightCluster
  <1>8. HandInv'
    BY DEF TypeOK, HandInv, Open
  <1> QED BY <1>1, <1>2, <1>3, <1>4, <1>5, <1>6, <1>7, <1>8

\* CloseAll closes exactly what it removes from the map.
LEMMA CloseAllIInv == ASSUME IInv, CloseAll PROVE IInv'
  <1> USE NoneAssumption DEF IInv, CloseAll, Steps, Leading, Locked
  <1>1. TypeOK'
    BY DEF TypeOK
  <1>2. FlightInv'
    BY DEF TypeOK, FlightInv
  <1>3. MutexInv'
    BY DEF TypeOK, MutexInv
  <1>4. NoOverwrite'
    BY DEF TypeOK, NoOverwrite, FlightInv
  <1>5. NoLeak'
    BY DEF TypeOK, NoLeak, InHand
  <1>6. PoolServesOpen'
    BY DEF TypeOK, PoolServesOpen, Open
  <1>7. RightCluster'
    BY DEF TypeOK, RightCluster
  <1>8. HandInv'
    BY DEF TypeOK, HandInv, Open, PoolServesOpen
  <1> QED BY <1>1, <1>2, <1>3, <1>4, <1>5, <1>6, <1>7, <1>8

-------------------------------------------------------------------------------
\* IInv is an invariant of the pool.
THEOREM Invariance == Spec => []IInv
  <1>1. ASSUME IInv, [Next]_vars PROVE IInv'
    <2>1. CASE UNCHANGED vars
      BY <1>1, <2>1 DEF vars, IInv, TypeOK, FlightInv, MutexInv, NoOverwrite, NoLeak,
         InHand, PoolServesOpen, Open, RightCluster, HandInv
    <2>2. ASSUME NEW c \in Callers, NEW u \in URLs, Call(c, u) PROVE IInv'
      BY <1>1, <2>2, CallIInv
    <2>3. ASSUME NEW c \in Callers, Lock(c) \/ Dial(c) \/ DialFails(c) PROVE IInv'
      BY <1>1, <2>3, LockIInv, DialIInv, DialFailsIInv
    <2>4. ASSUME NEW c \in Callers, Work(c) PROVE IInv'
      BY <1>1, <2>4, FastHitIInv, FastMissIInv, LeadIInv, JoinIInv, CheckHitIInv,
         CheckMissIInv, StoreIInv, LandIInv DEF Work
    <2>5. ASSUME NEW n \in Conns, Close(n) \/ Fail(n) \/ Recover(n) PROVE IInv'
      BY <1>1, <2>5, CloseIInv, FailIInv, RecoverIInv
    <2>6. CASE CloseAll
      BY <1>1, <2>6, CloseAllIInv
    <2> QED BY <1>1, <2>1, <2>2, <2>3, <2>4, <2>5, <2>6 DEF Next, Serve
  <1> QED BY InitIInv, <1>1, PTL DEF Spec

\* Type correctness of the pool.
THEOREM TypeCorrect == Spec => []TypeOK
  <1>1. IInv => TypeOK
    BY DEF IInv
  <1> QED BY Invariance, <1>1, PTL

\* A dialled connection is always in the pool, in its leader's hand, closed or
\* about to be closed: connpool.go never loses one.
THEOREM NothingLeaks == Spec => []NoLeak
  <1>1. IInv => NoLeak
    BY DEF IInv
  <1> QED BY Invariance, <1>1, PTL

\* At no time are two connections to one URL open, however many goroutines ask
\* for it: the claim of ConnPool's comment that they "share a single gRPC
\* connection".
THEOREM OneConnectionPerURL == Spec => []SingleConnection
  <1>1. ASSUME IInv PROVE SingleConnection
    <2> SUFFICES ASSUME NEW m \in Open, NEW n \in Open, target[m] = target[n]
                 PROVE  m = n
      BY DEF SingleConnection
    <2> USE <1>1, NoneAssumption DEF IInv, TypeOK, Open
    <2>1. ASSUME NEW k \in Open
          PROVE  \/ conns[target[k]] = k /\ target[k] \in URLs
                 \/ \E c \in Callers : pc[c] \in {"store", "storeLocked"} /\ res[c] = k
      BY DEF NoLeak, InHand
    <2>2. ASSUME NEW c \in Callers, pc[c] \in {"store", "storeLocked"}
          PROVE  /\ target[res[c]] = url[c] /\ url[c] \in URLs
                 /\ flight[url[c]] = c /\ conns[url[c]] = None
      BY <2>2 DEF HandInv, RightCluster, FlightInv, NoOverwrite, Leading
    <2> QED BY <2>1, <2>2
  <1> QED BY Invariance, <1>1, PTL
-------------------------------------------------------------------------------
(* The refinement                                                          *)

\* The empty pool is the abstract service that has shared nothing.
LEMMA InitRefines == Init => Shared!Init
  BY NoneAssumption DEF Init, Shared!Init, InHand

\* The steps of a caller that the abstract service does not see.
LEMMA HiddenSteps ==
    ASSUME IInv, NEW c \in Callers,
           Lock(c) \/ Lead(c) \/ Join(c) \/ CheckHit(c) \/ Dial(c) \/ DialFails(c)
    PROVE  UNCHANGED Shared!vars
  <1> USE NoneAssumption DEF IInv, TypeOK, Goto
  <1>1. CASE Lock(c)
    <2>1. \A n \in Conns : InHand(n)' = InHand(n)
      BY <1>1 DEF Lock, Locking, Held, InHand
    <2> QED BY <1>1, <2>1 DEF Lock, Locking, Held, Shared!vars
  <1>2. CASE Lead(c) \/ Join(c) \/ DialFails(c)
    <2>1. \A n \in Conns : InHand(n)' = InHand(n)
      BY <1>2 DEF Lead, Join, DialFails, InHand
    <2> QED BY <1>2, <2>1 DEF Lead, Join, DialFails, Shared!vars
  <1>3. CASE CheckHit(c)
    <2>1. \A n \in Conns : InHand(n)' = InHand(n)
      BY <1>3 DEF CheckHit, InHand
    <2> QED BY <1>3, <2>1 DEF CheckHit, Shared!vars
  <1>4. CASE Dial(c)
    <2> PICK k \in Conns : /\ state[k] = "unborn"
                           /\ state' = [state EXCEPT ![k] = "up"]
                           /\ target' = [target EXCEPT ![k] = url[c]]
                           /\ res' = [res EXCEPT ![c] = k]
      BY <1>4 DEF Dial
    <2>1. /\ \A n \in Conns : n # k => InHand(n)' = InHand(n)
          /\ InHand(k)' # {}
          /\ target[k] = None
      BY <1>4 DEF Dial, InHand, HandInv
    <2>2. \A u \in URLs : {n \in Conns : target[n] = u /\ InHand(n) = {}}'
                        = {n \in Conns : target[n] = u /\ InHand(n) = {}}
      BY <2>1
    <2>3. k \notin closing
      BY DEF HandInv
    <2>4. {n \in Conns : n \in closing \/ state[n] = "shutdown"}'
            = {n \in Conns : n \in closing \/ state[n] = "shutdown"}
      BY <1>4 DEF Dial
    <2> QED BY <1>4, <2>2, <2>4 DEF Dial, Shared!vars
  <1> QED BY <1>1, <1>2, <1>3, <1>4

\* The abstract variables that are not variables of the pool.
Once    == [u \in URLs |-> {n \in Conns : target[n] = u /\ InHand(n) = {}}]
Retired == {n \in Conns : n \in closing \/ state[n] = "shutdown"}
Answers == [c \in Callers |-> IF pc[c] = "idle" THEN res[c] ELSE None]

\* A function changed at one point.
LEMMA PointChange ==
    ASSUME NEW S, NEW f, NEW g, NEW u \in S, NEW x,
           f = [v \in S |-> f[v]], g = [v \in S |-> g[v]],
           \A v \in S : g[v] = IF v = u THEN x ELSE f[v]
    PROVE  g = [f EXCEPT ![u] = x]
  OBVIOUS

\* The abstract actions are abstract steps.  (Below, the URL, the connection and
\* the callers of a step get constant names, so that this can be applied.)
LEMMA AbstractSteps ==
    /\ \A u \in URLs, n \in Conns : Shared!Share(u, n) => Shared!Next
    /\ \A us \in SUBSET URLs : Shared!Retire(us) => Shared!Next
    /\ \A cs \in SUBSET Callers, a \in Conns \union {None} : Shared!Answer(cs, a) => Shared!Next
  BY DEF Shared!Next

\* An eviction retires the entry of one URL.
LEMMA EvictRefines ==
    ASSUME IInv, NEW c \in Callers, FastMiss(c) \/ CheckMiss(c)
    PROVE  Shared!Next \/ UNCHANGED Shared!vars
  <1> USE NoneAssumption DEF IInv, TypeOK, Goto
  <1>1. PICK u \in URLs : u = url[c]
    BY DEF FastMiss, CheckMiss, FlightInv
  <1>2. Once' = Once /\ Answers' = Answers /\ url' = url
    <2>1. \A n \in Conns : InHand(n)' = InHand(n)
      BY DEF FastMiss, CheckMiss, InHand
    <2> QED BY <2>1 DEF FastMiss, CheckMiss, Once, Answers
  <1>3. CASE conns[u] = None
    <2>1. Retired' = Retired /\ conns' = conns
      BY <1>1, <1>3 DEF FastMiss, CheckMiss, Evict, Retired
    <2> QED BY <1>2, <2>1 DEF Shared!vars, Once, Retired, Answers
  <1>4. CASE conns[u] # None
    <2>1. conns' = [v \in URLs |-> IF v \in {u} THEN None ELSE conns[v]]
      BY <1>1, <1>4 DEF FastMiss, CheckMiss, Evict
    <2>2. Retired' = Retired \union {conns[v] : v \in {u}}
      BY <1>1, <1>4 DEF FastMiss, CheckMiss, Evict, Retired
    <2>3. Shared!Retire({u})
      BY <1>2, <1>4, <2>1, <2>2 DEF Shared!Retire, Once, Retired, Answers
    <2> QED BY <1>1, <2>3, AbstractSteps
  <1> QED BY <1>3, <1>4

\* A store shares a connection that was never shared before.
LEMMA StoreRefines ==
    ASSUME IInv, NEW c \in Callers, Store(c)
    PROVE  Shared!Next
  <1> USE NoneAssumption DEF IInv, TypeOK, Goto
  <1>1. PICK u \in URLs, n \in Conns :
        /\ u = url[c] /\ n = res[c] /\ target[n] = u /\ conns[u] = None
        /\ n \notin closing /\ state[n] # "shutdown" /\ c \in InHand(n)
    BY DEF Store, FlightInv, HandInv, Open, RightCluster, NoOverwrite, InHand
  <1>2. /\ \A m \in Conns : m # n => InHand(m)' = InHand(m)
        /\ InHand(n)' = {}
    <2>1. ASSUME NEW d \in InHand(n) PROVE d = c
      BY <1>1, <2>1 DEF InHand, RightCluster, FlightInv, Leading, Store
    <2> QED BY <1>1, <2>1 DEF Store, InHand
  <1>3. Once' = [Once EXCEPT ![u] = @ \union {n}]
    <2>1. ASSUME NEW v \in URLs
          PROVE  Once'[v] = IF v = u THEN Once[v] \union {n} ELSE Once[v]
      BY <1>1, <1>2 DEF Store, Once
    <2>2. /\ Once = [v \in URLs |-> Once[v]]
          /\ Once' = [v \in URLs |-> Once'[v]]
      BY DEF Once
    <2> HIDE DEF Once
    <2> QED BY <1>1, <2>1, <2>2, PointChange
  <1>4. \A v \in URLs : n \notin Once[v]
    BY <1>1 DEF Once
  <1>5. Retired' = Retired /\ Answers' = Answers /\ url' = url /\ n \notin Retired
    BY <1>1 DEF Store, Retired, Answers
  <1>6. conns' = [conns EXCEPT ![u] = n]
    BY <1>1 DEF Store
  <1>7. Shared!Share(u, n)
    BY <1>1, <1>3, <1>4, <1>5, <1>6 DEF Shared!Share, Once, Retired, Answers
  <1> QED BY <1>1, <1>7, AbstractSteps

\* A hit on the fast path answers one caller, the end of a flight all those
\* that waited for it.
LEMMA AnswerRefines ==
    ASSUME IInv, NEW c \in Callers, FastHit(c) \/ Land(c)
    PROVE  Shared!Next
  <1> USE NoneAssumption DEF IInv, TypeOK, Goto
  <1>1. Once' = Once /\ Retired' = Retired /\ conns' = conns
    <2>1. \A n \in Conns : InHand(n)' = InHand(n)
      BY DEF FastHit, Land, Landing, InHand
    <2> QED BY <2>1 DEF FastHit, Land, Once, Retired
  <1>2. CASE FastHit(c)
    <2>1. PICK n \in Conns : n = conns[url[c]] /\ n \in Once[url[c]] /\ url[c] \in URLs
      BY <1>2 DEF FastHit, FlightInv, PoolServesOpen, HandInv, InHand, Once
    <2>2. url' = [d \in Callers |-> IF d \in {c} THEN None ELSE url[d]]
      BY <1>2 DEF FastHit
    <2>3. Answers' = [d \in Callers |-> IF d \in {c} THEN n ELSE Answers[d]]
      BY <1>2, <2>1 DEF FastHit, Answers
    <2>4. Shared!Answer({c}, n)
      BY <1>1, <2>1, <2>2, <2>3 DEF Shared!Answer, Once, Retired, Answers
    <2>5. {c} \in SUBSET Callers /\ n \in Conns \union {None}
      OBVIOUS
    <2> QED BY <2>4, <2>5, AbstractSteps
  <1>3. CASE Land(c)
    <2>1. \A w \in Landing(c) : w \in Callers /\ url[w] = url[c] /\ url[w] \in URLs
      BY <1>3 DEF Land, Landing, FlightInv
    <2>2. ASSUME res[c] # None PROVE res[c] \in Once[url[c]]
      <3>1. ASSUME NEW d \in InHand(res[c]) PROVE FALSE
        BY <1>3, <2>2, <3>1 DEF Land, InHand, RightCluster, FlightInv, Leading
      <3>2. url[c] \in URLs /\ res[c] \in Conns /\ target[res[c]] = url[c]
        BY <1>3, <2>2 DEF Land, RightCluster, FlightInv
      <3> QED BY <3>1, <3>2 DEF Once
    <2>3. url' = [d \in Callers |-> IF d \in Landing(c) THEN None ELSE url[d]]
      BY <1>3 DEF Land
    <2>4. Answers' = [d \in Callers |-> IF d \in Landing(c) THEN res[c] ELSE Answers[d]]
      BY <1>3 DEF Land, Answers, Landing
    <2>5. PICK cs \in SUBSET Callers, a \in Conns \union {None} :
          cs = Landing(c) /\ a = res[c]
      BY DEF Landing
    <2>6. Shared!Answer(cs, a)
      BY <1>1, <2>1, <2>2, <2>3, <2>4, <2>5 DEF Shared!Answer, Once, Retired, Answers
    <2> QED BY <2>6, AbstractSteps
  <1> QED BY <1>2, <1>3

\* Connectivity changes and the closing goroutines are hidden; CloseAll retires
\* every entry at once.
LEMMA BackgroundRefines ==
    ASSUME IInv, (\E n \in Conns : Close(n) \/ Fail(n) \/ Recover(n)) \/ CloseAll
    PROVE  Shared!Next \/ UNCHANGED Shared!vars
  <1> USE NoneAssumption DEF IInv, TypeOK
  <1>1. Once' = Once /\ Answers' = Answers /\ url' = url
    <2>1. \A n \in Conns : InHand(n)' = InHand(n)
      BY DEF Close, Fail, Recover, CloseAll, InHand
    <2> QED BY <2>1 DEF Close, Fail, Recover, CloseAll, Once, Answers
  <1>2. ASSUME NEW n \in Conns, Close(n) \/ Fail(n) \/ Recover(n)
        PROVE  UNCHANGED Shared!vars
    <2>1. Retired' = Retired /\ conns' = conns
      BY <1>2 DEF Close, Fail, Recover, Retired
    <2> QED BY <1>1, <2>1 DEF Shared!vars, Once, Retired, Answers
  <1>3. CASE CloseAll
    <2>1. PICK us \in SUBSET URLs : us = {u \in URLs : conns[u] # None}
      OBVIOUS
    <2>2. us # {} /\ conns' = [v \in URLs |-> IF v \in us THEN None ELSE conns[v]]
      BY <1>3, <2>1 DEF CloseAll
    <2>3. Retired' = Retired \union {conns[v] : v \in us}
      BY <1>3, <2>1 DEF CloseAll, Retired
    <2>4. Shared!Retire(us)
      BY <1>1, <2>1, <2>2, <2>3 DEF Shared!Retire, Once, Retired, Answers
    <2> QED BY <2>4, AbstractSteps
  <1> QED BY <1>2, <1>3

\* A new call is a new request.
LEMMA CallRefines ==
    ASSUME IInv, NEW c \in Callers, NEW u \in URLs, Call(c, u)
    PROVE  Shared!Next
  <1> USE NoneAssumption DEF IInv, TypeOK, Goto
  <1>1. Once' = Once /\ Retired' = Retired /\ conns' = conns
    <2>1. \A n \in Conns : InHand(n)' = InHand(n)
      BY DEF Call, InHand
    <2> QED BY <2>1 DEF Call, Once, Retired
  <1>2. Answers' = [Answers EXCEPT ![c] = None]
    BY DEF Call, Answers
  <1>3. url[c] = None /\ url' = [url EXCEPT ![c] = u]
    BY DEF Call, FlightInv
  <1>4. Shared!Ask(c, u)
    BY <1>1, <1>2, <1>3 DEF Shared!Ask, Once, Retired, Answers
  <1> QED BY <1>4 DEF Shared!Next

\* The pool implements SharedConn: whatever the interleaving, a URL is served
\* with one connection at a time, a connection is never put back after it left,
\* and a call returns a connection that was shared under its own URL, or an error.
THEOREM Refinement == Spec => Implements
  <1>1. ASSUME IInv, [Next]_vars PROVE [Shared!Next]_(Shared!vars)
    <2>1. CASE UNCHANGED vars
      <3>1. \A n \in Conns : InHand(n)' = InHand(n)
        BY <2>1 DEF vars, InHand
      <3>2. Once' = Once /\ Retired' = Retired /\ Answers' = Answers
        BY <2>1, <3>1 DEF vars, Once, Retired, Answers
      <3> QED BY <2>1, <3>2 DEF vars, Shared!vars, Once, Retired, Answers
    <2>2. ASSUME NEW c \in Callers, NEW u \in URLs, Call(c, u) PROVE Shared!Next
      BY <1>1, <2>2, CallRefines
    <2>3. ASSUME NEW c \in Callers, Lock(c) \/ Dial(c) \/ DialFails(c)
          PROVE  UNCHANGED Shared!vars
      BY <1>1, <2>3, HiddenSteps
    <2>4. ASSUME NEW c \in Callers, Work(c) PROVE Shared!Next \/ UNCHANGED Shared!vars
      BY <1>1, <2>4, HiddenSteps, EvictRefines, StoreRefines, AnswerRefines DEF Work
    <2>5. CASE (\E n \in Conns : Close(n) \/ Fail(n) \/ Recover(n)) \/ CloseAll
      BY <1>1, <2>5, BackgroundRefines
    <2> QED BY <1>1, <2>1, <2>2, <2>3, <2>4, <2>5 DEF Next, Serve
  <1> QED BY <1>1, InitRefines, Invariance, PTL DEF Spec, Implements, Shared!Spec
===============================================================================
