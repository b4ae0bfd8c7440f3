---------------------------- MODULE CallPathProofs ----------------------------
(***************************************************************************)
(* CallPath's invariants for every number of processes, connections, calls *)
(* and slots.  The places of the calls, the counts of the semaphores and   *)
(* the owners of the mutexes are proved together; the tokens rest on the   *)
(* types, and what a success is reported as on all of them.                *)
(***************************************************************************)
EXTENDS CallPath, FiniteSetTheorems, TLAPS

LEMMA Homed == IInv => \A c \in Calls : home[c] \in Connections /\ Process(c) \in Processes
BY TokenCacheAssumption DEF IInv, TypeOK, Process

LEMMA Keyed == \A p \in Processes : KeyOf[p] \in Keys
BY TokenCacheAssumption DEF Keys

\* The token of a call, whichever way it came by it, is typed.
LEMMA TypesToken ==
  ASSUME IInv, NEW c \in Calls, GetToken(c)
  PROVE  IInv'
<1> DEFINE p == Process(c)
<1>1. p \in Processes /\ KeyOf[p] \in Keys
  BY Homed, Keyed
<1>2. Empty \in Cache
  BY DEF Empty, Cache
<1>3. file \in Cache => RemoveExpired(file) \in Cache
  BY DEF RemoveExpired, Cache
<1>4. ReadCache \in Cache
  BY <1>2, <1>3 DEF ReadCache, IInv, TypeOK
<1>5. Issued(p) \in Entry
  BY <1>1, TokenCacheAssumption DEF Issued, Entry, IInv, TypeOK
<1> USE <1>1, <1>2, <1>4, <1>5
    DEF IInv, TypeOK, Phases, Before, After, Locations, Waiting, Inside, callVars, Goto, Leave
<1>6. CASE Lock(c)
  BY <1>6 DEF Lock, GetToken
<1>7. CASE Lookup(c)
  <2>1. Hit(c) \in Entry \cup {None}
    BY DEF Hit, Cache
  <2>2. CASE Valid(Hit(c), MinTTL)
    <3>1. token' \in [Calls -> Entry \cup {None}] /\ Leave(c, "sending")
      BY <1>7, <2>1, <2>2 DEF Lookup
    <3> QED
      BY <1>7, <3>1, CallPathAssumption DEF Lookup, GetToken
  <2>3. CASE ~Valid(Hit(c), MinTTL)
    <3>1. cf' = [cf EXCEPT ![c] = ReadCache] /\ Goto(c, "fetching") /\ UNCHANGED <<token, mu>>
      BY <1>7, <2>3 DEF Lookup
    <3> QED
      BY <1>7, <3>1 DEF Lookup, GetToken
  <2> QED
    BY <2>2, <2>3
<1>8. CASE Fetch(c)
  <2> DEFINE t == IF Valid(inner[p], ExpiryDelta) THEN inner[p] ELSE Issued(p)
  <2>1. t \in Entry
    BY DEF Valid
  <2> HIDE DEF t
  <2>2. cf' = [cf EXCEPT ![c][KeyOf[p]] = t] /\ cf' \in [Calls -> Cache]
    BY <1>8, <2>1 DEF Fetch, t, Cache
  <2>3. inner' \in [Processes -> Entry \cup {None}] /\ token' \in [Calls -> Entry \cup {None}]
    BY <1>8, <2>1 DEF Fetch, t
  <2> QED
    BY <1>8, <2>2, <2>3 DEF Fetch, GetToken
<1>9. CASE FetchFails(c)
  BY <1>9 DEF FetchFails, GetToken
<1>10. CASE Truncate(c)
  BY <1>10 DEF Truncate, GetToken
<1>11. CASE Write(c)
  <2>1. file' \in Cache \cup {Torn}
    BY <1>11 DEF Write
  <2> QED
    BY <1>11, <2>1, CallPathAssumption DEF Write, GetToken
<1>12. CASE WriteFails(c)
  BY <1>12, CallPathAssumption DEF WriteFails, GetToken
<1> QED
  BY <1>6, <1>7, <1>8, <1>9, <1>10, <1>11, <1>12 DEF GetToken, Token

LEMMA LimiterType == \A l \in Nat : Limiter(l) \in [rate : Nat, burst : Nat]
BY DEF Limiter, Rate, Burst

LEMMA LimitsNat == \A h \in Header : h.limit \in Nat /\ h.exhausted \in BOOLEAN
BY CallPathAssumption DEF Header

\* A request that is sent, and what comes of it.
LEMMA TypesSend ==
  ASSUME IInv, NEW c \in Calls, Answer(c) \/ Fails(c) \/ Refused(c)
  PROVE  IInv'
<1> USE CallPathAssumption
    DEF IInv, TypeOK, Phases, Before, After, Locations, Waiting, Inside, Goto, Send, Stay
<1>1. CASE Answer(c)
  <2> PICK h \in Header \cup {None} : /\ header' = [header EXCEPT ![c] = h]
                                     /\ Goto(c, IF h = None THEN "limited" ELSE "setting")
    BY <1>1 DEF Answer
  <2> QED
    BY <1>1 DEF Answer
<1>2. CASE Fails(c)
  BY <1>2 DEF Fails, Retry
<1>3. CASE Refused(c)
  BY <1>3 DEF Refused
<1> QED
  BY <1>1, <1>2, <1>3

\* The limiter after the answer.
LEMMA TypesLimit ==
  ASSUME IInv, NEW c \in Calls,
         SetLimit(c) \/ SetBurst(c) \/ Pause(c) \/ PauseEnds(c) \/ Limited(c)
  PROVE  IInv'
<1>1. Process(c) \in Processes
  BY Homed
<1> USE <1>1, LimitsNat
    DEF IInv, TypeOK, Phases, Before, After, Locations, Waiting, Inside, Goto, Keep, Results
<1>0. ASSUME NEW l \in {"bursting", "pausing", "limited"}, Goto(c, l), Keep,
             pc[c] \in {"setting", "bursting"},
             limiter' \in [Processes -> [rate : Nat, burst : Nat]]
      PROVE  IInv'
  <2>1. TypeOK'
    BY <1>0
  <2>2. header[c] # None
    BY <1>0
  <2>3. Phases'
    BY <1>0, <2>2
  <2> QED
    BY <2>1, <2>3
<1>2. CASE SetLimit(c)
  <2>1. header[c] \in Header /\ Rate(header[c].limit) \in Nat
    BY <1>2 DEF SetLimit, Rate
  <2>2. limiter' \in [Processes -> [rate : Nat, burst : Nat]]
    BY <1>2, <2>1 DEF SetLimit
  <2>3. PICK l \in {"bursting", "pausing", "limited"} : Goto(c, l)
    BY <1>2 DEF SetLimit, Stored
  <2> QED
    BY <1>0, <1>2, <2>2, <2>3 DEF SetLimit
<1>3. CASE SetBurst(c)
  <2>1. header[c] \in Header /\ Burst(header[c].limit) \in Nat
    BY <1>3 DEF SetBurst, Burst
  <2>2. limiter' \in [Processes -> [rate : Nat, burst : Nat]]
    BY <1>3, <2>1 DEF SetBurst
  <2>3. PICK l \in {"bursting", "pausing", "limited"} : Goto(c, l)
    BY <1>3 DEF SetBurst, Stored
  <2> QED
    BY <1>0, <1>3, <2>2, <2>3 DEF SetBurst
<1>4. CASE Pause(c)
  BY <1>4 DEF Pause
<1>5. CASE PauseEnds(c)
  BY <1>5 DEF PauseEnds, Return
<1>6. CASE Limited(c)
  <2> PICK r \in {"ok", "error"} : pc[c] = "limited" /\ Return(c, r)
    BY <1>6 DEF Limited
  <2> QED
    BY DEF Return
<1> QED
  BY <1>2, <1>3, <1>4, <1>5, <1>6

\* A process that dies.
LEMMA TypesCrash ==
  ASSUME IInv, NEW p \in Processes, Crash(p)
  PROVE  IInv'
<1>1. Empty \in Cache
  BY DEF Empty, Cache
<1>2. Limiter(InitialLimit) \in [rate : Nat, burst : Nat]
  BY LimiterType DEF InitialLimit
<1>3. 0 \in 0 .. MaxConcurrent /\ 0 \in 0 .. MaxAttempts
  BY CallPathAssumption
<1>4. crashes' \in 0 .. MaxCrashes
  BY CallPathAssumption DEF Crash, IInv, TypeOK
<1>5. limiter' \in [Processes -> [rate : Nat, burst : Nat]]
  BY <1>2 DEF Crash, IInv, TypeOK
<1>6. TypeOK'
  BY <1>1, <1>3, <1>4, <1>5 DEF Crash, IInv, TypeOK, Locations, Waiting
<1>7. Phases'
  BY DEF Crash, IInv, TypeOK, Phases, Before, After, Inside
<1> QED
  BY <1>6, <1>7 DEF IInv

LEMMA TypesStep == IInv /\ SlotsCounted /\ [Next]_vars => IInv'
<1> SUFFICES ASSUME IInv, SlotsCounted, [Next]_vars PROVE IInv'
  OBVIOUS
<1> USE CallPathAssumption
    DEF IInv, TypeOK, Phases, Before, After, Locations, Waiting, Inside, Goto, Results
<1>1. ASSUME NEW c \in Calls, Acquire(c) PROVE IInv'
  BY <1>1, Homed DEF Acquire
<1>2. ASSUME NEW c \in Calls, GiveUp(c) PROVE IInv'
  BY <1>2 DEF GiveUp
<1>3. ASSUME NEW c \in Calls, Release(c) PROVE IInv'
  <2>1. c \in InFlight(home[c]) /\ IsFiniteSet(InFlight(home[c]))
    BY <1>3, FS_Subset DEF InFlight, Release, Returned
  <2>2. Cardinality(InFlight(home[c])) # 0
    BY <2>1, FS_EmptySet
  <2>3. sem[home[c]] \in 1 .. MaxConcurrent
    BY <2>1, <2>2, Homed, FS_CardinalityType DEF SlotsCounted
  <2>4. sem' \in [Connections -> 0 .. MaxConcurrent]
    BY <1>3, <2>3, Homed DEF Release
  <2> QED
    BY <1>3, <2>4 DEF Release, Returned
<1>4. ASSUME NEW c \in Calls, End(c) PROVE IInv'
  BY <1>4 DEF End, tokenVars
<1>5. CASE Clock
  BY <1>5, TokenCacheAssumption DEF Clock, Tick, callVars
<1>6. CASE UNCHANGED vars
  BY <1>6 DEF vars, tokenVars, callVars
<1> QED
  BY <1>1, <1>2, <1>3, <1>4, <1>5, <1>6, TypesToken, TypesSend, TypesLimit, TypesCrash
  DEF Next, Step

-----------------------------------------------------------------------------
\* The slots.

\* A step that leaves a call on its side of the semaphore changes no count.
LEMMA SlotsKept ==
  ASSUME UNCHANGED <<home, sem>>,
         \A c \in Calls : pc[c] \in Waiting <=> pc'[c] \in Waiting,
         SlotsCounted
  PROVE  SlotsCounted'
<1>1. \A k \in Connections : InFlight(k)' = InFlight(k)
  BY DEF InFlight
<1> QED
  BY <1>1 DEF SlotsCounted

LEMMA FlightFinite == \A k \in Connections : IsFiniteSet(InFlight(k))
<1> TAKE k \in Connections
<1> QED
  BY CallPathAssumption, FS_Subset DEF InFlight

LEMMA SlotsStep == IInv /\ SlotsCounted /\ [Next]_vars => SlotsCounted'
<1> SUFFICES ASSUME IInv, SlotsCounted, [Next]_vars PROVE SlotsCounted'
  OBVIOUS
<1> USE DEF Waiting
<1>1. pc \in [Calls -> Locations] /\ sem \in [Connections -> 0 .. MaxConcurrent]
  BY DEF IInv, TypeOK
<1>2. ASSUME NEW c \in Calls, Acquire(c) PROVE SlotsCounted'
  <2> PICK k \in Connections : k = home[c]
    BY Homed
  <2>1. c \notin InFlight(k)
    BY <1>2 DEF Acquire, InFlight
  <2>2. InFlight(k)' = InFlight(k) \cup {c}
    BY <1>1, <1>2 DEF Acquire, Goto, InFlight
  <2>3. Cardinality(InFlight(k)') = Cardinality(InFlight(k)) + 1
    BY <2>1, <2>2, FlightFinite, FS_AddElement
  <2>4. sem'[k] = sem[k] + 1 /\ sem'[k] <= MaxConcurrent
    BY <1>1, <1>2, <2>1, CallPathAssumption DEF Acquire
  <2>5. \A j \in Connections \ {k} : InFlight(j)' = InFlight(j) /\ sem'[j] = sem[j]
    BY <1>1, <1>2 DEF Acquire, Goto, InFlight
  <2> QED
    BY <2>3, <2>4, <2>5 DEF SlotsCounted
<1>3. ASSUME NEW c \in Calls, Release(c) PROVE SlotsCounted'
  <2> PICK k \in Connections : k = home[c]
    BY Homed
  <2>1. c \in InFlight(k)
    BY <1>3 DEF Release, Returned, InFlight
  <2>2. InFlight(k)' = InFlight(k) \ {c}
    BY <1>1, <1>3 DEF Release, Returned, Goto, InFlight
  <2>3. Cardinality(InFlight(k)') = Cardinality(InFlight(k)) - 1
    BY <2>1, <2>2, FlightFinite, FS_RemoveElement
  <2>4. sem'[k] = sem[k] - 1
    BY <1>1, <1>3, <2>1 DEF Release
  <2>5. \A j \in Connections \ {k} : InFlight(j)' = InFlight(j) /\ sem'[j] = sem[j]
    BY <1>1, <1>3 DEF Release, Returned, Goto, InFlight
  <2>6. sem[k] \in 0 .. MaxConcurrent /\ sem[k] = Cardinality(InFlight(k))
    BY <1>1, <2>1 DEF SlotsCounted
  <2>7. sem'[k] = Cardinality(InFlight(k)') /\ sem'[k] <= MaxConcurrent
    BY <2>3, <2>4, <2>6, CallPathAssumption
  <2> QED
    BY <2>5, <2>7 DEF SlotsCounted
<1>4. ASSUME NEW p \in Processes, Crash(p) PROVE SlotsCounted'
  <2> SUFFICES ASSUME NEW k \in Connections
               PROVE  sem'[k] = Cardinality(InFlight(k)') /\ sem'[k] <= MaxConcurrent
    BY DEF SlotsCounted
  <2>1. CASE ProcessOf[k] = p
    <3>1. InFlight(k)' = {}
      BY <1>4, <2>1 DEF Crash, InFlight, Process
    <3>2. sem'[k] = 0
      BY <1>4, <2>1 DEF Crash
    <3> QED
      BY <3>1, <3>2, FS_EmptySet, CallPathAssumption
  <2>2. CASE ProcessOf[k] # p
    <3>1. InFlight(k)' = InFlight(k)
      BY <1>4, <2>2 DEF Crash, InFlight, Process
    <3>2. sem'[k] = sem[k]
      BY <1>4, <2>2 DEF Crash
    <3> QED
      BY <3>1, <3>2 DEF SlotsCounted
  <2> QED
    BY <2>1, <2>2
<1>5. ASSUME NEW c \in Calls, GetToken(c) PROVE SlotsCounted'
  BY <1>1, <1>5, SlotsKept
  DEF GetToken, Token, Lock, Lookup, Fetch, FetchFails, Truncate, Write, WriteFails, Goto, Leave, callVars
<1>6. ASSUME NEW c \in Calls, Answer(c) \/ Fails(c) \/ Refused(c) PROVE SlotsCounted'
  BY <1>1, <1>6, SlotsKept DEF Answer, Fails, Refused, Retry, Send, Stay, Goto
<1>7. ASSUME NEW c \in Calls, SetLimit(c) \/ SetBurst(c) PROVE SlotsCounted'
  BY <1>1, <1>7, SlotsKept DEF SetLimit, SetBurst, Stored, Keep, Goto
<1>8. ASSUME NEW c \in Calls, Pause(c) \/ PauseEnds(c) \/ Limited(c) PROVE SlotsCounted'
  BY <1>1, <1>8, SlotsKept DEF Pause, PauseEnds, Limited, Return, Keep, Goto
<1>9. ASSUME NEW c \in Calls, GiveUp(c) \/ End(c) PROVE SlotsCounted'
  BY <1>1, <1>9, SlotsKept DEF GiveUp, End, tokenVars, Goto
<1>10. CASE Clock \/ UNCHANGED vars
  BY <1>10, SlotsKept DEF Clock, Tick, callVars, vars, tokenVars
<1> QED
  BY <1>2, <1>3, <1>4, <1>5, <1>6, <1>7, <1>8, <1>9, <1>10 DEF Next, Step

-----------------------------------------------------------------------------
\* The mutex.

\* A step outside Token changes no owner.
LEMMA MutexKept ==
  ASSUME UNCHANGED <<home, mu>>,
         \A c \in Calls : pc[c] \in Inside <=> pc'[c] \in Inside,
         MutexHeld
  PROVE  MutexHeld'
BY DEF MutexHeld, Process

LEMMA MutexStep == IInv /\ MutexHeld /\ [Next]_vars => MutexHeld'
<1> SUFFICES ASSUME IInv, MutexHeld, [Next]_vars PROVE MutexHeld'
  OBVIOUS
<1>1. pc \in [Calls -> Locations] /\ mu \in [Processes -> Calls \cup {None}]
  BY DEF IInv, TypeOK
<1>2. \A c \in Calls : Process(c) \in Processes
  BY Homed
<1> USE <1>1, <1>2, TokenCacheAssumption DEF Inside
<1>3. ASSUME NEW c \in Calls, GetToken(c) PROVE MutexHeld'
  <2>0. UNCHANGED home
    BY <1>3 DEF GetToken, Token, Lock, Lookup, Fetch, FetchFails, Truncate, Write, WriteFails
  <2>1. CASE Lock(c)
    BY <2>0, <2>1 DEF Lock, Goto, MutexHeld, Process
  <2>2. CASE \/ /\ pc[c] \in Inside /\ UNCHANGED mu
                /\ \E l \in Inside : Goto(c, l)
             \/ pc[c] \in Inside /\ \E l \in {"sending", "returning"} : Leave(c, l)
    BY <2>0, <2>2 DEF MutexHeld, Leave, Goto, Process
  <2> QED
    BY <1>3, <2>1, <2>2
    DEF GetToken, Token, Lookup, Fetch, FetchFails, Truncate, Write, WriteFails
<1>4. ASSUME NEW p \in Processes, Crash(p) PROVE MutexHeld'
  BY <1>4 DEF Crash, MutexHeld, Process
<1>5. ASSUME NEW c \in Calls, Acquire(c) \/ GiveUp(c) \/ Release(c) \/ End(c) PROVE MutexHeld'
  BY <1>5, MutexKept DEF Acquire, GiveUp, Release, Returned, End, tokenVars, Goto
<1>6. ASSUME NEW c \in Calls, Answer(c) \/ Fails(c) \/ Refused(c) PROVE MutexHeld'
  BY <1>6, MutexKept DEF Answer, Fails, Refused, Retry, Send, Stay, Goto
<1>7. ASSUME NEW c \in Calls, SetLimit(c) \/ SetBurst(c) PROVE MutexHeld'
  BY <1>7, MutexKept DEF SetLimit, SetBurst, Stored, Keep, Goto
<1>8. ASSUME NEW c \in Calls, Pause(c) \/ PauseEnds(c) \/ Limited(c) PROVE MutexHeld'
  BY <1>8, MutexKept DEF Pause, PauseEnds, Limited, Return, Keep, Goto
<1>9. CASE Clock \/ UNCHANGED vars
  BY <1>9, MutexKept DEF Clock, Tick, callVars, vars, tokenVars
<1> QED
  BY <1>3, <1>4, <1>5, <1>6, <1>7, <1>8, <1>9 DEF Next, Step

-----------------------------------------------------------------------------
\* The tokens.

\* What is somebody's own stays so as time goes by.
LEMMA OwnLater ==
  ASSUME now \in Nat, now' \in Nat, now <= now', NEW t \in Entry \cup {None}, NEW k, Own(t, k)
  PROVE  Own(t, k)'
BY TokenCacheAssumption DEF Own, Entry

\* The cache as a call reads it.
LEMMA OwnRead == IInv /\ OwnTokens => \A k \in Keys : Own(ReadCache[k], k)
BY DEF OwnTokens, ReadCache, RemoveExpired, Empty, Own

LEMMA TokensStep == IInv /\ OwnTokens /\ [Next]_vars => OwnTokens'
<1> SUFFICES ASSUME IInv, OwnTokens, [Next]_vars PROVE OwnTokens'
  OBVIOUS
<1>1. /\ inner \in [Processes -> Entry \cup {None}]
      /\ token \in [Calls -> Entry \cup {None}]
      /\ cf \in [Calls -> Cache]
      /\ file \in Cache \cup {Torn}
      /\ now \in Nat
  BY TokenCacheAssumption DEF IInv, TypeOK
<1>2. \A c \in Calls : Process(c) \in Processes /\ KeyOf[Process(c)] \in Keys
  BY Homed, Keyed
<1>3. \A k : Own(None, k)
  BY DEF Own
<1>4. ASSUME UNCHANGED <<home, now, file, inner>>,
             \A c \in Calls : token'[c] \in {token[c], None},
             \A c \in Calls : cf'[c] \in {cf[c], Empty}
      PROVE  OwnTokens'
  BY <1>3, <1>4 DEF OwnTokens, Own, Empty, Process
<1>5. ASSUME NEW c \in Calls, GetToken(c) PROVE OwnTokens'
  <2>1. CASE Lock(c) \/ FetchFails(c)
    BY <1>1, <1>4, <2>1 DEF Lock, FetchFails, Leave
  <2>2. CASE Lookup(c)
    <3>1. Own(Hit(c), KeyOf[Process(c)])
      BY <1>2, OwnRead DEF Hit
    <3>2. CASE Valid(Hit(c), MinTTL)
      <4>1. /\ UNCHANGED <<home, now, file, inner>>
            /\ token' = [token EXCEPT ![c] = Hit(c)] /\ cf' = [cf EXCEPT ![c] = Empty]
        BY <2>2, <3>2 DEF Lookup, Leave
      <4> QED
        BY <1>1, <1>3, <3>1, <4>1 DEF OwnTokens, Own, Empty, Process
    <3>3. CASE ~Valid(Hit(c), MinTTL)
      <4>1. UNCHANGED <<home, now, file, inner, token>> /\ cf' = [cf EXCEPT ![c] = ReadCache]
        BY <2>2, <3>3 DEF Lookup
      <4> QED
        BY <1>1, OwnRead, <4>1 DEF OwnTokens, Own, Process
    <3> QED
      BY <3>2, <3>3
  <2>3. CASE Fetch(c)
    <3> PICK p, t : /\ p \in Processes /\ p = Process(c)
                    /\ t = IF Valid(inner[p], ExpiryDelta) THEN inner[p] ELSE Issued(p)
      BY <1>2
    <3>1. Own(t, KeyOf[p])
      BY <1>1, TokenCacheAssumption DEF OwnTokens, Own, Issued
    <3>2. /\ UNCHANGED <<home, now, file>>
          /\ inner' = [inner EXCEPT ![p] = t]
          /\ token' = [token EXCEPT ![c] = t]
          /\ cf' = [cf EXCEPT ![c][KeyOf[p]] = t]
      BY <2>3 DEF Fetch
    <3>3. \A q \in Processes : Own(inner'[q], KeyOf[q])
      BY <1>1, <3>1, <3>2 DEF OwnTokens
    <3>4. \A d \in Calls : Own(token'[d], KeyOf[Process(d)])
      BY <1>1, <3>1, <3>2 DEF OwnTokens
    <3>5. \A d \in Calls, k \in Keys : Own(cf'[d][k], k)
      BY <1>1, <3>1, <3>2 DEF OwnTokens, Cache
    <3> QED
      BY <3>2, <3>3, <3>4, <3>5 DEF OwnTokens, Own, Process
  <2>4. CASE Truncate(c)
    BY <2>4 DEF Truncate, OwnTokens, Own, Process
  <2>5. CASE Write(c)
    <3>1. UNCHANGED <<home, now, inner, token>> /\ cf' = [cf EXCEPT ![c] = Empty]
      BY <2>5 DEF Write, Leave
    <3>2. file' # Torn => \A k \in Keys : Own(file'[k], k)
      BY <2>5 DEF Write, OwnTokens
    <3> QED
      BY <1>1, <1>3, <3>1, <3>2 DEF OwnTokens, Own, Empty, Process
  <2>6. CASE WriteFails(c)
    BY <1>1, <1>4, <2>6 DEF WriteFails, Leave
  <2> QED
    BY <1>5, <2>1, <2>2, <2>3, <2>4, <2>5, <2>6 DEF GetToken, Token
<1>6. ASSUME NEW p \in Processes, Crash(p) PROVE OwnTokens'
  <2>1. UNCHANGED <<home, now, file>> /\ inner' = [inner EXCEPT ![p] = None]
    BY <1>6 DEF Crash
  <2>2. \A c \in Calls : token'[c] \in {token[c], None} /\ cf'[c] \in {cf[c], Empty}
    BY <1>6 DEF Crash
  <2> QED
    BY <1>1, <1>3, <2>1, <2>2 DEF OwnTokens, Own, Empty, Process
<1>7. ASSUME NEW c \in Calls, Acquire(c) \/ GiveUp(c) \/ Release(c) \/ End(c) PROVE OwnTokens'
  BY <1>1, <1>4, <1>7 DEF Acquire, GiveUp, Release, Returned, End, tokenVars
<1>8. ASSUME NEW c \in Calls, Answer(c) \/ Fails(c) \/ Refused(c) PROVE OwnTokens'
  BY <1>1, <1>4, <1>8 DEF Answer, Fails, Refused, Send, Stay
<1>9. ASSUME NEW c \in Calls,
             SetLimit(c) \/ SetBurst(c) \/ Pause(c) \/ PauseEnds(c) \/ Limited(c)
      PROVE  OwnTokens'
  BY <1>1, <1>4, <1>9 DEF SetLimit, SetBurst, Pause, PauseEnds, Limited, Return, Keep
<1>10. CASE Clock
  <2>1. now' \in Nat /\ now <= now' /\ UNCHANGED <<home, file, inner, cf, token>>
    BY <1>1, <1>10 DEF Clock, Tick
  <2>2. \A k : \A t \in Entry \cup {None} : Own(t, k) => (t # None => t.key = k /\ t.expiry <= now' + Lifetime)
    BY <1>1, <2>1, OwnLater DEF Own
  <2>3. \A p \in Processes : Own(inner[p], KeyOf[p])'
    BY <1>1, <1>10, <2>2 DEF OwnTokens, Own, Clock, Tick
  <2>4. \A c \in Calls : Own(token[c], KeyOf[Process(c)])'
    BY <1>1, <2>1, <2>2 DEF OwnTokens, Own, Process
  <2>5. ASSUME NEW c \in Calls, NEW k \in Keys PROVE Own(cf[c][k], k)'
    <3>1. cf[c] \in Cache
      BY <1>1
    <3>2. cf[c][k] \in Entry \cup {None} /\ Own(cf[c][k], k)
      BY <3>1 DEF Cache, OwnTokens
    <3> QED
      BY <2>1, <2>2, <3>2 DEF Own
  <2>6. (file # Torn)' => \A k \in Keys : Own(file[k], k)'
    BY <1>1, <2>1, <2>2 DEF OwnTokens, Own, Cache
  <2> QED
    BY <2>3, <2>4, <2>5, <2>6 DEF OwnTokens
<1>11. CASE UNCHANGED vars
  BY <1>1, <1>4, <1>11 DEF vars, tokenVars
<1> QED
  BY <1>5, <1>6, <1>7, <1>8, <1>9, <1>10, <1>11 DEF Next, Step

-----------------------------------------------------------------------------
\* What a success is reported as, where every limit leaves a rate.

LimiterLive == \A p \in Processes : limiter[p].rate > 0 /\ limiter[p].burst > 0

LEMMA LimitLive ==
  ASSUME NEW l \in Nat, l >= 60
  PROVE  Rate(l) \in Nat /\ Burst(l) \in Nat /\ Rate(l) > 0 /\ Burst(l) > 0
BY DEF Rate, Burst

LEMMA LiveStep ==
  ASSUME \A l \in Limits : l >= 60, IInv, LimiterLive, [Next]_vars
  PROVE  LimiterLive'
<1>1. limiter \in [Processes -> [rate : Nat, burst : Nat]]
  BY DEF IInv, TypeOK
<1>2. CASE UNCHANGED limiter
  BY <1>2 DEF LimiterLive
<1>3. ASSUME NEW c \in Calls, SetLimit(c) \/ SetBurst(c) PROVE LimiterLive'
  <2>1. header[c] \in Header
    BY <1>3 DEF SetLimit, SetBurst, IInv, TypeOK, Phases, After
  <2>2. Rate(header[c].limit) > 0 /\ Burst(header[c].limit) > 0
    BY <2>1, LimitLive, LimitsNat DEF Header
  <2>3. \/ UNCHANGED limiter
        \/ limiter' = [limiter EXCEPT ![Process(c)].rate = Rate(header[c].limit)]
        \/ limiter' = [limiter EXCEPT ![Process(c)].burst = Burst(header[c].limit)]
    BY <1>3 DEF SetLimit, SetBurst
  <2> QED
    BY <1>1, <2>2, <2>3 DEF LimiterLive
<1>4. ASSUME NEW p \in Processes, Crash(p) PROVE LimiterLive'
  <2>1. Limiter(InitialLimit).rate > 0 /\ Limiter(InitialLimit).burst > 0
    BY LimitLive DEF Limiter, InitialLimit
  <2> QED
    BY <1>1, <1>4, <2>1 DEF Crash, LimiterLive
<1>5. ASSUME NEW c \in Calls,
             \/ Acquire(c) \/ GiveUp(c) \/ GetToken(c) \/ Answer(c) \/ Fails(c) \/ Refused(c)
             \/ Pause(c) \/ PauseEnds(c) \/ Limited(c) \/ Release(c) \/ End(c)
      PROVE  UNCHANGED limiter
  BY <1>5 DEF Acquire, GiveUp, GetToken, callVars, Answer, Fails, Refused, Send, Stay,
              Pause, PauseEnds, Limited, Return, Release, Returned, End
<1>6. CASE Clock \/ UNCHANGED vars
  BY <1>6, <1>2 DEF Clock, callVars, vars
<1> QED
  BY <1>2, <1>3, <1>4, <1>5, <1>6 DEF Next, Step

LEMMA SuccessStep ==
  ASSUME IInv, LimiterLive, SuccessReported, [Next]_vars
  PROVE  SuccessReported'
<1> USE DEF SuccessReported
<1>1. result \in [Calls -> Results] /\ ended \subseteq Calls
  BY DEF IInv, TypeOK
<1>2. ASSUME UNCHANGED <<answered, result>>, ended \subseteq ended' PROVE SuccessReported'
  BY <1>2
<1>3. ASSUME NEW c \in Calls, GiveUp(c) PROVE SuccessReported'
  BY <1>1, <1>3 DEF GiveUp
<1>4. ASSUME NEW c \in Calls, Answer(c) PROVE SuccessReported'
  <2>1. result[c] = "none"
    BY <1>4 DEF Answer, Send, IInv, Phases
  <2> QED
    BY <1>4, <2>1 DEF Answer, Stay, Send
<1>5. ASSUME NEW c \in Calls, PauseEnds(c) PROVE SuccessReported'
  BY <1>1, <1>5 DEF PauseEnds, Return
<1>6. ASSUME NEW c \in Calls, Limited(c) PROVE SuccessReported'
  <2>1. limiter[Process(c)].rate > 0 /\ limiter[Process(c)].burst > 0
    BY Homed DEF LimiterLive
  <2>2. \/ Return(c, "ok")
        \/ Return(c, "error") /\ c \in ended \cup Deadline
    BY <1>6, <2>1 DEF Limited, Passes, Stuck, LimiterOf
  <2>3. PICK r \in {"ok", "error"} : Return(c, r) /\ (r = "error" => c \in ended \cup Deadline)
    BY <2>2
  <2>4. result' = [result EXCEPT ![c] = r] /\ UNCHANGED <<answered, ended>>
    BY <2>3 DEF Return
  <2> QED
    BY <1>1, <2>3, <2>4
<1>7. ASSUME NEW c \in Calls, Release(c) PROVE SuccessReported'
  <2>1. c \in answered => result[c] # "none"
    BY <1>7 DEF Release, Returned, IInv, Phases
  <2> QED
    BY <1>1, <1>7, <2>1 DEF Release, Returned
<1>8. ASSUME NEW c \in Calls,
             \/ Acquire(c) \/ GetToken(c) \/ Fails(c) \/ Refused(c) \/ SetLimit(c) \/ SetBurst(c)
             \/ Pause(c) \/ End(c)
      PROVE  SuccessReported'
  BY <1>2, <1>8 DEF Acquire, GetToken, callVars, Fails, Refused, Send, Stay, SetLimit, SetBurst,
                    Pause, Keep, End
<1>9. CASE \E p \in Processes : Crash(p)
  BY <1>2, <1>9 DEF Crash
<1>10. CASE Clock \/ UNCHANGED vars
  BY <1>2, <1>10 DEF Clock, callVars, vars
<1> QED
  BY <1>3, <1>4, <1>5, <1>6, <1>7, <1>8, <1>9, <1>10 DEF Next, Step

-----------------------------------------------------------------------------
\* The theorems.

LEMMA Start == Init => IInv /\ SlotsCounted /\ MutexHeld /\ OwnTokens
<1> SUFFICES ASSUME Init PROVE IInv /\ SlotsCounted /\ MutexHeld /\ OwnTokens
  OBVIOUS
<1> USE TokenCacheAssumption, CallPathAssumption DEF Init
<1>1. Empty \in Cache
  BY DEF Empty, Cache
<1>2. Limiter(InitialLimit) \in [rate : Nat, burst : Nat]
  BY LimiterType DEF InitialLimit
<1>3. IInv
  BY <1>1, <1>2
  DEF IInv, TypeOK, Phases, Locations, Waiting, Before, After, Inside, Results
<1>4. \A k \in Connections : InFlight(k) = {}
  BY DEF InFlight, Waiting
<1>5. SlotsCounted
  <2>1. Cardinality({}) = 0
    BY FS_EmptySet
  <2>2. \A k \in Connections : sem[k] = 0
    OBVIOUS
  <2>3. 0 <= MaxConcurrent
    OBVIOUS
  <2> HIDE DEF Init
  <2> QED
    BY <1>4, <2>1, <2>2, <2>3 DEF SlotsCounted
<1>6. MutexHeld
  BY Homed, <1>3 DEF MutexHeld, Inside
<1>7. OwnTokens
  <2>1. \A c \in Calls, k \in Keys : cf[c][k] = None
    BY DEF Empty
  <2>2. \A k \in Keys : file[k] = None
    BY DEF Empty
  <2> QED
    BY <2>1, <2>2 DEF OwnTokens, Own
<1> QED
  BY <1>3, <1>5, <1>6, <1>7

\* The types and the places of the calls, with the counts of the semaphores: for
\* any number of calls, no slot is lost or given back twice on any way through the
\* interceptors of spawnConnInternal.
THEOREM SlotsInvariant == Spec => [](IInv /\ SlotsCounted)
<1>1. Init => IInv /\ SlotsCounted
  BY Start
<1>2. (IInv /\ SlotsCounted) /\ [Next]_vars => (IInv /\ SlotsCounted)'
  BY TypesStep, SlotsStep
<1> QED
  BY <1>1, <1>2, PTL DEF Spec

\* The places of the calls alone, from Acquire through every early return of the
\* interceptors to the end.
THEOREM Invariance == Spec => []IInv
BY SlotsInvariant, PTL

\* The mutex of a process belongs to the one call that is in cachingTokenSource.Token.
THEOREM MutexInvariant == Spec => []MutexHeld
<1>1. Init => MutexHeld
  BY Start
<1>2. IInv /\ MutexHeld /\ [Next]_vars => MutexHeld'
  BY MutexStep
<1> QED
  BY <1>1, <1>2, SlotsInvariant, PTL DEF Spec

\* The tokens in the caches and of the calls belong to the key they are used for.
THEOREM TokensInvariant == Spec => []OwnTokens
<1>1. Init => OwnTokens
  BY Start
<1>2. IInv /\ OwnTokens /\ [Next]_vars => OwnTokens'
  BY TokensStep
<1> QED
  BY <1>1, <1>2, SlotsInvariant, PTL DEF Spec

\* Where the API sends no limit below 60, a call it has carried out is reported as
\* failed only when its context has ended or would end in the wait.
THEOREM SuccessInvariant ==
  ASSUME \A l \in Limits : l >= 60
  PROVE  Spec => []SuccessReported
<1>1. Init => LimiterLive /\ SuccessReported
  BY LimitLive DEF Init, LimiterLive, SuccessReported, Limiter, InitialLimit
<1>2. IInv /\ LimiterLive /\ SuccessReported /\ [Next]_vars => LimiterLive' /\ SuccessReported'
  BY LiveStep, SuccessStep
<1> QED
  BY <1>1, <1>2, SlotsInvariant, PTL DEF Spec
=============================================================================
