------------------------------ MODULE CallPath ------------------------------
\* The way of an RPC through the interceptors of a connection: the semaphore, the
\* bearer token, the rate limiter around the answer, and grpcretry around the
\* request.  The rate limiter is a variable of the package: all connections of a
\* process share it.
EXTENDS TokenCache

CONSTANTS
  MaxConcurrent, \* DefaultMaxConcurrentRPCs
  MaxAttempts,   \* grpcretry.WithMax
  Limits,        \* limits the API may send in a ratelimit header
  Homes,         \* the ways the calls may be spread over the connections
  MaxEnded,      \* bound on the calls whose context ends
  Deadline,      \* the calls with a deadline: those of the cluster data source
  MaxCrashes     \* bound on the crashes

ASSUME CallPathAssumption ==
  /\ IsFiniteSet(Calls)
  /\ MaxConcurrent \in Nat \ {0} /\ MaxAttempts \in Nat \ {0} /\ {MaxEnded, MaxCrashes} \subseteq Nat
  /\ Limits \subseteq Nat
  /\ Homes \subseteq [Calls -> Connections] /\ Deadline \subseteq Calls

VARIABLES
  sem,      \* sem[k]: how many slots of connection k are taken
  ended,    \* the calls whose context has ended
  attempt,  \* attempt[c]: how often call c has been sent
  answered, \* the calls the API has answered with success
  result,   \* result[c]: what the caller is told
  header,   \* header[c]: the ratelimit header of the answer, or None
  limiter,  \* limiter[p]: rate and burst
  crashes
callVars == <<sem, ended, attempt, answered, result, header, limiter, crashes>>
vars == <<tokenVars, callVars>>

Results == {"none", "ok", "error"}
Header == [limit : Limits, exhausted : BOOLEAN]

\* newRateLimiter and Limiter divide in integers.
Rate(limit) == limit \div 60
Burst(limit) == limit \div 10
Limiter(limit) == [rate |-> Rate(limit), burst |-> Burst(limit)]
InitialLimit == 500

Waiting == {"new", "returned"}
Locations == Waiting \cup Inside
             \cup {"locking", "sending", "setting", "bursting", "pausing", "limited", "returning"}

Init == /\ home \in Homes
        /\ now = 0
        /\ file = Empty
        /\ mu = [p \in Processes |-> None]
        /\ inner = [p \in Processes |-> None]
        /\ pc = [c \in Calls |-> "new"]
        /\ cf = [c \in Calls |-> Empty]
        /\ token = [c \in Calls |-> None]
        /\ sem = [k \in Connections |-> 0]
        /\ ended = {}
        /\ attempt = [c \in Calls |-> 0]
        /\ answered = {}
        /\ result = [c \in Calls |-> "none"]
        /\ header = [c \in Calls |-> None]
        /\ limiter = [p \in Processes |-> Limiter(InitialLimit)]
        /\ crashes = 0

-----------------------------------------------------------------------------
\* The concurrency limiter.

\* Mutant of Acquire: the slots are one more than there should be.
AcquireOneMore(c) ==
  LET k == home[c]
  IN /\ pc[c] = "new" /\ sem[k] <= MaxConcurrent
     /\ sem' = [sem EXCEPT ![k] = @ + 1]
     /\ Goto(c, "locking")
     /\ UNCHANGED <<home, now, file, mu, inner, cf, token, ended, attempt, answered, result, header,
                    limiter, crashes>>

Acquire(c) ==
  LET k == home[c]
  IN /\ pc[c] = "new" /\ sem[k] < MaxConcurrent
     /\ sem' = [sem EXCEPT ![k] = @ + 1]
     /\ Goto(c, "locking")
     /\ UNCHANGED <<home, now, file, mu, inner, cf, token, ended, attempt, answered, result, header,
                    limiter, crashes>>

GiveUp(c) ==
  /\ pc[c] = "new" /\ c \in ended
  /\ result' = [result EXCEPT ![c] = "error"]
  /\ Goto(c, "returned")
  /\ UNCHANGED <<home, now, file, mu, inner, cf, token, sem, ended, attempt, answered, header, limiter,
                 crashes>>

\* The deferred release; a call that comes here with no result has failed.  What
\* the interceptors knew of it is gone.
Returned(c) ==
  /\ pc[c] = "returning"
  /\ result' = [result EXCEPT ![c] = IF @ = "none" THEN "error" ELSE @]
  /\ token' = [token EXCEPT ![c] = None]
  /\ attempt' = [attempt EXCEPT ![c] = 0]
  /\ header' = [header EXCEPT ![c] = None]
  /\ Goto(c, "returned")
  /\ UNCHANGED <<home, now, file, mu, inner, cf, ended, answered, limiter, crashes>>

\* Mutant of Release: the slot is given back on success only.
ReleaseAnswered(c) ==
  /\ Returned(c)
  /\ sem' = [sem EXCEPT ![home[c]] = IF c \in answered THEN @ - 1 ELSE @]

Release(c) == Returned(c) /\ sem' = [sem EXCEPT ![home[c]] = @ - 1]

GetToken(c) == Token(c) /\ UNCHANGED callVars

-----------------------------------------------------------------------------
\* The request, and grpcretry around it: the same token is sent each time.

Stay == UNCHANGED <<home, now, file, mu, inner, cf, token, sem, ended, result, limiter, crashes>>

Send(c) == pc[c] = "sending" /\ attempt' = [attempt EXCEPT ![c] = @ + 1] /\ Stay

\* Mutant of Retry: the attempts are not counted.
RetryForever(c) == Goto(c, "sending")

Retry(c) == Goto(c, IF attempt[c] + 1 < MaxAttempts /\ c \notin ended THEN "sending" ELSE "returning")

\* The API does what is asked, and its answer arrives.
Answer(c) ==
  /\ Send(c) /\ Valid(token[c], 0)
  /\ answered' = answered \cup {c}
  /\ \E h \in Header \cup {None} :
       /\ header' = [header EXCEPT ![c] = h]
       /\ Goto(c, IF h = None THEN "limited" ELSE "setting")

\* Unavailable or Unknown: the request or its answer is lost, or the API is busy.
\* Unauthenticated: the token has expired meanwhile, say.  Both are sent again.
Fails(c) == Send(c) /\ Retry(c) /\ UNCHANGED <<answered, header>>

\* Any other error is not.
Refused(c) == Send(c) /\ Goto(c, "returning") /\ UNCHANGED <<answered, header>>

-----------------------------------------------------------------------------
\* The rate limiter, after the answer.

LimiterOf(c) == limiter[Process(c)]
Stored(c) == Goto(c, IF header[c].exhausted THEN "pausing" ELSE "limited")
Keep == UNCHANGED <<home, now, file, mu, inner, cf, token, sem, ended, attempt, answered, result, header,
                    crashes>>

\* A header that changes the limiter is stored in two steps.
SetLimit(c) ==
  /\ pc[c] = "setting"
  /\ IF LimiterOf(c) # Limiter(header[c].limit)
     THEN /\ limiter' = [limiter EXCEPT ![Process(c)].rate = Rate(header[c].limit)]
          /\ Goto(c, "bursting")
     ELSE UNCHANGED limiter /\ Stored(c)
  /\ Keep

SetBurst(c) ==
  /\ pc[c] = "bursting"
  /\ limiter' = [limiter EXCEPT ![Process(c)].burst = Burst(header[c].limit)]
  /\ Stored(c)
  /\ Keep

Return(c, r) == /\ result' = [result EXCEPT ![c] = r]
                /\ Goto(c, "returning")
                /\ UNCHANGED <<home, now, file, mu, inner, cf, token, sem, ended, attempt, answered,
                               header, limiter, crashes>>

\* remaining = 0: wait until the API resets its count.
Pause(c) == /\ pc[c] = "pausing"
            /\ Goto(c, "limited")
            /\ UNCHANGED limiter
            /\ UNCHANGED result
            /\ Keep
PauseEnds(c) == pc[c] = "pausing" /\ c \in ended /\ Return(c, "error")

\* limiter.Wait, where there was a header.  It fails where there is no burst, where
\* the context ends, and where it would have to wait past the deadline; with no rate
\* the burst may be used up, for an error or for a wait without end.
Starved(c) == pc[c] = "limited" /\ header[c] # None /\ LimiterOf(c).rate = 0 /\ c \notin ended

Passes(c) == header[c] = None \/ (LimiterOf(c).burst > 0 /\ c \notin ended)
Stuck(c) == header[c] # None /\ (LimiterOf(c).rate = 0 \/ c \in Deadline)

\* Mutant of Limited: an exhausted limit is an error, not a reason to wait.
LimitedEarly(c) ==
  /\ pc[c] = "limited"
  /\ \/ Passes(c) /\ Return(c, "ok")
     \/ (~Passes(c) \/ (header[c] # None /\ header[c].exhausted)) /\ Return(c, "error")

Limited(c) ==
  /\ pc[c] = "limited"
  /\ \/ Passes(c) /\ Return(c, "ok")
     \/ (~Passes(c) \/ Stuck(c)) /\ Return(c, "error")

-----------------------------------------------------------------------------
\* The context of a call ends.
End(c) == /\ pc[c] # "returned" /\ c \notin ended /\ Cardinality(ended) < MaxEnded
          /\ ended' = ended \cup {c}
          /\ UNCHANGED <<tokenVars, sem, attempt, answered, result, header, limiter, crashes>>

\* A provider process dies: Terraform gets no answer to its calls, and starts
\* another for the next run.  The file stays as it is.
Crash(p) ==
  LET mine == {c \in Calls : Process(c) = p}
      Reset(f, v) == [c \in Calls |-> IF c \in mine THEN v ELSE f[c]]
  IN /\ crashes < MaxCrashes /\ crashes' = crashes + 1
     /\ \E c \in mine : pc[c] # "returned"
     /\ mu' = [mu EXCEPT ![p] = None]
     /\ inner' = [inner EXCEPT ![p] = None]
     /\ pc' = Reset(pc, "returned")
     /\ cf' = Reset(cf, Empty)
     /\ token' = Reset(token, None)
     /\ sem' = [k \in Connections |-> IF ProcessOf[k] = p THEN 0 ELSE sem[k]]
     /\ attempt' = Reset(attempt, 0)
     /\ header' = Reset(header, None)
     /\ limiter' = [limiter EXCEPT ![p] = Limiter(InitialLimit)]
     /\ UNCHANGED <<home, now, file, ended, answered, result>>

\* The clock matters while there are calls.
Clock == (\E c \in Calls : pc[c] # "returned") /\ Tick /\ UNCHANGED callVars

Step(c) ==
  \/ Acquire(c) \/ GiveUp(c) \/ GetToken(c) \/ Answer(c) \/ Fails(c) \/ Refused(c)
  \/ SetLimit(c) \/ SetBurst(c) \/ Pause(c) \/ PauseEnds(c) \/ Limited(c) \/ Release(c)

Next == \/ \E c \in Calls : Step(c) \/ End(c)
        \/ \E p \in Processes : Crash(p)
        \/ Clock

Spec == Init /\ [][Next]_vars

\* Every call is scheduled, the API and the token endpoint answer at last, and the
\* reset that an answer announces comes; a starved call may wait for good.
FairSpec == Spec /\ \A c \in Calls : WF_vars(Step(c) /\ ~Starved(c))

-----------------------------------------------------------------------------
TypeOK ==
  /\ home \in [Calls -> Connections]
  /\ now \in 0 .. MaxTime
  /\ file \in Cache \cup {Torn}
  /\ mu \in [Processes -> Calls \cup {None}]
  /\ inner \in [Processes -> Entry \cup {None}]
  /\ pc \in [Calls -> Locations]
  /\ cf \in [Calls -> Cache]
  /\ token \in [Calls -> Entry \cup {None}]
  /\ sem \in [Connections -> 0 .. MaxConcurrent]
  /\ ended \subseteq Calls /\ answered \subseteq Calls
  /\ attempt \in [Calls -> 0 .. MaxAttempts]
  /\ result \in [Calls -> Results]
  /\ header \in [Calls -> Header \cup {None}]
  /\ limiter \in [Processes -> [rate : Nat, burst : Nat]]
  /\ crashes \in 0 .. MaxCrashes

\* Where a call is says what it has done: a request has been sent and counted, a
\* header read, an answer had and a result set when its place says so.
Before == {"new", "locking"} \cup Inside
After == {"setting", "bursting", "pausing", "limited"}
Phases ==
  \A c \in Calls :
    /\ pc[c] \in Before => attempt[c] = 0
    /\ pc[c] = "sending" => attempt[c] < MaxAttempts
    /\ pc[c] \in After \ {"limited"} => header[c] # None
    /\ pc[c] \notin {"returning", "returned"} => result[c] = "none"
    /\ c \in answered => pc[c] \in After \cup {"returning", "returned"}
    /\ c \in answered /\ pc[c] = "returning" => result[c] # "none"

\* The types, and the places of the calls: what the other invariants rest on.
IInv == TypeOK /\ Phases

\* The semaphore of a connection counts the calls that are past it, through every
\* early return of the interceptors inside it (spawnConnInternal): no slot is lost
\* and none is given back twice, so that never more than DefaultMaxConcurrentRPCs
\* calls are in flight on a connection, waits of the rate limiter included.
InFlight(k) == {c \in Calls : home[c] = k /\ pc[c] \notin Waiting}
SlotsCounted == \A k \in Connections : sem[k] = Cardinality(InFlight(k)) /\ sem[k] <= MaxConcurrent

\* The mutex of the package is held by the one call of the process, over all its
\* connections, that is in cachingTokenSource.Token: none of them reads the file
\* while another fetches or writes, and every way out of Token gives it back.
MutexHeld == \A c \in Calls : pc[c] \in Inside <=> mu[Process(c)] = c

\* Whatever the processes do to the file at the same time, the token a call goes
\* with, and every token in a cache, belongs to the audience and client it is stored
\* under and was issued by now: a token never goes to another service principal,
\* and no mix of two writers is taken for one.
Own(t, k) == t # None => t.key = k /\ t.expiry <= now + Lifetime
OwnTokens ==
  /\ \A p \in Processes : Own(inner[p], KeyOf[p])
  /\ \A c \in Calls : Own(token[c], KeyOf[Process(c)])
  /\ \A c \in Calls, k \in Keys : Own(cf[c][k], k)
  /\ file # Torn => \A k \in Keys : Own(file[k], k)

\* A call whose success the API has answered is reported as failed only when its context
\* has ended or would end in the wait of the rate limiter: the limiter waits after
\* the answer, so what fails there is a Create whose resource exists.  True only
\* of limits of 60 and more: below that the integer division leaves no rate.
SuccessReported == \A c \in answered : result[c] = "error" => c \in ended \cup Deadline

\* Every call returns, whichever fail, are cut off or die, except where the limiter
\* has no rate: the semaphore, the mutex and the retries never keep one for good.
AllReturn == <>[](\/ \A c \in Calls : pc[c] = "returned"
                  \/ \E c \in Calls : Starved(c))
=============================================================================
