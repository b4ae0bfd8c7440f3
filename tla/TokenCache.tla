----------------------------- MODULE TokenCache -----------------------------
\* The access token of a call: cachingTokenSource.Token, a mutex per provider
\* process around a file that all processes of the machine share without a lock,
\* over the client_credentials source, which keeps its last token itself.
EXTENDS Naturals, FiniteSets

CONSTANTS
  Processes,   \* provider processes
  Calls,       \* RPCs
  Connections, \* connections of all processes
  ProcessOf,   \* ProcessOf[k]: the process of connection k
  KeyOf,       \* KeyOf[p]: audience and client id of process p
  Lifetime,    \* how long a token is valid, in ticks of 5 seconds
  MinTTL,      \* a cached token must be valid for longer than this
  ExpiryDelta, \* a token kept in memory must be valid for longer than this
  MaxTime,     \* bound on the clock
  None,
  Torn         \* a file that is no JSON: truncated and not yet written, or left
               \* over from two writers

Keys == {KeyOf[p] : p \in Processes}
Entry == [key : Keys, expiry : 0 .. MaxTime + Lifetime]

ASSUME TokenCacheAssumption ==
  /\ ProcessOf \in [Connections -> Processes]
  /\ KeyOf \in [Processes -> Keys]
  /\ {Lifetime, MinTTL, ExpiryDelta, MaxTime} \subseteq Nat
  /\ None \notin Calls /\ None \notin Entry
  /\ Torn \notin [Keys -> Entry \cup {None}]

VARIABLES
  home,  \* home[c]: the connection of call c
  now,   \* the clock
  file,  \* the cache file: the entry of each key, or Torn
  mu,    \* mu[p]: the call that holds the package's mutex, or None
  inner, \* inner[p]: the token the client_credentials source keeps, or None
  pc,    \* pc[c]: where call c is
  cf,    \* cf[c]: the cache as call c read it
  token  \* token[c]: the token call c goes with
tokenVars == <<home, now, file, mu, inner, pc, cf, token>>

Process(c) == ProcessOf[home[c]]

Cache == [Keys -> Entry \cup {None}]
Empty == [k \in Keys |-> None]

Inside == {"looking", "fetching", "truncating", "writing"}

Goto(c, l) == pc' = [pc EXCEPT ![c] = l]
Valid(t, margin) == t # None /\ t.expiry > now + margin
Size(f) == Cardinality({k \in Keys : f[k] # None})

\* Mutant of Lock: the mutex belongs to the token source and not to the package.
LockUnheld(c) ==
  /\ pc[c] = "locking"
  /\ mu' = [mu EXCEPT ![Process(c)] = c]
  /\ Goto(c, "looking")
  /\ UNCHANGED <<home, now, file, inner, cf, token>>

-----------------------------------------------------------------------------
Lock(c) ==
  /\ pc[c] = "locking" /\ mu[Process(c)] = None
  /\ mu' = [mu EXCEPT ![Process(c)] = c]
  /\ Goto(c, "looking")
  /\ UNCHANGED <<home, now, file, inner, cf, token>>

\* Leaving Token: the mutex is released by its defer, and the cache it read is gone.
Leave(c, l) == /\ mu' = [mu EXCEPT ![Process(c)] = None]
               /\ cf' = [cf EXCEPT ![c] = Empty]
               /\ Goto(c, l)

RemoveExpired(f) == [k \in Keys |-> IF f[k] # None /\ f[k].expiry < now THEN None ELSE f[k]]

\* readCache: a file that cannot be parsed is an empty cache.
ReadCache == IF file = Torn THEN Empty ELSE RemoveExpired(file)

\* Mutant of Hit: the entries of the file are not told apart by client.
HitAny(c) == IF \E k \in Keys : Valid(ReadCache[k], MinTTL)
             THEN ReadCache[CHOOSE k \in Keys : Valid(ReadCache[k], MinTTL)]
             ELSE None

Hit(c) == ReadCache[KeyOf[Process(c)]]

Lookup(c) ==
  /\ pc[c] = "looking"
  /\ IF Valid(Hit(c), MinTTL)
     THEN token' = [token EXCEPT ![c] = Hit(c)] /\ Leave(c, "sending")
     ELSE cf' = [cf EXCEPT ![c] = ReadCache] /\ Goto(c, "fetching") /\ UNCHANGED <<token, mu>>
  /\ UNCHANGED <<home, now, file, inner>>

\* inner.Token: the token in memory, or a new one from the token endpoint.
Issued(p) == [key |-> KeyOf[p], expiry |-> now + Lifetime]

Fetch(c) ==
  LET p == Process(c)
      t == IF Valid(inner[p], ExpiryDelta) THEN inner[p] ELSE Issued(p)
  IN /\ pc[c] = "fetching"
     /\ inner' = [inner EXCEPT ![p] = t]
     /\ token' = [token EXCEPT ![c] = t]
     /\ cf' = [cf EXCEPT ![c][KeyOf[p]] = t]
     /\ Goto(c, "truncating")
     /\ UNCHANGED <<home, now, file, mu>>

\* The endpoint refuses, or its retries are used up.
FetchFails(c) ==
  /\ pc[c] = "fetching" /\ ~Valid(inner[Process(c)], ExpiryDelta)
  /\ Leave(c, "returning")
  /\ UNCHANGED <<home, now, file, inner, token>>

\* cacheFile.write: os.WriteFile truncates the file and then writes it.
Truncate(c) ==
  /\ pc[c] = "truncating"
  /\ file' = Torn
  /\ Goto(c, "writing")
  /\ UNCHANGED <<home, now, mu, inner, cf, token>>

\* What another process wrote in between is overwritten from the start, and the
\* end of a longer one stays.
Write(c) ==
  /\ pc[c] = "writing"
  /\ file' = IF file # Torn /\ Size(file) > Size(cf[c]) THEN Torn ELSE cf[c]
  /\ Leave(c, "sending")
  /\ UNCHANGED <<home, now, inner, token>>

\* The directory cannot be made, or the file not written: a warning only.
WriteFails(c) ==
  /\ pc[c] \in {"truncating", "writing"}
  /\ Leave(c, "sending")
  /\ UNCHANGED <<home, now, file, inner, token>>

Tick == /\ now < MaxTime
        /\ now' = now + 1
        /\ UNCHANGED <<home, file, mu, inner, pc, cf, token>>

Token(c) ==
  Lock(c) \/ Lookup(c) \/ Fetch(c) \/ FetchFails(c) \/ Truncate(c) \/ Write(c) \/ WriteFails(c)
=============================================================================
