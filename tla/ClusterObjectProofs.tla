------------------------- MODULE ClusterObjectProofs -------------------------
(***************************************************************************)
(* ClusterObject's action properties for every set of planned values and   *)
(* every bound on the requests at large, and that it implements Resource.  *)
(* The invariant carries what the arguments need: the object a running     *)
(* handler looks at is part of the handler's history, and a locked object  *)
(* is never being deleted.                                                 *)
(***************************************************************************)
EXTENDS ClusterObject, TLAPS

\* A request that takes effect leaves an object of the model.
LEMMA EffectTyped ==
    ASSUME NEW r \in Requests, NEW o \in Present \union {None}
    PROVE  Effect(r, o) \in Present \union {None}
BY DEF Effect, Requests, Present

\* The request of a running handler is one of the requests there are.
LEMMA RequestTyped ==
    ASSUME IInv, Mutating
    PROVE  Request \in Requests
BY DEF IInv, TypeOK, Progress, Mutating, Request, Requests

\* The object and the history are typed after the cluster processed a request.
LEMMA ProcessTyped ==
    ASSUME IInv, Mutating, Process
    PROVE  /\ obj' \in Present \union {None}
           /\ was' \in SUBSET (Present \union {None})
           /\ obj' \in was'
           /\ late' = late
BY EffectTyped, RequestTyped DEF Process, IInv, TypeOK

\* So are the requests at large after one more went astray.
LEMMA AstrayTyped ==
    ASSUME IInv, Mutating, Astray
    PROVE  late' \in SUBSET Requests /\ obj' = obj /\ was' = was
BY RequestTyped DEF Astray, IInv, TypeOK

\* Every step keeps the inductive invariant.
LEMMA Step == IInv /\ [Next]_vars => IInv'
<1> SUFFICES ASSUME IInv, [Next]_vars PROVE IInv'
  OBVIOUS
<1> USE ValuesAssumption DEF IInv, TypeOK, Progress, Present, Kinds, Handlers, Calls,
        fixed, cluster, state, Nothing, Prior, Return, Abort, Then, Still
<1>1. CASE \E p \in Plans : Create(p)
  BY <1>1 DEF Create, Begin, Plans
<1>2. CASE \E p \in Plans : Update(p)
  BY <1>2 DEF Update, Begin, Plans
<1>3. CASE \E p \in Plans : UpdateLocal(p)
  BY <1>3 DEF UpdateLocal, Begin, Plans
<1>4. CASE \E v \in Values : Import(v)
  BY <1>4 DEF Import, Begin
<1>5. CASE Read
  BY <1>5 DEF Read, Begin
<1>6. CASE Delete
  BY <1>6 DEF Delete, Begin
<1>7. CASE Created
  <2>1. obj' \in was' /\ obj' # None
    BY <1>7, ProcessTyped DEF Created, Process, Effect, Request, Calling, Mutating
  <2> QED
    BY <1>7, <2>1, ProcessTyped DEF Created, Calling, Mutating
<1>8. CASE AlreadyExists
  BY <1>8, ProcessTyped DEF AlreadyExists, Calling, Mutating
<1>9. CASE Updated
  BY <1>9, ProcessTyped DEF Updated, Calling, Mutating
<1>10. CASE UpdatedNothing
  BY <1>10, ProcessTyped DEF UpdatedNothing, Calling, Mutating
<1>11. CASE Deleted
  BY <1>11, ProcessTyped DEF Deleted, GracefulRemoval, Calling, Mutating
<1>12. CASE Resend
  BY <1>12, AstrayTyped DEF Resend, Mutating
<1>13. CASE Transient
  BY <1>13, AstrayTyped DEF Transient, Mutating
<1>14. CASE Fails
  BY <1>14, AstrayTyped DEF Fails, GracefulRemoval, Mutating
<1>15. CASE Refused
  BY <1>15 DEF Refused, Mutating, GracefulRemoval
<1>16. CASE ProbeHit
  BY <1>16 DEF ProbeHit
<1>17. CASE ProbeMiss
  BY <1>17 DEF ProbeMiss
<1>18. CASE Adopt
  BY <1>18 DEF Adopt
<1>19. CASE AdoptFails
  BY <1>19 DEF AdoptFails
<1>20. CASE ReadBack
  BY <1>20 DEF ReadBack
<1>21. CASE ReadBackFails
  BY <1>21 DEF ReadBackFails
<1>22. CASE Configured
  BY <1>22 DEF Configured, Unreported
<1>23. CASE ConfigFails
  BY <1>23 DEF ConfigFails
<1>24. CASE Found
  BY <1>24 DEF Found, Reading
<1>25. CASE NotFound
  BY <1>25 DEF NotFound, Reading, GracefulRemoval
<1>26. CASE Unreachable
  BY <1>26 DEF Unreachable, Reading, GracefulRemoval
<1>27. CASE ReadFails
  BY <1>27 DEF ReadFails, Reading, GracefulRemoval
<1>28. CASE \E r \in late : Land(r)
  BY <1>28, EffectTyped DEF Land, Becomes
<1>29. CASE Others
  BY <1>29 DEF Others, Becomes
<1>30. CASE Killed
  BY <1>30 DEF Killed
<1>31. CASE UNCHANGED vars
  BY <1>31 DEF vars
<1>32. CASE Partitioned
  BY <1>32 DEF Partitioned
<1>33. CASE PartitionsFail
  BY <1>33 DEF PartitionsFail
<1> QED
  BY <1>1, <1>2, <1>3, <1>4, <1>5, <1>6, <1>7, <1>8, <1>9, <1>10, <1>11, <1>12, <1>13, <1>14, <1>15, <1>16, <1>17, <1>18, <1>19, <1>20, <1>21, <1>22, <1>23, <1>24, <1>25, <1>26, <1>27, <1>28, <1>29, <1>30, <1>31, <1>32, <1>33 DEF Next, Terraform, Handler

\* Types, and what every running handler relies on.
THEOREM Invariance == Spec => []IInv
<1>1. Init => IInv
  BY ValuesAssumption DEF Init, IInv, TypeOK, Progress, Kinds, Present, Handlers, Calls, Nothing
<1> QED
  BY <1>1, Step, PTL DEF Spec

\* What a step that ends a handler without a diagnostic shows, as one fact about
\* Next: the handlers return in a few ways and each property looks at all of them.
LEMMA CleanReturn ==
    ASSUME IInv, Next, Returning, diag' = "ok"
    PROVE  /\ "misread" \notin faults /\ held' = None => None \in was'
           /\ held' # None => was' \intersect Present # {}
           /\ held' # None /\ (kind = "topic" \/ op = "update") =>
                held' \in was' \/ ("silent" \in faults /\ held' = Unreported)
<1> USE ValuesAssumption DEF IInv, TypeOK, Progress, Present, Handlers, Calls, Returning,
        fixed, cluster, state, Nothing, Prior, Return, Abort, Then, Still
<1>1. CASE Terraform
  BY <1>1 DEF Terraform, Create, Update, UpdateLocal, Import, Read, Delete, Begin
<1>2. CASE Created \/ AlreadyExists
  BY <1>2, ProcessTyped DEF Created, AlreadyExists, Calling, Mutating, Process, Effect, Request
<1>3. CASE Updated \/ UpdatedNothing
  BY <1>3, ProcessTyped DEF Updated, UpdatedNothing, Calling, Mutating, Process, Effect, Request
<1>4. CASE Deleted
  BY <1>4, ProcessTyped DEF Deleted, GracefulRemoval, Calling, Mutating, Process, Effect, Request
<1>5. CASE Resend \/ Transient \/ Fails \/ Refused
  BY <1>5 DEF Resend, Transient, Fails, Refused, Mutating, GracefulRemoval
<1>seen. obj # None /\ op # "idle" => was \intersect Present # {}
  BY DEF IInv, TypeOK, Progress
<1>6. CASE ProbeHit \/ ProbeMiss \/ Adopt \/ AdoptFails
  BY <1>6, <1>seen DEF ProbeHit, ProbeMiss, Adopt, AdoptFails
<1>7. CASE ReadBack \/ ReadBackFails \/ Configured \/ ConfigFails
  BY <1>7, <1>seen DEF ReadBack, ReadBackFails, Configured, ConfigFails, Unreported
<1>8. CASE Found
  BY <1>8, <1>seen DEF Found, Reading
<1>9. CASE NotFound \/ Unreachable \/ ReadFails
  BY <1>9 DEF NotFound, Unreachable, ReadFails, Reading, GracefulRemoval
<1>10. CASE (\E r \in late : Land(r)) \/ Others \/ Killed
  BY <1>10 DEF Land, Others, Becomes, Killed
<1>11. CASE Partitioned \/ PartitionsFail
  BY <1>11 DEF Partitioned, PartitionsFail
<1> QED
  BY <1>1, <1>2, <1>3, <1>4, <1>5, <1>6, <1>7, <1>8, <1>9, <1>10, <1>11 DEF Next, Handler

\* No handler drops an object from the state without a word while it is there,
\* when no error's text merely looks like not found.
THEOREM NothingLostSilently == Spec => NeverSilent
<1>1. IInv /\ [Next]_vars =>
        [Returning /\ diag' = "ok" /\ held' = None /\ "misread" \notin faults =>
           None \in was']_vars
  BY CleanReturn
<1> QED
  BY <1>1, Invariance, PTL DEF Spec, NeverSilent

\* What a handler records without a diagnostic was there while it ran, but for a
\* configuration key the broker does not report, which stays as planned or held.
THEOREM RecordedWasThere == Spec => Recorded
<1>1. IInv /\ [Next]_vars =>
        [Returning /\ diag' = "ok" /\ held' # None =>
           /\ was' \intersect Present # {}
           /\ kind = "topic" \/ op = "update" =>
                held' \in was' \/ ("silent" \in faults /\ held' = Unreported)]_vars
  BY CleanReturn
<1> QED
  BY <1>1, Invariance, PTL DEF Spec, Recorded

\* allow_deletion = false keeps the object in the state and from being deleted.
THEOREM DeletionProtected == Spec => Protected
<1>1. IInv /\ [Next]_vars => [allow = "false" => held' # None /\ op' # "delete"]_vars
  <2> SUFFICES ASSUME IInv, Next, allow = "false" PROVE held' # None /\ op' # "delete"
    OBVIOUS
  <2> USE ValuesAssumption DEF IInv, TypeOK, Progress, Present, Handlers, Calls,
          fixed, cluster, state, Nothing, Prior, Return, Abort, Then, Still
  <2>1. CASE Terraform
    BY <2>1 DEF Terraform, Create, Update, UpdateLocal, Import, Read, Delete, Begin
  <2>2. CASE Created \/ AlreadyExists \/ Updated \/ UpdatedNothing
    BY <2>2 DEF Created, AlreadyExists, Updated, UpdatedNothing, Calling
  <2>3. CASE Deleted \/ Resend \/ Transient \/ Fails \/ Refused
    BY <2>3 DEF Deleted, Resend, Transient, Fails, Refused, Calling, Mutating, GracefulRemoval
  <2>4. CASE ProbeHit \/ ProbeMiss \/ Adopt \/ AdoptFails
    BY <2>4 DEF ProbeHit, ProbeMiss, Adopt, AdoptFails
  <2>5. CASE ReadBack \/ ReadBackFails \/ Configured \/ ConfigFails
    BY <2>5 DEF ReadBack, ReadBackFails, Configured, ConfigFails, Unreported
  <2>found. CASE Found
    BY <2>found DEF Found, Reading
  <2>8. CASE Partitioned \/ PartitionsFail
    BY <2>8 DEF Partitioned, PartitionsFail
  <2>6. CASE NotFound \/ Unreachable \/ ReadFails
    BY <2>6 DEF NotFound, Unreachable, ReadFails, Reading, GracefulRemoval
  <2>7. CASE (\E r \in late : Land(r)) \/ Others \/ Killed
    BY <2>7 DEF Land, Others, Becomes, Killed
  <2> QED
    BY <2>1, <2>2, <2>3, <2>4, <2>5, <2>found, <2>6, <2>7, <2>8 DEF Next, Handler
<1> QED
  BY <1>1, Invariance, PTL DEF Spec, Protected

-------------------------------------------------------------------------------
(* ClusterObject implements Resource: what each kind of step does, in terms  *)
(* of the resource, and the step of Resource it is.                        *)

\* What the running handler has seen, its last call included.
Met(o) == o \in was \union {obj'}

\* A handler starts.
LEMMA Starting ==
    ASSUME IInv, Next, op = "idle", op' # "idle"
    PROVE  /\ op' \in Handlers /\ diag' = "ok" /\ was' = {obj}
           /\ held = None <=> op' \in {"create", "import"}
           /\ UNCHANGED <<faults, obj, held>>
<1> USE DEF IInv, TypeOK, Progress, Handlers, fixed, cluster, state
<1>1. CASE Terraform
  BY <1>1 DEF Terraform, Create, Update, UpdateLocal, Import, Read, Delete, Begin
<1>2. CASE Handler
  BY <1>2 DEF Handler, Created, AlreadyExists, Updated, UpdatedNothing, Deleted, Partitioned,
     PartitionsFail, Resend, Transient, Fails, Refused, ProbeHit, ProbeMiss, Adopt, AdoptFails,
     ReadBack, ReadBackFails, Configured, ConfigFails, Found, NotFound, Unreachable, ReadFails,
     Calling, Mutating, Reading
<1>3. CASE (\E r \in late : Land(r)) \/ Others \/ Killed
  BY <1>3 DEF Land, Others, Becomes, Killed
<1> QED
  BY <1>1, <1>2, <1>3 DEF Next

\* No handler runs: Terraform keeps what it has, and the object comes and goes.
LEMMA Idling ==
    ASSUME IInv, Next, op = "idle", op' = "idle"
    PROVE  /\ UNCHANGED <<faults, held>> /\ obj' \in Present \union {None}
           /\ \/ UNCHANGED diag
              \/ held # None /\ diag' \in {"ok", "error"} /\ UNCHANGED obj
<1> USE DEF IInv, TypeOK, Progress, Handlers, Present, fixed, cluster, state
<1>1. CASE Terraform
  BY <1>1 DEF Terraform, Create, Update, UpdateLocal, Import, Read, Delete, Begin
<1>2. CASE Handler
  BY <1>2 DEF Handler, Created, AlreadyExists, Updated, UpdatedNothing, Deleted, Partitioned,
     PartitionsFail, Resend, Transient, Fails, Refused, ProbeHit, ProbeMiss, Adopt, AdoptFails,
     ReadBack, ReadBackFails, Configured, ConfigFails, Found, NotFound, Unreachable, ReadFails,
     Calling, Mutating, Reading
<1>3. CASE (\E r \in late : Land(r)) \/ Others \/ Killed
  BY <1>3, EffectTyped DEF Land, Others, Becomes, Killed
<1> QED
  BY <1>1, <1>2, <1>3 DEF Next

\* A handler goes on, and takes note of what becomes of the object.
LEMMA Continuing ==
    ASSUME IInv, Next, op # "idle", op' # "idle"
    PROVE  UNCHANGED <<faults, held, op, diag>> /\ was' = was \union {obj'}
<1> USE DEF IInv, TypeOK, Progress, Handlers, Present, fixed, cluster, state, Return, Abort, Then, Still
<1>1. CASE Terraform
  BY <1>1 DEF Terraform, Create, Update, UpdateLocal, Import, Read, Delete, Begin
<1>2. CASE Created \/ AlreadyExists \/ Updated \/ UpdatedNothing
  BY <1>2 DEF Created, AlreadyExists, Updated, UpdatedNothing, Process
<1>3. CASE Deleted
  BY <1>3 DEF Deleted, GracefulRemoval
<1>4. CASE Resend \/ Transient \/ Fails \/ Refused
  BY <1>4 DEF Resend, Transient, Fails, Refused, Astray, GracefulRemoval
<1>5. CASE Partitioned \/ PartitionsFail \/ ProbeHit \/ ProbeMiss \/ Adopt \/ AdoptFails
  BY <1>5 DEF Partitioned, PartitionsFail, ProbeHit, ProbeMiss, Adopt, AdoptFails
<1>6. CASE ReadBack \/ ReadBackFails \/ Configured \/ ConfigFails
  BY <1>6 DEF ReadBack, ReadBackFails, Configured, ConfigFails
<1>7. CASE Found \/ NotFound \/ Unreachable \/ ReadFails
  BY <1>7 DEF Found, NotFound, Unreachable, ReadFails, GracefulRemoval
<1>8. CASE (\E r \in late : Land(r)) \/ Others \/ Killed
  BY <1>8 DEF Land, Others, Becomes, Killed
<1> QED
  BY <1>1, <1>2, <1>3, <1>4, <1>5, <1>6, <1>7, <1>8 DEF Next, Handler

\* A handler returns: it has recorded what it met, found it still there, dropped it
\* with a warning or because it met none, or failed and changed nothing.
LEMMA ReturningWays ==
    ASSUME IInv, Next, Returning
    PROVE  /\ faults' = faults /\ obj' \in Present \union {None}
           /\ \/ op \in {"create", "import"} /\ held' # None /\ \E o \in Present : Met(o)
              \/ op \in {"read", "update"} /\ held # None /\ held' # None /\ diag' = "ok"
                 /\ \E o \in Present : Met(o)
              \/ op \in {"read", "delete"} /\ held' = None /\ diag' \in {"ok", "warning"}
                 /\ (diag' = "ok" => Met(None) \/ "misread" \in faults)
              \/ (held' = None <=> held = None) /\ diag' \in {"error", "exists"}
<1> USE ValuesAssumption DEF IInv, TypeOK, Progress, Present, Handlers, Returning, fixed, cluster,
        state, Nothing, Prior, Return, Abort, Then, Still, Met, Calling, Mutating, Reading
<1>1. CASE Terraform
  BY <1>1 DEF Terraform, Create, Update, UpdateLocal, Import, Read, Delete, Begin
<1>2. CASE Created \/ AlreadyExists
  BY <1>2, ProcessTyped DEF Created, AlreadyExists, Process, Effect, Request
<1>3. CASE Updated \/ UpdatedNothing
  BY <1>3, ProcessTyped DEF Updated, UpdatedNothing, Process, Effect, Request
<1>4. CASE Deleted
  BY <1>4, ProcessTyped DEF Deleted, GracefulRemoval, Process, Effect, Request
<1>5. CASE Resend \/ Transient \/ Fails \/ Refused
  BY <1>5 DEF Resend, Transient, Fails, Refused, Astray, GracefulRemoval
<1>6. CASE ProbeHit \/ ProbeMiss \/ Adopt \/ AdoptFails
  BY <1>6 DEF ProbeHit, ProbeMiss, Adopt, AdoptFails
<1>7. CASE ReadBack \/ ReadBackFails \/ Configured
  BY <1>7 DEF ReadBack, ReadBackFails, Configured, Unreported
<1>8. CASE ConfigFails
  BY <1>8 DEF ConfigFails
<1>9. CASE Found
  BY <1>9 DEF Found
<1>10. CASE NotFound \/ Unreachable \/ ReadFails
  BY <1>10 DEF NotFound, Unreachable, ReadFails, GracefulRemoval
<1>11. CASE (\E r \in late : Land(r)) \/ Others \/ Killed
  BY <1>11 DEF Land, Others, Becomes, Killed
<1>12. CASE Partitioned \/ PartitionsFail
  BY <1>12 DEF Partitioned, PartitionsFail
<1> QED
  BY <1>1, <1>2, <1>3, <1>4, <1>5, <1>6, <1>7, <1>8, <1>9, <1>10, <1>11, <1>12 DEF Next, Handler

\* The abstract state of a resource, as the refinement maps it.
InState == IF held = None THEN "no" ELSE "yes"
Seen    == IF op = "idle" THEN {} ELSE {Presence(o) : o \in was}
Said    == IF diag = "exists" THEN "error" ELSE diag
Misled  == "misread" \in faults

\* What a handler has met it has seen.
LEMMA MetSeen ==
    ASSUME op # "idle", NEW o, Met(o)
    PROVE  Presence(o) \in Seen \union {Presence(obj)'}
BY DEF Met, Seen, Presence

\* Every step is one of Resource, or one it does not see.
LEMMA StepRefines ==
    ASSUME IInv, Next
    PROVE  Promise!Next \/ UNCHANGED Promise!vars
<1> USE ValuesAssumption
<1> DEFINE there == Presence(obj)
<1>1. there \in {"present", "absent"} /\ op \in Handlers \union {"idle"}
  BY DEF Presence, IInv, TypeOK
<1>2. CASE op = "idle" /\ op' # "idle"
  <2>1. /\ op' \in Handlers /\ Said' = "ok" /\ Seen' = {there}
        /\ InState = IF op' \in {"create", "import"} THEN "no" ELSE "yes"
        /\ UNCHANGED <<there, InState, Misled>>
    BY <1>2, Starting DEF Said, Seen, InState, Misled, Presence
  <2>2. Promise!Start(op')
    BY <1>2, <2>1 DEF Promise!Start, Said, Seen, InState, Misled
  <2> QED
    BY <2>1, <2>2 DEF Promise!Next, Promise!Handlers, Handlers
<1>3. CASE op = "idle" /\ op' = "idle"
  <2>1. /\ there' \in {"present", "absent"} /\ Seen' = {} /\ Seen = {}
        /\ UNCHANGED <<InState, Misled>>
    BY <1>3, Idling DEF Seen, InState, Misled, Presence
  <2>2. CASE UNCHANGED diag
    <3>1. UNCHANGED Said
      BY <2>2 DEF Said
    <3>2. CASE there' = there
      BY <1>3, <2>1, <3>1, <3>2 DEF Promise!vars, Said, Seen, InState, Misled
    <3>3. CASE there' # there
      <4>1. Promise!Change
        BY <1>3, <2>1, <3>1, <3>3 DEF Promise!Change, Said, Seen, InState, Misled
      <4> QED
        BY <4>1 DEF Promise!Next
    <3> QED
      BY <3>2, <3>3
  <2>3. CASE held # None /\ diag' \in {"ok", "error"} /\ UNCHANGED obj
    <3>1. InState = "yes" /\ Said' \in Promise!Reports /\ there' = there
      BY <2>3 DEF InState, Said, Presence, Promise!Reports
    <3>2. Promise!Local(Said')
      BY <1>3, <2>1, <3>1 DEF Promise!Local, Said, Seen, InState, Misled
    <3> QED
      BY <3>1, <3>2 DEF Promise!Next
  <2> QED
    BY <1>3, <2>2, <2>3, Idling
<1>4. CASE op # "idle" /\ op' # "idle"
  <2>1. /\ UNCHANGED <<InState, Misled, Said, op>> /\ was' = was \union {obj'}
    BY <1>4, Continuing DEF InState, Misled, Said
  <2>2. Seen' = Seen \union {there'}
    BY <1>4, <2>1 DEF Seen, Presence
  <2>3. there \in Seen /\ there' \in {"present", "absent"}
    BY <1>4 DEF Seen, Presence, IInv, Progress
  <2>4. CASE there' = there
    <3>1. UNCHANGED Seen
      BY <2>2, <2>3, <2>4
    <3> QED
      BY <2>1, <2>4, <3>1 DEF Promise!vars, Said, Seen, InState, Misled
  <2>5. CASE there' # there
    <3>1. Promise!Change
      BY <1>4, <2>1, <2>2, <2>3, <2>5 DEF Promise!Change, Said, Seen, InState, Misled
    <3> QED
      BY <3>1 DEF Promise!Next
  <2> QED
    BY <2>4, <2>5
<1>5. CASE op # "idle" /\ op' = "idle"
  <2>1. /\ there' \in {"present", "absent"} /\ Seen' = {} /\ UNCHANGED Misled
    BY <1>5, ReturningWays DEF Returning, Seen, Misled, Presence
  <2>2. \A r : Said' = r => Promise!Return(op, r)
    BY <1>5, <2>1 DEF Promise!Return, Said, Seen, Misled
  <2>3. (\E o \in Present : Met(o)) => Promise!Saw("present")
    <3> SUFFICES ASSUME NEW o \in Present, Met(o) PROVE Promise!Saw("present")
      OBVIOUS
    <3>1. Presence(o) = "present"
      BY DEF Presence, Present
    <3> QED
      BY <1>5, <3>1, MetSeen DEF Promise!Saw, Seen
  <2>4. Met(None) => Promise!Saw("absent")
    BY <1>5, MetSeen DEF Promise!Saw, Seen, Presence
  <2>5. CASE op \in {"create", "import"} /\ held' # None /\ \E o \in Present : Met(o)
    <3>1. Said' \in Promise!Reports /\ InState' = "yes"
      BY <2>5, Step DEF IInv, TypeOK, Said, InState, Promise!Reports
    <3>2. Promise!Remember(Said')
      BY <2>2, <2>3, <2>5, <3>1 DEF Promise!Remember, InState
    <3> QED
      BY <3>1, <3>2 DEF Promise!Next
  <2>6. CASE op \in {"read", "update"} /\ held # None /\ held' # None /\ diag' = "ok"
             /\ \E o \in Present : Met(o)
    <3>1. Said' = "ok" /\ UNCHANGED InState
      BY <2>6 DEF Said, InState
    <3>2. Promise!Confirm
      BY <2>2, <2>3, <2>6, <3>1 DEF Promise!Confirm, InState
    <3> QED
      BY <3>2 DEF Promise!Next
  <2>7. CASE op \in {"read", "delete"} /\ held' = None /\ diag' \in {"ok", "warning"}
             /\ (diag' = "ok" => Met(None) \/ "misread" \in faults)
    <3>1. /\ Said' \in {"ok", "warning"} /\ InState' = "no"
          /\ Said' = "ok" => Promise!Saw("absent") \/ Misled
      BY <2>4, <2>7 DEF Said, InState, Misled
    <3>2. Promise!Forget(Said')
      BY <2>2, <2>7, <3>1 DEF Promise!Forget, InState, Misled
    <3> QED
      BY <3>1, <3>2 DEF Promise!Next
  <2>8. CASE (held' = None <=> held = None) /\ diag' \in {"error", "exists"}
    <3>1. Said' = "error" /\ UNCHANGED InState
      BY <2>8 DEF Said, InState
    <3>2. Promise!Fail("error")
      BY <1>1, <1>5, <2>2, <3>1 DEF Promise!Fail, Promise!Handlers, Handlers, InState
    <3> QED
      BY <3>2 DEF Promise!Next
  <2> QED
    BY <1>5, <2>5, <2>6, <2>7, <2>8, ReturningWays DEF Returning
<1> QED
  BY <1>2, <1>3, <1>4, <1>5

\* The four resources of a cluster keep the promises of Resource, for any
\* interleaving with lost, resent and late requests and with other users.
THEOREM Refinement == Spec => Implements
<1>1. Init => Promise!Init
  BY DEF Init, Promise!Init, Presence, Nothing
<1>2. IInv /\ [Next]_vars => [Promise!Next]_(Promise!vars)
  <2> SUFFICES ASSUME IInv, UNCHANGED vars PROVE UNCHANGED Promise!vars
    BY StepRefines
  <2> QED
    BY DEF vars, fixed, Promise!vars, Presence
<1> QED
  BY <1>1, <1>2, Invariance, PTL DEF Spec, Implements, Promise!Spec

===============================================================================
