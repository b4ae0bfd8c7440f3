----------------------- MODULE OperationResourceProofs -----------------------
(***************************************************************************)
(* OperationResource's action properties for every bound on the silent     *)
(* polls, and that it implements Resource. The invariant ties the          *)
(* operation a handler waits for to the control plane's work, which is     *)
(* what makes a completed operation mean something.                        *)
(***************************************************************************)
EXTENDS OperationResource, TLAPS

\* Work that ends while no handler waits for its operation keeps the invariant.
LEMMA Unheard ==
    ASSUME IInv, oper # "running",
           st' \in {"none", "ready", "failed"}, work' = "none",
           was' = was \union {st'},
           UNCHANGED <<oper, kind, faults, held, allow, wish, op, at, quiet, diag>>
    PROVE  IInv'
<1>1. TypeOK'
  BY DEF IInv, TypeOK, Exists
<1>2. Progress'
  BY DEF IInv, TypeOK, Progress
<1> QED
  BY <1>1, <1>2 DEF IInv

\* Every step keeps the inductive invariant.
LEMMA Step == IInv /\ [Next]_vars => IInv'
<1> SUFFICES ASSUME IInv, [Next]_vars PROVE IInv'
  OBVIOUS
<1> USE StuckCapAssumption
    DEF IInv, TypeOK, Progress, Kinds, Exists, Calling, Reading, Waiting,
        fixed, Return, Abort, Gone, Still, Then, WaitFails
<1>1. CASE \E w \in {"true", "false"} : Create(w)
  BY <1>1 DEF Create, Begin
<1>2. CASE Read
  BY <1>2 DEF Read, Begin
<1>3. CASE Import
  BY <1>3 DEF Import, Begin
<1>4. CASE Update
  BY <1>4 DEF Update, Begin
<1>5. CASE Delete
  BY <1>5 DEF Delete, Begin
<1>6. CASE DeleteRefused
  BY <1>6 DEF DeleteRefused
<1>7. CASE CreateAccepted
  BY <1>7 DEF CreateAccepted, Accepted
<1>8. CASE UpdateAccepted
  BY <1>8 DEF UpdateAccepted, Accepted
<1>9. CASE DeleteAccepted
  BY <1>9 DEF DeleteAccepted, Accepted
<1>10. CASE UpdateSkipped
  BY <1>10 DEF UpdateSkipped
<1>11. CASE DeleteNotFound
  BY <1>11 DEF DeleteNotFound
<1>12. CASE CallFails
  <2>1. CASE Still
    BY <1>12, <2>1 DEF CallFails, Accepted
  <2>2. CASE op = "create" /\ Accepted("creating", "create")
    BY <1>12, <2>2 DEF CallFails, Accepted
  <2>3. CASE op = "update" /\ Accepted("ready", "update")
    BY <1>12, <2>3 DEF CallFails, Accepted
  <2>4. CASE op = "delete" /\ Accepted("deleting", "delete")
    BY <1>12, <2>4 DEF CallFails, Accepted
  <2> QED
    BY <1>12, <2>1, <2>2, <2>3, <2>4 DEF CallFails, Accepted
<1>13. CASE ReadNotFound
  BY <1>13 DEF ReadNotFound
<1>14. CASE ReadDeleting
  BY <1>14 DEF ReadDeleting
<1>15. CASE Done
  BY <1>15 DEF Done
<1>16. CASE OperationFailed
  BY <1>16 DEF OperationFailed
<1>17. CASE Running
  BY <1>17 DEF Running
<1>18. CASE Transient
  BY <1>18 DEF Transient
<1>19. CASE PollFails
  BY <1>19 DEF PollFails
<1>20. CASE ReadBack
  BY <1>20 DEF ReadBack
<1>21. CASE ReadBackFails
  BY <1>21 DEF ReadBackFails
<1>22. CASE Killed
  BY <1>22 DEF Killed
<1>23. CASE ReadFound
  BY <1>23 DEF ReadFound, Flattened
<1>24. CASE WorkDone
  <2>1. CASE work = "create" /\ oper = "running"
    BY <1>24, <2>1 DEF WorkDone, Becomes
  <2>2. CASE work = "update" /\ oper = "running"
    BY <1>24, <2>2 DEF WorkDone, Becomes
  <2>3. CASE work = "delete" /\ oper = "running"
    BY <1>24, <2>3 DEF WorkDone, Becomes
  <2>4. CASE oper # "running"
    BY <1>24, Unheard, <2>4 DEF WorkDone, Becomes
  <2> QED
    BY <1>24, <2>1, <2>2, <2>3, <2>4 DEF WorkDone, Becomes
<1>25. CASE WorkFails
  <2>1. CASE work = "create" /\ st' = "none" /\ oper = "running"
    BY <1>25, <2>1 DEF WorkFails, Becomes
  <2>2. CASE work = "create" /\ st' = "failed" /\ oper = "running"
    BY <1>25, <2>2 DEF WorkFails, Becomes
  <2>3. CASE work = "delete" /\ oper = "running"
    BY <1>25, <2>3 DEF WorkFails, Becomes
  <2>4. CASE work = "update" /\ st = "ready" /\ oper = "running"
    BY <1>25, <2>4 DEF WorkFails, Becomes
  <2>5. CASE oper # "running"
    BY <1>25, Unheard, <2>5 DEF WorkFails, Becomes
  <2> QED
    BY <1>25, <2>1, <2>2, <2>3, <2>4, <2>5 DEF WorkFails, Becomes
<1>26. CASE OthersDelete
  BY <1>26 DEF OthersDelete, Becomes
<1>27. CASE UNCHANGED vars
  BY <1>27 DEF vars, entity, state
<1> QED
  BY <1>1, <1>2, <1>3, <1>4, <1>5, <1>6, <1>7, <1>8, <1>9, <1>10, <1>11, <1>12, <1>13, <1>14, <1>15, <1>16, <1>17, <1>18, <1>19, <1>20, <1>21, <1>22, <1>23, <1>24, <1>25, <1>26, <1>27 DEF Next, Starts, Calls, Answers

\* Types, where the handlers are, and what their operations say of the entity.
THEOREM Invariance == Spec => []IInv
<1>1. Init => IInv
  BY StuckCapAssumption DEF Init, IInv, TypeOK, Progress, Kinds, Exists
<1> QED
  BY <1>1, Step, PTL DEF Spec

\* The ways a Create comes back: with what it read back, with the partial state,
\* with an error before it had an id, with nothing (a shadow link that cannot be
\* read back), or killed.
LEMMA CreateReturns ==
    ASSUME IInv, Next, Returns("create")
    PROVE  /\ kind' = kind
           /\ \/ diag' = "ok" /\ held' = "full" /\ allow' = wish /\ at = "readback"
              \/ diag' = "error" /\ held' = "partial" /\ allow' = "null"
              \/ diag' = "error" /\ held' = "none" /\ at = "call"
              \/ diag' = "error" /\ held' = "none" /\ kind = "shadowlink" /\ at = "readback"
              \/ diag' = "killed" /\ held' = "none"
<1> USE DEF IInv, TypeOK, Progress, Returns, Calling, Reading, Waiting, fixed, Return, Abort,
        Gone, Still, Then, WaitFails
<1>1. CASE Starts
  BY <1>1 DEF Starts, Create, Read, Import, Update, Delete, DeleteRefused, Begin
<1>2. CASE CreateAccepted \/ UpdateAccepted \/ UpdateSkipped \/ DeleteAccepted
  BY <1>2 DEF CreateAccepted, UpdateAccepted, UpdateSkipped, DeleteAccepted
<1>3. CASE DeleteNotFound \/ CallFails
  BY <1>3 DEF DeleteNotFound, CallFails
<1>4. CASE ReadNotFound \/ ReadFound \/ ReadDeleting
  BY <1>4 DEF ReadNotFound, ReadFound, ReadDeleting
<1>5. CASE Answers
  BY <1>5 DEF Answers, Done, OperationFailed, Running
<1>6. CASE Transient \/ PollFails \/ Killed
  BY <1>6 DEF Transient, PollFails, Killed
<1>7. CASE ReadBack \/ ReadBackFails
  BY <1>7 DEF ReadBack, ReadBackFails
<1>8. CASE WorkDone \/ WorkFails \/ OthersDelete
  BY <1>8 DEF WorkDone, WorkFails, OthersDelete, Becomes
<1> QED
  BY <1>1, <1>2, <1>3, <1>4, <1>5, <1>6, <1>7, <1>8 DEF Next, Calls

\* Where every answer names an operation, a Create that reports success saw the
\* entity ready.
THEOREM CreatedOnlyWhenReady == Spec => CreatedWhenReady
<1>1. IInv /\ [Next]_vars =>
        [Returns("create") /\ diag' = "ok" /\ "empty" \notin faults
         => "ready" \in was /\ allow' = wish]_vars
  <2> SUFFICES ASSUME IInv, Next, Returns("create"), diag' = "ok",
                      "empty" \notin faults
               PROVE  "ready" \in was /\ allow' = wish
    OBVIOUS
  <2> QED
    BY CreateReturns DEF IInv, Progress, Returns
<1> QED
  BY <1>1, Invariance, PTL DEF Spec, CreatedWhenReady

\* An entity is in the state once its id is known, but for a shadow link that
\* cannot be read back.
THEOREM NoOrphan == Spec => Tracked
<1>1. IInv /\ [Next]_vars =>
        [/\ Returns("create") /\ at # "call" /\ diag' # "killed"
         /\ kind = "shadowlink" => at # "readback"
         => held' # "none" \/ "none" \in was]_vars
  <2> SUFFICES ASSUME IInv, Next, Returns("create"), at # "call", diag' # "killed",
                      kind = "shadowlink" => at # "readback"
               PROVE  held' # "none" \/ "none" \in was
    OBVIOUS
  <2> QED
    BY CreateReturns DEF IInv, TypeOK
<1> QED
  BY <1>1, Invariance, PTL DEF Spec, Tracked

\* A network and a shadow link left behind by a failed Create can be destroyed.
THEOREM FailedCanBeDeleted == Spec => FailedNetworkIsDeletable
<1>1. IInv /\ IInv' /\ [Next]_vars =>
        [Returns("create") /\ diag' = "error" /\ held' # "none"
         /\ kind \in {"network", "shadowlink"} => Deletable']_vars
  <2> SUFFICES ASSUME IInv, IInv', Next, Returns("create"), diag' = "error",
                      held' # "none", kind \in {"network", "shadowlink"}
               PROVE  Deletable'
    OBVIOUS
  <2>1. allow' = "null" /\ kind' \in {"network", "shadowlink"}
    BY CreateReturns
  <2> QED
    BY <2>1 DEF Deletable
<1> QED
  BY <1>1, Invariance, PTL DEF Spec, FailedNetworkIsDeletable

-------------------------------------------------------------------------------
(* OperationResource implements Resource: what each kind of step does, in    *)
(* terms of the resource, and the step of Resource it is.                  *)

\* The handlers there are.
Handlers == {"create", "read", "import", "update", "delete"}

\* What the running handler has met, its last call included.
Met(s) == s \in was \union {st'}

\* A handler starts.
LEMMA Starting ==
    ASSUME IInv, Next, op = "idle", op' # "idle"
    PROVE  /\ op' \in Handlers /\ diag' = "ok" /\ was' = {st}
           /\ held = "none" <=> op' \in {"create", "import"}
           /\ UNCHANGED <<faults, st, held>>
<1> USE DEF IInv, TypeOK, Progress, Handlers, Exists, Calling, Reading, Waiting, fixed, entity, state,
        Return, Abort, Gone, Still, Then, WaitFails
<1>1. CASE Starts
  BY <1>1 DEF Starts, Create, Read, Import, Update, Delete, DeleteRefused, Begin
<1>2. CASE CreateAccepted \/ UpdateAccepted \/ UpdateSkipped \/ DeleteAccepted
  BY <1>2 DEF CreateAccepted, UpdateAccepted, UpdateSkipped, DeleteAccepted, Accepted
<1>3. CASE DeleteNotFound \/ CallFails
  BY <1>3 DEF DeleteNotFound, CallFails
<1>4. CASE ReadNotFound \/ ReadFound \/ ReadDeleting
  BY <1>4 DEF ReadNotFound, ReadFound, ReadDeleting
<1>5. CASE Answers
  BY <1>5 DEF Answers, Done, OperationFailed, Running
<1>6. CASE Transient \/ PollFails \/ Killed
  BY <1>6 DEF Transient, PollFails, Killed
<1>7. CASE ReadBack \/ ReadBackFails
  BY <1>7 DEF ReadBack, ReadBackFails
<1>8. CASE WorkDone \/ WorkFails \/ OthersDelete
  BY <1>8 DEF WorkDone, WorkFails, OthersDelete, Becomes
<1> QED
  BY <1>1, <1>2, <1>3, <1>4, <1>5, <1>6, <1>7, <1>8 DEF Next, Calls

\* No handler runs: Terraform keeps what it has, and what it tracks comes and goes.
LEMMA Idling ==
    ASSUME IInv, Next, op = "idle", op' = "idle"
    PROVE  /\ UNCHANGED <<faults, held>>
           /\ \/ UNCHANGED diag
              \/ held # "none" /\ diag' = "error" /\ UNCHANGED st
<1> USE DEF IInv, TypeOK, Progress, Handlers, Exists, Calling, Reading, Waiting, fixed, entity, state,
        Return, Abort, Gone, Still, Then, WaitFails
<1>1. CASE Starts
  BY <1>1 DEF Starts, Create, Read, Import, Update, Delete, DeleteRefused, Begin
<1>2. CASE CreateAccepted \/ UpdateAccepted \/ UpdateSkipped \/ DeleteAccepted
  BY <1>2 DEF CreateAccepted, UpdateAccepted, UpdateSkipped, DeleteAccepted, Accepted
<1>3. CASE DeleteNotFound \/ CallFails
  BY <1>3 DEF DeleteNotFound, CallFails
<1>4. CASE ReadNotFound \/ ReadFound \/ ReadDeleting
  BY <1>4 DEF ReadNotFound, ReadFound, ReadDeleting
<1>5. CASE Answers
  BY <1>5 DEF Answers, Done, OperationFailed, Running
<1>6. CASE Transient \/ PollFails \/ Killed
  BY <1>6 DEF Transient, PollFails, Killed
<1>7. CASE ReadBack \/ ReadBackFails
  BY <1>7 DEF ReadBack, ReadBackFails
<1>8. CASE WorkDone \/ WorkFails \/ OthersDelete
  BY <1>8 DEF WorkDone, WorkFails, OthersDelete, Becomes
<1> QED
  BY <1>1, <1>2, <1>3, <1>4, <1>5, <1>6, <1>7, <1>8 DEF Next, Calls

\* A handler goes on, and takes note of what becomes of what it waits for.
LEMMA Continuing ==
    ASSUME IInv, Next, op # "idle", op' # "idle"
    PROVE  /\ UNCHANGED <<faults, held, op, diag>>
           /\ \/ was' = was \union {st'}
              \/ op = "create" /\ st = "none" /\ st' # "none" /\ was' = {st'}
<1> USE DEF IInv, TypeOK, Progress, Handlers, Exists, Calling, Reading, Waiting, fixed, entity, state,
        Return, Abort, Gone, Still, Then, WaitFails
<1>1. CASE Starts
  BY <1>1 DEF Starts, Create, Read, Import, Update, Delete, DeleteRefused, Begin
<1>2. CASE CreateAccepted \/ UpdateAccepted \/ UpdateSkipped \/ DeleteAccepted
  BY <1>2 DEF CreateAccepted, UpdateAccepted, UpdateSkipped, DeleteAccepted, Accepted
<1>3. CASE DeleteNotFound \/ CallFails
  BY <1>3 DEF DeleteNotFound, CallFails
<1>4. CASE ReadNotFound \/ ReadFound \/ ReadDeleting
  BY <1>4 DEF ReadNotFound, ReadFound, ReadDeleting
<1>5. CASE Answers
  BY <1>5 DEF Answers, Done, OperationFailed, Running
<1>6. CASE Transient \/ PollFails \/ Killed
  BY <1>6 DEF Transient, PollFails, Killed
<1>7. CASE ReadBack \/ ReadBackFails
  BY <1>7 DEF ReadBack, ReadBackFails
<1>8. CASE WorkDone \/ WorkFails \/ OthersDelete
  BY <1>8 DEF WorkDone, WorkFails, OthersDelete, Becomes
<1> QED
  BY <1>1, <1>2, <1>3, <1>4, <1>5, <1>6, <1>7, <1>8 DEF Next, Calls

\* A handler returns: it has recorded what it met, found it still there, dropped it
\* with a warning or because it met none, found nothing to import, or failed and
\* changed nothing.
LEMMA ReturningWays ==
    ASSUME IInv, Next, op # "idle", op' = "idle"
    PROVE  /\ faults' = faults
           /\ \/ op \in {"create", "import"} /\ held' # "none" /\ \E s \in Exists : Met(s)
              \/ op \in {"read", "update"} /\ held # "none" /\ held' # "none" /\ diag' = "ok"
                 /\ \E s \in Exists : Met(s)
              \/ op \in {"read", "delete"} /\ held' = "none" /\ diag' \in {"ok", "warning"}
                 /\ (diag' = "ok" => Met("none") \/ faults # {})
              \/ op = "import" /\ held = "none" /\ held' = "none" /\ diag' = "ok"
                 /\ (Met("none") \/ faults # {})
              \/ (held' = "none" <=> held = "none") /\ diag' \in {"error", "killed", "warning"}
<1> USE DEF IInv, TypeOK, Progress, Handlers, Exists, Calling, Reading, Waiting, fixed, entity, state,
        Return, Abort, Gone, Still, Then, WaitFails, Met, NotFound, Kinds
<1>met. st \in Exists /\ op # "idle" => \E s \in Exists : Met(s)
  OBVIOUS
<1>none. NotFound /\ Still => Met("none") \/ faults # {}
  <2>1. CASE st = "none"
    BY <2>1
  <2>2. CASE "misread" \in faults
    BY <2>2
  <2> QED
    BY <2>1, <2>2
<1>1. CASE Starts
  BY <1>1 DEF Starts, Create, Read, Import, Update, Delete, DeleteRefused, Begin
<1>2. CASE CreateAccepted \/ UpdateAccepted \/ UpdateSkipped \/ DeleteAccepted
  BY <1>2 DEF CreateAccepted, UpdateAccepted, UpdateSkipped, DeleteAccepted, Accepted
<1>3. CASE DeleteNotFound \/ CallFails
  BY <1>3 DEF DeleteNotFound, CallFails
<1>4. CASE ReadNotFound \/ ReadFound \/ ReadDeleting
  <2>1. CASE ReadNotFound
    BY <1>none, <2>1 DEF ReadNotFound
  <2>2. CASE ReadFound
    BY <1>met, <2>2 DEF ReadFound
  <2>3. CASE ReadDeleting
    BY <1>met, <2>3 DEF ReadDeleting
  <2> QED
    BY <1>4, <2>1, <2>2, <2>3
<1>5. CASE Answers
  BY <1>5, <1>met DEF Answers, Done, OperationFailed, Running
<1>6. CASE Transient \/ PollFails \/ Killed
  BY <1>6, <1>met DEF Transient, PollFails, Killed
<1>7. CASE ReadBack \/ ReadBackFails
  BY <1>7, <1>met DEF ReadBack, ReadBackFails
<1>8. CASE WorkDone \/ WorkFails \/ OthersDelete
  BY <1>8 DEF WorkDone, WorkFails, OthersDelete, Becomes
<1> QED
  BY <1>1, <1>2, <1>3, <1>4, <1>5, <1>6, <1>7, <1>8 DEF Next, Calls

\* The abstract state of a resource, as the refinement maps it.
InState == IF held = "none" THEN "no" ELSE "yes"
Seen    == IF op = "idle" THEN {} ELSE {Presence(s) : s \in was}
Said    == IF diag = "killed" THEN "error" ELSE diag
Misled  == faults # {}

\* What a handler has met it has seen.
LEMMA MetSeen ==
    ASSUME op # "idle", NEW s, Met(s)
    PROVE  Presence(s) \in Seen \union {Presence(st)'}
BY DEF Met, Seen, Presence

\* Every step is one of Resource, or one it does not see.
LEMMA StepRefines ==
    ASSUME IInv, Next
    PROVE  Promise!Next \/ UNCHANGED Promise!vars
<1> DEFINE there == Presence(st)
<1>1. there \in {"present", "absent"} /\ op \in Handlers \union {"idle"}
  BY DEF Presence, IInv, TypeOK, Handlers
<1>2. CASE op = "idle" /\ op' # "idle"
  <2>1. /\ op' \in Handlers /\ Said' = "ok" /\ Seen' = {there}
        /\ InState = IF op' \in {"create", "import"} THEN "no" ELSE "yes"
        /\ UNCHANGED <<there, InState, Misled>>
    BY <1>2, Starting DEF Said, Seen, InState, Misled, Presence
  <2>2. Promise!Start(op')
    BY <1>2, <2>1 DEF Promise!Start, Said, Seen, InState, Misled
  <2> QED
    BY <2>1, <2>2 DEF Promise!Next, Promise!Handlers, Handlers
<1>3. CASE op = "idle" /\ op' = "idle"
  <2>1. /\ there' \in {"present", "absent"} /\ Seen' = {} /\ Seen = {}
        /\ UNCHANGED <<InState, Misled>>
    BY <1>3, Idling DEF Seen, InState, Misled, Presence
  <2>2. CASE UNCHANGED diag
    <3>1. UNCHANGED Said
      BY <2>2 DEF Said
    <3>2. CASE there' = there
      BY <1>3, <2>1, <3>1, <3>2 DEF Promise!vars, Said, Seen, InState, Misled
    <3>3. CASE there' # there
      <4>1. Promise!Change
        BY <1>3, <2>1, <3>1, <3>3 DEF Promise!Change, Said, Seen, InState, Misled
      <4> QED
        BY <4>1 DEF Promise!Next
    <3> QED
      BY <3>2, <3>3
  <2>3. CASE held # "none" /\ diag' = "error" /\ UNCHANGED st
    <3>1. InState = "yes" /\ Said' \in Promise!Reports /\ there' = there
      BY <2>3 DEF InState, Said, Presence, Promise!Reports
    <3>2. Promise!Local(Said')
      BY <1>3, <2>1, <3>1 DEF Promise!Local, Said, Seen, InState, Misled
    <3> QED
      BY <3>1, <3>2 DEF Promise!Next
  <2> QED
    BY <1>3, <2>2, <2>3, Idling
<1>4. CASE op # "idle" /\ op' # "idle"
  <2>1. UNCHANGED <<InState, Misled, Said, op>>
    BY <1>4, Continuing DEF InState, Misled, Said
  <2>2. there \in Seen /\ there' \in {"present", "absent"}
    BY <1>4 DEF Seen, Presence, IInv, Progress
  <2>3. CASE was' = was \union {st'}
    <3>1. Seen' = Seen \union {there'}
      BY <1>4, <2>1, <2>3 DEF Seen, Presence
    <3>2. CASE there' = there
      <4>1. UNCHANGED Seen
        BY <2>2, <3>1, <3>2
      <4> QED
        BY <2>1, <3>2, <4>1 DEF Promise!vars, Said, Seen, InState, Misled
    <3>3. CASE there' # there
      <4>1. Promise!Change
        BY <1>4, <2>1, <2>2, <3>1, <3>3 DEF Promise!Change, Said, Seen, InState, Misled
      <4> QED
        BY <4>1 DEF Promise!Next
    <3> QED
      BY <3>2, <3>3
  <2>4. CASE op = "create" /\ st = "none" /\ st' # "none" /\ was' = {st'}
    <3>1. there = "absent" /\ there' = "present" /\ Seen' = {"present"}
      BY <1>4, <2>4 DEF Seen, Presence
    <3>2. Promise!Accept
      BY <1>4, <2>1, <2>4, <3>1 DEF Promise!Accept, Said, Seen, InState, Misled
    <3> QED
      BY <3>2 DEF Promise!Next
  <2> QED
    BY <1>4, <2>3, <2>4, Continuing
<1>5. CASE op # "idle" /\ op' = "idle"
  <2>1. /\ there' \in {"present", "absent"} /\ Seen' = {} /\ UNCHANGED Misled
    BY <1>5, ReturningWays DEF Seen, Misled, Presence
  <2>2. \A r : Said' = r => Promise!Return(op, r)
    BY <1>5, <2>1 DEF Promise!Return, Said, Seen, Misled
  <2>3. (\E s \in Exists : Met(s)) => Promise!Saw("present")
    <3> SUFFICES ASSUME NEW s \in Exists, Met(s) PROVE Promise!Saw("present")
      OBVIOUS
    <3>1. Presence(s) = "present"
      BY DEF Presence, Exists
    <3> QED
      BY <1>5, <3>1, MetSeen DEF Promise!Saw, Seen
  <2>4. Met("none") => Promise!Saw("absent")
    BY <1>5, MetSeen DEF Promise!Saw, Seen, Presence
  <2>5. CASE op \in {"create", "import"} /\ held' # "none" /\ \E s \in Exists : Met(s)
    <3>1. Said' \in Promise!Reports /\ InState' = "yes"
      BY <2>5, Step DEF IInv, TypeOK, Said, InState, Promise!Reports
    <3>2. Promise!Remember(Said')
      BY <2>2, <2>3, <2>5, <3>1 DEF Promise!Remember, InState
    <3> QED
      BY <3>1, <3>2 DEF Promise!Next
  <2>6. CASE op \in {"read", "update"} /\ held # "none" /\ held' # "none" /\ diag' = "ok"
             /\ \E s \in Exists : Met(s)
    <3>1. Said' = "ok" /\ UNCHANGED InState
      BY <2>6 DEF Said, InState
    <3>2. Promise!Confirm
      BY <2>2, <2>3, <2>6, <3>1 DEF Promise!Confirm, InState
    <3> QED
      BY <3>2 DEF Promise!Next
  <2>7. CASE op \in {"read", "delete"} /\ held' = "none" /\ diag' \in {"ok", "warning"}
             /\ (diag' = "ok" => Met("none") \/ faults # {})
    <3>1. /\ Said' \in {"ok", "warning"} /\ InState' = "no"
          /\ Said' = "ok" => Promise!Saw("absent") \/ Misled
      BY <2>4, <2>7 DEF Said, InState, Misled
    <3>2. Promise!Forget(Said')
      BY <2>2, <2>7, <3>1 DEF Promise!Forget, InState, Misled
    <3> QED
      BY <3>1, <3>2 DEF Promise!Next
  <2>8. CASE op = "import" /\ held = "none" /\ held' = "none" /\ diag' = "ok"
             /\ (Met("none") \/ faults # {})
    <3>1. Said' = "ok" /\ UNCHANGED InState /\ (Promise!Saw("absent") \/ Misled)
      BY <2>4, <2>8 DEF Said, InState, Misled
    <3>2. Promise!Miss
      BY <2>2, <2>8, <3>1 DEF Promise!Miss, InState, Misled
    <3> QED
      BY <3>2 DEF Promise!Next
  <2>9. CASE (held' = "none" <=> held = "none") /\ diag' \in {"error", "killed", "warning"}
    <3>1. Said' \in {"error", "warning"} /\ UNCHANGED InState
      BY <2>9 DEF Said, InState
    <3>2. Promise!Fail(Said')
      BY <1>1, <1>5, <2>2, <3>1 DEF Promise!Fail, Promise!Handlers, Handlers, InState
    <3> QED
      BY <3>1, <3>2 DEF Promise!Next
  <2> QED
    BY <1>5, <2>5, <2>6, <2>7, <2>8, <2>9, ReturningWays
<1> QED
  BY <1>2, <1>3, <1>4, <1>5

\* The four resources with operations keep the promises of Resource, whatever becomes of
\* the operation and of its polls.
THEOREM Refinement == Spec => Implements
<1>1. Init => Promise!Init
  BY DEF Init, Promise!Init, Presence
<1>2. IInv /\ [Next]_vars => [Promise!Next]_(Promise!vars)
  <2> SUFFICES ASSUME IInv, UNCHANGED vars PROVE UNCHANGED Promise!vars
    BY StepRefines
  <2> QED
    BY DEF vars, fixed, entity, state, Promise!vars, Presence
<1> QED
  BY <1>1, <1>2, Invariance, PTL DEF Spec, Implements, Promise!Spec

===============================================================================
