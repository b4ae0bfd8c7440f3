----------------------- MODULE ClusterLifecycleProofs -----------------------
(***************************************************************************)
(* ClusterLifecycle's action properties for every bound on the transient   *)
(* errors, and that it implements Resource. What happens at the end of a   *)
(* wait follows from the place the handler is at and from the history      *)
(* holding the cluster's current state, so the invariant says both.        *)
(***************************************************************************)
EXTENDS ClusterLifecycle, TLAPS

\* Every step keeps the inductive invariant.
LEMMA Step == IInv /\ [Next]_vars => IInv'
<1> SUFFICES ASSUME IInv, [Next]_vars PROVE IInv'
  OBVIOUS
<1> USE MaxTransientAssumption DEF IInv, TypeOK, Progress, PluginDue, Exists, Deleting,
        fixed, cloud, state, polling, Return, Abort, Gone, Minimal, Then, Still, GivesUp,
        Again, Calling, Polling, Becomes
<1>1. CASE \E w \in {"true", "false"} : Create(w)
  BY <1>1 DEF Create, Begin
<1>2. CASE Read
  BY <1>2 DEF Read, Begin
<1>3. CASE Import
  BY <1>3 DEF Import, Begin
<1>4. CASE Update
  BY <1>4 DEF Update, Begin
<1>5. CASE Delete
  <2>1. CASE Begin("delete", wish)
    BY <1>5, <2>1 DEF Delete, Begin
  <2>2. CASE op = "idle" /\ Still
    BY <1>5, <2>2 DEF Delete, Begin
  <2> QED
    BY <1>5, <2>1, <2>2 DEF Delete, Begin
<1>6. CASE CreateAccepted
  BY <1>6 DEF CreateAccepted
<1>7. CASE CreateRejected
  <2>1. CASE Still
    BY <1>7, <2>1 DEF CreateRejected
  <2>2. CASE cl' = "creating" /\ was' = was \union {cl'} /\ UNCHANGED <<doomed, agent>>
    BY <1>7, <2>2 DEF CreateRejected
  <2> QED
    BY <1>7, <2>1, <2>2 DEF CreateRejected
<1>8. CASE ReadFound
  BY <1>8 DEF ReadFound
<1>9. CASE ReadNotFound
  BY <1>9 DEF ReadNotFound
<1>10. CASE \E w \in {"true", "false"} : Updated(w)
  BY <1>10 DEF Updated
<1>11. CASE DeleteNotFound
  BY <1>11 DEF DeleteNotFound
<1>12. CASE DeleteAccepted
  BY <1>12 DEF DeleteAccepted
<1>13. CASE AlreadyDeleting
  BY <1>13 DEF AlreadyDeleting
<1>14. CASE CallFails
  <2>1. CASE Still
    BY <1>14, <2>1 DEF CallFails
  <2>2. CASE doomed' = "yes" /\ UNCHANGED <<cl, agent, was>>
    BY <1>14, <2>2 DEF CallFails
  <2> QED
    BY <1>14, <2>1, <2>2 DEF CallFails
<1>15. CASE PollNotFound
  BY <1>15 DEF PollNotFound
<1>16. CASE PollWaits
  BY <1>16 DEF PollWaits
<1>17. CASE PollRunsPlugin
  BY <1>17 DEF PollRunsPlugin
<1>18. CASE PollReady
  BY <1>18 DEF PollReady
<1>19. CASE PollUnexpected
  BY <1>19 DEF PollUnexpected
<1>20. CASE PollUnavailable
  BY <1>20 DEF PollUnavailable
<1>21. CASE PollFails
  BY <1>21 DEF PollFails
<1>22. CASE PluginDone
  BY <1>22 DEF PluginDone
<1>23. CASE PluginFails
  BY <1>23 DEF PluginFails
<1>24. CASE Killed
  BY <1>24 DEF Killed
<1>25. CASE Progresses
  <2>1. CASE Becomes("creating_agent")
    BY <1>25, <2>1 DEF Progresses
  <2>2. CASE Becomes("ready")
    BY <1>25, <2>2 DEF Progresses
  <2> QED
    BY <1>25, <2>1, <2>2 DEF Progresses
<1>26. CASE CreationFails
  BY <1>26 DEF CreationFails
<1>27. CASE Deletes
  <2>1. CASE Becomes("deleting") /\ doomed' \in {"yes", "no"}
    BY <1>27, <2>1 DEF Deletes
  <2>2. CASE Becomes("deleting_agent") /\ doomed' \in {"yes", "no"}
    BY <1>27, <2>2 DEF Deletes
  <2>3. CASE Becomes("none") /\ doomed' \in {"yes", "no"}
    BY <1>27, <2>3 DEF Deletes
  <2> QED
    BY <1>27, <2>1, <2>2, <2>3 DEF Deletes
<1>28. CASE OthersDelete
  BY <1>28 DEF OthersDelete
<1>29. CASE UNCHANGED vars
  BY <1>29 DEF vars
<1> QED
  BY <1>1, <1>2, <1>3, <1>4, <1>5, <1>6, <1>7, <1>8, <1>9, <1>10, <1>11, <1>12, <1>13, <1>14, <1>15, <1>16, <1>17, <1>18, <1>19, <1>20, <1>21, <1>22, <1>23, <1>24, <1>25, <1>26, <1>27, <1>28, <1>29 DEF Next, Starts, Calls, Polls, ControlPlane

\* Types, where the handlers are, and that a half-created cluster can be destroyed.
THEOREM Invariance == Spec => []IInv
<1>1. Init => IInv
  BY MaxTransientAssumption DEF Init, IInv, TypeOK, Progress, Exists, Deleting
<1> QED
  BY <1>1, Step, PTL DEF Spec

\* The ways a Create comes back: ready, with the minimal state, with nothing
\* because the lookup said so, before it had an id, or killed.
LEMMA CreateReturns ==
    ASSUME IInv, Next, Returns("create")
    PROVE  \/ diag' = "ok" /\ held' = "full" /\ allow' = wish /\ cl = "ready"
           \/ diag' = "error" /\ held' = "minimal"
           \/ diag' = "error" /\ at # "call" /\ (NotFound \/ "denied" \in faults)
           \/ diag' = "error" /\ at = "call"
           \/ diag' = "killed"
<1> USE DEF IInv, TypeOK, Progress, Returns, Return, Abort, Gone, Minimal, Then, Still,
        GivesUp, Again, Calling, Polling, fixed, state, polling, cloud
<1>1. CASE Starts
  BY <1>1 DEF Starts, Create, Read, Import, Update, Delete, Begin
<1>2. CASE Calls
  BY <1>2 DEF Calls, CreateAccepted, CreateRejected, ReadFound, ReadNotFound, Updated,
              DeleteNotFound, DeleteAccepted, AlreadyDeleting, CallFails
<1>3. CASE Polls
  BY <1>3 DEF Polls, PollNotFound, PollWaits, PollRunsPlugin, PollReady, PollUnexpected
<1>4. CASE PollUnavailable \/ PollFails
  BY <1>4 DEF PollUnavailable, PollFails
<1>5. CASE PluginDone \/ PluginFails \/ Killed
  BY <1>5 DEF PluginDone, PluginFails, Killed
<1>6. CASE ControlPlane
  BY <1>6 DEF ControlPlane, Progresses, CreationFails, Deletes, OthersDelete, Becomes
<1> QED
  BY <1>1, <1>2, <1>3, <1>4, <1>5, <1>6 DEF Next

\* A Create that reports success saw the cluster ready and recorded its wish.
THEOREM CreatedWhenReady == Spec => Created
<1>1. IInv /\ [Next]_vars =>
        [Returns("create") /\ diag' = "ok"
         => "ready" \in was /\ held' = "full" /\ allow' = wish]_vars
  <2> SUFFICES ASSUME IInv, Next, Returns("create"), diag' = "ok"
               PROVE  "ready" \in was /\ held' = "full" /\ allow' = wish
    OBVIOUS
  <2> QED
    BY CreateReturns DEF IInv, Progress
<1> QED
  BY <1>1, Invariance, PTL DEF Spec, Created

\* Where no lookup is denied or misread, every Create that was not killed leaves
\* the cluster in the state, or the cluster was gone.
THEOREM NoOrphanWithoutFaults == Spec => CreateHolds
<1>1. IInv /\ [Next]_vars =>
        [Returns("create") /\ at # "call" /\ diag' # "killed" /\ faults = {}
         => held' # "none" \/ "none" \in was]_vars
  <2> SUFFICES ASSUME IInv, Next, Returns("create"), at # "call", diag' # "killed",
                      faults = {}
               PROVE  held' # "none" \/ "none" \in was
    OBVIOUS
  <2> QED
    BY CreateReturns DEF IInv, Progress, NotFound
<1> QED
  BY <1>1, Invariance, PTL DEF Spec, CreateHolds

\* There, a cluster leaves the state without an error only if it was gone.
THEOREM ForgottenOnlyWhenGone == Spec => ForgottenWhenGone
<1>1. IInv /\ [Next]_vars =>
        [held # "none" /\ held' = "none" /\ diag' # "error" /\ faults = {}
         => "none" \in was]_vars
  <2> SUFFICES ASSUME IInv, Next, held # "none", held' = "none", diag' # "error",
                      faults = {}
               PROVE  "none" \in was
    OBVIOUS
  <2> USE DEF IInv, TypeOK, Progress, NotFound, Return, Abort, Gone, Minimal, Then, Still,
          GivesUp, Again, Calling, Polling, fixed, state, polling, cloud
  <2>1. CASE Starts
    BY <2>1 DEF Starts, Create, Read, Import, Update, Delete, Begin
  <2>2. CASE Calls
    BY <2>2 DEF Calls, CreateAccepted, CreateRejected, ReadFound, ReadNotFound, Updated,
                DeleteNotFound, DeleteAccepted, AlreadyDeleting, CallFails
  <2>3. CASE Polls
    BY <2>3 DEF Polls, PollNotFound, PollWaits, PollRunsPlugin, PollReady, PollUnexpected
  <2>4. CASE PollUnavailable \/ PollFails
    BY <2>4 DEF PollUnavailable, PollFails
  <2>5. CASE PluginDone \/ PluginFails \/ Killed
    BY <2>5 DEF PluginDone, PluginFails, Killed
  <2>6. CASE ControlPlane
    BY <2>6 DEF ControlPlane, Progresses, CreationFails, Deletes, OthersDelete, Becomes
  <2> QED
    BY <2>1, <2>2, <2>3, <2>4, <2>5, <2>6 DEF Next
<1> QED
  BY <1>1, Invariance, PTL DEF Spec, ForgottenWhenGone

-------------------------------------------------------------------------------
(* ClusterLifecycle implements Resource: what each kind of step does, in    *)
(* terms of the resource, and the step of Resource it is.                  *)

\* The handlers there are.
Handlers == {"create", "read", "import", "update", "delete"}

\* What the running handler has met, its last call included.
Met(c) == c \in was \union {cl'}

\* A handler starts.
LEMMA Starting ==
    ASSUME IInv, Next, op = "idle", op' # "idle"
    PROVE  /\ op' \in Handlers /\ diag' = "ok" /\ was' = {cl}
           /\ held = "none" <=> op' \in {"create", "import"}
           /\ UNCHANGED <<faults, cl, held>>
<1> USE DEF IInv, TypeOK, Progress, Handlers, Exists, Deleting, Return, Abort, Gone, Minimal, Then, Still,
        GivesUp, Again, Calling, Polling, fixed, state, polling, cloud
<1>1. CASE Starts
  BY <1>1 DEF Starts, Create, Read, Import, Update, Delete, Begin
<1>2. CASE CreateAccepted \/ CreateRejected
  BY <1>2 DEF CreateAccepted, CreateRejected
<1>3. CASE ReadFound \/ ReadNotFound \/ \E w \in {"true", "false"} : Updated(w)
  BY <1>3 DEF ReadFound, ReadNotFound, Updated
<1>4. CASE DeleteNotFound \/ DeleteAccepted \/ AlreadyDeleting \/ CallFails
  BY <1>4 DEF DeleteNotFound, DeleteAccepted, AlreadyDeleting, CallFails
<1>5. CASE PollNotFound \/ PollWaits \/ PollRunsPlugin
  BY <1>5 DEF PollNotFound, PollWaits, PollRunsPlugin
<1>6. CASE PollReady \/ PollUnexpected
  BY <1>6 DEF PollReady, PollUnexpected
<1>7. CASE PollUnavailable \/ PollFails
  BY <1>7 DEF PollUnavailable, PollFails
<1>8. CASE PluginDone \/ PluginFails \/ Killed
  BY <1>8 DEF PluginDone, PluginFails, Killed
<1>9. CASE ControlPlane
  BY <1>9 DEF ControlPlane, Progresses, CreationFails, Deletes, OthersDelete, Becomes
<1> QED
  BY <1>1, <1>2, <1>3, <1>4, <1>5, <1>6, <1>7, <1>8, <1>9 DEF Next, Calls, Polls

\* No handler runs: Terraform keeps what it has, and what it tracks comes and goes.
LEMMA Idling ==
    ASSUME IInv, Next, op = "idle", op' = "idle"
    PROVE  /\ UNCHANGED <<faults, held>>
           /\ \/ UNCHANGED diag
              \/ held # "none" /\ diag' = "error" /\ UNCHANGED cl
<1> USE DEF IInv, TypeOK, Progress, Handlers, Exists, Deleting, Return, Abort, Gone, Minimal, Then, Still,
        GivesUp, Again, Calling, Polling, fixed, state, polling, cloud
<1>1. CASE Starts
  BY <1>1 DEF Starts, Create, Read, Import, Update, Delete, Begin
<1>2. CASE CreateAccepted \/ CreateRejected
  BY <1>2 DEF CreateAccepted, CreateRejected
<1>3. CASE ReadFound \/ ReadNotFound \/ \E w \in {"true", "false"} : Updated(w)
  BY <1>3 DEF ReadFound, ReadNotFound, Updated
<1>4. CASE DeleteNotFound \/ DeleteAccepted \/ AlreadyDeleting \/ CallFails
  BY <1>4 DEF DeleteNotFound, DeleteAccepted, AlreadyDeleting, CallFails
<1>5. CASE PollNotFound \/ PollWaits \/ PollRunsPlugin
  BY <1>5 DEF PollNotFound, PollWaits, PollRunsPlugin
<1>6. CASE PollReady \/ PollUnexpected
  BY <1>6 DEF PollReady, PollUnexpected
<1>7. CASE PollUnavailable \/ PollFails
  BY <1>7 DEF PollUnavailable, PollFails
<1>8. CASE PluginDone \/ PluginFails \/ Killed
  BY <1>8 DEF PluginDone, PluginFails, Killed
<1>9. CASE ControlPlane
  BY <1>9 DEF ControlPlane, Progresses, CreationFails, Deletes, OthersDelete, Becomes
<1> QED
  BY <1>1, <1>2, <1>3, <1>4, <1>5, <1>6, <1>7, <1>8, <1>9 DEF Next, Calls, Polls

\* A handler goes on, and takes note of what becomes of what it waits for.
LEMMA Continuing ==
    ASSUME IInv, Next, op # "idle", op' # "idle"
    PROVE  /\ UNCHANGED <<faults, held, op, diag>>
           /\ \/ was' = was \union {cl'}
              \/ op = "create" /\ cl = "none" /\ cl' # "none" /\ was' = {cl'}
<1> USE DEF IInv, TypeOK, Progress, Handlers, Exists, Deleting, Return, Abort, Gone, Minimal, Then, Still,
        GivesUp, Again, Calling, Polling, fixed, state, polling, cloud
<1>1. CASE Starts
  BY <1>1 DEF Starts, Create, Read, Import, Update, Delete, Begin
<1>2. CASE CreateAccepted \/ CreateRejected
  BY <1>2 DEF CreateAccepted, CreateRejected
<1>3. CASE ReadFound \/ ReadNotFound \/ \E w \in {"true", "false"} : Updated(w)
  BY <1>3 DEF ReadFound, ReadNotFound, Updated
<1>4. CASE DeleteNotFound \/ DeleteAccepted \/ AlreadyDeleting \/ CallFails
  BY <1>4 DEF DeleteNotFound, DeleteAccepted, AlreadyDeleting, CallFails
<1>5. CASE PollNotFound \/ PollWaits \/ PollRunsPlugin
  BY <1>5 DEF PollNotFound, PollWaits, PollRunsPlugin
<1>6. CASE PollReady \/ PollUnexpected
  BY <1>6 DEF PollReady, PollUnexpected
<1>7. CASE PollUnavailable \/ PollFails
  BY <1>7 DEF PollUnavailable, PollFails
<1>8. CASE PluginDone \/ PluginFails \/ Killed
  BY <1>8 DEF PluginDone, PluginFails, Killed
<1>9. CASE ControlPlane
  BY <1>9 DEF ControlPlane, Progresses, CreationFails, Deletes, OthersDelete, Becomes
<1> QED
  BY <1>1, <1>2, <1>3, <1>4, <1>5, <1>6, <1>7, <1>8, <1>9 DEF Next, Calls, Polls

\* A handler returns: it has recorded what it met, found it still there, dropped it
\* with a warning or because it met none, found nothing to import, or failed and
\* changed nothing.
LEMMA ReturningWays ==
    ASSUME IInv, Next, op # "idle", op' = "idle"
    PROVE  /\ faults' = faults
           /\ \/ op \in {"create", "import"} /\ held' # "none" /\ \E c \in Exists : Met(c)
              \/ op \in {"read", "update"} /\ held # "none" /\ held' # "none" /\ diag' = "ok"
                 /\ \E c \in Exists : Met(c)
              \/ op \in {"read", "delete"} /\ held' = "none" /\ diag' \in {"ok", "warning"}
                 /\ (diag' = "ok" => Met("none") \/ faults # {})
              \/ op = "import" /\ held = "none" /\ held' = "none" /\ diag' = "ok"
                 /\ (Met("none") \/ faults # {})
              \/ (held' = "none" <=> held = "none") /\ diag' \in {"error", "killed", "warning"}
<1> USE DEF IInv, TypeOK, Progress, Handlers, Exists, Deleting, Return, Abort, Gone, Minimal, Then, Still,
        GivesUp, Again, Calling, Polling, fixed, state, polling, cloud, Met, NotFound
<1>met. cl \in Exists /\ op # "idle" => \E c \in Exists : Met(c)
  OBVIOUS
<1>none. NotFound /\ Still => Met("none") \/ faults # {}
  <2>1. CASE cl = "none"
    BY <2>1
  <2>2. CASE "misread" \in faults
    BY <2>2
  <2> QED
    BY <2>1, <2>2
<1>1. CASE Starts
  BY <1>1 DEF Starts, Create, Read, Import, Update, Delete, Begin
<1>2. CASE CreateAccepted \/ CreateRejected
  BY <1>2 DEF CreateAccepted, CreateRejected
<1>3. CASE ReadFound \/ ReadNotFound \/ \E w \in {"true", "false"} : Updated(w)
  <2>1. CASE ReadFound
    BY <1>met, <2>1 DEF ReadFound
  <2>2. CASE ReadNotFound
    BY <1>none, <2>2 DEF ReadNotFound
  <2>3. CASE \E w \in {"true", "false"} : Updated(w)
    BY <1>met, <2>3 DEF Updated
  <2> QED
    BY <1>3, <2>1, <2>2, <2>3
<1>4. CASE DeleteNotFound \/ DeleteAccepted \/ AlreadyDeleting \/ CallFails
  BY <1>4 DEF DeleteNotFound, DeleteAccepted, AlreadyDeleting, CallFails
<1>5. CASE PollNotFound \/ PollWaits \/ PollRunsPlugin
  BY <1>5, <1>met DEF PollNotFound, PollWaits, PollRunsPlugin
<1>6. CASE PollReady \/ PollUnexpected
  BY <1>6, <1>met DEF PollReady, PollUnexpected
<1>7. CASE PollUnavailable \/ PollFails
  BY <1>7, <1>met DEF PollUnavailable, PollFails
<1>8. CASE PluginDone \/ PluginFails \/ Killed
  BY <1>8, <1>met DEF PluginDone, PluginFails, Killed
<1>9. CASE ControlPlane
  BY <1>9 DEF ControlPlane, Progresses, CreationFails, Deletes, OthersDelete, Becomes
<1> QED
  BY <1>1, <1>2, <1>3, <1>4, <1>5, <1>6, <1>7, <1>8, <1>9 DEF Next, Calls, Polls

\* The abstract state of a resource, as the refinement maps it.
InState == IF held = "none" THEN "no" ELSE "yes"
Seen    == IF op = "idle" THEN {} ELSE {Presence(c) : c \in was}
Said    == IF diag = "killed" THEN "error" ELSE diag
Misled  == faults # {}

\* What a handler has met it has seen.
LEMMA MetSeen ==
    ASSUME op # "idle", NEW c, Met(c)
    PROVE  Presence(c) \in Seen \union {Presence(cl)'}
BY DEF Met, Seen, Presence

\* Every step is one of Resource, or one it does not see.
LEMMA StepRefines ==
    ASSUME IInv, Next
    PROVE  Promise!Next \/ UNCHANGED Promise!vars
<1> DEFINE there == Presence(cl)
<1>1. there \in {"present", "absent"} /\ op \in Handlers \union {"idle"}
  BY DEF Presence, IInv, TypeOK, Handlers
<1>2. CASE op = "idle" /\ op' # "idle"
  <2>1. /\ op' \in Handlers /\ Said' = "ok" /\ Seen' = {there}
        /\ InState = IF op' \in {"create", "import"} THEN "no" ELSE "yes"
        /\ UNCHANGED <<there, InState, Misled>>
    BY <1>2, Starting DEF Said, Seen, InState, Misled, Presence
  <2>2. Promise!Start(op')
    BY <1>2, <2>1 DEF Promise!Start, Said, Seen, InState, Misled
  <2> QED
    BY <2>1, <2>2 DEF Promise!Next, Promise!Handlers, Handlers
<1>3. CASE op = "idle" /\ op' = "idle"
  <2>1. /\ there' \in {"present", "absent"} /\ Seen' = {} /\ Seen = {}
        /\ UNCHANGED <<InState, Misled>>
    BY <1>3, Idling DEF Seen, InState, Misled, Presence
  <2>2. CASE UNCHANGED diag
    <3>1. UNCHANGED Said
      BY <2>2 DEF Said
    <3>2. CASE there' = there
      BY <1>3, <2>1, <3>1, <3>2 DEF Promise!vars, Said, Seen, InState, Misled
    <3>3. CASE there' # there
      <4>1. Promise!Change
        BY <1>3, <2>1, <3>1, <3>3 DEF Promise!Change, Said, Seen, InState, Misled
      <4> QED
        BY <4>1 DEF Promise!Next
    <3> QED
      BY <3>2, <3>3
  <2>3. CASE held # "none" /\ diag' = "error" /\ UNCHANGED cl
    <3>1. InState = "yes" /\ Said' \in Promise!Reports /\ there' = there
      BY <2>3 DEF InState, Said, Presence, Promise!Reports
    <3>2. Promise!Local(Said')
      BY <1>3, <2>1, <3>1 DEF Promise!Local, Said, Seen, InState, Misled
    <3> QED
      BY <3>1, <3>2 DEF Promise!Next
  <2> QED
    BY <1>3, <2>2, <2>3, Idling
<1>4. CASE op # "idle" /\ op' # "idle"
  <2>1. UNCHANGED <<InState, Misled, Said, op>>
    BY <1>4, Continuing DEF InState, Misled, Said
  <2>2. there \in Seen /\ there' \in {"present", "absent"}
    BY <1>4 DEF Seen, Presence, IInv, Progress
  <2>3. CASE was' = was \union {cl'}
    <3>1. Seen' = Seen \union {there'}
      BY <1>4, <2>1, <2>3 DEF Seen, Presence
    <3>2. CASE there' = there
      <4>1. UNCHANGED Seen
        BY <2>2, <3>1, <3>2
      <4> QED
        BY <2>1, <3>2, <4>1 DEF Promise!vars, Said, Seen, InState, Misled
    <3>3. CASE there' # there
      <4>1. Promise!Change
        BY <1>4, <2>1, <2>2, <3>1, <3>3 DEF Promise!Change, Said, Seen, InState, Misled
      <4> QED
        BY <4>1 DEF Promise!Next
    <3> QED
      BY <3>2, <3>3
  <2>4. CASE op = "create" /\ cl = "none" /\ cl' # "none" /\ was' = {cl'}
    <3>1. there = "absent" /\ there' = "present" /\ Seen' = {"present"}
      BY <1>4, <2>4 DEF Seen, Presence
    <3>2. Promise!Accept
      BY <1>4, <2>1, <2>4, <3>1 DEF Promise!Accept, Said, Seen, InState, Misled
    <3> QED
      BY <3>2 DEF Promise!Next
  <2> QED
    BY <1>4, <2>3, <2>4, Continuing
<1>5. CASE op # "idle" /\ op' = "idle"
  <2>1. /\ there' \in {"present", "absent"} /\ Seen' = {} /\ UNCHANGED Misled
    BY <1>5, ReturningWays DEF Seen, Misled, Presence
  <2>2. \A r : Said' = r => Promise!Return(op, r)
    BY <1>5, <2>1 DEF Promise!Return, Said, Seen, Misled
  <2>3. (\E c \in Exists : Met(c)) => Promise!Saw("present")
    <3> SUFFICES ASSUME NEW c \in Exists, Met(c) PROVE Promise!Saw("present")
      OBVIOUS
    <3>1. Presence(c) = "present"
      BY DEF Presence, Exists, Deleting
    <3> QED
      BY <1>5, <3>1, MetSeen DEF Promise!Saw, Seen
  <2>4. Met("none") => Promise!Saw("absent")
    BY <1>5, MetSeen DEF Promise!Saw, Seen, Presence
  <2>5. CASE op \in {"create", "import"} /\ held' # "none" /\ \E c \in Exists : Met(c)
    <3>1. Said' \in Promise!Reports /\ InState' = "yes"
      BY <2>5, Step DEF IInv, TypeOK, Said, InState, Promise!Reports
    <3>2. Promise!Remember(Said')
      BY <2>2, <2>3, <2>5, <3>1 DEF Promise!Remember, InState
    <3> QED
      BY <3>1, <3>2 DEF Promise!Next
  <2>6. CASE op \in {"read", "update"} /\ held # "none" /\ held' # "none" /\ diag' = "ok"
             /\ \E c \in Exists : Met(c)
    <3>1. Said' = "ok" /\ UNCHANGED InState
      BY <2>6 DEF Said, InState
    <3>2. Promise!Confirm
      BY <2>2, <2>3, <2>6, <3>1 DEF Promise!Confirm, InState
    <3> QED
      BY <3>2 DEF Promise!Next
  <2>7. CASE op \in {"read", "delete"} /\ held' = "none" /\ diag' \in {"ok", "warning"}
             /\ (diag' = "ok" => Met("none") \/ faults # {})
    <3>1. /\ Said' \in {"ok", "warning"} /\ InState' = "no"
          /\ Said' = "ok" => Promise!Saw("absent") \/ Misled
      BY <2>4, <2>7 DEF Said, InState, Misled
    <3>2. Promise!Forget(Said')
      BY <2>2, <2>7, <3>1 DEF Promise!Forget, InState, Misled
    <3> QED
      BY <3>1, <3>2 DEF Promise!Next
  <2>8. CASE op = "import" /\ held = "none" /\ held' = "none" /\ diag' = "ok"
             /\ (Met("none") \/ faults # {})
    <3>1. Said' = "ok" /\ UNCHANGED InState /\ (Promise!Saw("absent") \/ Misled)
      BY <2>4, <2>8 DEF Said, InState, Misled
    <3>2. Promise!Miss
      BY <2>2, <2>8, <3>1 DEF Promise!Miss, InState, Misled
    <3> QED
      BY <3>2 DEF Promise!Next
  <2>9. CASE (held' = "none" <=> held = "none") /\ diag' \in {"error", "killed", "warning"}
    <3>1. Said' \in {"error", "warning"} /\ UNCHANGED InState
      BY <2>9 DEF Said, InState
    <3>2. Promise!Fail(Said')
      BY <1>1, <1>5, <2>2, <3>1 DEF Promise!Fail, Promise!Handlers, Handlers, InState
    <3> QED
      BY <3>1, <3>2 DEF Promise!Next
  <2> QED
    BY <1>5, <2>5, <2>6, <2>7, <2>8, <2>9, ReturningWays
<1> QED
  BY <1>2, <1>3, <1>4, <1>5

\* A cluster keeps the promises of Resource, however long the control plane and the
\* agent take, and with every kind of error.
THEOREM Refinement == Spec => Implements
<1>1. Init => Promise!Init
  BY DEF Init, Promise!Init, Presence
<1>2. IInv /\ [Next]_vars => [Promise!Next]_(Promise!vars)
  <2> SUFFICES ASSUME IInv, UNCHANGED vars PROVE UNCHANGED Promise!vars
    BY StepRefines
  <2> QED
    BY DEF vars, fixed, state, polling, cloud, Promise!vars, Presence
<1> QED
  BY <1>1, <1>2, Invariance, PTL DEF Spec, Implements, Promise!Spec

===============================================================================
