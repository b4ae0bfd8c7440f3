-------------------------- MODULE OperationResource --------------------------
(***************************************************************************)
(* The resources whose handlers start a control plane operation and wait   *)
(* for it with AreWeDoneYet: network, serverless cluster, serverless       *)
(* private link and shadow link. They write Terraform's state at different *)
(* moments and read allow_deletion differently, so how a handler that      *)
(* fails half way leaves the resource depends on its kind.                 *)
(***************************************************************************)
EXTENDS Naturals

CONSTANT StuckCap  \* stuckCap of AreWeDoneYet, in polls instead of minutes

ASSUME StuckCapAssumption == StuckCap \in Nat

Kinds == {"network", "serverless", "privatelink", "shadowlink"}

FaultSets == SUBSET {"misread", "empty"}

VARIABLES
    kind,
    faults,  \* the errors this behaviour has in store: "misread": an error whose text
             \* merely looks like not found; "empty": an answer without an operation
    st,      \* the state of the entity at the control plane, or "none"
    work,    \* what the control plane is doing to it: "none", "create", ...
    oper,    \* the operation the handler's call returned
    held,    \* what Terraform's state holds: "none", "partial" or "full"
    allow,   \* allow_deletion in it: "true", "false" or "null"; a network has none
    wish,    \* allow_deletion in the configuration last applied
    op,      \* the handler that runs, or "idle"
    at,      \* what it does next
    quiet,   \* the polls since the last one that was answered
    diag,    \* what the last handler reported: "ok", "warning", "error", "killed"
    was      \* history: the states the entity has had since the handler started
             \* or, in a Create, since the entity was accepted

fixed  == <<kind, faults>>
entity == <<st, work, oper>>
state  == <<held, allow>>
vars   == <<fixed, entity, state, wish, op, at, quiet, diag, was>>

Exists == {"creating", "ready", "failed", "deleting"}

Init == /\ kind \in Kinds /\ faults \in FaultSets
        /\ st = "none" /\ work = "none" /\ oper = "none"
        /\ held = "none" /\ allow = "false" /\ wish = "false"
        /\ op = "idle" /\ at = "none" /\ quiet = 0
        /\ diag = "ok" /\ was = {st}

Begin(o, w) ==
    /\ op = "idle"
    /\ op' = o /\ at' = "call" /\ wish' = w
    /\ oper' = "none" /\ quiet' = 0
    /\ diag' = "ok" /\ was' = {st}
    /\ UNCHANGED <<fixed, st, work, held, allow>>

\* The handler returns diagnostic d; Terraform's state becomes h with a.
Return(d, h, a) ==
    /\ op' = "idle" /\ at' = "none"
    /\ held' = h /\ allow' = a
    /\ quiet' = 0 /\ diag' = d
    /\ UNCHANGED fixed

Abort(d) == Return(d, held, allow) /\ UNCHANGED wish
Gone(d)  == Return(d, "none", "false") /\ UNCHANGED wish

Still == UNCHANGED <<st, work, oper, was>>

Then(a) == at' = a /\ UNCHANGED <<fixed, held, allow, wish, op, diag>>

Calling(o) == op = o /\ at = "call"
Reading    == at = "call" /\ op \in {"read", "import"}

\* Mutant: null stops a shadow link, too.
DeletableWhenTrue == kind = "network" \/ allow = "true"

\* Delete's check of allow_deletion. Null stops a serverless resource, not a
\* shadow link.
Deletable == \/ kind = "network"
             \/ kind \in {"serverless", "privatelink"} /\ allow = "true"
             \/ kind = "shadowlink" /\ allow # "false"

-------------------------------------------------------------------------------
(* The handlers start                                                      *)

Create(w) == held = "none" /\ Begin("create", w)
Read      == held # "none" /\ Begin("read", wish)
Import    == held = "none" /\ Begin("import", "false")

\* A network has no Update: every change replaces it.
Update == kind # "network" /\ held # "none" /\ Begin("update", wish)
Delete == held # "none" /\ Deletable /\ Begin("delete", wish)

DeleteRefused ==
    /\ op = "idle" /\ held # "none" /\ ~Deletable
    /\ diag' = "error"
    /\ Still
    /\ UNCHANGED <<fixed, held, allow, wish, op, at, quiet>>

-------------------------------------------------------------------------------
(* The call                                                                *)

Accepted(s, w) ==
    /\ st' = s /\ work' = w /\ oper' = "running"
    /\ was' = IF w = "create" THEN {s} ELSE was \union {s}

CreateAccepted ==
    /\ Calling("create") /\ st = "none"
    /\ Accepted("creating", "create")
    /\ Then("wait") /\ UNCHANGED quiet

UpdateAccepted ==
    /\ Calling("update") /\ st = "ready" /\ work = "none"
    /\ Accepted("ready", "update")
    /\ Then("wait") /\ UNCHANGED quiet

\* Mutant: an empty update mask still leads to the wait.
UpdateSkippedWaits ==
    /\ Calling("update") /\ Still
    /\ Then("wait") /\ UNCHANGED quiet

\* An empty update mask: nothing to ask for, the handler only reads back.
UpdateSkipped ==
    /\ Calling("update") /\ Still
    /\ Then("readback") /\ UNCHANGED quiet

DeleteAccepted ==
    /\ Calling("delete") /\ st \in Exists
    /\ Accepted("deleting", "delete")
    /\ Then("wait") /\ UNCHANGED quiet

NotFound == st = "none" \/ "misread" \in faults

\* For two of the kinds the answer "not found" is what Delete wants.
DeleteNotFound ==
    /\ Calling("delete") /\ kind \in {"privatelink", "shadowlink"}
    /\ NotFound /\ Still
    /\ Gone("ok")

\* Any error of the call, or of a Read; the call may have had its effect.
CallFails ==
    /\ at = "call" /\ Abort("error")
    /\ \/ Still
       \/ op = "create" /\ st = "none" /\ Accepted("creating", "create")
       \/ op = "update" /\ st = "ready" /\ work = "none" /\ Accepted("ready", "update")
       \/ op = "delete" /\ st \in Exists /\ Accepted("deleting", "delete")

-------------------------------------------------------------------------------
(* Read                                                                    *)

ReadNotFound == Reading /\ NotFound /\ Still /\ Gone("ok")

\* Flatten gives a serverless resource false where the state has null.
Flattened == IF allow = "null" /\ kind # "shadowlink" THEN "false" ELSE allow

ReadFound ==
    /\ Reading /\ st \in Exists \ {"deleting"} /\ Still
    /\ Return("ok", "full", Flattened) /\ UNCHANGED wish

\* What is being deleted is reduced to its id, or removed from the state.
ReadDeleting ==
    /\ Reading /\ st = "deleting" /\ Still
    /\ \/ kind # "privatelink" /\ Return("warning", "partial", "null") /\ UNCHANGED wish
       \/ kind = "privatelink" /\ Gone("warning")

-------------------------------------------------------------------------------
(* AreWeDoneYet                                                            *)

Waiting == at = "wait"

\* Mutant: the wait never hears of a failure.
FailedRetried == Waiting /\ oper = "failed" /\ Still /\ Then("wait") /\ quiet' = 0

\* Mutant: a network's Create also writes its state only at the end.
SavesLate ==
    \/ /\ op = "create" /\ kind \in {"serverless", "privatelink"}
       /\ Return("error", "partial", "null") /\ UNCHANGED wish
    \/ /\ op # "create" \/ kind \in {"network", "shadowlink"}
       /\ Abort("error")

\* The wait ends with an error. Create has named the entity in the state, or
\* names it now; the other handlers leave the state as it was.
WaitFails ==
    \/ op = "create" /\ Return("error", "partial", "null") /\ UNCHANGED wish
    \/ op # "create" /\ Abort("error")

\* Mutant: the deletion is taken for done while it runs.
DoneEarly ==
    /\ Waiting /\ Still
    /\ oper = "completed" \/ op = "delete"
    /\ \/ op \in {"create", "update"} /\ Then("readback") /\ quiet' = 0
       \/ op = "delete" /\ Gone("ok")

\* The operation is completed, or the answer names none, which counts the same.
Done ==
    /\ Waiting /\ Still
    /\ oper = "completed" \/ "empty" \in faults
    /\ \/ op \in {"create", "update"} /\ Then("readback") /\ quiet' = 0
       \/ op = "delete" /\ Gone("ok")

\* Mutant: a failed operation is one that is over.
FailedReadsBack ==
    /\ Waiting /\ oper = "failed" /\ Still
    /\ \/ op \in {"create", "update"} /\ Then("readback") /\ quiet' = 0
       \/ op = "delete" /\ WaitFails

OperationFailed == Waiting /\ oper = "failed" /\ Still /\ WaitFails

Running == Waiting /\ oper = "running" /\ Still /\ Then("wait") /\ quiet' = 0

\* Unavailable or Internal, tolerated until nothing was answered for too long.
Transient ==
    /\ Waiting /\ Still
    /\ \/ quiet < StuckCap /\ quiet' = quiet + 1 /\ Then("wait")
       \/ quiet >= StuckCap /\ WaitFails

\* Any other error, the timeout, or the cancelled context.
PollFails == Waiting /\ Still /\ WaitFails

\* Create and Update read the entity back and record it.
ReadBack ==
    /\ at = "readback" /\ st \in Exists /\ Still
    /\ \/ op = "create" /\ Return("ok", "full", wish) /\ UNCHANGED wish
       \/ /\ op = "update"
          /\ \E w \in {"true", "false"} : Return("ok", "full", w) /\ wish' = w

\* A shadow link's Create has written nothing by then.
ReadBackFails ==
    /\ at = "readback" /\ Still
    /\ \/ op = "create" /\ kind = "shadowlink" /\ Abort("error")
       \/ /\ op # "create" \/ kind # "shadowlink"
          /\ WaitFails

Killed == op # "idle" /\ Still /\ Abort("killed")

-------------------------------------------------------------------------------
(* The control plane                                                       *)

Becomes(s, o) ==
    /\ st' = s /\ was' = was \union {s}
    /\ UNCHANGED <<fixed, held, allow, wish, op, at, quiet, diag>>
    /\ \/ oper = "running" /\ oper' = o
       \/ oper # "running" /\ UNCHANGED oper

WorkDone ==
    /\ work' = "none"
    /\ \/ work \in {"create", "update"} /\ Becomes("ready", "completed")
       \/ work = "delete" /\ Becomes("none", "completed")

\* A creation that fails may leave something to be deleted.
WorkFails ==
    /\ work' = "none"
    /\ \/ work = "create" /\ Becomes("none", "failed")
       \/ work \in {"create", "delete"} /\ Becomes("failed", "failed")
       \/ work = "update" /\ Becomes(st, "failed")

\* Somebody deletes the entity elsewhere, which ends what was being done to it.
OthersDelete ==
    /\ st \in Exists \ {"deleting"}
    /\ work' = "delete" /\ Becomes("deleting", "failed")

-------------------------------------------------------------------------------

Starts == \/ \E w \in {"true", "false"} : Create(w)
          \/ Read \/ Import \/ Update \/ Delete \/ DeleteRefused

Calls  == \/ CreateAccepted \/ UpdateAccepted \/ UpdateSkipped
          \/ DeleteAccepted \/ DeleteNotFound \/ CallFails
          \/ ReadNotFound \/ ReadFound \/ ReadDeleting

Answers == Done \/ OperationFailed \/ Running

Next == \/ Starts \/ Calls
        \/ Answers \/ Transient \/ PollFails
        \/ ReadBack \/ ReadBackFails \/ Killed
        \/ WorkDone \/ WorkFails \/ OthersDelete

Spec == Init /\ [][Next]_vars

\* Calls are answered, polls do not fail for ever, and the control plane ends
\* what it is doing, one way or the other. Nothing is assumed of the timeout.
FairSpec == /\ Spec
            /\ WF_vars(Calls)
            /\ WF_vars(Answers)
            /\ WF_vars(ReadBack \/ ReadBackFails)
            /\ WF_vars(WorkDone \/ WorkFails)

-------------------------------------------------------------------------------
(* Properties                                                              *)

TypeOK ==
    /\ kind \in Kinds /\ faults \in FaultSets
    /\ st \in Exists \union {"none"}
    /\ work \in {"none", "create", "update", "delete"}
    /\ oper \in {"none", "running", "completed", "failed"}
    /\ held \in {"none", "partial", "full"}
    /\ allow \in {"true", "false", "null"} /\ wish \in {"true", "false"}
    /\ op \in {"idle", "create", "read", "import", "update", "delete"}
    /\ at \in {"none", "call", "wait", "readback"}
    /\ quiet \in 0 .. StuckCap
    /\ diag \in {"ok", "warning", "error", "killed"}
    /\ was \subseteq Exists \union {"none"}

\* Where a handler can be, that a Create that waits knows an entity, that an
\* operation runs only while the control plane works, and what a completed one
\* says of the entity.
Progress ==
    /\ op = "idle" <=> at = "none"
    /\ at = "wait" => op \in {"create", "update", "delete"}
    /\ at = "readback" => op \in {"create", "update"}
    /\ op \in {"create", "import"} => held = "none"
    /\ op \in {"read", "update", "delete"} => held # "none"
    /\ st \in was
    /\ op = "create" /\ at # "call" => was \intersect Exists # {}
    /\ st = "creating" <=> work = "create"
    /\ st = "deleting" <=> work = "delete"
    /\ work = "update" => st = "ready"
    /\ at = "call" => oper = "none"
    /\ at = "wait" => oper # "none"
    /\ at = "wait" /\ oper = "running" => op = work
    /\ at = "wait" /\ op = "delete" /\ oper = "completed" => "none" \in was
    /\ at = "wait" /\ op = "create" /\ oper = "completed" => "ready" \in was
    /\ at = "readback" /\ op = "create" => "ready" \in was \/ "empty" \in faults

\* The inductive invariant: every variable has its type and every handler is
\* somewhere it can be.
IInv == TypeOK /\ Progress

Returns(o) == op = o /\ op' = "idle"

\* However a Create ends that knows the id, short of being killed, the entity is
\* in the state, unless it was gone ("so that if network creation fails, we can
\* still track and delete it", resource_network.go; "persist a partial state
\* when Create / Read returns mid-flight", resource_model_gen.go of shadowlink).
\* The exception is a shadow link whose read-back fails.
Tracked ==
    [][/\ Returns("create") /\ at # "call" /\ diag' # "killed"
       /\ kind = "shadowlink" => at # "readback"
       => held' # "none" \/ "none" \in was]_vars

\* What a failed Create records, Delete does not refuse to delete ("Write initial
\* state so a failed create is still trackable / deletable",
\* resource_serverless_cluster.go).
FailedIsDeletable ==
    [][Returns("create") /\ diag' = "error" /\ held' # "none" => Deletable']_vars

\* The two kinds that keep that promise.
FailedNetworkIsDeletable ==
    [][Returns("create") /\ diag' = "error" /\ held' # "none"
       /\ kind \in {"network", "shadowlink"} => Deletable']_vars

\* Create reports success only of an entity that was ready, however its operation
\* was polled, and records the allow_deletion it was asked to, when every answer
\* names an operation.
CreatedWhenReady ==
    [][Returns("create") /\ diag' = "ok" /\ "empty" \notin faults
       => "ready" \in was /\ allow' = wish]_vars

\* Every handler comes to an end without its timeout, also when its operation
\* fails or somebody else deletes the entity under it.
HandlerReturns == op # "idle" ~> op = "idle"

\* Is there an object, whatever it is?
Presence(s) == IF s = "none" THEN "absent" ELSE "present"

\* The handlers keep the promises of a Terraform resource: whatever is lost, resent or
\* answered late, and whoever else uses the control plane, what enters the state has been
\* there, what leaves it silently has not, and an error leaves it as it was, or with
\* what a Create has made.
Promise == INSTANCE Resource WITH
    object  <- Presence(st),
    tracked <- IF held = "none" THEN "no" ELSE "yes",
    running <- op,
    seen    <- IF op = "idle" THEN {} ELSE {Presence(s) : s \in was},
    said    <- IF diag = "killed" THEN "error" ELSE diag,
    misled  <- faults # {}

Implements == Promise!Spec

===============================================================================
