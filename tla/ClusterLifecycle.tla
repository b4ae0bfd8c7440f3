-------------------------- MODULE ClusterLifecycle --------------------------
(***************************************************************************)
(* redpanda/resources/cluster: one redpanda_cluster resource, the cluster  *)
(* behind it, and the BYOC agent the provider itself installs and removes. *)
(* A handler and the control plane wait for each other: the handler polls  *)
(* with RetryGetCluster until the control plane is done, and the control   *)
(* plane stays in CREATING_AGENT or DELETING_AGENT until the handler has   *)
(* run the byoc plugin.                                                    *)
(***************************************************************************)
EXTENDS Naturals

CONSTANT MaxTransient  \* maxTransientRetries of RetryGetCluster

ASSUME MaxTransientAssumption == MaxTransient \in Nat \ {0}

FaultSets == SUBSET {"denied", "misread"}

VARIABLES
    type,    \* "byoc" or "dedicated"
    faults,  \* the errors this behaviour has in store: "denied": a lookup answers
             \* PermissionDenied; "misread": an error whose text merely looks like
             \* not found ("404", "does not exist")
    cl,      \* the cluster's state at the control plane, "none" if there is none
    doomed,  \* "yes": DeleteCluster accepted; cl may still show the old state
    agent,   \* the BYOC agent in the customer's cloud: "absent" or "present"
    held,    \* what Terraform's state holds: "none", "minimal" or "full"
    allow,   \* allow_deletion in it
    wish,    \* allow_deletion in the configuration last applied
    op,      \* the handler that runs, or "idle"
    at,      \* what it does next
    ran,     \* ranByoc
    misses,  \* transientRetryCount
    diag,    \* what the last handler reported: "ok", "warning", "error", "killed"
    was      \* history: the states the cluster has had since the handler started
             \* or, in a Create, since the cluster was accepted

fixed   == <<type, faults>>
cloud   == <<cl, doomed, agent>>
state   == <<held, allow>>
polling == <<ran, misses>>
vars    == <<fixed, cloud, state, wish, op, at, polling, diag, was>>

Deleting == {"deleting", "deleting_agent"}
Exists   == {"creating", "creating_agent", "ready", "failed"} \union Deleting

Init == /\ type \in {"byoc", "dedicated"} /\ faults \in FaultSets
        /\ cl = "none" /\ doomed = "no" /\ agent = "absent"
        /\ held = "none" /\ allow = "false" /\ wish = "false"
        /\ op = "idle" /\ at = "none"
        /\ ran = "no" /\ misses = 0
        /\ diag = "ok" /\ was = {cl}

Begin(o, w) ==
    /\ op = "idle"
    /\ op' = o /\ at' = "call" /\ wish' = w
    /\ ran' = "no" /\ misses' = 0
    /\ diag' = "ok" /\ was' = {cl}
    /\ UNCHANGED <<fixed, cloud, state>>

\* The handler returns diagnostic d; Terraform's state becomes h with a.
Return(d, h, a) ==
    /\ op' = "idle" /\ at' = "none"
    /\ held' = h /\ allow' = a
    /\ ran' = "no" /\ misses' = 0
    /\ diag' = d
    /\ UNCHANGED fixed

Abort(d) == Return(d, held, allow) /\ UNCHANGED wish
Gone     == Return("ok", "none", "false") /\ UNCHANGED wish
\* Mutant: the minimal state keeps the schema's default.
MinimalProtected == Return("error", "minimal", "false") /\ UNCHANGED wish

Minimal  == Return("error", "minimal", "true") /\ UNCHANGED wish

Then(a) == at' = a /\ UNCHANGED <<fixed, state, wish, op, diag>>
Still   == UNCHANGED <<cl, doomed, agent, was>>

\* A lookup says not found: rightly, or because an error's text looks like it.
NotFound == cl = "none" \/ "misread" \in faults

-------------------------------------------------------------------------------
(* The handlers start                                                      *)

Create(w) == held = "none" /\ Begin("create", w)
Read      == held # "none" /\ Begin("read", wish)
Import    == held = "none" /\ Begin("import", "false")
Update    == held # "none" /\ Begin("update", wish)

Delete ==
    /\ held # "none"
    /\ \/ allow = "true" /\ Begin("delete", wish)
       \/ /\ allow # "true" /\ op = "idle"
          /\ diag' = "error"
          /\ Still
          /\ UNCHANGED <<fixed, held, allow, wish, op, at, ran, misses>>

-------------------------------------------------------------------------------
(* The calls before the wait                                               *)

Calling(o) == op = o /\ at = "call"

\* CreateCluster is accepted and names the cluster ...
CreateAccepted ==
    /\ Calling("create") /\ cl = "none"
    /\ cl' = "creating" /\ was' = {cl'}
    /\ Then("poll")
    /\ UNCHANGED <<doomed, agent, polling>>

\* ... or fails, perhaps after the control plane took it; no id, no state.
CreateRejected ==
    /\ Calling("create")
    /\ \/ Still
       \/ /\ cl = "none" /\ cl' = "creating" /\ was' = was \union {cl'}
          /\ UNCHANGED <<doomed, agent>>
    /\ Abort("error")

\* Mutant: what is being deleted is taken for gone.
ReadDeletingForgets ==
    /\ at = "call" /\ op \in {"read", "import"} /\ cl \in Exists /\ Still
    /\ \/ cl \in Deleting /\ Gone
       \/ cl \notin Deleting /\ Return("ok", "full", allow) /\ UNCHANGED wish

ReadFound ==
    /\ at = "call" /\ op \in {"read", "import"} /\ cl \in Exists /\ Still
    /\ \/ cl \in Deleting /\ Return("warning", "minimal", "true")
       \/ cl \notin Deleting /\ Return("ok", "full", allow)
    /\ UNCHANGED wish

ReadNotFound ==
    /\ at = "call" /\ op \in {"read", "import"} /\ NotFound /\ Still
    /\ Gone

\* UpdateCluster, the wait for its operation and the read-back.
Updated(w) ==
    /\ Calling("update") /\ cl \in Exists /\ Still
    /\ Return("ok", "full", w) /\ wish' = w

\* Delete looks the cluster up before it asks for the deletion.
DeleteNotFound == Calling("delete") /\ NotFound /\ Still /\ Gone

DeleteAccepted ==
    /\ Calling("delete") /\ cl \in Exists \ Deleting
    /\ doomed' = "yes"
    /\ Then("poll")
    /\ UNCHANGED <<cl, agent, was, polling>>

\* Mutant: whoever started the deletion is trusted to have run the plugin.
AlreadyDeletingTrusts ==
    /\ Calling("delete") /\ cl \in Deleting /\ Still
    /\ Then("poll")
    /\ ran' = "yes" /\ UNCHANGED misses

AlreadyDeleting ==
    /\ Calling("delete") /\ cl \in Deleting /\ Still
    /\ Then("poll")
    /\ UNCHANGED polling

\* Any other error of these calls, DeleteCluster perhaps after it took effect.
CallFails ==
    /\ at = "call" /\ op \in {"read", "import", "update", "delete"}
    /\ \/ Still
       \/ /\ op = "delete" /\ cl \in Exists /\ doomed' = "yes"
          /\ UNCHANGED <<cl, agent, was>>
    /\ Abort("error")

-------------------------------------------------------------------------------
(* The wait: RetryGetCluster and the function Create or Delete gives it    *)

Polling(o) == op = o /\ at = "poll"

\* Mutant: Create only reports the error.
GivesUpEmpty == Abort("error")

\* Mutant: Delete takes every error for the cluster's absence.
GivesUpForgets ==
    \/ op = "create" /\ Minimal
    \/ op = "delete" /\ Gone

\* The wait ends with an error. Create names the cluster in the state; Delete
\* keeps the state, unless the error's text looks like not found.
GivesUp ==
    \/ op = "create" /\ Minimal
    \/ op = "delete" /\ Abort("error")
    \/ op = "delete" /\ "misread" \in faults /\ Gone

\* Not found, or denied, ends the wait without error and without calling the
\* function. Create then writes no state, and the framework objects to that.
PollNotFound ==
    /\ at = "poll" /\ Still
    /\ NotFound \/ "denied" \in faults
    /\ \/ op = "create" /\ Abort("error")
       \/ op = "delete" /\ Gone

\* Unavailable is counted; the count starts again at every lookup that works.
PollUnavailable ==
    /\ at = "poll" /\ Still
    /\ \/ /\ misses + 1 < MaxTransient
          /\ misses' = misses + 1
          /\ Then("poll") /\ UNCHANGED ran
       \/ misses + 1 >= MaxTransient /\ GivesUp

\* Any other error, the timeout, or the cancelled context.
PollFails == at = "poll" /\ Still /\ GivesUp

Again == Then("poll") /\ misses' = 0 /\ UNCHANGED ran

PluginDue == type = "byoc" /\ ran = "no"

\* The lookup works and the cluster is where the handler expects it.
PollWaits ==
    /\ Still
    /\ \/ Polling("create") /\ cl = "creating"
       \/ Polling("create") /\ cl = "creating_agent" /\ ~PluginDue
       \/ Polling("delete") /\ cl = "deleting"
       \/ Polling("delete") /\ cl = "deleting_agent" /\ ~PluginDue
    /\ Again

PollRunsPlugin ==
    /\ \/ Polling("create") /\ cl = "creating_agent"
       \/ Polling("delete") /\ cl = "deleting_agent"
    /\ PluginDue /\ Still
    /\ Then("byoc") /\ misses' = 0 /\ UNCHANGED ran

\* Mutant: the wait is over once the plugin has run.
PollReadyEarly ==
    /\ Polling("create") /\ Still
    /\ \/ cl = "ready"
       \/ cl = "creating_agent" /\ ran = "yes"
    /\ Return("ok", "full", wish) /\ UNCHANGED wish

\* It is ready; only translating it into the model may still fail.
PollReady ==
    /\ Polling("create") /\ cl = "ready" /\ Still
    /\ \/ Return("ok", "full", wish) /\ UNCHANGED wish
       \/ Minimal

\* A state the function does not wait for; right after DeleteCluster this may
\* be the old one.
PollUnexpected ==
    /\ \/ Polling("create") /\ cl \in {"failed"} \union Deleting
       \/ Polling("delete") /\ cl \in Exists \ Deleting
    /\ Still /\ GivesUp

\* The plugin ends. Whatever the cluster does meanwhile, the handler waits here.
PluginDone ==
    /\ at = "byoc"
    /\ agent' = IF op = "create" THEN "present" ELSE "absent"
    /\ ran' = "yes" /\ Then("poll")
    /\ UNCHANGED <<cl, doomed, was, misses>>

\* Mutant: ranByoc is set before the plugin's error is looked at.
PluginFailsMarked ==
    /\ at = "byoc"
    /\ agent' \in {"absent", "present"}
    /\ UNCHANGED <<cl, doomed, was>>
    /\ \/ Then("poll") /\ ran' = "yes" /\ UNCHANGED misses
       \/ GivesUp

\* It fails, with its work done or not: "please retry later", or for good.
PluginFails ==
    /\ at = "byoc"
    /\ agent' \in {"absent", "present"}
    /\ UNCHANGED <<cl, doomed, was>>
    /\ \/ Then("poll") /\ UNCHANGED polling
       \/ GivesUp

\* Terraform or the provider dies; a create that dies leaves no state.
Killed ==
    /\ op # "idle" /\ Still
    /\ Abort("killed")

-------------------------------------------------------------------------------
(* The control plane                                                       *)

Becomes(c) ==
    /\ cl' = c
    /\ was' = was \union {c}
    /\ UNCHANGED <<fixed, agent, held, allow, wish, op, at, ran, misses, diag>>

Progresses ==
    /\ doomed = "no" /\ UNCHANGED doomed
    /\ \/ cl = "creating" /\ Becomes("creating_agent")
       \/ cl = "creating_agent" /\ "dedicated" = type /\ Becomes("ready")
       \/ cl = "creating_agent" /\ agent = "present" /\ Becomes("ready")

CreationFails ==
    /\ doomed = "no" /\ cl \in {"creating", "creating_agent"}
    /\ Becomes("failed") /\ UNCHANGED doomed

Deletes ==
    \/ /\ doomed = "yes" /\ cl \in Exists \ Deleting
       /\ Becomes("deleting") /\ UNCHANGED doomed
    \/ /\ cl = "deleting"
       /\ Becomes("deleting_agent") /\ UNCHANGED doomed
    \/ /\ cl = "deleting_agent"
       /\ type = "dedicated" \/ agent = "absent"
       /\ Becomes("none") /\ doomed' = "no"

\* Somebody asks for the deletion elsewhere.
OthersDelete ==
    /\ cl \in Exists /\ doomed = "no"
    /\ doomed' = "yes"
    /\ UNCHANGED <<fixed, cl, agent, state, wish, op, at, polling, diag, was>>

-------------------------------------------------------------------------------

Starts  == \/ \E w \in {"true", "false"} : Create(w)
           \/ Read \/ Import \/ Update \/ Delete

Calls   == \/ CreateAccepted \/ CreateRejected
           \/ ReadFound \/ ReadNotFound
           \/ \E w \in {"true", "false"} : Updated(w)
           \/ DeleteNotFound \/ DeleteAccepted \/ AlreadyDeleting \/ CallFails

Polls   == \/ PollNotFound \/ PollWaits \/ PollRunsPlugin
           \/ PollReady \/ PollUnexpected

ControlPlane == Progresses \/ CreationFails \/ Deletes \/ OthersDelete

Next == \/ Starts \/ Calls
        \/ Polls \/ PollUnavailable \/ PollFails
        \/ PluginDone \/ PluginFails \/ Killed
        \/ ControlPlane

Spec == Init /\ [][Next]_vars

\* A call is answered, lookups do not fail for ever, the
\* plugin that is repeated at last succeeds, and the control plane does what
\* it has to. Nothing is assumed of the timeout.
FairSpec == /\ Spec
            /\ WF_vars(Calls)
            /\ WF_vars(Polls)
            /\ SF_vars(PluginDone)
            /\ WF_vars(PluginDone \/ PluginFails)
            /\ WF_vars(Progresses)
            /\ WF_vars(Deletes)

-------------------------------------------------------------------------------
(* Properties                                                              *)

TypeOK ==
    /\ type \in {"byoc", "dedicated"} /\ faults \in FaultSets
    /\ cl \in Exists \union {"none"} /\ doomed \in {"yes", "no"}
    /\ agent \in {"absent", "present"}
    /\ held \in {"none", "minimal", "full"}
    /\ allow \in {"true", "false"} /\ wish \in {"true", "false"}
    /\ op \in {"idle", "create", "read", "import", "update", "delete"}
    /\ at \in {"none", "call", "poll", "byoc"}
    /\ ran \in {"yes", "no"} /\ misses \in 0 .. MaxTransient - 1
    /\ diag \in {"ok", "warning", "error", "killed"}
    /\ was \subseteq Exists \union {"none"}

\* Where a handler can be, and what it can rely on there: the history is the
\* cluster's, a Create that waits knows a cluster, the plugin is never run for a
\* dedicated cluster or a second time after it succeeded, and a half-created
\* cluster can be destroyed (minimal_default in schema.yaml).
Progress ==
    /\ op = "idle" <=> at = "none"
    /\ at \in {"poll", "byoc"} => op \in {"create", "delete"}
    /\ at = "byoc" => PluginDue
    /\ op \in {"create", "import"} => held = "none"
    /\ op \in {"read", "update", "delete"} => held # "none"
    /\ cl \in was
    /\ op = "create" /\ at # "call" => was \intersect Exists # {}
    /\ held = "minimal" => allow = "true"

\* The inductive invariant: every variable has its type and every handler is
\* somewhere it can be.
IInv == TypeOK /\ Progress

Returns(o) == op = o /\ op' = "idle"

\* A Create that reports success waited until the control plane had the cluster
\* ready, whatever errors, timeouts and retries of the plugin came in between,
\* and it recorded what it was asked to.
Created ==
    [][Returns("create") /\ diag' = "ok"
       => "ready" \in was /\ held' = "full" /\ allow' = wish]_vars

\* However a Create ends that knows the cluster's id, short of being killed, the
\* cluster is in the state and the next apply can destroy it, unless it was
\* gone ("It updates the state if the resource is successfully created",
\* resource_cluster.go, and the minimal state on the error paths), when no lookup
\* is denied or misread.
CreateHolds ==
    [][Returns("create") /\ at # "call" /\ diag' # "killed" /\ faults = {}
       => held' # "none" \/ "none" \in was]_vars

\* The same where a lookup may be denied: "RetryGetCluster retries f ... until f
\* succeeds, ctx expires, or maxTransientRetries Unavailable errors have been
\* observed" (utils.go), and Create names the cluster in the state at these ends.
CreateHoldsDenied ==
    [][Returns("create") /\ at # "call" /\ diag' # "killed" /\ "misread" \notin faults
       => held' # "none" \/ "none" \in was]_vars

\* A cluster leaves the state without an error only when the control plane no
\* longer had it at some moment of that handler, when no lookup is denied or
\* misread. (IsNotFound: "the passed error is a NotFoundError or a GRPC NotFound
\* error".)
ForgottenWhenGone ==
    [][held # "none" /\ held' = "none" /\ diag' # "error" /\ faults = {}
       => "none" \in was]_vars

\* Create comes to an end without its timeout: the handler, which waits for the
\* cluster, runs the plugin the cluster waits for.
CreateFinishes == op = "create" ~> op = "idle"

\* So does Delete.
DeleteFinishes == op = "delete" ~> op = "idle"

\* Is there an object, whatever it is?
Presence(c) == IF c = "none" THEN "absent" ELSE "present"

\* The handlers keep the promises of a Terraform resource: whatever is lost, resent or
\* answered late, and whoever else uses the control plane, what enters the state has been
\* there, what leaves it silently has not, and an error leaves it as it was, or with
\* what a Create has made.
Promise == INSTANCE Resource WITH
    object  <- Presence(cl),
    tracked <- IF held = "none" THEN "no" ELSE "yes",
    running <- op,
    seen    <- IF op = "idle" THEN {} ELSE {Presence(c) : c \in was},
    said    <- IF diag = "killed" THEN "error" ELSE diag,
    misled  <- faults # {}

Implements == Promise!Spec

===============================================================================
