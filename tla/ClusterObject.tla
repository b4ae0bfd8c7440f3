---------------------------- MODULE ClusterObject ----------------------------
(***************************************************************************)
(* One topic, user, secret or ACL that one Terraform configuration manages *)
(* by name: the Create, Read, Update, Delete and ImportState handlers of   *)
(* redpanda/resources/{topic,user,secret,acl}, the Retry loops they run    *)
(* their calls in, and HandleGracefulRemoval.  The object lives on a       *)
(* cluster that other people use too, behind a network that loses requests *)
(* and answers; a request whose answer was given up on can still take      *)
(* effect later.  A handler's result reaches Terraform when it returns.    *)
(***************************************************************************)
EXTENDS FiniteSets, Naturals

CONSTANTS Values,   \* what a plan asks for: password, data, or a topic's configuration
          Foreign,  \* what no plan asks for: what somebody else puts under the same
                    \* name, a configuration key that is not set
          None,     \* no object; not in the Terraform state
          MaxLate   \* bound: requests at large at a time

ASSUME ValuesAssumption == None \notin Values /\ Foreign \notin Values /\ Foreign # None
ASSUME MaxLateAssumption == MaxLate \in Nat

Kinds   == {"topic", "user", "secret", "acl"}
FaultSets == SUBSET {"misread", "silent"}
Present == Values \union {Foreign}

VARIABLES
    kind,    \* the resource type, the same for the whole behaviour
    faults,  \* what this behaviour has in store, the same for all of it: "misread",
             \* an error whose text merely looks like not found; "silent", a topic's
             \* configuration key that the broker does not always report
    obj,     \* the object on the cluster, or None
    late,    \* requests that may still reach the cluster unanswered
    held,    \* what the Terraform state records, or None
    allow,   \* allow_deletion in the state (null acts as "true")
    op,      \* the handler that runs, or "idle"
    at,      \* the call it makes next
    given,   \* the value and the allow_deletion it works with: the plan of a Create or an
             \* Update, the state of a Read or a Delete, what an import starts from
    diag,    \* the worst diagnostic of the last handler; "exists" is the error
             \* "already exists"
    was      \* history: what the object has been since the handler started

fixed   == <<kind, faults>>
cluster == <<obj, late>>
state   == <<held, allow>>
vars    == <<fixed, obj, late, held, allow, op, at, given, diag, was>>

Nothing == [val |-> None, allow |-> "true"]
Plans   == [val : Values, allow : {"true", "false"}]
Prior   == [val |-> held, allow |-> allow]

Requests == [do : {"create", "set"}, val : Values] \union [do : {"delete"}, val : {None}]

\* What a request that reaches the cluster makes of the object.
Effect(r, o) == CASE r.do = "create" -> IF o = None THEN r.val ELSE o
                  [] r.do = "set"    -> IF o = None THEN o ELSE r.val
                  [] r.do = "delete" -> None

Init == /\ kind \in Kinds /\ faults \in FaultSets
        /\ "silent" \in faults => kind = "topic"
        /\ obj \in {None, Foreign}
        /\ late = {}
        /\ held = None /\ allow = "true"
        /\ op = "idle" /\ at = "none" /\ given = Nothing
        /\ diag = "ok" /\ was = {obj}

\* A handler starts with call c.
Begin(o, c, p) ==
    /\ op = "idle"
    /\ op' = o /\ at' = c /\ given' = p
    /\ diag' = "ok" /\ was' = {obj}
    /\ UNCHANGED <<fixed, cluster, state>>

\* The handler returns diagnostic d and the state s.
Return(d, s) ==
    /\ op' = "idle" /\ at' = "none" /\ given' = Nothing
    /\ held' = s.val /\ allow' = s.allow
    /\ diag' = d
    /\ UNCHANGED fixed

\* An error before the handler touched the state: Terraform keeps the prior one.
Abort(d) == Return(d, Prior)

Then(c) == at' = c /\ UNCHANGED <<fixed, state, op, given, diag>>

\* Mutant of GracefulRemoval: a removal is never worth a warning.
QuietRemoval(d) == \/ given.allow = "false" /\ Abort("error")
                   \/ given.allow # "false" /\ Return("ok", Nothing)

\* Mutant of GracefulRemoval: allow_deletion = false is not looked at.
RemovalOfLocked(d) == Return(d, Nothing)

\* HandleGracefulRemoval and what its callers do with the answer: not found is
\* a clean removal (d = "ok"), an unreachable cluster or a denied permission
\* removes with a warning, and allow_deletion = false keeps the state.
GracefulRemoval(d) == \/ given.allow = "false" /\ Abort("error")
                      \/ given.allow # "false" /\ Return(d, Nothing)

-------------------------------------------------------------------------------
(* The start of each handler                                               *)

Create(p) == held = None /\ Begin("create", "call", p)

Read == held # None /\ Begin("read", "call", Prior)

\* ImportState: the name, with allow_deletion = false, and what the user says
\* the password is; the Read that Terraform goes on with fills in the rest.
Import(v) == held = None /\ Begin("import", "call", [val |-> v, allow |-> "false"])

Update(p) ==
    /\ held # None
    /\ kind # "acl" /\ p.val # held
    /\ Begin("update", "call", p)

\* Nothing to change: a topic may get more partitions and re-reads its
\* configuration, the others only record allow_deletion.
UpdateLocal(p) ==
    /\ held # None /\ p.val = held
    /\ \/ kind = "topic" /\ \E c \in {"partitions", "config"} : Begin("update", c, p)
       \/ /\ kind # "topic" /\ op = "idle"
          /\ allow' = p.allow /\ diag' = "ok"
          /\ UNCHANGED <<fixed, cluster, held, op, at, given, was>>

\* Mutant of Delete: allow_deletion = false is not looked at.
DeleteLocked == held # None /\ Begin("delete", "call", Prior)

Delete ==
    /\ held # None
    /\ \/ allow # "false" /\ Begin("delete", "call", Prior)
       \/ /\ allow = "false" /\ op = "idle"
          /\ diag' = "error"
          /\ UNCHANGED <<fixed, cluster, state, op, at, given, was>>

-------------------------------------------------------------------------------
(* The mutating call                                                       *)

Request == CASE op = "create" -> [do |-> "create", val |-> given.val]
             [] op = "update" -> [do |-> "set", val |-> given.val]
             [] OTHER         -> [do |-> "delete", val |-> None]

Calling(o) == op = o /\ at = "call"
Mutating   == at = "call" /\ op \in {"create", "update", "delete"}

\* The cluster processes the request and the handler gets the answer.
Process == /\ obj' = Effect(Request, obj)
           /\ was' = was \union {obj'}
           /\ UNCHANGED late

\* The answer is lost, and so may be the request.
Astray == /\ late' \in {late, late \union {Request}}
          /\ Cardinality(late') <= MaxLate
          /\ UNCHANGED <<obj, was>>

Still == UNCHANGED <<cluster, was>>

Created ==
    /\ Calling("create") /\ obj = None
    /\ Process
    /\ \/ kind = "topic" /\ Then("config")
       \/ kind # "topic" /\ Return("ok", given)

AlreadyExists ==
    /\ Calling("create") /\ obj # None
    /\ Process
    /\ \/ kind = "topic" /\ Abort("exists")
       \/ kind # "topic" /\ Then("adopt")

Updated ==
    /\ Calling("update") /\ obj # None
    /\ Process
    /\ \/ kind = "topic" /\ \E c \in {"partitions", "config"} : Then(c)
       \/ kind # "topic" /\ Return("ok", given)

UpdatedNothing == Calling("update") /\ obj = None /\ Process /\ Abort("error")

\* Deleted, or not found, which is as good.
Deleted == Calling("delete") /\ Process /\ GracefulRemoval("ok")

\* grpc's retry interceptor sends the request again before the handler knows.
Resend == Mutating /\ Astray /\ Then("call")

\* A transient error: Create looks whether the object is there before the next
\* attempt, Update and Delete try again or run out of Retry's time.
Transient ==
    /\ Mutating /\ Astray
    /\ \/ op = "create" /\ Then("probe")
       \/ op # "create" /\ Then("call")
       \/ op # "create" /\ Abort("error")

\* A topic's Update sets the partition count in a call of its own. When it
\* fails, the state stays what it was, whatever the first call has changed.
Partitioned == at = "partitions" /\ obj # None /\ Still /\ Then("config")
PartitionsFail == at = "partitions" /\ Still /\ Abort("error")

\* Any other error ends the handler.
Fails ==
    /\ Mutating /\ Astray
    /\ \/ Abort("error")
       \/ op = "delete" /\ "misread" \in faults /\ GracefulRemoval("ok")

\* The cluster cannot be resolved or denies the request: it was not executed.
Refused ==
    /\ Mutating /\ Still
    /\ \/ op = "delete" /\ GracefulRemoval("warning")
       \/ op # "delete" /\ Abort("error")

-------------------------------------------------------------------------------
(* The lookups around a Create, and the topic's configuration              *)

\* Mutant of ProbeHit: the answer of the lookup is not looked at.
ProbeAssumed ==
    /\ at = "probe" /\ Still
    /\ \/ kind = "topic" /\ Then("readback")
       \/ kind # "topic" /\ Return("ok", given)

ProbeHit ==
    /\ at = "probe" /\ obj # None /\ Still
    /\ \/ kind = "topic" /\ Then("readback")
       \/ kind # "topic" /\ Return("ok", given)

\* Not there, or the lookup failed: Retry tries again, or its time is up.
ProbeMiss ==
    /\ at = "probe" /\ Still
    /\ Then("call") \/ Abort("error")

\* Adopt the existing object on AlreadyExists: the state records the plan.
Adopt == at = "adopt" /\ obj # None /\ Still /\ Return("ok", given)

\* The lookup failed or found nothing any more.
AdoptFails == at = "adopt" /\ Still /\ Abort("exists")

\* flattenInputAfterCreate: FindTopicByName after a probe that hit.
ReadBack      == at = "readback" /\ obj # None /\ Still /\ Then("config")
ReadBackFails == at = "readback" /\ Still /\ Abort("error")

\* What mergeWithPlannedConfig makes of a key the broker does not report: the plan's
\* value in a Create and an Update, the state's in a Read; an import has neither.
Unreported == IF op = "import" THEN Foreign ELSE given.val

\* GetTopicConfigurations: the configuration in the state is the one the cluster
\* reports, and for a key it is silent about the one it is synthesized from.  A
\* Create and an Update have set the planned state before they ask for it.
Configured ==
    /\ at = "config" /\ obj # None /\ Still
    /\ \E v \in {obj} \union {u \in {Unreported} : "silent" \in faults} :
          Return("ok", [given EXCEPT !.val = v])

ConfigFails ==
    /\ at = "config" /\ Still
    /\ \/ op \in {"read", "import"} /\ Abort("error")
       \/ op \in {"create", "update"} /\ Return("error", given)

-------------------------------------------------------------------------------
(* Read                                                                    *)

Reading == at = "call" /\ op \in {"read", "import"}

Found == /\ Reading /\ obj # None /\ Still
         /\ \/ kind = "topic" /\ Then("config")
            \/ kind # "topic" /\ Return("ok", given)

NotFound == Reading /\ obj = None /\ Still /\ GracefulRemoval("ok")

\* Unreachable or denied.
Unreachable == Reading /\ Still /\ GracefulRemoval("warning")

\* Mutant: the state is removed before the error is looked at.
ReadFailsForgets == Reading /\ Still /\ Return("error", Nothing)

ReadFails ==
    /\ Reading /\ Still
    /\ \/ Abort("error")
       \/ "misread" \in faults /\ GracefulRemoval("ok")

-------------------------------------------------------------------------------
(* What the handler does not control                                       *)

\* The object becomes o; a handler that runs lives through it.
Becomes(o) == /\ obj' = o
              /\ was' = IF op = "idle" THEN was ELSE was \union {o}
              /\ UNCHANGED <<fixed, state, op, at, given, diag>>

Land(r) == r \in late /\ late' = late \ {r} /\ Becomes(Effect(r, obj))

Others == obj' \in {Foreign, None} \ {obj} /\ Becomes(obj') /\ UNCHANGED late

\* The provider's process dies: Terraform keeps the state it had.
Killed == op # "idle" /\ Still /\ Abort("error")

-------------------------------------------------------------------------------
Handler == \/ Created \/ AlreadyExists \/ Updated \/ UpdatedNothing \/ Deleted
           \/ Partitioned \/ PartitionsFail
           \/ Resend \/ Transient \/ Fails \/ Refused
           \/ ProbeHit \/ ProbeMiss \/ Adopt \/ AdoptFails
           \/ ReadBack \/ ReadBackFails \/ Configured \/ ConfigFails
           \/ Found \/ NotFound \/ Unreachable \/ ReadFails

Terraform == \/ \E p \in Plans : Create(p) \/ Update(p) \/ UpdateLocal(p)
             \/ \E v \in Values : Import(v)
             \/ Read \/ Delete

Next == Terraform \/ Handler \/ (\E r \in late : Land(r)) \/ Others \/ Killed

Spec == Init /\ [][Next]_vars

-------------------------------------------------------------------------------
(* Properties                                                              *)

Handlers == {"create", "read", "import", "update", "delete"}
Calls    == {"call", "partitions", "probe", "adopt", "readback", "config"}

TypeOK == /\ kind \in Kinds /\ faults \in FaultSets
          /\ "silent" \in faults => kind = "topic"
          /\ obj \in Present \union {None}
          /\ late \subseteq Requests
          /\ held \in Present \union {None}
          /\ allow \in {"true", "false"}
          /\ op \in Handlers \union {"idle"}
          /\ at \in Calls \union {"none"}
          /\ given \in [val : Present \union {None}, allow : {"true", "false"}]
          /\ diag \in {"ok", "warning", "error", "exists"}
          /\ was \subseteq Present \union {None}

\* What a running handler can rely on: the object it looks at is part of the
\* history, a topic is created before its configuration is asked for, and the
\* state it was given is the one Terraform still has.
Progress == /\ op = "idle" <=> at = "none"
            /\ op # "idle" => obj \in was
            /\ at \in {"probe", "adopt", "readback"} => op = "create"
            /\ at = "adopt" => kind # "topic"
            /\ at = "partitions" => op = "update"
            /\ op \in {"create", "update", "import"} => given.val \in Values
            /\ op \in {"create", "import"} => held = None
            /\ at = "config" => op # "delete"
            /\ op = "import" => given.allow = "false"
            /\ op \in {"read", "update", "delete"} => held # None
            /\ op \in {"read", "delete"} => given = Prior
            /\ op = "delete" => allow # "false"
            /\ op = "create" /\ at = "config" => was \intersect Present # {}
            /\ held = None => allow = "true"

\* The inductive invariant.
IInv == TypeOK /\ Progress

Returning == op # "idle" /\ op' = "idle"

\* Terraform never loses track of an object behind the user's back: a handler
\* that returns without a diagnostic and leaves nothing in the state ran at a
\* time when the object was absent, unless errors are misread.  ("Resource removed
\* from Terraform state but may still exist" is the warning of every other removal.)
NeverSilent ==
    [][Returning /\ diag' = "ok" /\ held' = None /\ "misread" \notin faults =>
          None \in was']_vars

\* What a handler records without a diagnostic was there while it ran: some
\* object, and for a topic and after an update, exactly the recorded one.  The
\* exception is a configuration key the broker does not report: then the state may
\* also keep what was planned or held before ("so the state contains what the user
\* asked for"), whatever the topic really has, but never anything else.
Recorded ==
    [][Returning /\ diag' = "ok" /\ held' # None =>
          /\ was' \intersect Present # {}
          /\ kind = "topic" \/ op = "update" =>
                held' \in was' \/ ("silent" \in faults /\ held' = Unreported)]_vars

\* allow_deletion = false: whatever the cluster answers, the object stays in the
\* state until an Update allows its deletion, and no Delete of it ever calls the API.
Protected == [][allow = "false" => held' # None /\ op' # "delete"]_vars

\* "The broker may have created the topic before the error.  Check before
\* retrying to avoid orphans": a Create does not fail with "already exists" on
\* the topic it has just created itself.
NoOrphan ==
    [][kind = "topic" /\ op = "create" /\ Returning /\ diag' = "exists" =>
          ~ (None \in was' /\ obj' = given.val)]_vars

\* Is there an object, whatever it is?
Presence(o) == IF o = None THEN "absent" ELSE "present"

\* The handlers keep the promises of a Terraform resource: whatever is lost, resent or
\* answered late, and whoever else uses the cluster, what enters the state has been
\* there, what leaves it silently has not, and an error leaves it as it was, or with
\* what a Create has made.
Promise == INSTANCE Resource WITH
    object  <- Presence(obj),
    tracked <- IF held = None THEN "no" ELSE "yes",
    running <- op,
    seen    <- IF op = "idle" THEN {} ELSE {Presence(o) : o \in was},
    said    <- IF diag = "exists" THEN "error" ELSE diag,
    misled  <- "misread" \in faults

Implements == Promise!Spec

===============================================================================
