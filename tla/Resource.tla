------------------------------- MODULE Resource -------------------------------
(***************************************************************************)
(* What the Create, Read, Update, Delete and ImportState handlers of a     *)
(* resource promise to Terraform, with their calls, polls, retries and     *)
(* probes left out: what enters the state has been seen, what leaves it    *)
(* silently has been missed, success means what it says, and an error      *)
(* leaves a tracked object tracked.  The object is somebody else's as      *)
(* well: it may come and go at any moment.  ClusterObject,                 *)
(* ClusterLifecycle and OperationResource implement this specification.    *)
(***************************************************************************)

VARIABLES object,   \* "present" or "absent"
          tracked,  \* "yes": Terraform's state has it
          running,  \* the handler that runs, or "idle"
          seen,     \* what the object has been while it runs
          said,     \* what the last handler reported
          misled    \* whether this behaviour has errors in store that are taken for
                    \* the object's absence and are none

vars == <<object, tracked, running, seen, said, misled>>

Handlers == {"create", "read", "import", "update", "delete"}
Reports  == {"ok", "warning", "error"}

Init == /\ object \in {"present", "absent"}
        /\ tracked = "no"
        /\ running = "idle" /\ seen = {} /\ said = "ok"
        /\ misled \in BOOLEAN

\* Create and ImportState are for what is not in the state, the others for what is.
Start(h) ==
    /\ running = "idle"
    /\ tracked = IF h \in {"create", "import"} THEN "no" ELSE "yes"
    /\ running' = h /\ seen' = {object} /\ said' = "ok"
    /\ UNCHANGED <<object, tracked, misled>>

\* A handler that ends without asking anybody: a Delete that is refused, an
\* Update that changes nothing.
Local(r) ==
    /\ running = "idle" /\ tracked = "yes"
    /\ said' = r
    /\ UNCHANGED <<object, tracked, running, seen, misled>>

\* The object comes or goes. An accepted Create knows an object of its own from
\* there on, and what was under its name before no longer counts.
Change ==
    /\ object' \in {"present", "absent"} \ {object}
    /\ seen' = IF running = "idle" THEN seen ELSE seen \union {object'}
    /\ UNCHANGED <<tracked, running, said, misled>>

Accept ==
    /\ running = "create" /\ object = "absent"
    /\ object' = "present" /\ seen' = {"present"}
    /\ UNCHANGED <<tracked, running, said, misled>>

-------------------------------------------------------------------------------
(* The ways a handler returns; its last call may have changed the object.  *)

Return(h, r) ==
    /\ h = running
    /\ object' \in {"present", "absent"}
    /\ running' = "idle" /\ seen' = {} /\ said' = r
    /\ UNCHANGED misled

Saw(o) == o \in seen \union {object'}

\* The object is in the state now, with or without an error about the rest of it.
Remember(r) ==
    /\ \E h \in {"create", "import"} : Return(h, r)
    /\ Saw("present")
    /\ tracked' = "yes"

\* The object is still there.
Confirm ==
    /\ \E h \in {"read", "update"} : Return(h, "ok")
    /\ Saw("present")
    /\ UNCHANGED tracked

\* The object is dropped from the state, with a warning or because it is gone.
Forget(r) ==
    /\ \E h \in {"read", "delete"} : Return(h, r)
    /\ r = "ok" => Saw("absent") \/ misled
    /\ tracked' = "no"

\* There is nothing to import.
Miss ==
    /\ Return("import", "ok")
    /\ Saw("absent") \/ misled
    /\ UNCHANGED tracked

\* The handler failed, and Terraform knows what it knew.
Fail(r) ==
    /\ \E h \in Handlers : Return(h, r)
    /\ UNCHANGED tracked

Next == \/ \E h \in Handlers : Start(h)
        \/ \E r \in Reports : Local(r)
        \/ Change \/ Accept
        \/ \E r \in Reports : Remember(r)
        \/ Confirm
        \/ \E r \in {"ok", "warning"} : Forget(r)
        \/ Miss
        \/ \E r \in {"warning", "error"} : Fail(r)

Spec == Init /\ [][Next]_vars
===============================================================================
