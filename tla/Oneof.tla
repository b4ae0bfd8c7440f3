-------------------------------- MODULE Oneof --------------------------------
\* A oneof of the API as sibling attributes, each variant null or set.  At most
\* one is configured; the plan modifiers of the others may keep what the state
\* had, and Expand sets the variants one after the other.
EXTENDS Naturals, Sequences

\* expands: the variants in the order Expand sets them.  selectable: those that may
\* be configured.  pinned: those that are Computed with UseStateForUnknown.
\* reported: what the API answers where a request names none.
MaintenanceWindow ==
  [expands    |-> <<"anytime", "day_hour", "unspecified">>,
   selectable |-> {"anytime", "day_hour"},
   pinned     |-> {"unspecified"},
   reported   |-> {"none", "unspecified"}]

StartAt ==
  [expands    |-> <<"start_at_earliest", "start_at_latest", "start_at_timestamp">>,
   selectable |-> {"start_at_earliest", "start_at_latest", "start_at_timestamp"},
   pinned     |-> {"start_at_earliest", "start_at_latest", "start_at_timestamp"},
   reported   |-> {"none"}]

VARIABLES
  oneof,  \* the oneof
  config, \* the variant configured, or none: its block is left out
  exists, \* there is a resource
  state,  \* the variants set in the state
  server, \* the variant the API holds, or none
  applied \* the variant the last apply was to select, or none
vars == <<oneof, config, exists, state, server, applied>>

Configs == oneof.selectable \cup {"none"}

Flatten(w) == {w} \ {"none"}

\* The last one set is what the message holds.
Expand(set) ==
  LET Set == {i \in DOMAIN oneof.expands : oneof.expands[i] \in set}
  IN IF Set = {} THEN "none"
     ELSE oneof.expands[CHOOSE i \in Set : \A j \in Set : j <= i]

\* A block left out is pinned as it is; in one that is given, the pinned variants
\* keep the state.  What a new resource does not configure is unknown.
Planned == IF config = "none" THEN state ELSE {config} \cup (state \cap oneof.pinned)
PlannedNew == Flatten(config)

Answers(sent) == IF sent = "none" THEN oneof.reported ELSE {sent}

Init == /\ oneof \in {MaintenanceWindow, StartAt}
        /\ config \in Configs
        /\ exists = FALSE
        /\ state = {}
        /\ server = "none"
        /\ applied = "none"

Configure == /\ config' \in Configs
             /\ UNCHANGED <<oneof, exists, state, server, applied>>

Create == /\ ~exists /\ exists' = TRUE
          /\ server' \in Answers(Expand(PlannedNew))
          /\ state' = Flatten(server')
          /\ applied' = config
          /\ UNCHANGED <<oneof, config>>

\* Nothing is sent where plan and state expand to the same message.
Update ==
  /\ exists /\ Planned # state
  /\ IF Expand(Planned) = Expand(state) THEN UNCHANGED server
                                        ELSE server' \in Answers(Expand(Planned))
  /\ state' = Flatten(server')
  /\ applied' = config
  /\ UNCHANGED <<oneof, config, exists>>

Read == /\ exists
        /\ state' = Flatten(server)
        /\ UNCHANGED <<oneof, config, exists, server, applied>>

Next == Configure \/ Create \/ Update \/ Read

Spec == Init /\ [][Next]_vars

\* After an apply that selects a variant, that one is set and the others are null:
\* the schema of the cluster says so of unspecified.
TerminalNull == applied # "none" => state = {applied}
=============================================================================
