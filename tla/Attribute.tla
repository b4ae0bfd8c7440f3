------------------------------ MODULE Attribute ------------------------------
\* One attribute of one resource, from the configuration to the API and back.
\* A row of the attribute tables says how the provider treats it; this module
\* takes any row through every apply, drift, refresh and import.  An attribute is
\* followed together with the one it is nested in: own is its value and up the
\* value of the object around it, which for a top-level attribute is the
\* resource.
EXTENDS Conversion, FiniteSets

CONSTANTS
  Attributes, \* the rows followed
  Beyond      \* known gaps that the steps may fall in (see Gaps)

Classes == {"Required", "Optional", "OptionalComputed", "Computed", "Root"}
Kinds == {"Object", "List", "Map", "Bool", "Scalar"}
Handlers == {"mask", "whole", "user", "plan", "state", "none"}
Gaps == {"in_place", "new_block", "cleared", "left_out", "switched_off", "block_removed", "respelled"}
ASSUME GapsAssumption == Beyond \subseteq Gaps

ASSUME AttributesAssumption ==
  \A r \in Attributes :
    /\ r.handler \in Handlers
    /\ \A e \in {r, r.up} :
         /\ e.class \in Classes /\ e.kind \in Kinds
         /\ e.flatten \in FlattenForms /\ {e.create, e.update} \subseteq ExpandForms
         /\ e.data \in FlattenForms
         /\ {e.default, e.writeOnly, e.released} \subseteq BOOLEAN
    /\ {r.restored, r.inList, r.replaced, r.coupled, r.named, r.generated, r.fits} \subseteq BOOLEAN
    /\ r.class # "Root" /\ r.up.kind \in {"Object", "List"}

VARIABLES
  attr,    \* the row
  policy,  \* what the API assigns to what a request leaves out
  config,  \* the configuration
  exists,  \* there is a resource
  state,   \* the Terraform state
  server,  \* what the API holds
  fresh,   \* the state has been refreshed since something else changed the API
  verdict  \* Terraform's verdict on the last apply
vars == <<attr, policy, config, exists, state, server, fresh, verdict>>

Up == attr.up
Pair(p, v) == [up |-> p, own |-> v]
Nowhere == Pair("null", "null")
Verdicts == {"ok", "unfit", "unknown", "inconsistent"}

Computed(r) == r.class \in {"Computed", "OptionalComputed"}
TopLevel == Up.class = "Root"

\* The API is asked for nothing here: the value lives in Terraform only.
Local(r) == r.flatten \in {"prev", "default", "none"}
Sent(r) == "absent" \notin {r.create} \/ r.update # "absent"

KnownOf(r) == CASE r.kind = "Object" -> {"a"}
                [] r.kind = "Bool"   -> {"zero", "a"}
                [] OTHER             -> Known

\* A field the protocol tells apart from its zero value.
Presence(r) == r.flatten = "has" \/ "pointer" \in {r.create, r.update}
WireOf(r) == {"absent"} \cup (KnownOf(r) \ (IF Presence(r) THEN {} ELSE {"zero"}))

-----------------------------------------------------------------------------
\* Configurations.

\* What a practitioner can write for the attribute.
Written(r) == KnownOf(r) \cup (IF r.flatten \in Respelled THEN {"alias"} ELSE {})

ConfigOf(r) == CASE r.class = "Root"     -> {"a"}
                 [] r.class = "Required" -> Written(r)
                 [] r.class = "Computed" -> {"null"}
                 [] OTHER                -> Written(r) \cup {"null"}

\* Configurations the provider is known to mishandle: an explicit empty list,
\* map or false oneof, which reads back as null; a zero value that cannot be
\* sent where the API has a value of its own; an optional enum left out of its
\* block, which reads back as the enum's zero name; a duration or timestamp that is
\* not written the way Flatten writes it, unless it is restored from the plan.
Cleared(c) == c.own = "zero" /\ attr.flatten \in NullForms
SwitchedOff(c) == /\ c.own = "zero" /\ "pointer" \notin {attr.create, attr.update}
                  /\ policy.own # "absent" \/ attr.coupled
LeftOut(c) == attr.class = "Optional" /\ attr.flatten = "direct" /\ c.up = "a" /\ c.own = "null"

Reformatted(c) == c.own = "alias" /\ ~attr.restored

Configs == {c \in [up : ConfigOf(Up) \cap {"null", "a"}, own : ConfigOf(attr) \cup {"null"}] :
              /\ IF c.up = "null" THEN c.own = "null" ELSE c.own \in ConfigOf(attr)
              /\ Cleared(c) => "cleared" \in Beyond
              /\ SwitchedOff(c) => "switched_off" \in Beyond
              /\ LeftOut(c) => "left_out" \in Beyond
              /\ Reformatted(c) => "respelled" \in Beyond}

-----------------------------------------------------------------------------
\* The plan Terraform makes from a configuration and the prior state.

Proposed(r, c, s) == IF c # "null" THEN IF r.writeOnly THEN "null" ELSE c
                     ELSE IF r.default THEN "zero"
                     ELSE IF Computed(r) THEN s ELSE "null"

\* Mutant of StatePin: no attribute has a plan modifier.
StateUnpinned(r, v, s, moved) == v

\* The plan modifiers of the schema; moved says that the sibling a pin watches
\* changes with this plan.
StatePin(r, v, s, moved) ==
  IF v # "unknown" THEN v ELSE
  CASE "UseStateForUnknown" \in r.mods        -> s
    [] "UseNonNullStateForUnknown" \in r.mods -> IF s = "null" THEN v ELSE s
    [] "gcpGatewayStatePin" \in r.mods        -> IF moved THEN v ELSE s
    [] "rpsqlStringStatePin" \in r.mods       -> IF moved \/ s = "null" THEN v ELSE s
    [] "rpsqlZonesStatePin" \in r.mods        -> IF moved /\ s \in {"null", "zero"} THEN v ELSE s
    [] OTHER                                  -> v

\* Mutant of Released: endpoints and statuses keep their state.
NothingReleased(r, v, moved) == v

\* ModifyPlan of the cluster: endpoints and statuses are unknown again.
Released(r, v, moved) == IF r.released /\ moved THEN "unknown" ELSE v

PlanOne(r, c, s, changed, moved) ==
  LET v == IF changed /\ Computed(r) /\ c = "null" /\ ~r.default THEN "unknown" ELSE Proposed(r, c, s)
  IN Released(r, StatePin(r, v, s, moved), moved)

OwnOf(s) == IF s.up = "a" THEN s.own ELSE "null"

Differs(c, s) == \/ Proposed(Up, c.up, s.up) # s.up
                 \/ c.up # "null" /\ Proposed(attr, c.own, OwnOf(s)) # OwnOf(s)

\* other: something else in the resource changes as well.
PlanUpdate(c, s, other, moved) ==
  LET changed == other \/ Differs(c, s)
      p == PlanOne(Up, c.up, s.up, changed, moved)
  IN Pair(p, IF p # "a" THEN p
             ELSE IF c.up = "null" THEN Released(attr, s.own, moved)
             ELSE PlanOne(attr, c.own, OwnOf(s), changed, moved))

PlanNew(r, c) == IF Computed(r) /\ c = "null" /\ ~r.default THEN "unknown" ELSE Proposed(r, c, "null")

PlanCreate(c) ==
  LET p == PlanNew(Up, c.up)
  IN Pair(p, IF p = "a" THEN PlanNew(attr, c.own) ELSE p)

Replacing(r) == "RequiresReplace" \in r.mods
Replaces(s, pl) == \/ Replacing(attr) /\ pl.up = "a" /\ pl.own # OwnOf(s)
                   \/ (Replacing(Up) \/ attr.replaced) /\ pl # s

-----------------------------------------------------------------------------
\* The request a plan is expanded into, and the API's answer; root is "create" or
\* "update", the conversion a handler calls.

\* Mutant of Payload: the request is made of the configuration, not of the plan.
PayloadOfConfig(pl, root) ==
  LET p == Expand(Up[root], config.up)
  IN Pair(p, IF p = "absent" THEN "absent" ELSE Expand(attr[root], config.own))

Payload(pl, root) ==
  LET p == Expand(Up[root], pl.up)
  IN Pair(p, IF p = "absent" THEN "absent" ELSE Expand(attr[root], pl.own))

\* What the API holds after a request: what was sent, what it held of the fields
\* the request has no place for, and its own value for what was left out.  A
\* computed value is the API's own.
Serve(pay, root, held) ==
  LET p == IF pay.up # "absent" THEN "a"
           ELSE IF Up[root] = "absent" THEN held.up ELSE policy.up
      computed == attr.class = "Computed"
  IN Pair(p, IF p = "absent" THEN "absent"
             ELSE IF ~computed /\ pay.own # "absent" THEN pay.own
             ELSE IF (computed \/ attr[root] = "absent") /\ held.up # "absent" THEN held.own
             ELSE policy.own)

\* Mutant of FlattenPair: a block that prev has is carried over with what it held.
FlattenCarried(w, prev) ==
  IF ~TopLevel /\ prev.up = "a" /\ prev.own \in Known THEN prev
  ELSE Pair(IF TopLevel THEN "a" ELSE Flatten(Up.flatten, w.up, prev.up),
            IF ~TopLevel /\ Flatten(Up.flatten, w.up, prev.up) # "a"
            THEN Flatten(Up.flatten, w.up, prev.up)
            ELSE Flatten(attr.flatten, w.own, IF prev.up = "a" THEN prev.own ELSE "unknown"))

\* No response shows a secret; the other restored leaf, a JSON object, is shown.
Secret(r) == r.restored /\ r.flatten \notin Respelled

\* Flatten of the pair.  The elements of a list are flattened without a prev; a
\* block carried over from prev keeps what it held; a restored leaf is taken from
\* prev wherever the response has its block.
FlattenPair(w, prev) ==
  LET p == IF TopLevel THEN "a" ELSE Flatten(Up.flatten, w.up, prev.up)
      carried == ~TopLevel /\ prev.up = "a" /\ (w.up = "absent" \/ Up.flatten = "keep")
      pv == IF prev.up = "a" /\ ~attr.inList THEN prev.own ELSE "unknown"
  IN Pair(p, IF p # "a" THEN p
             ELSE IF carried THEN prev.own
             ELSE IF attr.restored /\ pv # "unknown" THEN pv
             ELSE Flatten(attr.flatten, IF Secret(attr) THEN "absent" ELSE w.own, pv))

\* acl and role write an id of their own making over what was flattened.
Identified(s, id) == IF attr.generated THEN [s EXCEPT !.own = id] ELSE s

Agrees(pl, s) == /\ pl.up # "unknown" => s.up = pl.up
                 /\ pl.up = "a" /\ pl.own # "unknown" => s.own = pl.own

Judge(pl, s) == IF ~attr.fits THEN "unfit"
                ELSE IF "unknown" \in {s.up, s.own} THEN "unknown"
                ELSE IF ~Agrees(pl, s) THEN "inconsistent" ELSE "ok"
-----------------------------------------------------------------------------
\* What the rows have in common.  The generator, the schemas and the handlers see
\* to it, and the proofs rest on it; TLC evaluates it for every row.

\* Attributes whose state is always the API's: Flatten never answers with prev.
Shown(r) == r.flatten \notin PrevForms \ {"carryEmpty"}

Pins == {"UseStateForUnknown", "UseNonNullStateForUnknown", "gcpGatewayStatePin",
         "rpsqlStringStatePin", "rpsqlZonesStatePin"}

\* Plan modifiers do not compete.
OnePin(e) == \A m, n \in e.mods \cap Pins : m = n
Kept(e) == "UseStateForUnknown" \in e.mods
Held(e) == Kept(e) \/ "UseNonNullStateForUnknown" \in e.mods

\* The object around an attribute: a block of the schema, or the resource.
Enclosing(r) ==
  LET u == r.up
  IN /\ ~u.default /\ ~u.writeOnly /\ OnePin(u) /\ u.kind \in {"Object", "List"}
     /\ u.flatten \in NullForms \cup {"has", "keep"}
     /\ {u.create, u.update} \subseteq {"value", "absent"}
     /\ u.create = "absent" <=> u.class = "Computed"
     /\ u.class = "Computed" => u.update = "absent"
     /\ u.class = "Root" => /\ u.flatten \in NullForms /\ u.update = "value"
                            /\ u.mods = {} /\ ~u.released
     /\ Computed(u) => Held(u)
     /\ u.flatten = "has" => Computed(u) /\ Kept(u) /\ ~u.released
     /\ u.flatten = "keep" => u.class = "OptionalComputed" /\ Kept(u) /\ u.update = "value"
     /\ u.released => u.class = "Computed"

\* A block that a request has no place for has no place for its attributes; where
\* only the update has none, a change replaces the resource.
Placed(r) ==
  /\ r.up.create = "absent" => r.create = "absent"
  /\ r.up.update = "absent" => r.update = "absent"
  /\ r.up.update = "absent" /\ r.up.class # "Computed"
       => Replacing(r.up) \/ r.replaced \/ r.handler = "none"
  /\ r.class # "Computed" /\ r.create = "absent" => r.update = "absent" /\ r.flatten \in {"prev", "default"}
  /\ r.class # "Computed" /\ r.create # "absent" /\ r.update = "absent"
       => Replacing(r) \/ r.replaced \/ r.handler = "none"
  /\ r.class # "Computed" /\ "absent" \notin {r.create, r.update} => r.create = r.update

\* The form an attribute is flattened in suits the way it may be set.
Suited(r) ==
  /\ r.flatten # "none"
  /\ r.default => r.class = "OptionalComputed" /\ r.flatten \in {"direct", "default"}
  /\ r.flatten = "default" => r.default /\ r.create = "absent" /\ r.up.class = "Root"
  /\ r.writeOnly => r.class = "Optional" /\ r.flatten = "prev"
  /\ r.class = "OptionalComputed" /\ ~r.default
       => r.flatten \in NullForms \cup {"direct", "carryEmpty", "has", "keep"}
  /\ r.class # "Computed" /\ r.flatten = "has"
       => "pointer" \in {r.create, r.update} \/ r.kind = "Object" \/ (r.handler # "mask" /\ ~r.coupled)
  /\ r.kind = "Object" => ~r.default /\ r.flatten \notin {"direct", "default"}
  /\ r.class # "Computed" /\ r.flatten = "keep" => r.handler = "whole"
  /\ "pointer" \in {r.create, r.update} => "has" \in {r.flatten, r.up.flatten}
  /\ r.up.flatten = "keep" => ~Computed(r) /\ r.update # "absent" /\ r.handler = "whole"
  /\ r.restored => \/ r.class = "Computed"
                   \/ r.class = "OptionalComputed" /\ r.flatten \in NullForms
                   \/ r.class = "OptionalComputed" /\ r.flatten = "direct" /\ r.up.class # "Root"
  /\ r.inList => ~r.restored /\ r.flatten \in NullForms \cup {"direct"}
  /\ r.generated => r.up.class = "Root" /\ r.class = "Computed" /\ r.flatten = "prev" /\ ~r.restored
  /\ r.named => r.up.class = "Root" /\ r.class \in {"Required", "Computed"} /\ r.flatten \in {"direct", "prev"}
  /\ Shown(r) /\ r.data # "none" => r.data = IF r.flatten = "carryEmpty" THEN "list" ELSE r.flatten
  /\ Shown(r.up) /\ r.up.data # "none" => r.up.data = r.up.flatten

\* What a plan does to a computed attribute suits what an update does to it.
Planned(r) ==
  /\ OnePin(r)
  /\ Computed(r) /\ ~r.default => r.mods \cap Pins # {}
  /\ r.released => r.class = "Computed"
  /\ r.coupled => r.handler = "mask" /\ ~r.default /\ (r.released \/ r.up.released \/ ~Held(r))
  /\ "rpsqlZonesStatePin" \in r.mods => r.update = "value" /\ r.class = "OptionalComputed"
  /\ (Replacing(r) \/ Replacing(r.up) \/ r.replaced)
       => /\ Computed(r) => Kept(r)
          /\ Computed(r.up) => Kept(r.up)
          /\ r.flatten # "carryEmpty" /\ ~r.default
  /\ r.handler \in {"plan", "state", "user"} => r.up.class = "Root"
  /\ r.handler = "plan" => ~Computed(r) \/ r.default \/ Kept(r)
  /\ r.handler \in {"state", "user"} /\ r.default => r.flatten = "default"
  /\ r.handler = "state" => r.default \/ Replacing(r) \/ r.class = "Computed"

ASSUME RowsAssumption ==
  \A r \in Attributes : r.fits /\ Enclosing(r) /\ Placed(r) /\ Suited(r) /\ Planned(r)

-----------------------------------------------------------------------------
\* The steps.

Init == /\ attr \in Attributes
        /\ policy \in [up : IF Computed(Up) /\ ~Local(Up) THEN {"absent", "a"} ELSE {"absent"},
                        own : IF Computed(attr) /\ ~Local(attr) /\ ~attr.default
                              THEN WireOf(attr) ELSE {"absent"}]
        /\ config \in Configs
        /\ exists = FALSE
        /\ state = Nowhere
        /\ server = Pair("absent", "absent")
        /\ fresh = TRUE
        /\ verdict = "ok"

\* The practitioner edits the configuration.
Configure == /\ config' \in Configs
             /\ UNCHANGED <<attr, policy, exists, state, server, fresh, verdict>>

\* The apply that creates the resource, or replaces it.
Create ==
  /\ fresh
  /\ exists => Replaces(state, PlanUpdate(config, state, FALSE, FALSE))
  /\ LET pl == PlanCreate(config) IN
       /\ server' = Serve(Payload(pl, "create"), "create", policy)
       /\ state' = Identified(FlattenPair(server', pl), "a")
       /\ verdict' = Judge(pl, state')
  /\ exists' = TRUE
  /\ UNCHANGED <<attr, policy, config, fresh>>

\* What Terraform asks the resource to update in place.  The known gaps: a
\* resource that ignores updates, and a value pinned to null under a block that
\* the plan adds.
Updates(pl, other, moved) ==
  /\ exists /\ fresh
  /\ moved => other /\ attr.coupled /\ (config.up = "a" \/ attr.released \/ Up.released)
  /\ pl = PlanUpdate(config, state, other, moved)
  /\ other \/ pl # state
  /\ ~Replaces(state, pl)
  /\ attr.handler = "none" /\ pl # state => "in_place" \in Beyond
  /\ Computed(attr) /\ pl = Pair("a", "null") /\ state.up # "a" => "new_block" \in Beyond

Answer(pl, w, s) == /\ server' = w
                    /\ state' = s
                    /\ verdict' = Judge(pl, s)
                    /\ UNCHANGED <<attr, policy, config, exists, fresh>>

\* Values the API may derive anew when a sibling moves; a value it assigns, and
\* that could have been configured, it does not take back.
Rederived == WireOf(attr) \ (IF attr.class = "Computed" THEN {} ELSE {"absent"})
Derived(w) ==
  {w} \cup (IF w.up = "a" /\ Computed(attr) THEN {Pair("a", v) : v \in Rederived} ELSE {})
      \cup (IF Up.released THEN {Pair("absent", "absent")} ELSE {})

Served(pl, moved) ==
  LET w == Serve(Payload(pl, "update"), "update", server)
  IN IF moved /\ Payload(pl, "update").own = "absent" THEN Derived(w) ELSE {w}

\* The update mask names the field: the payloads of plan and state differ in it.
InMask(pl) == Payload(pl, "update") # Payload(state, "update")

\* cluster, shadow_link, serverless_*, service_account: nothing is sent unless
\* the payloads of plan and state differ in some field; the answer is read back.
MaskedUpdate(pl, other, moved) ==
  /\ attr.handler = "mask"
  /\ \E w \in (IF InMask(pl) THEN {} ELSE {server})
             \cup (IF InMask(pl) \/ other THEN Served(pl, moved) ELSE {}) :
       Answer(pl, w, FlattenPair(w, pl))

\* pipeline and user: the whole plan is sent, and the answer flattened.
WholeUpdate(pl) ==
  /\ attr.handler \in {"whole", "user"}
  /\ \E w \in Served(pl, FALSE) : Answer(pl, w, FlattenPair(w, pl))

\* acl, and user when neither password nor mechanism changes: the prior state is
\* kept but for allow_deletion.
StateUpdate(pl) ==
  /\ \/ attr.handler = "state"
     \/ attr.handler = "user" /\ (attr.default \/ pl.own \in {state.own, "unknown"})
  /\ Answer(pl, server, IF attr.default THEN pl ELSE state)

\* resource_group, role, topic: the plan itself becomes the state.
PlanStored(pl) ==
  /\ attr.handler = "plan"
  /\ \E w \in Served(pl, FALSE) : Answer(pl, w, pl)

\* network: Update does nothing, and Terraform keeps the prior state.
EmptyUpdate(pl) ==
  /\ attr.handler = "none"
  /\ Answer(pl, server, state)

Update ==
  \E other, moved \in BOOLEAN :
    \E pl \in {PlanUpdate(config, state, other, moved)} :
      /\ Updates(pl, other, moved)
      /\ MaskedUpdate(pl, other, moved) \/ WholeUpdate(pl) \/ StateUpdate(pl)
         \/ PlanStored(pl) \/ EmptyUpdate(pl)

\* Someone else configures the resource, or the API moves a value of its own.
Elsewhere ==
  LET applied == {Serve(Payload(PlanCreate(c), "create"), "create", policy) : c \in Configs}
  IN applied \cup (IF attr.class = "Computed" /\ ~Local(attr)
                   THEN {Pair("a", v) : v \in WireOf(attr)} ELSE {})

Drift == /\ exists /\ ~Local(attr)
         /\ server' \in Elsewhere
         /\ Up.flatten = "has" /\ server.up = "a" /\ server'.up = "absent" => "block_removed" \in Beyond
         /\ fresh' = FALSE
         /\ UNCHANGED <<attr, policy, config, exists, state, verdict>>

Read == /\ exists
        /\ state' = FlattenPair(server, state)
        /\ fresh' = TRUE
        /\ verdict' = Judge(state', state')
        /\ UNCHANGED <<attr, policy, config, exists, server>>

\* Mutant of ImportState: the id is looked up and its parts are not stored.
ImportNameless ==
  /\ exists
  /\ state' = FlattenPair(server, Pair(IF TopLevel THEN "a" ELSE "null", "null"))
  /\ fresh' = TRUE
  /\ verdict' = Judge(state', state')
  /\ UNCHANGED <<attr, policy, config, exists, server>>

\* Import, and the read that follows it: the id names some attributes.
ImportState ==
  /\ exists
  /\ state' = FlattenPair(server, Pair(IF TopLevel THEN "a" ELSE "null",
                                       IF ~attr.named THEN "null"
                                       ELSE IF config.own = "null" THEN "a" ELSE config.own))
  /\ fresh' = TRUE
  /\ verdict' = Judge(state', state')
  /\ UNCHANGED <<attr, policy, config, exists, server>>

Next == Configure \/ Create \/ Update \/ Drift \/ Read \/ ImportState

Spec == Init /\ [][Next]_vars

-----------------------------------------------------------------------------
\* What the provider must get right.

TypeOK ==
  /\ attr \in Attributes /\ config \in Configs
  /\ policy \in [up : WireValue, own : WireValue]
  /\ state \in [up : TFValue, own : TFValue]
  /\ server \in [up : WireValue, own : WireValue]
  /\ exists \in BOOLEAN /\ fresh \in BOOLEAN /\ verdict \in Verdicts

\* What a state and the API's answer have in common: an attribute is where its
\* block is, and zero values are where the protocol has room for them.
Shape ==
  /\ {server.up, policy.up} \subseteq {"absent", "a"} /\ state.up \in {"null", "a"}
  /\ server.up = "absent" => server.own = "absent"
  /\ state.up = "null" => state.own = "null"
  /\ state.own # "unknown"
  /\ state.own = "alias" => attr.restored /\ attr.flatten \in Respelled
  /\ attr.restored /\ attr.flatten = "direct" /\ attr.class = "OptionalComputed" /\ state.up = "a"
       => state.own # "null"
  /\ "zero" \in {server.own, policy.own} => Presence(attr)
  /\ attr.kind = "Object" => "zero" \notin {server.own, policy.own, state.own}
  /\ ~Computed(Up) => policy.up = "absent"
  /\ ~Computed(attr) \/ attr.default => policy.own = "absent"
  /\ TopLevel /\ exists => server.up = "a" /\ state.up = "a"

\* What the API assigns it does not take back.
Assigned ==
  exists =>
    /\ Up.update # "absent" /\ policy.up = "a" => server.up = "a"
    /\ attr.class # "Computed" /\ server.up = "a" /\ policy.own # "absent" => server.own # "absent"
    /\ attr.class # "Computed" /\ "pointer" \notin {attr.create, attr.update} /\ server.own = "zero"
         => policy.own = "zero"
    /\ Up.flatten = "has" /\ state.up = "a" => server.up = "a"

\* A state that is fresh is what Flatten makes of what the API holds.
Refreshed == exists /\ fresh => FlattenPair(server, state) = state

\* The inductive invariant: no apply was ever refused.
IInv == TypeOK /\ Shape /\ Assigned /\ Refreshed /\ verdict = "ok"

\* No apply ends with "Provider produced inconsistent result after apply": what
\* Flatten makes of the API's answer is what the plan promised, whatever the plan
\* modifiers kept, released or pinned on the way.
Consistent == verdict # "inconsistent"

\* Nothing stays unknown after an apply, a read or an import, and model, schema
\* and conversion give the attribute one type.
Complete == verdict \notin {"unknown", "unfit"}

Apply == Create \/ Update
Settled(c, s) == PlanUpdate(c, s, FALSE, FALSE) = s

\* A plan made right after an apply is empty: no configuration makes Terraform ask
\* for the same change again and again.
Converges == [][Apply => Settled(config', state')]_vars

\* A refresh right after an apply or a refresh changes nothing: Flatten with the
\* state it made as its prev makes it again.
RefreshStable == [][Apply \/ Read => FlattenPair(server', state') = state']_vars

\* A later change to something else in the resource never asks for a replacement
\* because of this attribute.
NoSpuriousReplacement ==
  [][Apply => ~Replaces(state', PlanUpdate(config', state', TRUE, FALSE))]_vars

\* What the practitioner's value is on the wire.
Asked(c) == Sent(attr) /\ ~attr.writeOnly /\ c.up = "a" /\ c.own # "null"
Wanted(c) == Expand(IF attr.create = "absent" THEN attr.update ELSE attr.create, c.own)

\* A value that no response restores, as it is after an import.
Unread == Local(attr) /\ state.own = "null"

\* A drift that no refresh shows: the leaf is restored, and the mask, made of the
\* plan and the state, does not name it.
Hidden == /\ attr.restored /\ server.own # Wanted(config)
          /\ Expand(attr.update, state.own) = Wanted(config)

\* After an apply the API holds what the configuration asks for, through masks
\* that leave fields out and handlers that send only some of them.
Reaches ==
  [][(Create \/ (Update /\ ~Unread /\ ~Hidden)) /\ Asked(config') => server'.own = Wanted(config')]_vars

Faithful == Shown(attr) /\ Shown(Up) /\ ~attr.restored

\* An update for the sake of something else leaves this attribute alone in the
\* API, though it may be sent along with the changed one.
LeavesAlone ==
  [][Update /\ Faithful /\ ~Differs(config, state) /\ ~attr.coupled => server' = server]_vars

\* What someone else changed is seen by the next refresh, and planned back.
DriftSeen ==
  [][Read /\ Faithful /\ Asked(config) /\ server.own # Wanted(config) => ~Settled(config, state')]_vars

Matches(c, w) == /\ c.up = "a" <=> w.up # "absent"
                 /\ Asked(c) => w.own = Wanted(c)
                 /\ c.own = "null" /\ ~Computed(attr) => w.own = "absent"

\* A resource imported into the configuration that describes it is not planned
\* for replacement.
ImportAdopts ==
  [][ImportState /\ (Faithful \/ attr.named) /\ Matches(config, server)
       => ~Replaces(state', PlanUpdate(config, state', FALSE, FALSE))]_vars

\* What the data source of the same type reads: a Flatten of its own, with no prev.
DataRead ==
  LET p == IF TopLevel THEN "a" ELSE Flatten(Up.data, server.up, "null")
  IN Pair(p, IF p = "a" THEN Flatten(attr.data, server.own, "null") ELSE p)

\* The data source and the refreshed resource show the same value, but for an
\* empty list that only the resource's plan can tell from none.
DataAgrees ==
  exists /\ fresh /\ Faithful /\ ~Local(attr) /\ "none" \notin {attr.data, Up.data}
    => \/ OwnOf(DataRead) = OwnOf(state)
       \/ attr.flatten = "carryEmpty" /\ state.own = "zero"
=============================================================================
