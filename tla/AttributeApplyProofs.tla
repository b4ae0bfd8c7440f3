------------------------ MODULE AttributeApplyProofs ------------------------
(***************************************************************************)
(* What an apply, a refresh and an import do, for every table whose rows   *)
(* keep to the laws of Attribute: the action properties of Attribute, and  *)
(* the agreement of the data source with the resource, from the invariant  *)
(* of AttributePlanProofs.                                                 *)
(***************************************************************************)
EXTENDS AttributePlanProofs

-----------------------------------------------------------------------------
\* Applied states.

\* A state answers a configuration: whatever that gives is there.
Answers(c, s) ==
  /\ s \in TFPair /\ s.up \in {"null", "a"} /\ s.own # "unknown"
  /\ s.up = "null" => s.own = "null"
  /\ c.up = "a" => s.up = "a"
  /\ c.up = "null" /\ ~Computed(Up) => s.up = "null"
  /\ c.up = "a" => Given(s.own) \/ (Computed(attr) /\ ~attr.default /\ c.own = "null")

LEMMA PlannedAnswers ==
  ASSUME TypeOK, Shape, Beyond = {}, NEW pl, NEW w, NEW s, Settles(w, s), Agrees(pl, s),
         config.up = "a" => pl.up = "a",
         config.up = "null" /\ ~Computed(Up) => pl.up = "null",
         config.up = "a" => Given(pl.own) \/ (Computed(attr) /\ ~attr.default /\ config.own = "null")
  PROVE  Answers(config, s)
<1>1. config.up = "a" /\ Given(pl.own) => pl.own # "unknown"
  BY GivenValue DEF Known
<1>2. config.up = "a" => s.up = "a"
  BY DEF Agrees
<1>3. config.up = "a" /\ Given(pl.own) => Given(s.own)
  BY <1>1 DEF Agrees
<1>4. config.up = "null" /\ ~Computed(Up) => s.up = "null"
  BY DEF Agrees
<1>5. /\ s \in TFPair /\ s.up \in {"null", "a"} /\ s.own # "unknown"
      /\ s.up = "null" => s.own = "null"
  BY DEF Settles, Storable
<1> QED
  BY <1>2, <1>3, <1>4, <1>5 DEF Answers

\* What an apply leaves: a fresh state that answers the configuration.
LEMMA AppliedState ==
  ASSUME Sound, Beyond = {}, Apply
  PROVE  /\ FlattenPair(server', state') = state' /\ verdict' = "ok"
         /\ Answers(config, state') /\ UNCHANGED <<attr, policy, config>>
<1>1. TypeOK /\ Shape /\ config \in Configs
  BY DEF Sound, TypeOK
<1>2. config.up \in {"null", "a"}
  BY <1>1, ConfigValue
<1>3. CASE Create
  <2> DEFINE pl == PlanCreate(config)
  <2>1. /\ config.up = "a" => /\ pl.up = "a"
                              /\ \/ Given(pl.own)
                                 \/ Computed(attr) /\ ~attr.default /\ pl.own = "unknown"
        /\ config.up = "null" => pl.up = IF Computed(Up) THEN "unknown" ELSE "null"
    BY <1>1, PlanCreateValue
  <2>2. config.up = "a" /\ pl.own = "unknown" => config.own = "null" \/ Given(pl.own)
    <3>1. config.up = "a" => pl.own = PlanNew(attr, config.own)
      BY <2>1 DEF PlanCreate, Pair
    <3>2. config.own \in Known \cup {"null", "alias"}
      BY <1>1, ConfigValue
    <3> HIDE DEF pl
    <3> QED
      BY <3>1, <3>2 DEF PlanNew, Proposed, Known
  <2>3. Settles(server', state') /\ FlattenPair(server', state') = state'
        /\ Agrees(pl, state') /\ verdict' = "ok" /\ UNCHANGED <<attr, policy, config>>
    BY <1>3, CreateSettles
  <2> HIDE DEF pl
  <2>4. Answers(config, state')
    BY <1>1, <2>1, <2>2, <2>3, PlannedAnswers
  <2> QED
    BY <2>3, <2>4
<1>4. CASE Update
  <2>1. PICK other, moved, pl :
          /\ other \in BOOLEAN /\ moved \in BOOLEAN
          /\ Updates(pl, other, moved)
          /\ MaskedUpdate(pl, other, moved) \/ WholeUpdate(pl) \/ StateUpdate(pl)
             \/ PlanStored(pl) \/ EmptyUpdate(pl)
    BY <1>4 DEF Update
  <2>2. pl = PlanUpdate(config, state, other, moved)
    BY <2>1 DEF Updates
  <2>3. /\ config.up = "a" => pl.up = "a"
        /\ config.up = "null" /\ ~Computed(Up) => pl.up = "null"
    BY <1>1, <2>2, PlanUpdateUp
  <2>4. config.up = "a" => Given(pl.own) \/ (Computed(attr) /\ ~attr.default /\ config.own = "null")
    BY <1>1, <2>2, PlanUpdateOwn
  <2>5. Settles(server', state') /\ FlattenPair(server', state') = state'
        /\ Agrees(pl, state') /\ verdict' = "ok" /\ UNCHANGED <<attr, policy, config>>
    BY <2>1, UpdateSettles
  <2>6. Answers(config, state')
    BY <1>1, <2>3, <2>4, <2>5, PlannedAnswers
  <2> QED
    BY <2>5, <2>6
<1> QED
  BY <1>3, <1>4 DEF Apply

\* What a plan finds in a state that answers its configuration.
LEMMA Replanned ==
  ASSUME TypeOK, Beyond = {}, NEW s, Answers(config, s), NEW other \in BOOLEAN, NEW pl,
         pl = PlanUpdate(config, s, other, FALSE)
  PROVE  /\ ~other => pl = s
         /\ (Computed(Up) => Kept(Up)) /\ (Computed(attr) => Kept(attr)) => pl = s
<1> DEFINE changed == other \/ Differs(config, s)
           p == PlanOne(Up, config.up, s.up, changed, FALSE)
           q == PlanOne(attr, config.own, s.own, changed, FALSE)
           kept == (Computed(Up) => Kept(Up)) /\ (Computed(attr) => Kept(attr))
<1>1. /\ config.up \in {"null", "a"} /\ config.own \in Known \cup {"null", "alias"}
      /\ Up.class = "Computed" => config.up = "null"
      /\ attr.class = "Computed" => config.own = "null"
  <2>1. config \in Configs
    BY DEF TypeOK
  <2> QED
    BY <2>1, ConfigValue
<1>2. /\ s \in TFPair /\ s.up \in {"null", "a"} /\ s.own # "unknown"
      /\ s.up = "null" => s.own = "null"
      /\ config.up = "a" => s.up = "a"
      /\ config.up = "null" /\ ~Computed(Up) => s.up = "null"
      /\ config.up = "a" => Given(s.own) \/ (Computed(attr) /\ ~attr.default /\ config.own = "null")
  BY DEF Answers
<1>3. /\ ~Up.default /\ ~Up.writeOnly /\ PlanRow(Up) /\ PlanRow(attr)
      /\ attr.writeOnly => attr.class = "Optional"
      /\ attr.default => attr.class = "OptionalComputed"
  BY RowPlans, RowLaws DEF Suited
<1>4. ~Differs(config, s)
  <2>1. Proposed(Up, config.up, s.up) = s.up
    BY <1>1, <1>2, <1>3 DEF Proposed
  <2>2. config.up # "null" => OwnOf(s) = s.own
    BY <1>1, <1>2 DEF OwnOf
  <2>3. config.up # "null" => Proposed(attr, config.own, s.own) = s.own
    BY <1>1, <1>2, <1>3 DEF Proposed, Given, Computed
  <2> QED
    BY <2>1, <2>2, <2>3 DEF Differs
<1>5. changed = other
  BY <1>4
<1>6. pl = Pair(p, IF p # "a" THEN p
                   ELSE IF config.up = "null" THEN Released(attr, s.own, FALSE)
                   ELSE PlanOne(attr, config.own, OwnOf(s), changed, FALSE))
  BY DEF PlanUpdate
<1> HIDE DEF changed
<1>7. PlanOneFacts(Up, config.up, s.up, changed, FALSE)
  <2>1. config.up # "unknown" /\ s.up # "unknown"
    BY <1>1, <1>2
  <2> QED
    BY <1>1, <1>3, <2>1, PlanOneValue
<1>8. PlanOneFacts(attr, config.own, s.own, changed, FALSE)
  <2>1. config.own # "unknown"
    BY <1>1 DEF Known
  <2> QED
    BY <1>1, <1>2, <1>3, <2>1, PlanOneValue
<1>9. ~other \/ kept => p = s.up
  <2>1. p = PlanOne(Up, config.up, s.up, changed, FALSE)
    OBVIOUS
  <2> HIDE DEF p
  <2> QED
    BY <1>1, <1>2, <1>3, <1>5, <1>7, <2>1 DEF PlanOneFacts
<1>10. config.up = "a" /\ (~other \/ kept) => q = s.own
  <2>1. q = PlanOne(attr, config.own, s.own, changed, FALSE)
    OBVIOUS
  <2> HIDE DEF q
  <2>2. CASE Given(s.own)
    BY <1>1, <1>3, <1>5, <1>8, <2>1, <2>2 DEF PlanOneFacts, Given, Computed
  <2>3. CASE Computed(attr) /\ ~attr.default /\ config.own = "null"
    BY <1>5, <1>8, <2>1, <2>3 DEF PlanOneFacts
  <2> QED
    BY <1>2, <2>2, <2>3
<1>11. s = Pair(s.up, s.own)
  BY <1>2 DEF TFPair, Pair
<1>12. ~other \/ kept => pl = s
  <2> SUFFICES ASSUME ~other \/ kept PROVE pl = s
    OBVIOUS
  <2>1. p = s.up
    BY <1>9
  <2>2. s.up # "a" => s.own = s.up
    BY <1>2
  <2>3. s.up = "a" => OwnOf(s) = s.own
    BY DEF OwnOf
  <2>4. config.up = "null" => Released(attr, s.own, FALSE) = s.own
    BY DEF Released
  <2>5. s.up = "a" /\ config.up # "null" => PlanOne(attr, config.own, OwnOf(s), changed, FALSE) = s.own
    BY <1>1, <1>10, <2>3
  <2> HIDE DEF p, q, kept
  <2> QED
    BY <1>6, <1>11, <2>1, <2>2, <2>4, <2>5
<1> QED
  BY <1>12

\* A row that may ask for a replacement keeps what it holds in every plan.
LEMMA ReplacingKept ==
  ASSUME TypeOK, Replacing(attr) \/ Replacing(Up) \/ attr.replaced
  PROVE  (Computed(Up) => Kept(Up)) /\ (Computed(attr) => Kept(attr))
         /\ attr.flatten # "carryEmpty" /\ ~attr.default
BY RowLaws DEF Planned, Up

LEMMA SameNeverReplaces ==
  ASSUME NEW s, s.up = "null" => s.own = "null"
  PROVE  ~Replaces(s, s)
BY DEF Replaces, OwnOf

-----------------------------------------------------------------------------
\* After an apply.

\* A refresh right after an apply or a refresh changes nothing, whatever the
\* handler makes the new state of.
THEOREM RefreshChangesNothing ==
  ASSUME Beyond = {}
  PROVE  Spec => RefreshStable
<1>1. IInv => [Apply \/ Read => FlattenPair(server', state') = state']_vars
  BY AppliedState, ReadSettles DEF IInv, Sound
<1> QED
  BY <1>1, Invariance, PTL DEF RefreshStable

\* A plan made right after an apply is empty, for every configuration outside the
\* gaps: one spelling of a duration or timestamp, and any of a restored JSON object.
THEOREM PlansConverge ==
  ASSUME Beyond = {}
  PROVE  Spec => Converges
<1>1. IInv => [Apply => Settled(config', state')]_vars
  <2> SUFFICES ASSUME IInv, Apply PROVE Settled(config', state')
    OBVIOUS
  <2>1. Sound /\ TypeOK
    BY DEF IInv, Sound
  <2>2. Answers(config, state') /\ UNCHANGED <<attr, policy, config>>
    BY <2>1, AppliedState
  <2>3. PlanUpdate(config, state', FALSE, FALSE) = state'
    BY <2>1, <2>2, Replanned
  <2> QED
    BY <2>2, <2>3 DEF Settled, PlanUpdate, Differs, Up
<1> QED
  BY <1>1, Invariance, PTL DEF Converges

\* A later change to something else never asks for a replacement because of an
\* attribute that was applied.
THEOREM NeverReplacesSpuriously ==
  ASSUME Beyond = {}
  PROVE  Spec => NoSpuriousReplacement
<1>1. IInv => [Apply => ~Replaces(state', PlanUpdate(config', state', TRUE, FALSE))]_vars
  <2> SUFFICES ASSUME IInv, Apply PROVE ~Replaces(state', PlanUpdate(config', state', TRUE, FALSE))
    OBVIOUS
  <2>1. Sound /\ TypeOK
    BY DEF IInv, Sound
  <2>2. Answers(config, state') /\ UNCHANGED <<attr, policy, config>>
    BY <2>1, AppliedState
  <2> DEFINE pl == PlanUpdate(config, state', TRUE, FALSE)
  <2>3. Replacing(attr) \/ Replacing(Up) \/ attr.replaced => pl = state'
    BY <2>1, <2>2, Replanned, ReplacingKept
  <2>4. PlanUpdate(config', state', TRUE, FALSE) = pl
    BY <2>2
  <2>5. state'.up = "null" => state'.own = "null"
    BY <2>2 DEF Answers
  <2> HIDE DEF pl
  <2>6. Replacing(attr) \/ Replacing(Up) \/ attr.replaced => ~Replaces(state', pl)
    BY <2>3, <2>5, SameNeverReplaces
  <2> QED
    BY <2>4, <2>6 DEF Replaces
<1> QED
  BY <1>1, Invariance, PTL DEF NoSpuriousReplacement

-----------------------------------------------------------------------------
\* What the API holds of an attribute whose state is the API's.

\* The form such an attribute is flattened in, and the one it is sent in.
LEMMA FaithfulRow ==
  ASSUME TypeOK, Faithful
  PROVE  /\ attr.flatten \in NullForms \cup {"direct", "carryEmpty"}
         /\ Up.flatten \in NullForms /\ ~attr.restored /\ ~Presence(attr)
         /\ ~attr.writeOnly /\ "pointer" \notin {attr.create, attr.update}
         /\ attr.class # "Computed" => attr.create = "value" /\ attr.update \in {"value", "absent"}
<1>1. /\ attr.flatten \in FlattenForms \ {"none"} /\ Up.flatten \in NullForms \cup {"has", "keep"}
      /\ attr.writeOnly => attr.flatten = "prev"
      /\ "pointer" \in {attr.create, attr.update} => "has" \in {attr.flatten, Up.flatten}
  BY RowType, RowLaws, UpForms DEF Suited, Up
<1>2. Shown(attr) /\ Shown(Up) /\ ~attr.restored
  BY DEF Faithful
<1>3. /\ attr.flatten \in NullForms \cup {"direct", "carryEmpty"}
      /\ Up.flatten \in NullForms /\ attr.flatten # "has" /\ Up.flatten # "has"
  BY <1>1, <1>2 DEF Shown, FlattenForms, PrevForms, NullForms
<1>4. ~attr.writeOnly /\ "pointer" \notin {attr.create, attr.update}
  BY <1>1, <1>3 DEF NullForms
<1>5. attr.class # "Computed" => attr.create = "value" /\ attr.update \in {"value", "absent"}
  BY <1>3, <1>4, AttrForms DEF ExpandForms, NullForms
<1> QED
  BY <1>2, <1>3, <1>4, <1>5 DEF Presence

\* What such a state says of the answer it was flattened from.
Reflects(w, s) ==
  /\ (s.up = "a") <=> (w.up = "a")
  /\ s.up \in {"a", "null"} /\ (s.up = "null" => s.own = "null")
  /\ s.up = "a" => /\ attr.flatten \in NullForms => s.own = NullIfAbsent(w.own)
                   /\ attr.flatten = "direct" => s.own = ZeroIfAbsent(w.own)
                   /\ attr.flatten = "carryEmpty"
                        => s.own = NullIfAbsent(w.own) \/ (w.own = "absent" /\ s.own = "zero")
  /\ w.own # "zero" /\ (w.up = "absent" => w.own = "absent")

LEMMA FaithfulState ==
  ASSUME TypeOK, Faithful, NEW w \in WirePair, Proper(w), NEW prev, prev.up \in {"a", "null"},
         NEW s, s = FlattenPair(w, prev)
  PROVE  Reflects(w, s)
<1>1. /\ attr.flatten \in NullForms \cup {"direct", "carryEmpty"}
      /\ Up.flatten \in NullForms /\ ~attr.restored /\ ~Presence(attr)
  BY FaithfulRow
<1>2. /\ w.up \in {"absent", "a"} /\ w.own \in WireValue /\ w.own # "zero"
      /\ (w.up = "absent" => w.own = "absent") /\ (TopLevel => w.up = "a")
  BY <1>1 DEF Proper, Lasting
<1> DEFINE p == IF TopLevel THEN "a" ELSE Flatten(Up.flatten, w.up, prev.up)
           pv == IF prev.up = "a" /\ ~attr.inList THEN prev.own ELSE "unknown"
           v == Flatten(attr.flatten, w.own, pv)
           carried == ~TopLevel /\ prev.up = "a" /\ (w.up = "absent" \/ Up.flatten = "keep")
<1>3. p = IF w.up = "a" THEN "a" ELSE "null"
  <2>1. Flatten(Up.flatten, w.up, prev.up) = NullIfAbsent(w.up)
    BY <1>1 DEF Flatten, NullForms
  <2> QED
    BY <1>2, <2>1 DEF NullIfAbsent
<1>4. s = Pair(p, IF p # "a" THEN p ELSE IF carried THEN prev.own ELSE v)
  BY <1>1 DEF FlattenPair, Secret
<1>5. w.up = "a" => ~carried
  BY <1>1 DEF NullForms
<1>6. /\ attr.flatten \in NullForms => v = NullIfAbsent(w.own)
      /\ attr.flatten = "direct" => v = ZeroIfAbsent(w.own)
      /\ attr.flatten = "carryEmpty" => v = NullIfAbsent(w.own) \/ (w.own = "absent" /\ v = "zero")
  <2> HIDE DEF pv
  <2>1. attr.flatten \in NullForms => v = NullIfAbsent(w.own)
    BY DEF Flatten, NullForms
  <2>2. attr.flatten = "direct" => v = ZeroIfAbsent(w.own)
    BY DEF Flatten, NullForms
  <2>3. attr.flatten = "carryEmpty" => v = ListCarryKnownEmpty(NullIfAbsent(w.own), pv)
    BY DEF Flatten, NullForms
  <2>4. NullIfAbsent(w.own) = "null" => w.own = "absent"
    BY <1>2 DEF NullIfAbsent, WireValue, Known
  <2> QED
    BY <2>1, <2>2, <2>3, <2>4 DEF ListCarryKnownEmpty
<1> HIDE DEF v, carried, p, pv
<1> QED
  BY <1>2, <1>3, <1>4, <1>5, <1>6 DEF Reflects, Pair

\* The configured value is on the wire where, and only where, the state has it.
LEMMA AskedShown ==
  ASSUME TypeOK, Beyond = {}, Faithful, NEW w \in WirePair, NEW s, Reflects(w, s), s.up = "a",
         config.up = "a", config.own # "null", attr.flatten = "carryEmpty" => s.own = config.own
  PROVE  /\ Asked(config)
         /\ (s.own = config.own) <=> (w.own = Wanted(config))
<1>1. /\ config \in Configs
      /\ attr.flatten \in NullForms \cup {"direct", "carryEmpty"} /\ ~attr.writeOnly
      /\ attr.class # "Computed" => attr.create = "value"
  BY FaithfulRow DEF TypeOK
<1>2. /\ config.own \in Known \cup {"null"} /\ config.own # "alias"
      /\ attr.class # "Computed" /\ ~Cleared(config)
  BY <1>1, FaithfulRow, ConfigValue
<1>3. Asked(config)
  BY <1>1, <1>2 DEF Asked, Sent
<1>4. Wanted(config) = IF config.own = "zero" THEN "absent" ELSE config.own
  <2>1. Wanted(config) = Expand("value", config.own)
    BY <1>1, <1>2 DEF Wanted
  <2>2. config.own \in TFValue /\ config.own \notin {"unknown", "alias"}
    BY <1>2 DEF TFValue, Known
  <2> QED
    BY <2>1, <2>2, ExpandValue
<1>5. config.own = "zero" => attr.flatten \notin NullForms
  BY <1>2 DEF Cleared
<1>6. w.own \in WireValue /\ w.own # "zero"
  BY DEF Reflects, WirePair
<1>7. CASE attr.flatten \in NullForms
  <2>1. s.own = NullIfAbsent(w.own)
    BY <1>7 DEF Reflects
  <2> QED
    BY <1>2, <1>3, <1>4, <1>5, <1>6, <1>7, <2>1 DEF NullIfAbsent, WireValue, Known
<1>8. CASE attr.flatten = "direct"
  <2>1. s.own = ZeroIfAbsent(w.own)
    BY <1>8 DEF Reflects
  <2> QED
    BY <1>2, <1>3, <1>4, <1>6, <2>1 DEF ZeroIfAbsent, WireValue, Known
<1>9. CASE attr.flatten = "carryEmpty"
  <2>1. s.own = NullIfAbsent(w.own) \/ (w.own = "absent" /\ s.own = "zero")
    BY <1>9 DEF Reflects
  <2>2. s.own = config.own
    BY <1>9
  <2> QED
    BY <1>2, <1>3, <1>4, <1>6, <2>1, <2>2 DEF NullIfAbsent, WireValue, Known
<1> QED
  BY <1>1, <1>7, <1>8, <1>9

\* The data source, whose Flatten has no prev, shows what the resource shows.
THEOREM DataSourceAgrees ==
  ASSUME Beyond = {}
  PROVE  Spec => []DataAgrees
<1>1. IInv => DataAgrees
  <2> SUFFICES ASSUME IInv, exists, fresh, Faithful, "none" \notin {attr.data, Up.data}
               PROVE  OwnOf(DataRead) = OwnOf(state) \/ (attr.flatten = "carryEmpty" /\ state.own = "zero")
    BY DEF DataAgrees
  <2>1. /\ TypeOK /\ Shape /\ Sound /\ FlattenPair(server, state) = state
        /\ server \in WirePair /\ state.up \in {"a", "null"}
    BY DEF IInv, Sound, TypeOK, Shape, Refreshed, WirePair
  <2>2. Proper(server)
    BY <2>1, ProperServer
  <2>3. Reflects(server, state)
    BY <2>1, <2>2, FaithfulState
  <2>4. /\ attr.data = IF attr.flatten = "carryEmpty" THEN "list" ELSE attr.flatten
        /\ Up.data = Up.flatten
    BY <2>1, RowLaws DEF Suited, Faithful, Up
  <2>5. Up.flatten \in NullForms /\ attr.flatten \in NullForms \cup {"direct", "carryEmpty"}
    BY <2>1, FaithfulRow
  <2> DEFINE p == IF TopLevel THEN "a" ELSE Flatten(Up.data, server.up, "null")
             v == Flatten(attr.data, server.own, "null")
  <2>6. p = IF server.up = "a" THEN "a" ELSE "null"
    <3>1. Flatten(Up.data, server.up, "null") = NullIfAbsent(server.up)
      BY <2>4, <2>5 DEF Flatten, NullForms
    <3>2. server.up \in {"absent", "a"} /\ (TopLevel => server.up = "a")
      BY <2>2 DEF Proper, Lasting
    <3> QED
      BY <3>1, <3>2 DEF NullIfAbsent
  <2>7. v = IF attr.flatten = "direct" THEN ZeroIfAbsent(server.own) ELSE NullIfAbsent(server.own)
    BY <2>4, <2>5 DEF Flatten, NullForms
  <2>8. DataRead = Pair(p, IF p = "a" THEN v ELSE p)
    BY DEF DataRead
  <2> HIDE DEF p, v
  <2>9. OwnOf(DataRead) = IF server.up = "a" THEN v ELSE "null"
    BY <2>6, <2>8 DEF OwnOf, Pair
  <2>10. OwnOf(state) = IF server.up = "a" THEN state.own ELSE "null"
    BY <2>3 DEF Reflects, OwnOf
  <2>11. server.up = "a" => state.own = v \/ (attr.flatten = "carryEmpty" /\ state.own = "zero")
    BY <2>3, <2>5, <2>7 DEF Reflects, NullForms
  <2> QED
    BY <2>9, <2>10, <2>11
<1> QED
  BY <1>1, Invariance, PTL

-----------------------------------------------------------------------------
\* After a refresh and after an import.

\* A configured value is planned as it is configured.
LEMMA ConfigPlanned ==
  ASSUME TypeOK, Beyond = {}, NEW s, s.up # "unknown", s.own # "unknown",
         config.up = "a", config.own # "null", ~attr.writeOnly
  PROVE  PlanUpdate(config, s, FALSE, FALSE) = Pair("a", config.own)
<1> DEFINE changed == FALSE \/ Differs(config, s)
           p == PlanOne(Up, config.up, s.up, changed, FALSE)
           q == PlanOne(attr, config.own, OwnOf(s), changed, FALSE)
<1>1. config \in Configs /\ PlanRow(Up) /\ PlanRow(attr) /\ ~Up.writeOnly
  BY RowPlans DEF TypeOK
<1>2. /\ config.own # "unknown" /\ OwnOf(s) # "unknown"
      /\ Up.class # "Computed" /\ attr.class # "Computed"
  BY <1>1, ConfigValue DEF OwnOf, Known
<1>3. PlanUpdate(config, s, FALSE, FALSE)
        = Pair(p, IF p # "a" THEN p ELSE IF config.up = "null" THEN Released(attr, s.own, FALSE) ELSE q)
  BY DEF PlanUpdate
<1> HIDE DEF changed
<1>4. PlanOneFacts(Up, config.up, s.up, changed, FALSE)
  BY <1>1, <1>2, PlanOneValue
<1>5. PlanOneFacts(attr, config.own, OwnOf(s), changed, FALSE)
  BY <1>1, <1>2, PlanOneValue
<1>6. p = "a" /\ q = config.own
  BY <1>1, <1>4, <1>5 DEF PlanOneFacts
<1> HIDE DEF p, q
<1> QED
  BY <1>3, <1>6

\* What someone else changed is seen by the next refresh, and planned back.
THEOREM DriftIsSeen ==
  ASSUME Beyond = {}
  PROVE  Spec => DriftSeen
<1>1. IInv => [Read /\ Faithful /\ Asked(config) /\ server.own # Wanted(config)
                 => ~Settled(config, state')]_vars
  <2> SUFFICES ASSUME IInv, Read, Faithful, Asked(config), Settled(config, state')
               PROVE  server.own = Wanted(config)
    OBVIOUS
  <2>1. Sound /\ TypeOK /\ exists /\ server \in WirePair /\ state.up \in {"a", "null"}
    BY DEF IInv, Sound, TypeOK, Shape, WirePair, Read
  <2>2. Proper(server) /\ state' = FlattenPair(server, state)
    BY <2>1, ProperServer DEF Read
  <2>3. Reflects(server, state')
    BY <2>1, <2>2, FaithfulState
  <2>4. state'.up # "unknown" /\ state'.own # "unknown"
    <3>1. Settles(server', state')
      BY <2>1, ReadSettles
    <3> QED
      BY <3>1 DEF Settles
  <2>5. config.up = "a" /\ config.own # "null" /\ ~attr.writeOnly
    BY DEF Asked
  <2>6. PlanUpdate(config, state', FALSE, FALSE) = Pair("a", config.own)
    BY <2>1, <2>4, <2>5, ConfigPlanned
  <2>7. state'.up = "a" /\ state'.own = config.own
    <3>1. state' = Pair("a", config.own)
      BY <2>6 DEF Settled
    <3> QED
      BY <3>1 DEF Pair
  <2> QED
    BY <2>1, <2>3, <2>5, <2>7, AskedShown
<1> QED
  BY <1>1, Invariance, PTL DEF DriftSeen

\* What a row that may ask for a replacement imports of a matching answer is what
\* the configuration gives.
LEMMA ImportAnswers ==
  ASSUME Sound, Beyond = {}, ImportState, Faithful \/ attr.named, Matches(config, server),
         Replacing(attr) \/ Replacing(Up) \/ attr.replaced
  PROVE  Answers(config, state')
<1> DEFINE s == state'
           prev == Pair(IF TopLevel THEN "a" ELSE "null",
                        IF ~attr.named THEN "null"
                        ELSE IF config.own = "null" THEN "a" ELSE config.own)
<1>1. TypeOK /\ Shape /\ config \in Configs /\ server \in WirePair /\ exists
  BY DEF Sound, TypeOK, WirePair, ImportState
<1>2. Proper(server) /\ s = FlattenPair(server, prev)
  BY <1>1, ProperServer DEF ImportState
<1>3. s \in TFPair /\ s.up \in {"null", "a"} /\ s.own # "unknown" /\ (s.up = "null" => s.own = "null")
      /\ (TopLevel => s.up = "a")
  <2>1. Settles(server', s)
    BY <1>1, ReadSettles
  <2> QED
    BY <2>1 DEF Settles, Storable
<1>4. /\ config.up \in {"null", "a"} /\ config.own \in Known \cup {"null", "alias"}
      /\ config.up = "null" => ~TopLevel
      /\ attr.class = "Computed" => config.own = "null"
      /\ attr.class = "Required" /\ config.up = "a" => config.own # "null"
      /\ ~LeftOut(config)
  BY <1>1, ConfigValue DEF TopLevel
<1>5. attr.flatten # "carryEmpty" /\ ~attr.default
  BY <1>1, ReplacingKept
<1>6. /\ config.up = "a" <=> server.up # "absent"
      /\ Asked(config) => server.own = Wanted(config)
      /\ config.own = "null" /\ ~Computed(attr) => server.own = "absent"
  BY DEF Matches
<1>7. prev.up \in {"a", "null"} /\ (TopLevel => prev.up = "a")
      /\ (attr.named /\ config.own # "null" => prev.own = config.own)
  BY DEF Pair
<1> HIDE DEF prev, s
<1>8. attr.class \in Classes /\ attr.class # "Root"
  BY <1>1, RowType
<1>9. CASE Faithful
  <2>1. Reflects(server, s)
    BY <1>1, <1>2, <1>7, <1>9, FaithfulState
  <2>2. server.up \in {"absent", "a"}
    BY <1>2 DEF Proper, Lasting
  <2>3. (config.up = "a" => s.up = "a") /\ (config.up = "null" => s.up = "null")
    BY <1>3, <1>6, <2>1, <2>2 DEF Reflects
  <2>4. ASSUME config.up = "a", config.own # "null" PROVE Given(s.own)
    <3>1. Asked(config) /\ ((s.own = config.own) <=> (server.own = Wanted(config)))
      BY <1>1, <1>5, <1>9, <2>1, <2>3, <2>4, AskedShown
    <3> QED
      BY <1>6, <2>4, <3>1 DEF Given, Asked
  <2>5. ASSUME config.up = "a", config.own = "null", ~Computed(attr) PROVE Given(s.own)
    <3>1. attr.class = "Optional"
      BY <1>4, <1>8, <2>5 DEF Classes, Computed
    <3>2. attr.flatten \in NullForms
      BY <1>1, <1>4, <1>5, <1>9, <2>5, <3>1, FaithfulRow DEF LeftOut
    <3>3. s.own = "null"
      BY <1>6, <2>1, <2>3, <2>5, <3>2 DEF Reflects, NullIfAbsent
    <3> QED
      BY <2>5, <3>3 DEF Given
  <2> QED
    BY <1>3, <1>4, <1>5, <2>3, <2>4, <2>5 DEF Answers, s
<1>10. CASE attr.named /\ ~Faithful
  <2>1. /\ TopLevel /\ attr.class \in {"Required", "Computed"} /\ attr.flatten \in {"direct", "prev"}
        /\ attr.restored => attr.class = "Computed" \/ attr.class = "OptionalComputed"
        /\ attr.inList => attr.flatten \in NullForms \cup {"direct"}
        /\ attr.writeOnly => attr.class = "Optional"
    BY <1>1, <1>10, RowLaws DEF Suited, TopLevel, Up
  <2>2. attr.class = "Required" => attr.flatten = "prev"
    <3>1. Up.flatten \in NullForms
      BY <1>1, <2>1, UpForms
    <3> QED
      BY <1>10, <2>1, <3>1 DEF Faithful, Shown, PrevForms, NullForms
  <2>3. config.up = "a" /\ s.up = "a"
    BY <1>3, <1>4, <2>1
  <2>4. attr.class = "Required" => s.own = config.own
    <3> SUFFICES ASSUME attr.class = "Required" PROVE s.own = config.own
      OBVIOUS
    <3>1. ~attr.restored /\ ~attr.inList /\ attr.flatten = "prev" /\ config.own # "null"
      BY <1>4, <2>1, <2>2, <2>3 DEF NullForms
    <3>2. prev.up = "a" /\ prev.own = config.own
      BY <1>7, <1>10, <2>1, <3>1
    <3>3. s.own = Flatten("prev", server.own, config.own)
      BY <1>2, <2>1, <3>1, <3>2 DEF FlattenPair, Pair, Secret
    <3>4. Flatten("prev", server.own, config.own) = CarryPrev(config.own)
      BY DEF Flatten, NullForms
    <3> QED
      BY <1>4, <3>3, <3>4 DEF CarryPrev, Known
  <2>5. attr.class = "Required" => Given(s.own)
    BY <1>4, <2>1, <2>3, <2>4 DEF Given
  <2> QED
    BY <1>3, <1>4, <1>5, <2>1, <2>3, <2>5 DEF Answers, Computed, s
<1> QED
  BY <1>9, <1>10

\* A resource imported into the configuration that describes it is not planned
\* for replacement.
THEOREM ImportIsAdopted ==
  ASSUME Beyond = {}
  PROVE  Spec => ImportAdopts
<1>1. IInv => [ImportState /\ (Faithful \/ attr.named) /\ Matches(config, server)
                 => ~Replaces(state', PlanUpdate(config, state', FALSE, FALSE))]_vars
  <2> SUFFICES ASSUME IInv, ImportState, Faithful \/ attr.named, Matches(config, server),
                      Replacing(attr) \/ Replacing(Up) \/ attr.replaced
               PROVE  ~Replaces(state', PlanUpdate(config, state', FALSE, FALSE))
    BY DEF Replaces
  <2>1. Sound /\ TypeOK
    BY DEF IInv, Sound
  <2>2. Answers(config, state')
    BY <2>1, ImportAnswers
  <2>3. PlanUpdate(config, state', FALSE, FALSE) = state'
    BY <2>1, <2>2, Replanned
  <2> QED
    BY <2>2, <2>3, SameNeverReplaces DEF Answers
<1> QED
  BY <1>1, Invariance, PTL DEF ImportAdopts

-----------------------------------------------------------------------------
\* What the API holds after an apply.

\* A value that is asked for is sent in one form, in every request that has it.
LEMMA AskedForms ==
  ASSUME TypeOK, Beyond = {}, Asked(config)
  PROVE  /\ config \in Configs /\ config.up = "a" /\ Given(config.own)
         /\ config.own \in Known \cup {"alias"} /\ (config.own = "alias" => attr.restored)
         /\ attr.class # "Computed" /\ Up.create = "value" /\ attr.create \in {"value", "pointer"}
         /\ attr.update \in {attr.create, "absent"}
         /\ attr.update # "absent" => Up.update = "value"
         /\ Wanted(config) = IF config.own = "zero" /\ attr.create = "value" THEN "absent"
                             ELSE IF config.own = "alias" THEN "a" ELSE config.own
         /\ Wanted(config) = Expand(attr.create, config.own)
<1>1. /\ config.up = "a" /\ config.own # "null" /\ ~attr.writeOnly
      /\ attr.create # "absent" \/ attr.update # "absent"
  BY DEF Asked, Sent
<1>2. /\ config \in Configs /\ attr.class # "Computed" /\ Up.class # "Computed"
      /\ config.own \in Known \cup {"alias"} /\ (config.own = "alias" => attr.restored)
  <2>1. config \in Configs
    BY DEF TypeOK
  <2> QED
    BY <1>1, <2>1, ConfigValue
<1>3. /\ attr.create \in {"value", "pointer"} /\ attr.update \in {attr.create, "absent"}
      /\ attr.update # "absent" => Up.update = "value"
      /\ Up.create = "value"
  BY <1>1, <1>2, AttrForms, UpForms DEF ExpandForms
<1>4. /\ Wanted(config) = IF config.own = "zero" /\ attr.create = "value" THEN "absent"
                          ELSE IF config.own = "alias" THEN "a" ELSE config.own
      /\ Wanted(config) = Expand(attr.create, config.own)
  <2>1. Wanted(config) = Expand(attr.create, config.own)
    BY <1>3 DEF Wanted
  <2>2. config.own \in TFValue /\ config.own \notin {"null", "unknown"}
    BY <1>2 DEF TFValue, Known
  <2> QED
    BY <1>3, <2>1, <2>2, ExpandValue
<1> QED
  BY <1>1, <1>2, <1>3, <1>4 DEF Given

LEMMA AskedServed ==
  ASSUME TypeOK, Shape, Beyond = {}, Asked(config), NEW root \in {"create", "update"},
         root = "update" => attr.update # "absent", NEW held,
         NEW pl \in TFPair, pl.up = "a", pl.own = config.own,
         NEW w, w = Serve(Payload(pl, root), root, held)
  PROVE  w.own = Wanted(config)
<1>1. /\ config.up = "a" /\ config.own \in Known \cup {"alias"} /\ Given(config.own)
      /\ attr.create \in {"value", "pointer"} /\ attr.update \in {attr.create, "absent"}
      /\ Wanted(config) = IF config.own = "zero" /\ attr.create = "value" THEN "absent"
                          ELSE IF config.own = "alias" THEN "a" ELSE config.own
      /\ Wanted(config) = Expand(attr.create, config.own)
      /\ Up.create = "value" /\ (attr.update # "absent" => Up.update = "value")
  BY AskedForms
<1>2. attr[root] = attr.create /\ Up[root] = "value"
  BY <1>1, UpForms
<1>3. w.own = IF Wanted(config) = "absent" THEN policy.own ELSE Wanted(config)
  BY <1>1, <1>2, GivenServed
<1>4. config.own = "zero" /\ attr.create = "value" => policy.own = "absent"
  BY <1>1, GivenValue
<1>5. config.own # "absent"
  BY <1>1 DEF Known
<1> QED
  BY <1>1, <1>3, <1>4, <1>5

\* Where the update leaves a value out, state and API already have it.
LEMMA AskedUnsent ==
  ASSUME Sound, Beyond = {}, exists, fresh, Asked(config), ~Unread, ~Hidden, attr.update # "absent",
         attr.handler = "mask", NEW pl \in TFPair, pl.up = "a", pl.own = config.own, ~InMask(pl)
  PROVE  state = pl \/ server.own = Wanted(config)
<1>1. /\ TypeOK /\ Shape /\ Assigned /\ Refreshed /\ state \in TFPair
      /\ state.up \in {"null", "a"} /\ state.own # "unknown"
  BY DEF Sound, TypeOK, TFPair, Shape
<1>2. /\ config.up = "a" /\ config.own \in Known \cup {"alias"} /\ Given(config.own)
      /\ attr.class # "Computed" /\ (config.own = "alias" => attr.restored)
      /\ attr.create \in {"value", "pointer"} /\ attr.update = attr.create /\ Up.update = "value"
      /\ Wanted(config) = IF config.own = "zero" /\ attr.create = "value" THEN "absent"
                          ELSE IF config.own = "alias" THEN "a" ELSE config.own
      /\ Wanted(config) = Expand(attr.create, config.own)
  BY <1>1, AskedForms
<1>3. Payload(pl, "update") = Payload(state, "update")
  BY DEF InMask
<1>4. ASSUME NEW s \in TFPair, s.up \in {"null", "a"}
      PROVE  Payload(s, "update") = Pair(IF s.up = "a" THEN "a" ELSE "absent",
                                         IF s.up = "a" THEN Expand(attr.update, s.own) ELSE "absent")
  <2>1. Expand(Up["update"], s.up) = IF s.up = "a" THEN "a" ELSE "absent"
    BY <1>1, <1>2, <1>4, UpForms, ExpandValue DEF TFValue, Known
  <2> QED
    BY <1>1, <2>1, UpForms DEF Payload
<1>5. state.up = "a" /\ Expand(attr.update, state.own) = Expand(attr.update, config.own)
  BY <1>1, <1>3, <1>4 DEF Pair
<1>6. attr.restored => server.own = Wanted(config)
  BY <1>2, <1>5 DEF Hidden
<1>7. attr.restored \/ state.own = config.own
      \/ (attr.update = "value" /\ config.own = "zero" /\ state.own = "null")
  <2> SUFFICES ASSUME ~attr.restored
               PROVE  state.own = config.own
                      \/ (attr.update = "value" /\ config.own = "zero" /\ state.own = "null")
    OBVIOUS
  <2>1. /\ state.own \in TFValue /\ config.own \in TFValue /\ config.own \notin {"unknown", "alias"}
        /\ state.own # "alias"
    BY <1>1, <1>2 DEF TFPair, TFValue, Known, Shape
  <2>2. /\ attr.update = "value" =>
             /\ Expand(attr.update, config.own) = IF config.own \in {"null", "zero"} THEN "absent" ELSE config.own
             /\ Expand(attr.update, state.own) = IF state.own \in {"null", "zero"} THEN "absent" ELSE state.own
        /\ attr.update = "pointer" =>
             /\ Expand(attr.update, config.own) = IF config.own = "null" THEN "absent" ELSE config.own
             /\ Expand(attr.update, state.own) = IF state.own = "null" THEN "absent" ELSE state.own
    BY <1>1, <2>1, ExpandValue
  <2> QED
    BY <1>1, <1>2, <1>5, <2>1, <2>2 DEF TFValue, Known
<1>8. CASE state.own = config.own
  BY <1>1, <1>5, <1>8 DEF TFPair
<1>9. CASE attr.update = "value" /\ config.own = "zero" /\ state.own = "null"
  <2>1. Up.flatten # "keep" /\ attr.flatten \notin NullForms /\ attr.flatten \in FlattenForms \ {"none"}
    BY <1>1, <1>2, <1>9, UpForms, GivenValue, RowType, RowLaws DEF Suited
  <2>2. ~attr.restored
    BY <1>1, <1>2, <1>5, <1>9, <2>1, RowLaws DEF Suited, Shape
  <2>3. Fits(server.own, "null")
    BY <1>1, <1>5, <1>9, <2>1, <2>2, RefreshedState
  <2>4. attr.flatten \notin {"direct", "default"} /\ (server.own # "absent" => attr.flatten \notin {"carryEmpty", "has"})
    <3>1. server.own # "null"
      BY <1>1 DEF TypeOK, WireValue, Known
    <3> QED
      BY <1>1, <1>2, <2>3, <3>1, StateValue
  <2>5. attr.flatten # "prev"
    BY <1>9 DEF Unread, Local
  <2>6. attr.flatten \in {"nonempty", "keep"} \/ server.own = "absent"
    BY <2>1, <2>4, <2>5 DEF FlattenForms, PrevForms
  <2>7. ~Presence(attr) \/ server.own = "absent"
    BY <1>2, <1>9, <2>6 DEF Presence
  <2>8. server.own # "zero" /\ server.own \in WireValue
    BY <1>1, <2>7 DEF Shape, TypeOK
  <2>9. attr.flatten = "nonempty" => server.own = "absent"
    BY <2>3, <2>8 DEF Fits, Flatten, ScalarHeuristic, NullForms, WireValue, Known
  <2>10. attr.flatten # "keep"
    BY <1>1, <1>2, RowLaws DEF Suited
  <2> QED
    BY <1>2, <1>9, <2>6, <2>9, <2>10
<1> QED
  BY <1>6, <1>7, <1>8, <1>9

\* An update that has no place for the value had nothing to do.
LEMMA AskedPinned ==
  ASSUME Sound, Beyond = {}, NEW other \in BOOLEAN, NEW moved \in BOOLEAN, NEW pl \in TFPair,
         Updates(pl, other, moved), attr.handler # "none", Asked(config), attr.update = "absent",
         pl.up = "a", pl.own = config.own, NEW w \in Served(pl, moved)
  PROVE  state = pl /\ w = server
<1>1. /\ TypeOK /\ Shape /\ Assigned /\ Refreshed /\ exists /\ fresh /\ state \in TFPair /\ server \in WirePair
      /\ state.up \in {"null", "a"}
  BY DEF Sound, TypeOK, TFPair, WirePair, Shape, Updates
<1>2. config.own \in Known \cup {"alias"} /\ attr.class # "Computed" /\ attr.create # "absent"
  BY <1>1, AskedForms
<1>3. state = pl
  <2>1. state = pl \/ pl.own = OwnOf(state)
    BY <1>2, UpdatePinned
  <2>2. pl.own = OwnOf(state) => state.up = "a" /\ state.own = pl.own
    BY <1>2 DEF OwnOf, Known
  <2> QED
    BY <1>1, <2>1, <2>2 DEF TFPair
<1>4. Up.flatten # "keep"
  BY <1>1, UpForms
<1>5. server.up = "a"
  BY <1>1, <1>3, <1>4, RefreshedState
<1> DEFINE v == Serve(Payload(pl, "update"), "update", server)
<1>6. w = v
  BY <1>2, ServedValue DEF Known
<1>7. v.up = "a"
  BY <1>1, <1>5, UpForms, ServeUp DEF Known
<1>8. v.own = server.own
  <2>1. attr["update"] = "absent" /\ Expand("absent", pl.own) = "absent"
    BY <1>1, UpForms, ExpandValue DEF TFPair
  <2> HIDE DEF v
  <2>2. v = Serve(Payload(pl, "update"), "update", server)
    BY DEF v
  <2>3. LET sent == IF Expand(Up["update"], pl.up) = "absent" THEN "absent" ELSE Expand(attr["update"], pl.own)
        IN v.own = IF attr.class # "Computed" /\ sent # "absent" THEN sent
                   ELSE IF (attr.class = "Computed" \/ attr["update"] = "absent") /\ server.up # "absent"
                        THEN server.own ELSE policy.own
    BY <1>7, <2>2, ServeOwn
  <2> QED
    BY <1>5, <2>1, <2>3
<1>9. v \in WirePair
  BY <1>1, ServeType DEF Sound, TypeOK, WirePair
<1> HIDE DEF v
<1> QED
  BY <1>1, <1>3, <1>5, <1>6, <1>7, <1>8, <1>9 DEF WirePair

\* After an update the API holds what is asked for, or it was no update.
LEMMA UpdateReaches ==
  ASSUME IInv, Beyond = {}, Update, ~Unread, ~Hidden, Asked(config)
  PROVE  server'.own = Wanted(config) \/ UNCHANGED vars
<1>1. /\ Sound /\ TypeOK /\ Shape /\ verdict = "ok" /\ config \in Configs /\ state \in TFPair
  BY DEF IInv, Sound, TypeOK, TFPair
<1>2. PICK other, moved, pl :
        /\ other \in BOOLEAN /\ moved \in BOOLEAN
        /\ Updates(pl, other, moved)
        /\ MaskedUpdate(pl, other, moved) \/ WholeUpdate(pl) \/ StateUpdate(pl)
           \/ PlanStored(pl) \/ EmptyUpdate(pl)
  BY DEF Update
<1>3. /\ config.up = "a" /\ config.own \in Known \cup {"alias"}
      /\ attr.class # "Computed" /\ attr.create # "absent"
      /\ ~attr.writeOnly
  BY <1>1, AskedForms DEF Asked
<1>4. pl.up = "a" /\ pl.own = config.own /\ pl \in TFPair
  <2>1. pl = PlanUpdate(config, state, other, moved)
    BY <1>2 DEF Updates
  <2>2. pl \in TFPair
    BY <1>1, <2>1, PlanUpdateType
  <2>3. pl.up = "a" /\ (Given(pl.own) \/ config.own = "null")
    BY <1>1, <1>3, <2>1, PlanUpdateOwn
  <2> QED
    BY <1>3, <2>2, <2>3 DEF Given, Known
<1>5. /\ Settles(server', state') /\ Agrees(pl, state') /\ verdict' = "ok"
      /\ exists /\ fresh /\ UNCHANGED <<attr, policy, config, exists, fresh>>
      /\ \/ /\ attr.handler \in {"mask", "whole", "user", "plan"}
            /\ \/ server' \in Served(pl, moved)
               \/ server' = server /\ attr.handler = "mask" /\ ~InMask(pl)
         \/ server' = server /\ state' = (IF attr.default THEN pl ELSE state)
            /\ attr.handler \in {"state", "user", "none"}
  BY <1>1, <1>2, UpdateSettles
<1>6. state' = pl
  <2>1. state' \in TFPair /\ pl.own # "unknown"
    BY <1>3, <1>4, <1>5 DEF Settles, Storable, Known
  <2> QED
    BY <1>4, <1>5, <2>1 DEF Agrees, TFPair
<1>7. state = pl /\ server' = server => UNCHANGED vars
  BY <1>1, <1>5, <1>6 DEF vars
<1>8. CASE server' \in Served(pl, moved) /\ attr.handler # "none"
  <2>1. CASE attr.update = "absent"
    BY <1>1, <1>2, <1>4, <1>7, <1>8, <2>1, AskedPinned
  <2>2. CASE attr.update # "absent"
    <3>1. server' = Serve(Payload(pl, "update"), "update", server)
      BY <1>1, <1>2, <1>3, <1>4, <1>8, ServedValue DEF Known
    <3> QED
      BY <1>1, <1>4, <2>2, <3>1, AskedServed
  <2> QED
    BY <2>1, <2>2
<1>9. CASE server' = server /\ attr.handler = "mask" /\ ~InMask(pl)
  <2>1. CASE attr.update = "absent"
    <3>1. state = pl \/ pl.own = OwnOf(state)
      BY <1>1, <1>2, <1>3, <1>4, <1>9, <2>1, UpdatePinned
    <3>2. pl.own = OwnOf(state) => state.up = "a" /\ state.own = pl.own
      BY <1>3, <1>4 DEF OwnOf, Known
    <3>3. state = pl
      BY <1>1, <1>4, <3>1, <3>2 DEF TFPair
    <3> QED
      BY <1>7, <1>9, <3>3
  <2>2. CASE attr.update # "absent"
    BY <1>1, <1>4, <1>5, <1>7, <1>9, <2>2, AskedUnsent
  <2> QED
    BY <2>1, <2>2
<1>10. CASE server' = server /\ state' = (IF attr.default THEN pl ELSE state)
            /\ attr.handler \in {"state", "user", "none"}
  <2>1. attr.handler \in {"state", "user"} => ~attr.default
    BY <1>1, <1>3, RowLaws DEF Planned, Suited
  <2>2. attr.handler = "none" => pl = state
    BY <1>2 DEF Updates
  <2>3. state = pl
    BY <1>6, <1>10, <2>1, <2>2
  <2> QED
    BY <1>7, <1>10, <2>3
<1> QED
  BY <1>5, <1>8, <1>9, <1>10

\* After an apply the API holds what the configuration asks for, unless no response
\* shows the value or its drift.
THEOREM ApplyReaches ==
  ASSUME Beyond = {}
  PROVE  Spec => Reaches
<1>1. IInv => [(Create \/ (Update /\ ~Unread /\ ~Hidden)) /\ Asked(config')
                 => server'.own = Wanted(config')]_vars
  <2> SUFFICES ASSUME IInv, Create \/ (Update /\ ~Unread /\ ~Hidden), Asked(config')
               PROVE  server'.own = Wanted(config') \/ UNCHANGED vars
    OBVIOUS
  <2>1. Sound /\ TypeOK /\ Shape
    BY DEF IInv, Sound
  <2>2. UNCHANGED <<attr, policy, config>>
    BY <2>1, AppliedState DEF Apply
  <2>3. Asked(config') = Asked(config) /\ Wanted(config') = Wanted(config)
    BY <2>2
  <2>4. Asked(config)
    BY <2>3
  <2>5. CASE Create
    <3> DEFINE pl == PlanCreate(config)
    <3>1. /\ config.up = "a" /\ config.own \in Known \cup {"alias"} /\ ~attr.writeOnly
      BY <2>1, <2>4, AskedForms DEF Asked
    <3>2. pl \in TFPair /\ pl.up = "a"
      BY <2>1, <3>1, PlanCreateValue
    <3>3. pl.own = config.own
      BY <3>1, <3>2 DEF PlanCreate, PlanNew, Proposed, Pair, Known
    <3>4. server' = Serve(Payload(pl, "create"), "create", policy)
      BY <2>5 DEF Create
    <3> HIDE DEF pl
    <3> QED
      BY <2>1, <2>3, <2>4, <3>2, <3>3, <3>4, AskedServed
  <2>6. CASE Update /\ ~Unread /\ ~Hidden
    BY <2>3, <2>4, <2>6, UpdateReaches
  <2> QED
    BY <2>5, <2>6
<1> QED
  BY <1>1, Invariance, PTL DEF Reaches

LEMMA SamePair ==
  ASSUME NEW v \in WirePair, NEW w \in WirePair, v.up = w.up, v.own = w.own
  PROVE  v = w
BY DEF WirePair

\* The update sends again what the API holds already, or leaves it out.
LEMMA SameServed ==
  ASSUME Sound, Beyond = {}, Faithful, exists, fresh, ~Differs(config, state),
         NEW other, NEW moved, ~moved, NEW pl, pl = PlanUpdate(config, state, other, moved),
         NEW w, w = Serve(Payload(pl, "update"), "update", server),
         pl.up = "a" => w.up = "a", pl.up = "null" => w.up = "absent"
  PROVE  w = server
<1>1. /\ TypeOK /\ Shape /\ Assigned /\ Refreshed /\ config \in Configs
      /\ state \in TFPair /\ server \in WirePair /\ policy \in WirePair
      /\ FlattenPair(server, state) = state
  BY DEF Sound, TypeOK, TFPair, WirePair, Refreshed
<1>2. Reflects(server, state)
  BY <1>1, ProperServer, FaithfulState DEF Shape
<1>3. /\ pl \in TFPair /\ w \in WirePair
  <2>1. pl \in TFPair
    BY <1>1, PlanUpdateType
  <2> QED
    BY <1>1, <2>1, ServeType
<1>4. /\ server.up \in {"absent", "a"} /\ server.own \in WireValue
      /\ server.up = "absent" => server.own = "absent"
      /\ Up.update # "absent" /\ policy.up = "a" => server.up = "a"
      /\ attr.class # "Computed" /\ server.up = "a" /\ policy.own # "absent" => server.own # "absent"
      /\ policy.up \in {"absent", "a"} /\ state.own \in Known \cup {"null"} /\ state.own # "alias"
  BY <1>1, ProperServer DEF Shape, Proper, Lasting, TFPair, TFValue, Faithful, Known
<1>5. /\ Proposed(Up, config.up, state.up) = state.up
      /\ config.up # "null" => Proposed(attr, config.own, OwnOf(state)) = OwnOf(state)
  BY DEF Differs
<1>9. /\ Up["update"] = Up.update /\ attr["update"] = attr.update
      /\ Up.update \in {"value", "absent"} /\ (Up.update = "absent" => attr.update = "absent")
  BY <1>1, UpForms
<1>10. /\ Up["update"] = "absent" => w.up = server.up
       /\ Up["update"] = "value" => w.up = IF pl.up \in {"null", "unknown", "zero"} THEN policy.up ELSE "a"
  <2>1. Up["update"] \in {"value", "absent"} /\ pl \in TFPair
    BY <1>3, <1>9
  <2> QED
    BY <2>1, ServeUp
<1>11. w.own = server.own /\ w.up = server.up => w = server
  BY <1>1, <1>3, SamePair
<1>6. /\ config.up \in {"null", "a"} /\ config.own \in Known \cup {"null", "alias"}
      /\ ~Up.default /\ ~Up.writeOnly
  BY <1>1, ConfigValue, RowPlans
<1>7. CASE pl.up = "a"
  <2>1. state.up = "a" /\ server.up = "a"
    <3>1. config.up = "a" => state.up = "a"
      BY <1>5, <1>6 DEF Proposed
    <3>2. config.up = "null" => state.up = "a"
      BY <1>1, <1>7, PlanUpdateUp
    <3> QED
      BY <1>2, <1>6, <3>1, <3>2 DEF Reflects
  <2>2. pl.own = state.own \/ (pl.own = "unknown" /\ state.own = "null")
    <3>1. CASE config.up = "null"
      BY <1>1, <1>7, <3>1, PlanUpdateUp
    <3>2. CASE config.up = "a" /\ Given(pl.own)
      <4>1. Proposed(attr, config.own, state.own) = state.own
        BY <1>5, <2>1, <3>2 DEF OwnOf
      <4> QED
        <5>1. ~attr.writeOnly /\ (attr.default => attr.class = "OptionalComputed")
          BY <1>1, FaithfulRow, RowLaws DEF Suited
        <5> QED
          BY <3>2, <4>1, <5>1 DEF Given, Proposed, Computed
    <3>3. CASE config.up = "a" /\ ~Given(pl.own)
      <4>1. pl.own \in {OwnOf(state), "unknown"} /\ (pl.own = OwnOf(state) \/ OwnOf(state) = "null")
        BY <1>1, <3>3, PlanUpdateOwn
      <4> QED
        BY <2>1, <4>1 DEF OwnOf
    <3> QED
      BY <1>6, <3>1, <3>2, <3>3
  <2> DEFINE sent == IF Expand(Up["update"], pl.up) = "absent" THEN "absent" ELSE Expand(attr["update"], pl.own)
  <2>3. w.own = IF attr.class # "Computed" /\ sent # "absent" THEN sent
                ELSE IF (attr.class = "Computed" \/ attr["update"] = "absent") /\ server.up # "absent"
                     THEN server.own ELSE policy.own
    <3>1. w.up # "absent"
      BY <1>7
    <3> QED
      BY <1>3, <3>1, ServeOwn
  <2>4. CASE attr.class = "Computed"
    BY <1>7, <1>11, <2>1, <2>3, <2>4
  <2>5. CASE attr.class # "Computed" /\ attr.update = "absent"
    <3>1. sent = "absent" /\ attr["update"] = "absent"
      <4>1. pl.own \in TFValue
        BY <1>3 DEF TFPair
      <4>2. Expand("absent", pl.own) = "absent"
        BY <4>1, ExpandValue
      <4> QED
        BY <1>9, <2>5, <4>2
    <3> HIDE DEF sent
    <3> QED
      BY <1>7, <1>11, <2>1, <2>3, <3>1
  <2>6. CASE attr.class # "Computed" /\ attr.update # "absent"
    <3>1. attr["update"] = "value" /\ Up["update"] = "value"
      BY <1>1, <1>9, <2>6, FaithfulRow
    <3>2. Expand("value", pl.up) = "a"
      BY <1>7, ExpandValue DEF TFValue, Known
    <3>3. Expand("value", pl.own) = IF pl.own \in {"null", "unknown", "zero"} THEN "absent"
                                    ELSE IF pl.own = "alias" THEN "a" ELSE pl.own
      BY <1>3, ExpandValue DEF TFPair
    <3>4. sent = IF state.own \in {"null", "zero"} THEN "absent" ELSE state.own
      BY <1>4, <2>2, <3>1, <3>2, <3>3 DEF Known
    <3>5. w.own = IF sent # "absent" THEN sent ELSE policy.own
      BY <2>3, <2>6, <3>1
    <3> HIDE DEF sent
    <3>6. /\ attr.flatten \in NullForms => state.own = NullIfAbsent(server.own)
          /\ attr.flatten = "direct" => state.own = ZeroIfAbsent(server.own)
          /\ attr.flatten = "carryEmpty"
               => state.own = NullIfAbsent(server.own) \/ (server.own = "absent" /\ state.own = "zero")
          /\ server.own # "zero" /\ attr.flatten \in NullForms \cup {"direct", "carryEmpty"}
      BY <1>1, <1>2, <2>1, FaithfulRow DEF Reflects
    <3>7. server.own = IF state.own \in {"null", "zero"} THEN "absent" ELSE state.own
      BY <1>4, <3>6 DEF NullIfAbsent, ZeroIfAbsent, WireValue, Known
    <3>8. server.own = "absent" => policy.own = "absent"
      BY <1>4, <2>1, <2>6
    <3>9. w.own = server.own
      BY <1>4, <3>4, <3>5, <3>7, <3>8 DEF Known
    <3> QED
      BY <1>7, <1>11, <2>1, <3>9
  <2> QED
    BY <2>4, <2>5, <2>6
<1>8. CASE pl.up # "a"
  <2>1. pl.up \in {"null", "unknown"} /\ config.up = "null"
    BY <1>1, <1>6, <1>8, PlanUpdateUp
  <2>2. state.up = "null"
    <3>1. pl.up = "unknown" => state.up = "null"
      BY <1>1, PlanUpdateUp
    <3>2. pl.up = "null" /\ Computed(Up) => state.up = "null"
      BY <1>1, PlanUpdateUp
    <3>3. ~Computed(Up) => state.up = "null"
      BY <1>5, <1>6, <2>1 DEF Proposed
    <3> QED
      BY <2>1, <3>1, <3>2, <3>3
  <2>3. server.up = "absent" /\ server.own = "absent"
    BY <1>2, <1>4, <2>2 DEF Reflects
  <2>4. w.up = "absent"
    <3>1. CASE Up.update = "absent"
      BY <1>9, <1>10, <2>3, <3>1
    <3>2. CASE Up.update = "value"
      BY <1>4, <1>9, <1>10, <2>1, <2>3, <3>2 DEF Known
    <3> QED
      BY <1>9, <3>1, <3>2
  <2>5. w.own = "absent"
    BY <1>3, <2>4, ServeOwn
  <2> QED
    BY <1>11, <2>3, <2>4, <2>5
<1> QED
  BY <1>7, <1>8

\* An update for the sake of something else leaves the attribute as it is in the API.
THEOREM OthersLeftAlone ==
  ASSUME Beyond = {}
  PROVE  Spec => LeavesAlone
<1>1. IInv => [Update /\ Faithful /\ ~Differs(config, state) /\ ~attr.coupled => server' = server]_vars
  <2> SUFFICES ASSUME IInv, Update, Faithful, ~Differs(config, state), ~attr.coupled
               PROVE  server' = server
    OBVIOUS
  <2>1. Sound
    BY DEF IInv, Sound
  <2>2. PICK other, moved, pl :
          /\ other \in BOOLEAN /\ moved \in BOOLEAN
          /\ Updates(pl, other, moved)
          /\ MaskedUpdate(pl, other, moved) \/ WholeUpdate(pl) \/ StateUpdate(pl)
             \/ PlanStored(pl) \/ EmptyUpdate(pl)
    BY DEF Update
  <2>3. moved = FALSE /\ pl = PlanUpdate(config, state, other, moved) /\ exists /\ fresh
    BY <2>2 DEF Updates
  <2>4. server' = server \/ (server' \in Served(pl, moved) /\ attr.handler # "none")
    BY <2>1, <2>2, UpdateSettles
  <2>5. ASSUME server' \in Served(pl, moved), attr.handler # "none" PROVE server' = server
    <3> DEFINE w == Serve(Payload(pl, "update"), "update", server)
    <3>1. server' = w
      BY <2>3, <2>5 DEF Served
    <3> HIDE DEF w
    <3>2. w = Serve(Payload(pl, "update"), "update", server)
      BY DEF w
    <3>3. /\ pl.up = "a" => w.up = "a"
          /\ pl.up = "null" => w.up = "absent"
      BY <2>1, <2>2, <2>5, <3>2, UpdateUp
    <3> QED
      BY <2>1, <2>3, <3>1, <3>2, <3>3, SameServed
  <2> QED
    BY <2>4, <2>5
<1> QED
  BY <1>1, Invariance, PTL DEF LeavesAlone
=============================================================================
