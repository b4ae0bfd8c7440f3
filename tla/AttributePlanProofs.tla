------------------------- MODULE AttributePlanProofs -------------------------
(***************************************************************************)
(* No apply is refused, for every table whose rows keep to the laws of     *)
(* Attribute.  A plan is followed through the request, the API's answer    *)
(* and Flatten: Fits(w, v) says that Flatten of the field w makes the      *)
(* planned v again, Keeps(w, pl) that it does so for the pair, and Settles *)
(* that a state and an answer make the invariant hold again.               *)
(***************************************************************************)
EXTENDS AttributeProofs

\* What a plan holds of one attribute, or of the object around it.
PlanRow(r) == /\ OnePin(r)
              /\ r.released => r.class = "Computed"
              /\ r.default => r.class = "OptionalComputed"

PlanOneFacts(r, c, s, changed, moved) ==
  LET p == PlanOne(r, c, s, changed, moved)
      released == r.released /\ moved
  IN /\ c # "null" => p = IF r.writeOnly THEN "null" ELSE c
     /\ c = "null" /\ r.default => p = "zero"
     /\ c = "null" /\ ~Computed(r) => p = "null"
     /\ c = "null" /\ Computed(r) /\ ~r.default
          => /\ p \in {s, "unknown"}
             /\ released => p = "unknown"
             /\ ~changed /\ ~moved => p = s
             /\ ~moved /\ r.mods \cap Pins # {} => p = s \/ s = "null"
             /\ Kept(r) /\ ~released => p = s
             /\ Held(r) /\ s # "null" /\ ~released => p = s
             /\ changed /\ moved /\ ~Held(r) /\ r.mods \cap Pins # {} /\ p # "unknown"
                  => "rpsqlZonesStatePin" \in r.mods /\ s \notin {"null", "zero"}

LEMMA PlanOneValue ==
  ASSUME NEW r, PlanRow(r), NEW c, NEW s, s # "unknown", c # "unknown",
         r.class = "Computed" => c = "null", NEW changed, NEW moved
  PROVE  PlanOneFacts(r, c, s, changed, moved)
<1> DEFINE p == PlanOne(r, c, s, changed, moved)
           released == r.released /\ moved
<1>1. CASE c # "null"
  BY <1>1 DEF PlanOne, Proposed, StatePin, Released, Computed, PlanRow, PlanOneFacts
<1>2. CASE c = "null" /\ r.default
  BY <1>2 DEF PlanOne, Proposed, StatePin, Released, Computed, PlanRow, PlanOneFacts
<1>3. CASE c = "null" /\ ~Computed(r)
  BY <1>3 DEF PlanOne, Proposed, StatePin, Released, Computed, PlanRow, PlanOneFacts
<1>4. CASE c = "null" /\ Computed(r) /\ ~r.default
  <2>1. p = Released(r, StatePin(r, IF changed THEN "unknown" ELSE s, s, moved), moved)
    BY <1>4 DEF PlanOne, Proposed
  <2>2. p \in {s, "unknown"} /\ (released => p = "unknown")
    BY <2>1 DEF Released, StatePin
  <2>3. ~changed /\ ~moved => p = s
    BY <2>1 DEF Released, StatePin
  <2>7. ~moved /\ r.mods \cap Pins # {} => p = s \/ s = "null"
    BY <2>1 DEF Released, StatePin, Pins
  <2>4. Kept(r) /\ ~released => p = s
    BY <2>1 DEF Released, StatePin, Kept, OnePin, Pins, PlanRow
  <2>5. Held(r) /\ s # "null" /\ ~released => p = s
    BY <2>1 DEF Released, StatePin, Kept, Held, OnePin, Pins, PlanRow
  <2>6. changed /\ moved /\ ~Held(r) /\ r.mods \cap Pins # {} /\ p # "unknown"
          => "rpsqlZonesStatePin" \in r.mods /\ s \notin {"null", "zero"}
    BY <2>1 DEF Released, StatePin, Kept, Held, OnePin, Pins, PlanRow
  <2> QED
    BY <1>4, <2>2, <2>3, <2>4, <2>5, <2>6, <2>7 DEF PlanOneFacts
<1> QED
  BY <1>1, <1>2, <1>3, <1>4

-----------------------------------------------------------------------------
\* The row followed.

LEMMA RowType ==
  ASSUME TypeOK
  PROVE  /\ attr \in Attributes
         /\ \A e \in {attr, Up} :
              /\ e.class \in Classes /\ e.kind \in Kinds /\ e.flatten \in FlattenForms
              /\ e.create \in ExpandForms /\ e.update \in ExpandForms
              /\ e.default \in BOOLEAN /\ e.writeOnly \in BOOLEAN /\ e.released \in BOOLEAN
         /\ attr.handler \in Handlers /\ attr.class # "Root"
         /\ attr.restored \in BOOLEAN /\ attr.inList \in BOOLEAN /\ attr.replaced \in BOOLEAN
         /\ attr.coupled \in BOOLEAN /\ attr.named \in BOOLEAN /\ attr.generated \in BOOLEAN
BY AttributesAssumption DEF TypeOK, Up

LEMMA RowLaws ==
  ASSUME TypeOK
  PROVE  attr.fits /\ Enclosing(attr) /\ Placed(attr) /\ Suited(attr) /\ Planned(attr)
BY RowsAssumption DEF TypeOK

LEMMA RowPlans ==
  ASSUME TypeOK
  PROVE  PlanRow(attr) /\ PlanRow(Up) /\ ~Up.default /\ ~Up.writeOnly /\ (Computed(Up) => Held(Up))
<1>1. PlanRow(attr)
  BY RowLaws DEF PlanRow, Planned, Suited
<1>2. PlanRow(Up) /\ ~Up.default /\ ~Up.writeOnly /\ (Computed(Up) => Held(Up))
  BY RowLaws DEF PlanRow, Enclosing, Up
<1> QED
  BY <1>1, <1>2

LEMMA ConfigValue ==
  ASSUME NEW c \in Configs, Beyond = {}
  PROVE  /\ c.up \in {"null", "a"} /\ c.own \in Known \cup {"null", "alias"}
         /\ c.own = "alias" => attr.restored /\ attr.flatten \in Respelled
         /\ c.up = "null" => c.own = "null" /\ Up.class # "Root" /\ Up.class # "Required"
         /\ Up.class = "Computed" => c.up = "null"
         /\ attr.class = "Computed" => c.own = "null"
         /\ attr.class = "Required" /\ c.up = "a" => c.own # "null"
         /\ c.own \in KnownOf(attr) \cup {"null", "alias"}
         /\ ~Cleared(c) /\ ~SwitchedOff(c) /\ ~LeftOut(c)
BY DEF Configs, ConfigOf, Written, Reformatted, KnownOf, Known

\* What PlanUpdate promises of the object around the attribute.
LEMMA PlanUpdateUp ==
  ASSUME TypeOK, Shape, Beyond = {}, NEW other, NEW moved, NEW pl,
         pl = PlanUpdate(config, state, other, moved)
  PROVE  /\ pl.up \in {"null", "a", "unknown"}
         /\ pl.up # "a" => pl.own = pl.up
         /\ config.up = "a" => pl.up = "a"
         /\ pl.up = "null" => config.up = "null" /\ (Computed(Up) => state.up = "null")
         /\ pl.up = "a" /\ config.up = "null"
              => /\ Computed(Up) /\ state.up = "a"
                 /\ pl.own = IF attr.released /\ moved THEN "unknown" ELSE state.own
         /\ Up.released /\ moved => pl.up = "unknown"
         /\ pl.up = "unknown" => Computed(Up) /\ ((Up.released /\ moved) \/ ~Kept(Up))
         /\ pl.up = "unknown" /\ ~moved => state.up = "null"
<1> DEFINE changed == other \/ Differs(config, state)
           p == PlanOne(Up, config.up, state.up, changed, moved)
<1>1. /\ config \in Configs /\ state.up \in {"null", "a"}
  BY DEF TypeOK, Shape
<1>2. config.up \in {"null", "a"} /\ (Up.class = "Computed" => config.up = "null")
  BY <1>1, ConfigValue
<1>3. pl = Pair(p, IF p # "a" THEN p
                   ELSE IF config.up = "null" THEN Released(attr, state.own, moved)
                   ELSE PlanOne(attr, config.own, OwnOf(state), changed, moved))
  BY DEF PlanUpdate
<1>4. PlanOneFacts(Up, config.up, state.up, changed, moved)
  <2> HIDE DEF changed
  <2>1. config.up # "unknown" /\ state.up # "unknown"
    BY <1>1, <1>2
  <2> QED
    BY <1>2, <2>1, RowPlans, PlanOneValue
<1> HIDE DEF changed
<1>5. p = PlanOne(Up, config.up, state.up, changed, moved)
  OBVIOUS
<1> HIDE DEF p
<1>6. /\ config.up # "null" => p = config.up
      /\ config.up = "null" /\ ~Computed(Up) => p = "null"
      /\ config.up = "null" /\ Computed(Up)
           => /\ p \in {state.up, "unknown"}
              /\ Up.released /\ moved => p = "unknown"
              /\ Kept(Up) /\ ~(Up.released /\ moved) => p = state.up
              /\ state.up # "null" /\ ~(Up.released /\ moved) => p = state.up
  BY <1>4, <1>5, RowPlans DEF PlanOneFacts
<1>7. /\ pl.up = p
      /\ p # "a" => pl.own = p
      /\ p = "a" /\ config.up = "null" => pl.own = IF attr.released /\ moved THEN "unknown" ELSE state.own
  BY <1>3 DEF Pair, Released
<1>8. Up.released => Computed(Up)
  BY RowPlans DEF PlanRow, Computed
<1>9. Up.released /\ moved => p = "unknown"
  BY <1>2, <1>6, RowPlans DEF PlanRow, Computed
<1> QED
  BY <1>1, <1>2, <1>6, <1>7, <1>8, <1>9

\* The practitioner gave the attribute this value, or its default stands for it.
Given(v) ==
  \/ config.own # "null" /\ ~attr.writeOnly /\ v = config.own
  \/ attr.writeOnly /\ v = "null"
  \/ config.own = "null" /\ attr.default /\ v = "zero"
  \/ config.own = "null" /\ ~Computed(attr) /\ v = "null"

\* A plan with the block keeps the state, or has what the configuration gives.
LEMMA PlanUpdateOwn ==
  ASSUME TypeOK, Shape, Beyond = {}, NEW other, NEW moved, NEW pl,
         pl = PlanUpdate(config, state, other, moved), config.up = "a"
  PROVE  /\ pl.up = "a"
         /\ \/ Given(pl.own)
            \/ /\ Computed(attr) /\ ~attr.default /\ config.own = "null"
               /\ pl.own \in {OwnOf(state), "unknown"}
               /\ Kept(attr) /\ ~(attr.released /\ moved) => pl.own = OwnOf(state)
               /\ ~other /\ ~moved /\ ~Differs(config, state) => pl.own = OwnOf(state)
               /\ ~moved => pl.own = OwnOf(state) \/ OwnOf(state) = "null"
               /\ other /\ moved /\ attr.coupled /\ pl.own # "unknown"
                    => /\ "rpsqlZonesStatePin" \in attr.mods
                       /\ OwnOf(state) \notin {"null", "zero"}
<1> DEFINE changed == other \/ Differs(config, state)
           q == PlanOne(attr, config.own, OwnOf(state), changed, moved)
<1>1. config \in Configs /\ state.own # "unknown"
  BY DEF TypeOK, Shape
<1>2. pl.up = "a" /\ (pl.up = "a" => pl.own = q)
  <2>1. pl.up = "a"
    BY PlanUpdateUp
  <2>2. PlanUpdate(config, state, other, moved).up = "a"
          => PlanUpdate(config, state, other, moved).own = q
    BY DEF PlanUpdate, Pair
  <2> QED
    BY <2>1, <2>2
<1>3. PlanOneFacts(attr, config.own, OwnOf(state), changed, moved)
  <2> HIDE DEF changed
  <2>1. OwnOf(state) # "unknown"
    BY <1>1 DEF OwnOf
  <2>2. config.own # "unknown" /\ (attr.class = "Computed" => config.own = "null")
    BY <1>1, ConfigValue DEF Known
  <2> QED
    BY <2>1, <2>2, RowPlans, PlanOneValue
<1>4. q = PlanOne(attr, config.own, OwnOf(state), changed, moved)
  OBVIOUS
<1> HIDE DEF q
<1>5. CASE config.own # "null" \/ attr.default \/ ~Computed(attr)
  BY <1>2, <1>3, <1>4, <1>5 DEF PlanOneFacts, Given
<1>6. CASE config.own = "null" /\ ~attr.default /\ Computed(attr)
  <2>1. /\ q \in {OwnOf(state), "unknown"}
        /\ attr.released /\ moved => q = "unknown"
        /\ ~changed /\ ~moved => q = OwnOf(state)
        /\ ~moved /\ attr.mods \cap Pins # {} => q = OwnOf(state) \/ OwnOf(state) = "null"
        /\ Kept(attr) /\ ~(attr.released /\ moved) => q = OwnOf(state)
        /\ changed /\ moved /\ ~Held(attr) /\ attr.mods \cap Pins # {} /\ q # "unknown"
             => "rpsqlZonesStatePin" \in attr.mods /\ OwnOf(state) \notin {"null", "zero"}
    <3> HIDE DEF changed
    <3> QED
      BY <1>3, <1>4, <1>6 DEF PlanOneFacts
  <2>2. attr.mods \cap Pins # {}
    BY <1>6, RowLaws DEF Planned
  <2>3. attr.coupled /\ Held(attr) => attr.released
    <3>1. attr.coupled => attr.released \/ Up.released \/ ~Held(attr)
      BY RowLaws DEF Planned, Up
    <3>2. Up.released => config.up = "null"
      BY <1>1, RowPlans, ConfigValue DEF PlanRow
    <3> QED
      BY <3>1, <3>2
  <2> QED
    BY <1>2, <1>6, <2>1, <2>2, <2>3
<1> QED
  BY <1>5, <1>6

\* What the configurations that are known to be mishandled are not.
LEMMA GivenValue ==
  ASSUME TypeOK, Shape, Beyond = {}, config.up = "a", NEW v, Given(v)
  PROVE  /\ v \in Known \cup {"null", "alias"} /\ attr.class # "Computed"
         /\ v = "alias" => attr.restored /\ attr.flatten \in Respelled
         /\ v = "null" => /\ ~Computed(attr) /\ policy.own = "absent"
                          /\ attr.flatten \notin {"direct", "default"}
         /\ v = "zero" => /\ attr.flatten \notin NullForms /\ attr.kind # "Object"
                          /\ "pointer" \notin {attr.create, attr.update} => policy.own = "absent"
                          /\ attr.coupled => "pointer" \in {attr.create, attr.update}
<1>1. config \in Configs
  BY DEF TypeOK
<1>2. /\ ~Computed(attr) \/ attr.default => policy.own = "absent"
      /\ attr.default => attr.class = "OptionalComputed" /\ attr.flatten \in {"direct", "default"}
                         /\ ~attr.coupled /\ attr.kind # "Object"
      /\ attr.flatten = "default" => attr.default
      /\ attr.writeOnly => attr.class = "Optional" /\ attr.flatten = "prev"
  BY RowLaws DEF Suited, Shape, Planned
<1>3. /\ config.own \in Known \cup {"null", "alias"}
      /\ config.own = "alias" => attr.restored /\ attr.flatten \in Respelled
      /\ attr.class = "Computed" => config.own = "null"
      /\ attr.class = "Required" => config.own # "null"
      /\ config.own \in KnownOf(attr) \cup {"null", "alias"}
      /\ ~Cleared(config) /\ ~SwitchedOff(config) /\ ~LeftOut(config)
  BY <1>1, ConfigValue
<1>4. attr.class \in Classes /\ attr.class # "Root"
  BY RowType
<1>5. CASE config.own # "null" /\ ~attr.writeOnly /\ v = config.own
  <2>1. /\ attr.class # "Computed" /\ v \in Known \cup {"alias"}
        /\ v = "alias" => attr.restored /\ attr.flatten \in Respelled
    BY <1>3, <1>5
  <2>2. v = "zero" => attr.kind # "Object"
    BY <1>3, <1>5 DEF KnownOf
  <2>3. v = "zero" => attr.flatten \notin NullForms
    BY <1>3, <1>5 DEF Cleared
  <2>4. v = "zero" /\ "pointer" \notin {attr.create, attr.update} => policy.own = "absent" /\ ~attr.coupled
    BY <1>3, <1>5 DEF SwitchedOff
  <2> QED
    BY <2>1, <2>2, <2>3, <2>4 DEF Known
<1>6. CASE attr.writeOnly /\ v = "null"
  BY <1>2, <1>6 DEF Computed
<1>7. CASE config.own = "null" /\ attr.default /\ v = "zero"
  BY <1>2, <1>7 DEF NullForms, Known
<1>8. CASE config.own = "null" /\ ~Computed(attr) /\ v = "null"
  <2>1. attr.class = "Optional"
    BY <1>3, <1>4, <1>8 DEF Computed, Classes
  <2>2. attr.flatten # "direct"
    BY <1>3, <1>8, <2>1 DEF LeftOut
  <2> QED
    BY <1>2, <1>8, <2>1, <2>2
<1> QED
  BY <1>5, <1>6, <1>7, <1>8 DEF Given

-----------------------------------------------------------------------------
\* Conversions there and back.

\* What an own value is flattened with as its prev, when that prev is v.
Prev(v) == IF attr.inList THEN "unknown" ELSE v

\* Flatten of w answers with v, if it was v before.
Fits(w, v) == Flatten(attr.flatten, w, Prev(v)) = v

LEMMA FitsSent ==
  ASSUME TypeOK, NEW v \in Known
  PROVE  Fits(v, v)
<1>1. attr.flatten \in FlattenForms \ {"none"}
      /\ (attr.inList => attr.flatten \in NullForms \cup {"direct"})
  BY RowType, RowLaws DEF Suited
<1> DEFINE p == Prev(v)
<1>2. p = v \/ (attr.flatten \in NullForms \cup {"direct"})
  BY <1>1 DEF Prev
<1>3. v \in {"zero", "a", "b"}
  BY DEF Known
<1>4. p = v => /\ HasPresence(v, p) = v /\ ScalarHeuristic(v, p) = v /\ CarryPrev(p) = v
               /\ PreserveDefault(p) = v /\ ListCarryKnownEmpty(v, p) = v
               /\ OverrideFromPrev(v, p) = v
  BY <1>3 DEF HasPresence, ScalarHeuristic, CarryPrev, PreserveDefault, ListCarryKnownEmpty,
       OverrideFromPrev
<1>5. ZeroIfAbsent(v) = v /\ NullIfAbsent(v) = v
  BY <1>3 DEF ZeroIfAbsent, NullIfAbsent
<1> HIDE DEF p
<1>6. Flatten(attr.flatten, v, p) = v
  BY <1>1, <1>2, <1>4, <1>5 DEF Flatten, FlattenForms, PrevForms, NullForms
<1> QED
  BY <1>6 DEF Fits, p

LEMMA FitsAbsent ==
  ASSUME TypeOK, NEW v \in {"null", "zero"},
         attr.flatten \in {"direct", "default"} => v = "zero",
         attr.flatten \in NullForms => v = "null"
  PROVE  Fits("absent", v)
<1>1. attr.flatten \in FlattenForms \ {"none"}
      /\ (attr.inList => attr.flatten \in NullForms \cup {"direct"})
  BY RowType, RowLaws DEF Suited
<1> DEFINE p == Prev(v)
<1>2. p = v \/ (attr.flatten \in NullForms \cup {"direct"})
  BY <1>1 DEF Prev
<1>4. p = v => /\ HasPresence("absent", p) = v /\ ScalarHeuristic("absent", p) = v /\ CarryPrev(p) = v
               /\ (v = "zero" => PreserveDefault(p) = v) /\ ListCarryKnownEmpty("null", p) = v
               /\ OverrideFromPrev("absent", p) = v
  BY DEF HasPresence, ScalarHeuristic, CarryPrev, PreserveDefault, ListCarryKnownEmpty,
       OverrideFromPrev, NullIfAbsent, Known
<1>5. ZeroIfAbsent("absent") = "zero" /\ NullIfAbsent("absent") = "null"
  BY DEF ZeroIfAbsent, NullIfAbsent
<1> HIDE DEF p
<1>6. Flatten(attr.flatten, "absent", p) = v
  BY <1>1, <1>2, <1>4, <1>5 DEF Flatten, FlattenForms, PrevForms, NullForms
<1> QED
  BY <1>6 DEF Fits, p

\* Flatten answers with prev for what lives in Terraform only.
LEMMA FitsLocal ==
  ASSUME TypeOK, NEW w, NEW v \in Known \cup {"null"}, attr.flatten \in {"prev", "default"},
         attr.flatten = "default" => v # "null"
  PROVE  Fits(w, v)
<1>1. ~attr.inList
  BY RowLaws DEF Suited, NullForms
<1> QED
  BY <1>1 DEF Fits, Prev, Flatten, CarryPrev, PreserveDefault, NullForms, Known

\* FlattenPair answers with its prev where the block is there and the value fits.
LEMMA FlattenPairFits ==
  ASSUME TypeOK, NEW w, NEW s \in TFPair, w.up = "a", s.up = "a",
         Up.flatten = "keep" \/ attr.restored \/ s.own = "unknown" \/ Fits(w.own, s.own)
  PROVE  FlattenPair(w, s).up = "a" /\ (s.own # "unknown" => FlattenPair(w, s).own = s.own)
<1>1. Up.flatten \in NullForms \cup {"has", "keep"} /\ (attr.restored => ~attr.inList)
      /\ (TopLevel => Up.flatten \in NullForms)
  BY RowLaws DEF Enclosing, Suited, Up, TopLevel
<1>2. Flatten(Up.flatten, "a", "a") = "a"
  BY <1>1 DEF Flatten, NullForms, NullIfAbsent, HasPresence, OverrideFromPrev
<1>3. TopLevel => Up.flatten # "keep"
  BY <1>1 DEF NullForms
<1> DEFINE pv == IF s.up = "a" /\ ~attr.inList THEN s.own ELSE "unknown"
<1>4. FlattenPair(w, s) = Pair("a", IF ~TopLevel /\ Up.flatten = "keep" THEN s.own
                                    ELSE IF attr.restored /\ pv # "unknown" THEN pv
                                    ELSE Flatten(attr.flatten, IF Secret(attr) THEN "absent" ELSE w.own, pv))
  BY <1>2 DEF FlattenPair
<1>5. pv = Prev(s.own)
  BY DEF Prev
<1> HIDE DEF pv
<1>6. CASE s.own = "unknown"
  BY <1>4, <1>6 DEF Pair
<1>7. CASE s.own # "unknown" /\ Up.flatten = "keep"
  BY <1>3, <1>4, <1>7 DEF Pair
<1>8. CASE s.own # "unknown" /\ Up.flatten # "keep" /\ attr.restored
  BY <1>1, <1>4, <1>5, <1>8 DEF Pair, Prev
<1>9. CASE s.own # "unknown" /\ Up.flatten # "keep" /\ ~attr.restored
  BY <1>4, <1>5, <1>9 DEF Pair, Fits, Secret
<1> QED
  BY <1>6, <1>7, <1>8, <1>9

LEMMA FlattenPairNowhere ==
  ASSUME TypeOK, NEW w, NEW s, w.up = "absent", s.up \in {"null", "unknown"}, ~TopLevel
  PROVE  FlattenPair(w, s) = Nowhere
<1>1. Up.flatten \in NullForms \cup {"has", "keep"}
  BY RowLaws DEF Enclosing, Up
<1>2. Flatten(Up.flatten, "absent", s.up) = "null"
  BY <1>1 DEF Flatten, NullForms, NullIfAbsent, HasPresence, CarryPrev, OverrideFromPrev
<1> QED
  BY <1>2 DEF FlattenPair, Pair, Nowhere

\* A refreshed state: where the API has the block, and what its value fits.
LEMMA RefreshedState ==
  ASSUME TypeOK, Shape, Assigned, Refreshed, exists, fresh
  PROVE  /\ state.up = "null" => server.up = "absent" /\ server.own = "absent"
         /\ state.up = "a" /\ Up.flatten # "keep" => server.up = "a"
         /\ state.up = "a" /\ Up.flatten # "keep" /\ ~attr.restored => Fits(server.own, state.own)
<1>1. /\ Up.flatten \in NullForms \cup {"has", "keep"} /\ (TopLevel => Up.flatten \in NullForms)
  BY RowLaws DEF Enclosing, Up, TopLevel
<1>2. /\ server.up \in {"absent", "a"} /\ state.up \in {"null", "a"} /\ state.own # "unknown"
      /\ (TopLevel => server.up = "a" /\ state.up = "a")
      /\ (server.up = "absent" => server.own = "absent")
      /\ (Up.flatten = "has" /\ state.up = "a" => server.up = "a")
  BY DEF Shape, Assigned
<1>3. FlattenPair(server, state) = state
  BY DEF Refreshed
<1> DEFINE pv == IF state.up = "a" /\ ~attr.inList THEN state.own ELSE "unknown"
           p == IF TopLevel THEN "a" ELSE Flatten(Up.flatten, server.up, state.up)
<1>4. FlattenPair(server, state).up = p
  BY DEF FlattenPair, Pair
<1>5. CASE state.up = "null"
  <2>1. ~TopLevel /\ Flatten(Up.flatten, server.up, "null") = "null"
    BY <1>2, <1>3, <1>4, <1>5
  <2>2. server.up # "a"
    BY <1>1, <2>1 DEF Flatten, NullForms, NullIfAbsent, HasPresence, OverrideFromPrev
  <2> QED
    BY <1>2, <1>5, <2>2
<1>6. CASE state.up = "a" /\ Up.flatten # "keep"
  <2>1. server.up = "a"
    <3>1. CASE TopLevel \/ Up.flatten = "has"
      BY <1>2, <1>6, <3>1
    <3>2. CASE ~TopLevel /\ Up.flatten # "has"
      <4>1. Flatten(Up.flatten, server.up, "a") = "a"
        BY <1>3, <1>4, <1>6, <3>2
      <4>2. Flatten(Up.flatten, server.up, "a") = NullIfAbsent(server.up)
        BY <1>1, <1>6, <3>2 DEF Flatten, NullForms
      <4> QED
        BY <1>2, <4>1, <4>2 DEF NullIfAbsent
    <3> QED
      BY <3>1, <3>2
  <2>2. ~attr.restored => Fits(server.own, state.own)
    <3>1. ~attr.restored => FlattenPair(server, state).own = IF p # "a" THEN p ELSE Flatten(attr.flatten, server.own, pv)
      BY <1>6, <2>1 DEF FlattenPair, Pair, Secret
    <3>2. p = "a"
      BY <1>3, <1>4, <1>6
    <3>3. pv = Prev(state.own)
      BY <1>6 DEF Prev
    <3> HIDE DEF pv, p
    <3> QED
      BY <1>3, <3>1, <3>2, <3>3 DEF Fits
  <2> QED
    BY <1>6, <2>1, <2>2
<1> QED
  BY <1>2, <1>5, <1>6

-----------------------------------------------------------------------------
\* What the API holds after a request.

\* What is expanded from v when it is sent in the given form.
LEMMA ExpandValue ==
  ASSUME NEW form, NEW v \in TFValue
  PROVE  /\ form = "absent" => Expand(form, v) = "absent"
         /\ form = "value" => Expand(form, v) = IF v \in {"null", "unknown", "zero"} THEN "absent"
                                               ELSE IF v = "alias" THEN "a" ELSE v
         /\ form = "pointer" => Expand(form, v) = IF v \in {"null", "unknown"} THEN "absent"
                                                 ELSE IF v = "alias" THEN "a" ELSE v
BY DEF Expand, Parsed, OmitZero, PointerOrNil, TFValue, Known

LEMMA ServeUp ==
  ASSUME NEW root, NEW held, NEW pl \in TFPair, NEW w,
         Up[root] \in {"value", "absent"},
         w = Serve(Payload(pl, root), root, held)
  PROVE  /\ Up[root] = "absent" => w.up = held.up
         /\ Up[root] = "value" => w.up = IF pl.up \in {"null", "unknown", "zero"} THEN policy.up ELSE "a"
<1>1. Expand(Up[root], pl.up) = "absent"
        <=> Up[root] = "absent" \/ pl.up \in {"null", "unknown", "zero"}
  BY ExpandValue DEF TFPair, TFValue, Known
<1>2. Payload(pl, root).up = Expand(Up[root], pl.up)
  BY DEF Payload, Pair
<1>3. w.up = IF Payload(pl, root).up # "absent" THEN "a"
             ELSE IF Up[root] = "absent" THEN held.up ELSE policy.up
  BY DEF Serve, Pair
<1> QED
  BY <1>1, <1>2, <1>3 DEF TFPair, TFValue, Known

LEMMA ServeOwn ==
  ASSUME NEW root, NEW held, NEW pl \in TFPair, NEW w,
         w = Serve(Payload(pl, root), root, held)
  PROVE  /\ w.up = "absent" => w.own = "absent"
         /\ w.up # "absent" =>
              LET sent == IF Expand(Up[root], pl.up) = "absent" THEN "absent" ELSE Expand(attr[root], pl.own)
              IN w.own = IF attr.class # "Computed" /\ sent # "absent" THEN sent
                         ELSE IF (attr.class = "Computed" \/ attr[root] = "absent") /\ held.up # "absent"
                              THEN held.own ELSE policy.own
BY DEF Serve, Payload, Pair

LEMMA UpForms ==
  ASSUME TypeOK
  PROVE  /\ Up["create"] = Up.create /\ Up["update"] = Up.update
         /\ attr["create"] = attr.create /\ attr["update"] = attr.update
         /\ Up.create \in {"value", "absent"} /\ Up.update \in {"value", "absent"}
         /\ Up.flatten \in NullForms \cup {"has", "keep"}
         /\ Up.create = "absent" <=> Up.class = "Computed"
         /\ Up.class = "Computed" => Up.update = "absent"
         /\ Up.flatten = "keep" => /\ Up.class = "OptionalComputed" /\ Kept(Up) /\ Up.update = "value"
                                   /\ ~Computed(attr) /\ attr.update # "absent"
                                   /\ attr.handler = "whole"
         /\ Up.flatten = "has" => Computed(Up) /\ Kept(Up) /\ ~Up.released
         /\ TopLevel => /\ Up.flatten \in NullForms /\ Up.update = "value" /\ ~Up.released
                        /\ Up.create = "value"
         /\ Up.create = "absent" => attr.create = "absent"
         /\ Up.update = "absent" => attr.update = "absent"
         /\ Up.update = "absent" /\ Up.class # "Computed"
              => Replacing(Up) \/ attr.replaced \/ attr.handler = "none"
BY RowLaws DEF Enclosing, Suited, Placed, Up, TopLevel

LEMMA AttrForms ==
  ASSUME TypeOK
  PROVE  /\ attr.create \in ExpandForms /\ attr.update \in ExpandForms
         /\ attr.class # "Computed" /\ attr.create = "absent"
              => attr.update = "absent" /\ attr.flatten \in {"prev", "default"}
         /\ attr.class # "Computed" /\ attr.create # "absent" /\ attr.update = "absent"
              => Replacing(attr) \/ attr.replaced \/ attr.handler = "none"
         /\ attr.class # "Computed" /\ "absent" \notin {attr.create, attr.update}
              => attr.create = attr.update
BY RowType, RowLaws DEF Placed

\* A value that is given reads back as it was given, once it is asked for.
LEMMA GivenServed ==
  ASSUME TypeOK, Shape, Beyond = {}, config.up = "a",
         NEW root \in {"create", "update"}, NEW held, NEW pl \in TFPair, NEW w,
         pl.up = "a", Given(pl.own), Up[root] = "value", attr[root] # "absent",
         w = Serve(Payload(pl, root), root, held)
  PROVE  /\ w.up = "a" /\ (attr.restored \/ Fits(w.own, pl.own))
         /\ w.own = IF Expand(attr[root], pl.own) = "absent" THEN policy.own ELSE Expand(attr[root], pl.own)
<1> DEFINE v == pl.own
           sent == Expand(attr[root], v)
<1>1. w.up = "a"
  BY ServeUp DEF Known
<1>2. Expand(Up[root], pl.up) = "a"
  BY ExpandValue DEF TFValue, Known
<1>3. /\ v \in Known \cup {"null", "alias"} /\ attr.class # "Computed" /\ (v = "alias" => attr.restored)
      /\ v = "null" => policy.own = "absent" /\ attr.flatten \notin {"direct", "default"}
      /\ v = "zero" => /\ attr.flatten \notin NullForms
                       /\ "pointer" \notin {attr.create, attr.update} => policy.own = "absent"
  BY GivenValue
<1>4. w.own = IF sent # "absent" THEN sent ELSE policy.own
  <2>1. w.up # "absent"
    BY <1>1
  <2> QED
    BY <1>2, <1>3, <2>1, ServeOwn
<1>5. attr[root] \in {"value", "pointer"}
      /\ (attr[root] = "value" => "pointer" \notin {attr.create, attr.update})
  BY <1>3, AttrForms, UpForms DEF ExpandForms
<1>6. sent = IF v = "null" \/ (v = "zero" /\ attr[root] = "value") THEN "absent"
             ELSE IF v = "alias" THEN "a" ELSE v
  <2>1. v \in TFValue /\ v # "unknown"
    BY <1>3 DEF TFValue, Known
  <2> HIDE DEF v
  <2> QED
    BY <1>5, <2>1, ExpandValue
<1> HIDE DEF sent, v
<1>7. CASE sent = "absent"
  <2>1. v \in {"null", "zero"} /\ policy.own = "absent"
    BY <1>3, <1>5, <1>6, <1>7 DEF Known
  <2>2. Fits("absent", v)
    BY <1>3, <2>1, FitsAbsent
  <2> QED
    BY <1>1, <1>4, <1>7, <2>1, <2>2 DEF v, sent
<1>8. CASE sent # "absent"
  <2>1. v = "alias" \/ (v \in Known /\ sent = v)
    BY <1>3, <1>6, <1>8
  <2>2. attr.restored \/ Fits(sent, v)
    BY <1>3, <2>1, FitsSent
  <2> QED
    BY <1>1, <1>4, <1>8, <2>1, <2>2 DEF v, sent
<1> QED
  BY <1>7, <1>8

\* A plan to create: unknown is only what the provider computes.
LEMMA PlanCreateValue ==
  ASSUME TypeOK, Shape, Beyond = {}, NEW pl, pl = PlanCreate(config)
  PROVE  /\ pl \in TFPair
         /\ config.up = "a" => /\ pl.up = "a"
                               /\ \/ Given(pl.own)
                                  \/ Computed(attr) /\ ~attr.default /\ pl.own = "unknown"
         /\ config.up = "null" => pl.own = pl.up /\ pl.up = IF Computed(Up) THEN "unknown" ELSE "null"
         /\ config.up \in {"null", "a"}
<1>1. config \in Configs
  BY DEF TypeOK
<1>2. config.up \in {"null", "a"} /\ config.own \in Known \cup {"null", "alias"}
      /\ (attr.class = "Computed" => config.own = "null")
  BY <1>1, ConfigValue
<1>3. ~Up.default /\ ~Up.writeOnly /\ (attr.default => attr.class = "OptionalComputed")
  BY RowPlans DEF PlanRow
<1>4. PlanNew(Up, config.up) = IF config.up = "a" THEN "a" ELSE IF Computed(Up) THEN "unknown" ELSE "null"
  BY <1>2, <1>3 DEF PlanNew, Proposed
<1>5. \/ Given(PlanNew(attr, config.own))
      \/ Computed(attr) /\ ~attr.default /\ PlanNew(attr, config.own) = "unknown"
  BY <1>2, <1>3 DEF PlanNew, Proposed, Given, Computed
<1>6. pl.up = PlanNew(Up, config.up)
      /\ pl.own = IF pl.up = "a" THEN PlanNew(attr, config.own) ELSE pl.up
  BY DEF PlanCreate, Pair
<1>7. pl \in TFPair
  BY <1>1, PlanCreateType
<1> QED
  BY <1>2, <1>4, <1>5, <1>6, <1>7

\* What is created reads back as it was planned.
LEMMA CreateKeeps ==
  ASSUME TypeOK, Shape, Beyond = {}, NEW pl, pl = PlanCreate(config),
         NEW w, w = Serve(Payload(pl, "create"), "create", policy)
  PROVE  /\ pl.up = "a" => /\ w.up = "a"
                           /\ pl.own # "unknown" => attr.restored \/ Fits(w.own, pl.own)
                           /\ pl.own = "unknown" => Up.flatten # "keep"
                           /\ pl.own = "unknown" \/ Given(pl.own)
         /\ pl.up = "null" => w.up = "absent"
         /\ pl.up \in {"a", "null", "unknown"}
         /\ TopLevel => pl.up = "a"
<1>1. config \in Configs
  BY DEF TypeOK
<1>2. PlanCreate(config) \in TFPair /\ pl \in TFPair
  BY <1>1, PlanCreateType
<1>3. TopLevel => config.up = "a"
  BY <1>1, ConfigValue DEF TopLevel
<1>4. pl.up \in {"a", "null", "unknown"}
  BY <1>2, PlanCreateValue
<1>5. ASSUME pl.up = "a"
      PROVE  /\ w.up = "a" /\ (pl.own = "unknown" => Up.flatten # "keep")
             /\ pl.own = "unknown" \/ (Given(pl.own) /\ (attr.restored \/ Fits(w.own, pl.own)))
  <2>1. config.up = "a" /\ (Given(pl.own) \/ (Computed(attr) /\ pl.own = "unknown"))
    BY <1>5, PlanCreateValue
  <2>2. Up.class # "Computed"
    BY <1>1, <2>1, ConfigValue
  <2>3. Up["create"] = "value" /\ attr["create"] = attr.create
    BY <2>2, UpForms
  <2>4. w.up = "a"
    BY <1>2, <1>5, <2>3, ServeUp DEF Known
  <2>5. CASE pl.own = "unknown"
    <3>1. ~Given("unknown")
      BY <2>1, GivenValue DEF Known
    <3>2. Computed(attr)
      BY <2>1, <2>5, <3>1
    <3> QED
      BY <2>4, <2>5, <3>2, UpForms
  <2>6. CASE Given(pl.own) /\ attr.create # "absent"
    <3>1. config.up = "a" /\ pl \in TFPair /\ pl.up = "a" /\ Given(pl.own)
      BY <1>2, <1>5, <2>1, <2>6
    <3>2. Up["create"] = "value" /\ attr["create"] # "absent"
      BY <2>3, <2>6
    <3>3. attr.restored \/ Fits(w.own, pl.own)
      BY <3>1, <3>2, GivenServed
    <3> QED
      BY <2>1, <2>4, <2>6, <3>3, GivenValue DEF Known
  <2>7. CASE Given(pl.own) /\ attr.create = "absent"
    <3>1. attr.class # "Computed" /\ (pl.own = "null" => attr.flatten # "default")
          /\ pl.own \in Known \cup {"null", "alias"} /\ (pl.own = "alias" => attr.restored)
      BY <2>1, <2>7, GivenValue
    <3>2. attr.flatten \in {"prev", "default"}
      BY <2>7, <3>1, AttrForms
    <3>3. attr.restored \/ Fits(w.own, pl.own)
      BY <3>1, <3>2, FitsLocal
    <3> QED
      BY <2>4, <2>7, <3>1, <3>3 DEF Known
  <2> QED
    BY <2>1, <2>5, <2>6, <2>7
<1>6. ASSUME pl.up = "null" PROVE w.up = "absent"
  <2>1. ~Computed(Up) /\ policy.up = "absent"
    BY <1>2, <1>6, PlanCreateValue DEF Shape
  <2>2. Up["create"] = "value"
    BY <2>1, UpForms DEF Computed
  <2> QED
    BY <1>2, <1>6, <2>1, <2>2, ServeUp DEF Known
<1> QED
  BY <1>3, <1>4, <1>5, <1>6, PlanCreateValue

-----------------------------------------------------------------------------
\* Updates in place.

\* What the state says of a value that a request leaves out.
LEMMA StateValue ==
  ASSUME TypeOK, Shape, NEW v \in Known \cup {"null"}, Fits(server.own, v),
         attr.class # "Computed"
  PROVE  /\ attr.flatten \in {"direct", "default"} => v # "null"
         /\ attr.flatten \in NullForms => v = NullIfAbsent(server.own)
         /\ v = "zero" /\ attr.flatten \in NullForms => "pointer" \in {attr.create, attr.update}
         /\ server.own # "absent" /\ attr.flatten \in NullForms \cup {"direct", "carryEmpty", "has"}
              => v = server.own
         /\ server.own # "absent" /\ attr.flatten = "keep" => v # "null"
<1>1. server.own \in WireValue
  BY DEF TypeOK
<1>2. attr.inList => attr.flatten \in NullForms \cup {"direct"}
  BY RowLaws DEF Suited
<1>3. Flatten(attr.flatten, server.own, Prev(v)) = v
  BY DEF Fits
<1>4. attr.flatten = "direct" => v # "null" /\ (server.own # "absent" => v = server.own)
  BY <1>1, <1>3 DEF Flatten, ZeroIfAbsent, WireValue, Known, NullForms
<1>5. attr.flatten = "default" => v # "null"
  BY <1>2, <1>3 DEF Flatten, PreserveDefault, CarryPrev, Prev, NullForms
<1>6. attr.flatten \in NullForms => v = NullIfAbsent(server.own)
  BY <1>3 DEF Flatten, NullForms
<1>7. v = "zero" /\ attr.flatten \in NullForms => "pointer" \in {attr.create, attr.update}
  <2> SUFFICES ASSUME v = "zero", attr.flatten \in NullForms PROVE "pointer" \in {attr.create, attr.update}
    OBVIOUS
  <2>1. server.own = "zero" /\ attr.flatten # "has"
    BY <1>6 DEF NullIfAbsent, NullForms
  <2> QED
    BY <2>1 DEF Shape, Presence
<1>8. server.own # "absent" /\ attr.flatten = "carryEmpty" => v = server.own
  BY <1>1, <1>3 DEF Flatten, ListCarryKnownEmpty, NullIfAbsent, WireValue, Known, NullForms
<1>9. server.own # "absent" /\ attr.flatten = "has" => v = server.own
  BY <1>3 DEF Flatten, HasPresence, NullForms
<1>10. server.own # "absent" /\ attr.flatten = "keep" => v # "null"
  BY <1>1, <1>2, <1>3 DEF Flatten, OverrideFromPrev, NullIfAbsent, Prev, NullForms, WireValue, Known
<1>11. server.own # "absent" => NullIfAbsent(server.own) = server.own
  BY DEF NullIfAbsent
<1> QED
  BY <1>4, <1>5, <1>6, <1>7, <1>8, <1>9, <1>10, <1>11

\* A value of the state that is sent along reads back as it was.
LEMMA StateServed ==
  ASSUME TypeOK, Shape, Assigned, Refreshed, exists, fresh, state.up = "a",
         Up.flatten # "keep", ~attr.restored,
         NEW pl \in TFPair, pl.up = "a", pl.own = state.own,
         NEW w, w = Serve(Payload(pl, "update"), "update", server), w.up = "a"
  PROVE  Fits(w.own, state.own)
<1> DEFINE v == state.own
           sent == Expand(attr.update, v)
<1>1. server.up = "a" /\ Fits(server.own, v)
  BY RefreshedState
<1>2. v \in TFValue /\ v # "unknown" /\ v \in Known \cup {"null"} /\ v # "alias"
  BY DEF TypeOK, Shape, TFValue, Known
<1>3. CASE attr.class = "Computed" \/ attr.update = "absent"
  <2>1. attr.update = "absent" => Expand(attr.update, pl.own) = "absent"
    BY ExpandValue DEF TFPair
  <2>2. w.own = server.own
    BY <1>1, <1>3, <2>1, ServeOwn, UpForms
  <2> QED
    BY <1>1, <2>2
<1>4. CASE attr.class # "Computed" /\ attr.update # "absent"
  <2>1. Up["update"] = "value" /\ attr["update"] = attr.update
    BY <1>4, UpForms
  <2>2. Expand(Up["update"], pl.up) = "a"
    BY <2>1, ExpandValue DEF TFValue, Known
  <2>3. w.own = IF sent # "absent" THEN sent ELSE policy.own
    BY <1>4, <2>1, <2>2, ServeOwn
  <2>4. attr.update \in {"value", "pointer"}
        /\ (attr.update = "value" => "pointer" \notin {attr.create, attr.update})
    BY <1>4, AttrForms DEF ExpandForms
  <2>5. sent = IF v = "null" \/ (v = "zero" /\ attr.update = "value") THEN "absent" ELSE v
    <3> HIDE DEF v
    <3> QED
      BY <1>2, <2>4, ExpandValue
  <2> HIDE DEF sent
  <2>6. CASE sent # "absent"
    <3>1. v \in Known /\ w.own = v
      BY <1>2, <2>3, <2>5, <2>6
    <3> QED
      BY <3>1, FitsSent
  <2>7. CASE sent = "absent" /\ policy.own = "absent"
    <3>1. v \in {"null", "zero"} /\ (v = "zero" => "pointer" \notin {attr.create, attr.update})
      BY <2>4, <2>5, <2>7, <1>2 DEF Known
    <3>2. /\ attr.flatten \in {"direct", "default"} => v = "zero"
          /\ attr.flatten \in NullForms => v = "null"
      BY <1>1, <1>2, <1>4, <3>1, StateValue
    <3>3. Fits("absent", v)
      BY <3>1, <3>2, FitsAbsent
    <3> QED
      BY <2>3, <2>7, <3>3
  <2>8. CASE sent = "absent" /\ policy.own # "absent"
    <3>1. Computed(attr) /\ ~attr.default
      BY <2>8 DEF Shape
    <3>2. attr.flatten \in NullForms \cup {"direct", "carryEmpty", "has", "keep"}
      BY <1>4, <3>1, RowLaws DEF Suited, Computed
    <3>3. server.own # "absent" /\ server.own \in Known
      <4>1. server.own # "absent"
        BY <1>1, <1>4, <2>8 DEF Assigned
      <4> QED
        BY <4>1 DEF TypeOK, WireValue
    <3>4. v # "null"
      BY <1>1, <1>2, <1>4, <3>2, <3>3, StateValue DEF Known
    <3>5. v = "zero" /\ "pointer" \notin {attr.create, attr.update}
      BY <1>2, <2>4, <2>5, <2>8, <3>4 DEF Known
    <3>6. CASE attr.flatten = "keep"
      <4>1. ~attr.inList
        BY <3>6, RowLaws DEF Suited, NullForms
      <4> QED
        BY <3>5, <3>6, <4>1 DEF Fits, Prev, Flatten, OverrideFromPrev, NullForms
    <3>7. CASE attr.flatten # "keep"
      <4>1. server.own = "zero"
        BY <1>1, <1>2, <1>4, <3>2, <3>3, <3>5, <3>7, StateValue
      <4>2. policy.own = "zero"
        BY <1>4, <3>5, <4>1 DEF Assigned
      <4> QED
        BY <1>1, <2>3, <2>8, <4>1, <4>2
    <3> QED
      BY <3>6, <3>7
  <2> QED
    BY <2>6, <2>7, <2>8
<1> QED
  BY <1>3, <1>4

\* A value that is given and not sent, since the state's would expand to the same.
LEMMA GivenUnsent ==
  ASSUME TypeOK, Shape, Assigned, Refreshed, exists, fresh, Beyond = {}, config.up = "a",
         state.up = "a", attr.handler = "mask", ~attr.restored, Up.flatten # "keep",
         NEW v, Given(v), attr.update # "absent",
         Expand(attr.update, v) = Expand(attr.update, state.own)
  PROVE  Fits(server.own, v)
<1>1. server.up = "a" /\ Fits(server.own, state.own)
  BY RefreshedState
<1>2. state.own \in TFValue /\ state.own \notin {"unknown", "alias"} /\ state.own \in Known \cup {"null"}
  BY DEF TypeOK, Shape, TFValue, Known
<1>3. /\ v \in Known \cup {"null"} /\ v # "alias" /\ attr.class # "Computed"
      /\ v = "null" => attr.flatten \notin {"direct", "default"}
      /\ v = "zero" => attr.flatten \notin NullForms /\ attr.kind # "Object"
  BY GivenValue DEF Known
<1>4. attr.update \in {"value", "pointer"} /\ attr.create = attr.update
  BY <1>3, AttrForms DEF ExpandForms
<1>5. v = state.own \/ (attr.update = "value" /\ {v, state.own} = {"null", "zero"})
  <2>1. v \in TFValue /\ v \notin {"unknown", "alias"}
    BY <1>3 DEF TFValue, Known
  <2>2. /\ attr.update = "value" =>
             /\ Expand(attr.update, v) = IF v \in {"null", "zero"} THEN "absent" ELSE v
             /\ Expand(attr.update, state.own) = IF state.own \in {"null", "zero"} THEN "absent" ELSE state.own
        /\ attr.update = "pointer" =>
             /\ Expand(attr.update, v) = IF v = "null" THEN "absent" ELSE v
             /\ Expand(attr.update, state.own) = IF state.own = "null" THEN "absent" ELSE state.own
    BY <1>2, <2>1, ExpandValue
  <2> QED
    BY <1>2, <1>3, <1>4, <2>2 DEF Known
<1>6. CASE v = state.own
  BY <1>1, <1>6
<1>7. CASE attr.update = "value" /\ v # state.own /\ v \in {"null", "zero"} /\ state.own \in {"null", "zero"}
  <2>1. attr.flatten \in FlattenForms \ {"none", "keep"} /\ server.own \in WireValue
    BY <1>3, <1>7, RowType, RowLaws DEF Suited, TypeOK
  <2>2. attr.flatten \in {"direct", "default"} => state.own = "zero" /\ v = "zero"
    BY <1>1, <1>2, <1>3, <1>7, StateValue
  <2>3. attr.flatten \in NullForms => state.own = "null" /\ v = "null"
    BY <1>1, <1>2, <1>3, <1>4, <1>7, StateValue
  <2>4. attr.flatten # "has"
    <3> SUFFICES ASSUME attr.flatten = "has" PROVE FALSE
      OBVIOUS
    <3>1. attr.kind = "Object"
      BY <1>3, <1>4, <1>7, RowLaws DEF Suited
    <3> QED
      BY <1>3, <1>7, <3>1 DEF Shape
  <2>5. attr.flatten \in {"nonempty", "prev", "carryEmpty"}
    BY <1>7, <2>1, <2>2, <2>3, <2>4 DEF FlattenForms, PrevForms
  <2>6. ~attr.inList
    BY <2>5, RowLaws DEF Suited, NullForms
  <2>7. CASE attr.flatten = "nonempty"
    <3>1. server.own \in {"absent", "zero"}
      BY <1>1, <1>7, <2>1, <2>7 DEF Fits, Flatten, ScalarHeuristic, WireValue, Known, NullForms
    <3> QED
      BY <1>7, <2>6, <2>7, <3>1 DEF Fits, Prev, Flatten, ScalarHeuristic, CarryPrev, NullForms
  <2>8. CASE attr.flatten = "prev"
    BY <1>3, <2>8, FitsLocal
  <2>9. CASE attr.flatten = "carryEmpty"
    <3>1. server.own # "zero"
      BY <1>4, <1>7, <2>9 DEF Shape, Presence
    <3>2. server.own = "absent"
      BY <1>1, <1>7, <2>1, <2>9, <3>1
         DEF Fits, Flatten, ListCarryKnownEmpty, NullIfAbsent, WireValue, Known, NullForms
    <3> QED
      BY <1>7, <2>9, <3>2, FitsAbsent DEF NullForms
  <2> QED
    BY <2>5, <2>7, <2>8, <2>9
<1> QED
  BY <1>2, <1>3, <1>5, <1>6, <1>7

\* The invariant without its verdict.
Sound == TypeOK /\ Shape /\ Assigned /\ Refreshed

\* An update asks for no replacement: what must not change does not.
LEMMA UpdatePinned ==
  ASSUME Sound, Beyond = {}, NEW other, NEW moved, NEW pl, Updates(pl, other, moved),
         attr.handler # "none"
  PROVE  /\ exists /\ fresh /\ pl = PlanUpdate(config, state, other, moved)
         /\ moved => other /\ attr.coupled /\ (config.up = "a" \/ attr.released \/ Up.released)
         /\ Up.update = "absent" /\ Up.class # "Computed" => pl = state
         /\ attr.class # "Computed" /\ attr.create # "absent" /\ attr.update = "absent"
              => pl = state \/ (pl.up = "a" => pl.own = OwnOf(state))
         /\ Computed(attr) /\ pl.up = "a" /\ pl.own = "null" => state.up = "a"
<1>1. attr.replaced \/ Replacing(Up) => pl = state
  BY DEF Updates, Replaces
<1>2. Replacing(attr) /\ pl.up = "a" => pl.own = OwnOf(state)
  BY DEF Updates, Replaces
<1>3. Computed(attr) /\ pl.up = "a" /\ pl.own = "null" => state.up = "a"
  <2> SUFFICES ASSUME Computed(attr), pl.up = "a", pl.own = "null", state.up # "a" PROVE FALSE
    OBVIOUS
  <2>1. pl = Pair("a", "null")
    <3>1. pl = PlanUpdate(config, state, other, moved)
      BY DEF Updates
    <3>2. PlanUpdate(config, state, other, moved) = Pair(pl.up, pl.own)
      BY <3>1 DEF PlanUpdate, Pair
    <3> QED
      BY <3>1, <3>2
  <2> QED
    BY <2>1 DEF Updates
<1>4. /\ Up.update = "absent" /\ Up.class # "Computed" => Replacing(Up) \/ attr.replaced
      /\ attr.class # "Computed" /\ attr.create # "absent" /\ attr.update = "absent"
           => Replacing(attr) \/ attr.replaced
  BY AttrForms, UpForms DEF Sound
<1> QED
  BY <1>1, <1>2, <1>3, <1>4 DEF Updates

\* The block around the attribute: planned, sent and answered alike.
LEMMA UpdateUp ==
  ASSUME Sound, Beyond = {}, NEW other, NEW moved, NEW pl, Updates(pl, other, moved),
         attr.handler # "none",
         NEW w, \/ w = Serve(Payload(pl, "update"), "update", server)
                \/ w = server /\ attr.handler = "mask" /\ ~InMask(pl)
  PROVE  /\ pl \in TFPair /\ pl.up \in {"a", "null", "unknown"}
         /\ pl.up = "a" => w.up = "a"
         /\ pl.up = "null" => w.up = "absent"
         /\ TopLevel => pl.up = "a" /\ state.up = "a"
<1>1. /\ TypeOK /\ Shape /\ Assigned /\ Refreshed /\ exists /\ fresh
      /\ pl = PlanUpdate(config, state, other, moved)
      /\ config \in Configs /\ state \in TFPair /\ state.up \in {"null", "a"} /\ server.up \in {"absent", "a"}
      /\ policy.up \in {"absent", "a"}
  BY UpdatePinned DEF Sound, TypeOK, TFPair, Shape
<1>2. pl \in TFPair
  BY <1>1, PlanUpdateType
<1>3. /\ pl.up \in {"null", "a", "unknown"}
      /\ config.up = "a" => pl.up = "a"
      /\ pl.up = "null" => config.up = "null" /\ (Computed(Up) => state.up = "null")
      /\ pl.up = "a" /\ config.up = "null" => state.up = "a"
  BY <1>1, PlanUpdateUp
<1>4. /\ config.up \in {"null", "a"} /\ (config.up = "null" => Up.class # "Root")
      /\ (Up.class = "Computed" => config.up = "null")
  BY <1>1, ConfigValue
<1>5. TopLevel => pl.up = "a" /\ state.up = "a"
  BY <1>1, <1>3, <1>4 DEF TopLevel, Shape
<1>6. /\ state.up = "null" => server.up = "absent"
      /\ state.up = "a" /\ Up.flatten # "keep" => server.up = "a"
  BY <1>1, RefreshedState
<1>7. Up.update \in {"value", "absent"} /\ Up["update"] = Up.update
      /\ (Up.flatten = "keep" => Up.update = "value" /\ attr.handler = "whole")
      /\ (Up.class = "Computed" => Up.update = "absent")
  BY <1>1, UpForms
<1>8. Up.update = "absent" => (pl.up = "a" => state.up = "a") /\ (pl.up = "null" => state.up = "null")
  <2>1. CASE Up.class = "Computed"
    BY <1>3, <1>4, <2>1 DEF Computed
  <2>2. CASE Up.class # "Computed"
    BY <2>2, UpdatePinned
  <2> QED
    BY <2>1, <2>2
<1>9. CASE w = Serve(Payload(pl, "update"), "update", server)
  <2>1. /\ Up.update = "absent" => w.up = server.up
        /\ Up.update = "value" => w.up = IF pl.up = "a" THEN "a" ELSE policy.up
    BY <1>2, <1>3, <1>7, <1>9, ServeUp DEF Known
  <2>2. pl.up = "null" /\ Up.update = "value" => policy.up = "absent"
    <3> SUFFICES ASSUME pl.up = "null", Up.update = "value" PROVE policy.up = "absent"
      OBVIOUS
    <3>1. CASE ~Computed(Up)
      BY <1>1, <3>1 DEF Shape
    <3>2. CASE Computed(Up)
      BY <1>1, <1>3, <1>6, <3>2 DEF Assigned
    <3> QED
      BY <3>1, <3>2
  <2> QED
    BY <1>2, <1>3, <1>5, <1>6, <1>7, <1>8, <2>1, <2>2
<1>10. CASE w = server /\ attr.handler = "mask" /\ ~InMask(pl)
  <2>1. Up.flatten # "keep"
    BY <1>7, <1>10
  <2>2. Up.update = "value" => (pl.up = "a" <=> state.up = "a")
    <3>1. Expand(Up["update"], pl.up) = Expand(Up["update"], state.up)
      BY <1>10 DEF InMask, Payload, Pair
    <3>2. Up.update = "value" =>
            /\ Expand(Up["update"], pl.up) = IF pl.up = "a" THEN "a" ELSE "absent"
            /\ Expand(Up["update"], state.up) = IF state.up = "a" THEN "a" ELSE "absent"
      BY <1>1, <1>3, <1>7, ExpandValue DEF TFValue, Known
    <3> QED
      BY <3>1, <3>2
  <2>3. pl.up = "a" => state.up = "a"
    BY <1>7, <1>8, <2>2
  <2>4. pl.up = "null" => state.up = "null"
    BY <1>1, <1>7, <1>8, <2>2
  <2> QED
    BY <1>2, <1>3, <1>5, <1>6, <1>10, <2>1, <2>3, <2>4
<1> QED
  BY <1>9, <1>10

\* What is planned for the attribute reads back.
LEMMA UpdateOwn ==
  ASSUME Sound, Beyond = {}, NEW other, NEW moved, NEW pl, Updates(pl, other, moved),
         attr.handler # "none", pl.up = "a", pl.own # "unknown",
         NEW w, \/ w = Serve(Payload(pl, "update"), "update", server)
                \/ w = server /\ attr.handler = "mask" /\ ~InMask(pl)
  PROVE  Up.flatten = "keep" \/ attr.restored \/ Fits(w.own, pl.own)
<1> SUFFICES ASSUME Up.flatten # "keep", ~attr.restored PROVE Fits(w.own, pl.own)
  OBVIOUS
<1>1. /\ TypeOK /\ Shape /\ Assigned /\ Refreshed /\ exists /\ fresh
      /\ pl = PlanUpdate(config, state, other, moved)
      /\ config \in Configs /\ state \in TFPair /\ state.up \in {"null", "a"}
  BY UpdatePinned DEF Sound, TypeOK, TFPair, Shape
<1>2. pl \in TFPair /\ w.up = "a"
  BY UpdateUp
<1>3. CASE state.up = "a" /\ pl.own = state.own
  <2>1. CASE w = server
    BY <1>1, <1>3, <2>1, RefreshedState
  <2>2. CASE w = Serve(Payload(pl, "update"), "update", server)
    BY <1>1, <1>2, <1>3, <2>2, StateServed
  <2> QED
    BY <2>1, <2>2
<1>4. CASE ~(state.up = "a" /\ pl.own = state.own)
  <2>1. config.up = "a"
    <3>1. config.up \in {"null", "a"}
      BY <1>1, ConfigValue
    <3> QED
      BY <1>1, <1>4, <3>1, PlanUpdateUp
  <2>2. Given(pl.own)
    <3>1. CASE Computed(attr) /\ pl.own = OwnOf(state)
      BY <1>1, <1>4, <3>1, UpdatePinned DEF OwnOf
    <3> QED
      BY <1>1, <2>1, <3>1, PlanUpdateOwn
  <2>3. /\ pl.own \in Known \cup {"null"} /\ attr.class # "Computed"
        /\ pl.own = "null" => policy.own = "absent" /\ attr.flatten \notin {"direct", "default"}
    BY <1>1, <2>1, <2>2, GivenValue
  <2>4. CASE attr.create = "absent"
    BY <1>1, <2>3, <2>4, AttrForms, FitsLocal
  <2>5. CASE attr.create # "absent" /\ attr.update = "absent"
    <3>1. pl.own = OwnOf(state) /\ state.up = "null" /\ pl.own = "null"
      BY <1>1, <1>4, <2>3, <2>5, UpdatePinned DEF OwnOf
    <3>2. server.up = "absent" /\ server.own = "absent"
      BY <1>1, <3>1, RefreshedState
    <3>3. w.own = policy.own
      <4>1. w = Serve(Payload(pl, "update"), "update", server)
        BY <1>2, <3>2
      <4>2. Expand(attr["update"], pl.own) = "absent"
        BY <1>1, <1>2, <2>5, ExpandValue, UpForms DEF TFPair
      <4> QED
        BY <1>2, <3>2, <4>1, <4>2, ServeOwn
    <3>4. Fits("absent", "null")
      BY <1>1, <2>3, <3>1, FitsAbsent
    <3> QED
      BY <2>3, <3>1, <3>3, <3>4
  <2>6. CASE attr.create # "absent" /\ attr.update # "absent"
    <3>1. Up["update"] = "value" /\ attr["update"] = attr.update
      BY <1>1, <2>6, UpForms
    <3>2. CASE w = Serve(Payload(pl, "update"), "update", server)
      <4>1. attr["update"] # "absent"
        BY <2>6, <3>1
      <4> QED
        BY <1>1, <1>2, <2>1, <2>2, <3>1, <3>2, <4>1, GivenServed
    <3>3. CASE w = server /\ attr.handler = "mask" /\ ~InMask(pl)
      <4>1. Expand(Up["update"], pl.up) = Expand(Up["update"], state.up)
        BY <3>3 DEF InMask, Payload, Pair
      <4>2. Expand(Up["update"], "a") = "a"
        BY <3>1, ExpandValue DEF TFValue, Known
      <4>3. state.up = "a"
        <5>1. Expand("value", "null") = "absent"
          BY ExpandValue DEF TFValue
        <5> QED
          BY <1>1, <3>1, <4>1, <4>2, <5>1
      <4>4. Expand(attr["update"], pl.own) = Expand(attr["update"], state.own)
        BY <3>3, <4>1, <4>2 DEF InMask, Payload, Pair
      <4> QED
        BY <1>1, <2>1, <2>2, <2>6, <3>1, <3>3, <4>3, <4>4, GivenUnsent
    <3> QED
      BY <3>2, <3>3
  <2> QED
    BY <2>4, <2>5, <2>6
<1> QED
  BY <1>3, <1>4

-----------------------------------------------------------------------------
\* What the API may hold, and what is stored of it.

\* What the API has to keep of what it assigns.
Lasting(h) ==
  /\ h.up \in {"absent", "a"} /\ h.own \in WireValue
  /\ h.own = "zero" => Presence(attr) /\ attr.kind # "Object"
  /\ Up.update # "absent" /\ policy.up = "a" => h.up = "a"
  /\ attr.class # "Computed" /\ h.up = "a" /\ policy.own # "absent" => h.own # "absent"
  /\ attr.class # "Computed" /\ "pointer" \notin {attr.create, attr.update} /\ h.own = "zero"
       => policy.own = "zero"

Proper(w) == Lasting(w) /\ (w.up = "absent" => w.own = "absent") /\ (TopLevel => w.up = "a")

LEMMA LastingPolicy ==
  ASSUME TypeOK, Shape
  PROVE  Lasting(policy)
BY DEF TypeOK, Shape, Lasting

LEMMA ProperServer ==
  ASSUME Sound, exists
  PROVE  Proper(server)
BY DEF Sound, TypeOK, Shape, Assigned, Lasting, Proper

LEMMA ServeProper ==
  ASSUME TypeOK, Shape, NEW root \in {"create", "update"}, NEW held, Lasting(held),
         root = "create" => held = policy,
         NEW pl \in TFPair, attr.kind = "Object" => pl.own # "zero", TopLevel => pl.up = "a",
         NEW w, w = Serve(Payload(pl, root), root, held)
  PROVE  Proper(w) /\ w \in WirePair
<1>1. Up[root] \in {"value", "absent"} /\ (TopLevel => Up[root] = "value")
      /\ (Up[root] = "absent" /\ root = "update" => Up.update = "absent")
  BY UpForms
<1>2. /\ Up[root] = "absent" => w.up = held.up
      /\ Up[root] = "value" => w.up = IF pl.up \in {"null", "unknown", "zero"} THEN policy.up ELSE "a"
  BY <1>1, ServeUp
<1>3. Lasting(policy)
  BY LastingPolicy
<1>4. w.up \in {"absent", "a"} /\ (TopLevel => w.up = "a")
      /\ (Up.update # "absent" /\ policy.up = "a" => w.up = "a")
  BY <1>1, <1>2, <1>3 DEF Lasting, Known
<1>5. w.up = "absent" => w.own = "absent"
  BY ServeOwn
<1> DEFINE sent == IF Expand(Up[root], pl.up) = "absent" THEN "absent" ELSE Expand(attr[root], pl.own)
<1>6. w.up # "absent" => w.own = IF attr.class # "Computed" /\ sent # "absent" THEN sent
                                 ELSE IF (attr.class = "Computed" \/ attr[root] = "absent") /\ held.up # "absent"
                                      THEN held.own ELSE policy.own
  BY ServeOwn
<1>7. sent \in WireValue
      /\ (sent = "zero" => "pointer" \in {attr.create, attr.update} /\ attr.kind # "Object")
  <2>1. attr[root] \in ExpandForms /\ (attr[root] = "pointer" => "pointer" \in {attr.create, attr.update})
    BY AttrForms, UpForms
  <2>2. pl.own \in TFValue
    BY DEF TFPair
  <2> DEFINE e == Expand(attr[root], pl.own)
  <2>3. /\ attr[root] = "absent" => e = "absent"
        /\ attr[root] = "value" => e = IF pl.own \in {"null", "unknown", "zero"} THEN "absent"
                                      ELSE IF pl.own = "alias" THEN "a" ELSE pl.own
        /\ attr[root] = "pointer" => e = IF pl.own \in {"null", "unknown"} THEN "absent"
                                        ELSE IF pl.own = "alias" THEN "a" ELSE pl.own
    BY <2>2, ExpandValue
  <2>4. e \in WireValue /\ (e = "zero" => attr[root] = "pointer" /\ pl.own = "zero")
    BY <2>1, <2>2, <2>3 DEF ExpandForms, TFValue, WireValue, Known
  <2>5. "absent" \in WireValue
    BY DEF WireValue
  <2> HIDE DEF e
  <2> QED
    BY <2>1, <2>4, <2>5 DEF e
<1> HIDE DEF sent
<1>8. w.own \in WireValue
  BY <1>3, <1>4, <1>5, <1>6, <1>7 DEF Lasting, WireValue
<1>9. w.own = "zero" => /\ Presence(attr) /\ attr.kind # "Object"
                        /\ attr.class # "Computed" /\ "pointer" \notin {attr.create, attr.update}
                             => policy.own = "zero"
  <2>1. "pointer" \in {attr.create, attr.update} => Presence(attr)
    BY DEF Presence
  <2> QED
    BY <1>3, <1>4, <1>5, <1>6, <1>7, <2>1 DEF Lasting
<1>10. attr.class # "Computed" /\ w.up = "a" /\ policy.own # "absent" => w.own # "absent"
  BY <1>3, <1>4, <1>6 DEF Lasting
<1>11. w = [up |-> w.up, own |-> w.own]
  BY DEF Serve, Pair
<1>12. w \in WirePair
  BY <1>4, <1>8, <1>11 DEF WirePair, WireValue, Known
<1> QED
  BY <1>4, <1>5, <1>8, <1>9, <1>10, <1>12 DEF Proper, Lasting

\* What a Flatten stores, for a prev that is a plan or a state.
Storable(s) ==
  /\ s \in TFPair /\ s.up \in {"a", "null", "unknown"}
  /\ attr.kind = "Object" => s.own # "zero"
  /\ s.own = "alias" => attr.restored /\ attr.flatten \in Respelled
  /\ attr.restored /\ attr.flatten = "direct" /\ attr.class = "OptionalComputed" /\ s.up = "a"
       => s.own # "null"

LEMMA FlattenPairStores ==
  ASSUME TypeOK, NEW w \in WirePair, Proper(w), NEW prev, Storable(prev),
         prev.up = "a" /\ prev.own = "unknown" => w.up = "a" /\ Up.flatten # "keep",
         NEW s, s = FlattenPair(w, prev)
  PROVE  /\ Storable(s) /\ s.up \in {"a", "null"} /\ s.own # "unknown"
         /\ s.up = "null" => s.own = "null"
         /\ TopLevel => s.up = "a"
         /\ Up.flatten = "has" /\ s.up = "a" => w.up = "a" \/ prev.up = "a"
<1>1. Up.flatten \in NullForms \cup {"has", "keep"} /\ (TopLevel => Up.flatten \in NullForms)
  BY UpForms
<1>2. w.up \in {"absent", "a"} /\ w.own \in WireValue /\ prev.up \in {"a", "null", "unknown"}
      /\ prev \in TFPair /\ prev.own \in TFValue
  BY DEF Proper, Lasting, Storable, TFPair
<1> DEFINE p == IF TopLevel THEN "a" ELSE Flatten(Up.flatten, w.up, prev.up)
           carried == ~TopLevel /\ prev.up = "a" /\ (w.up = "absent" \/ Up.flatten = "keep")
           pv == IF prev.up = "a" /\ ~attr.inList THEN prev.own ELSE "unknown"
           wv == IF Secret(attr) THEN "absent" ELSE w.own
           q == Flatten(attr.flatten, wv, pv)
<1>3. s = Pair(p, IF p # "a" THEN p
                  ELSE IF carried THEN prev.own
                  ELSE IF attr.restored /\ pv # "unknown" THEN pv ELSE q)
  BY DEF FlattenPair
<1>4. p \in {"a", "null"} /\ (Up.flatten = "has" /\ p = "a" => w.up = "a" \/ prev.up = "a")
  BY <1>1, <1>2 DEF Flatten, NullForms, NullIfAbsent, HasPresence, CarryPrev, OverrideFromPrev
<1>5. q # "unknown" /\ (q = "alias" => pv = "alias") /\ pv \in TFValue /\ wv \in WireValue
  <2>1. pv \in TFValue /\ wv \in WireValue
    BY <1>2 DEF TFValue, WireValue
  <2> HIDE DEF pv, wv
  <2> QED
    BY <2>1, FlattenKnown DEF Known
<1>6. attr.kind = "Object" => q # "zero"
  <2> SUFFICES ASSUME attr.kind = "Object" PROVE q # "zero"
    OBVIOUS
  <2>1. attr.flatten \in FlattenForms \ {"none", "direct", "default"}
    BY RowType, RowLaws DEF Suited
  <2>2. wv # "zero" /\ pv # "zero"
    BY DEF Proper, Lasting, Storable
  <2>3. CarryPrev(pv) # "zero" /\ NullIfAbsent(wv) # "zero"
    BY <2>2 DEF CarryPrev, NullIfAbsent
  <2> HIDE DEF pv, wv
  <2> QED
    BY <2>1, <2>2, <2>3 DEF Flatten, FlattenForms, NullForms, PrevForms, HasPresence, ScalarHeuristic,
         ListCarryKnownEmpty, OverrideFromPrev
<1>7. attr.restored /\ attr.flatten = "direct" => q # "null"
  BY DEF Flatten, ZeroIfAbsent, NullForms, Secret, Respelled
<1>8. s \in TFPair
  BY <1>2, FlattenPairType
<1>9. /\ s.up = p
      /\ p # "a" => s.own = p
      /\ p = "a" /\ carried => s.own = prev.own
      /\ p = "a" /\ ~carried /\ attr.restored /\ pv # "unknown" => s.own = pv
      /\ p = "a" /\ ~carried /\ ~(attr.restored /\ pv # "unknown") => s.own = q
  BY <1>3 DEF Pair
<1>10. carried => prev.up = "a" /\ prev.own # "unknown"
  OBVIOUS
<1>11. pv # "unknown" => prev.up = "a" /\ pv = prev.own
  OBVIOUS
<1>12. TopLevel => p = "a"
  OBVIOUS
<1> HIDE DEF p, carried, pv, q
<1>13. s.own # "unknown" /\ (attr.kind = "Object" => s.own # "zero")
  BY <1>4, <1>5, <1>6, <1>9, <1>10, <1>11 DEF Storable
<1>14. s.own = "alias" => attr.restored /\ attr.flatten \in Respelled
  BY <1>4, <1>5, <1>9, <1>10, <1>11 DEF Storable
<1>15. attr.restored /\ attr.flatten = "direct" /\ attr.class = "OptionalComputed" /\ s.up = "a"
         => s.own # "null"
  BY <1>4, <1>7, <1>9, <1>10, <1>11 DEF Storable
<1> QED
  BY <1>4, <1>8, <1>9, <1>12, <1>13, <1>14, <1>15 DEF Storable

\* A plan that is kept is agreed to.
Keeps(w, pl) ==
  /\ pl.up = "a" => /\ w.up = "a"
                    /\ pl.own # "unknown" => Up.flatten = "keep" \/ attr.restored \/ Fits(w.own, pl.own)
                    /\ pl.own = "unknown" => Up.flatten # "keep"
  /\ pl.up = "null" => w.up = "absent"
  /\ pl.up # "a" => pl.own = pl.up /\ ~TopLevel

LEMMA KeepsAgrees ==
  ASSUME TypeOK, NEW w \in WirePair, Proper(w), NEW pl, Storable(pl), Keeps(w, pl),
         NEW s, s = FlattenPair(w, pl)
  PROVE  /\ Agrees(pl, s) /\ Judge(pl, s) = "ok"
         /\ "unknown" \notin {pl.up, pl.own} => s = pl
<1>1. /\ s.up \in {"a", "null"} /\ s.own # "unknown" /\ (s.up = "null" => s.own = "null")
      /\ s \in TFPair /\ pl \in TFPair /\ pl.up \in {"a", "null", "unknown"}
  BY FlattenPairStores DEF Keeps, Storable
<1>2. pl.up = "a" => s.up = "a" /\ (pl.own # "unknown" => s.own = pl.own)
  BY <1>1, FlattenPairFits DEF Keeps
<1>3. pl.up = "null" => s.up = "null" /\ s.own = "null" /\ pl.own = "null"
  BY FlattenPairNowhere DEF Keeps, Nowhere, Pair
<1>4. Agrees(pl, s)
  BY <1>1, <1>2, <1>3 DEF Agrees
<1>5. Judge(pl, s) = "ok"
  BY <1>1, <1>4, RowLaws DEF Judge
<1>6. "unknown" \notin {pl.up, pl.own} => s = pl
  BY <1>1, <1>2, <1>3 DEF TFPair
<1> QED
  BY <1>4, <1>5, <1>6

-----------------------------------------------------------------------------
\* The steps keep the invariant.

\* A plan has no zero object, and no null where a restored value is stored.
LEMMA PlanStorable ==
  ASSUME TypeOK, Shape, Beyond = {}, NEW pl \in TFPair, pl.up \in {"a", "null", "unknown"},
         \/ pl.up = "a" /\ config.up = "a" /\ Given(pl.own)
         \/ pl.own = "unknown"
         \/ pl.up = "null" /\ pl.own = "null"
         \/ pl = state
  PROVE  Storable(pl)
<1>1. CASE pl.up = "a" /\ config.up = "a" /\ Given(pl.own)
  BY <1>1, GivenValue DEF Storable
<1>2. CASE pl.own = "unknown" \/ (pl.up = "null" /\ pl.own = "null")
  BY <1>2 DEF Storable
<1>3. CASE pl = state
  BY <1>3 DEF Storable, Shape
<1> QED
  BY <1>1, <1>2, <1>3

LEMMA ServedValue ==
  ASSUME Sound, Beyond = {}, NEW other \in BOOLEAN, NEW moved \in BOOLEAN, NEW pl,
         Updates(pl, other, moved), attr.handler # "none",
         NEW w \in Served(pl, moved)
  PROVE  LET v == Serve(Payload(pl, "update"), "update", server)
         IN \/ w = v
            \/ w = Pair("absent", "absent") /\ Up.released /\ pl.up = "unknown"
            \/ /\ v.up = "a" /\ \E x \in Rederived : w = Pair("a", x)
               /\ Computed(attr) /\ attr.coupled /\ (pl.up = "a" => pl.own = "unknown")
<1> DEFINE v == Serve(Payload(pl, "update"), "update", server)
<1>1. /\ TypeOK /\ Shape /\ Assigned /\ Refreshed
      /\ pl = PlanUpdate(config, state, other, moved) /\ config \in Configs /\ state \in TFPair
      /\ moved => other /\ attr.coupled /\ (config.up = "a" \/ attr.released \/ Up.released)
  BY UpdatePinned DEF Sound, TypeOK, TFPair
<1>2. pl \in TFPair
  BY <1>1, PlanUpdateType
<1>3. CASE w = v
  BY <1>3
<1>4. CASE w # v
  <2>1. moved /\ Payload(pl, "update").own = "absent" /\ w \in Derived(v)
    BY <1>4 DEF Served
  <2>2. CASE Up.released /\ w = Pair("absent", "absent")
    BY <1>1, <2>1, <2>2, PlanUpdateUp
  <2>3. CASE ~(Up.released /\ w = Pair("absent", "absent"))
    <3>1. v.up = "a" /\ Computed(attr) /\ \E x \in Rederived : w = Pair("a", x)
      BY <1>4, <2>1, <2>3 DEF Derived
    <3>2. ASSUME pl.up = "a" PROVE pl.own = "unknown"
      <4>1. CASE config.up # "a"
        <5>1. config.up = "null"
          BY <1>1, <4>1, ConfigValue
        <5> QED
          BY <1>1, <2>1, <3>2, <5>1, PlanUpdateUp
      <4>2. CASE config.up = "a"
        <5> SUFFICES ASSUME pl.own # "unknown" PROVE FALSE
          OBVIOUS
        <5>1. Up.class # "Computed" /\ attr.class # "Root"
          BY <1>1, <4>2, ConfigValue, RowType
        <5>2. ~Up.released
          BY <1>1, <5>1, RowPlans DEF PlanRow
        <5>3. Up.update = "value" => Expand(attr.update, pl.own) = "absent"
          <6>1. Up.update = "value" => Expand(Up["update"], pl.up) = "a"
            BY <1>1, <3>2, ExpandValue, UpForms DEF TFValue, Known
          <6>2. Payload(pl, "update").own =
                  IF Expand(Up["update"], pl.up) = "absent" THEN "absent" ELSE Expand(attr["update"], pl.own)
            BY DEF Payload, Pair
          <6> QED
            BY <1>1, <2>1, <6>1, <6>2, UpForms
        <5>4. CASE Given(pl.own)
          <6>1. pl.own \in Known \cup {"alias"} /\ attr.class = "OptionalComputed"
                /\ (pl.own = "zero" => "pointer" \in {attr.create, attr.update})
            BY <1>1, <2>1, <3>1, <4>2, <5>4, GivenValue DEF Computed
          <6>2. ~attr.default /\ attr.handler = "mask" /\ (attr.released \/ Up.released \/ ~Held(attr))
            BY <1>1, <2>1, RowLaws DEF Planned, Up
          <6>3. attr.flatten \notin {"prev", "default"}
            BY <1>1, <6>1, <6>2, RowLaws DEF Suited, NullForms
          <6>4. attr.create # "absent"
            BY <1>1, <6>1, <6>3, AttrForms
          <6>5. ~attr.released /\ ~Kept(attr)
            BY <1>1, <5>2, <6>1, <6>2, RowLaws DEF Planned, Held
          <6>6. ~Replacing(attr) /\ ~attr.replaced
            BY <1>1, <3>1, <6>5, RowLaws DEF Planned
          <6>7. attr.update \in {"value", "pointer"} /\ attr.create = attr.update
            BY <1>1, <6>1, <6>2, <6>4, <6>6, AttrForms DEF ExpandForms
          <6>8. Expand(attr.update, pl.own) # "absent"
            <7>1. /\ attr.update = "value" /\ pl.own \notin {"null", "unknown", "zero"} =>
                       Expand(attr.update, pl.own) \in {"a", pl.own}
                  /\ attr.update = "pointer" /\ pl.own \notin {"null", "unknown"} =>
                       Expand(attr.update, pl.own) \in {"a", pl.own}
              BY <1>2, ExpandValue DEF TFPair
            <7> QED
              BY <6>1, <6>7, <7>1 DEF Known
          <6>9. Up.update = "value"
            BY <1>1, <6>7, UpForms
          <6> QED
            BY <5>3, <6>1, <6>8, <6>9 DEF Known
        <5>5. CASE ~Given(pl.own)
          <6>1. /\ pl.own = OwnOf(state) /\ "rpsqlZonesStatePin" \in attr.mods
                /\ pl.own \notin {"null", "zero", "unknown"}
            <7>1. /\ pl.own \in {OwnOf(state), "unknown"}
                  /\ "rpsqlZonesStatePin" \in attr.mods /\ OwnOf(state) \notin {"null", "zero"}
              BY <1>1, <2>1, <4>2, <5>5, PlanUpdateOwn
            <7> QED
              BY <7>1
          <6>2. attr.update = "value"
            BY <1>1, <6>1, RowLaws DEF Planned
          <6>3. Expand(attr.update, pl.own) # "absent"
            BY <1>2, <6>1, <6>2, ExpandValue DEF TFPair, TFValue, Known
          <6>4. Up.update = "value"
            BY <1>1, <6>2, UpForms
          <6> QED
            BY <5>3, <6>3, <6>4
        <5> QED
          BY <5>4, <5>5
      <4> QED
        BY <4>1, <4>2
    <3> QED
      BY <1>1, <2>1, <3>1, <3>2
  <2> QED
    BY <2>2, <2>3
<1> QED
  BY <1>3, <1>4

\* Whatever an update's handler sends, the plan is kept.
LEMMA UpdateKeeps ==
  ASSUME Sound, Beyond = {}, NEW other \in BOOLEAN, NEW moved \in BOOLEAN, NEW pl,
         Updates(pl, other, moved), attr.handler # "none",
         NEW w, \/ w \in Served(pl, moved)
                \/ w = server /\ attr.handler = "mask" /\ ~InMask(pl)
  PROVE  Storable(pl) /\ Keeps(w, pl) /\ Proper(w) /\ w \in WirePair
<1> DEFINE v == Serve(Payload(pl, "update"), "update", server)
<1>1. /\ TypeOK /\ Shape /\ Assigned /\ Refreshed /\ exists
      /\ pl = PlanUpdate(config, state, other, moved) /\ config \in Configs /\ state \in TFPair
      /\ server \in WirePair /\ Proper(server)
  BY UpdatePinned, ProperServer DEF Sound, TypeOK, TFPair, WirePair
<1>2. pl \in TFPair
  BY <1>1, PlanUpdateType
<1>3. pl.up \in {"a", "null", "unknown"} /\ (TopLevel => pl.up = "a") /\ (pl.up # "a" => pl.own = pl.up)
  BY <1>1, PlanUpdateUp, UpdateUp
<1>4. Storable(pl) /\ (pl.up = "a" /\ pl.own = "unknown" => Computed(attr))
  <2>1. CASE pl.up # "a"
    BY <1>1, <1>2, <1>3, <2>1, PlanStorable
  <2>2. CASE pl.up = "a" /\ config.up = "a"
    <3>1. CASE Given(pl.own)
      BY <1>1, <1>2, <2>2, <3>1, PlanStorable, GivenValue DEF Known
    <3>2. CASE ~Given(pl.own) /\ pl.own # "unknown"
      <4>1. Computed(attr) /\ pl.own = OwnOf(state)
        BY <1>1, <2>2, <3>2, PlanUpdateOwn
      <4>2. state.up = "a"
        BY <2>2, <4>1, UpdatePinned DEF OwnOf
      <4>3. pl = state
        BY <1>1, <1>2, <2>2, <4>1, <4>2 DEF OwnOf, TFPair
      <4> QED
        BY <1>1, <1>2, <1>3, <3>2, <4>3, PlanStorable
    <3>3. CASE ~Given(pl.own) /\ pl.own = "unknown"
      BY <1>1, <1>2, <1>3, <2>2, <3>3, PlanUpdateOwn, PlanStorable
    <3> QED
      BY <3>1, <3>2, <3>3
  <2>3. CASE pl.up = "a" /\ config.up # "a"
    <3>1. config.up = "null"
      BY <1>1, <2>3, ConfigValue
    <3>2. state.up = "a" /\ pl.own = IF attr.released /\ moved THEN "unknown" ELSE state.own
      BY <1>1, <2>3, <3>1, PlanUpdateUp
    <3>3. CASE pl.own = "unknown"
      <4>1. state.own # "unknown"
        BY <1>1 DEF Shape
      <4>2. attr.released
        BY <3>2, <3>3, <4>1
      <4> QED
        BY <1>1, <1>2, <1>3, <3>3, <4>2, RowPlans, PlanStorable DEF PlanRow, Computed
    <3>4. CASE pl.own # "unknown"
      <4>1. pl = state
        BY <1>1, <1>2, <2>3, <3>2, <3>4 DEF TFPair
      <4> QED
        BY <1>1, <1>2, <1>3, <3>4, <4>1, PlanStorable
    <3> QED
      BY <3>3, <3>4
  <2> QED
    BY <2>1, <2>2, <2>3
<1>5. pl.up = "a" /\ pl.own = "unknown" => Up.flatten # "keep"
  BY <1>1, <1>4, UpForms
<1>6. Proper(v) /\ v \in WirePair
  BY <1>1, <1>2, <1>3, <1>4, ServeProper DEF Storable, Proper
<1>7. CASE w = v \/ (w = server /\ attr.handler = "mask" /\ ~InMask(pl))
  <2>1. (pl.up = "a" => w.up = "a") /\ (pl.up = "null" => w.up = "absent")
    BY <1>7, UpdateUp
  <2>2. pl.up = "a" /\ pl.own # "unknown"
          => Up.flatten = "keep" \/ attr.restored \/ Fits(w.own, pl.own)
    BY <1>7, UpdateOwn
  <2>3. Proper(w) /\ w \in WirePair
    BY <1>1, <1>6, <1>7
  <2> QED
    BY <1>3, <1>4, <1>5, <2>1, <2>2, <2>3 DEF Keeps
<1>8. CASE w = Pair("absent", "absent") /\ Up.released /\ pl.up = "unknown"
  <2>1. Keeps(w, pl)
    BY <1>3, <1>8 DEF Keeps
  <2>2. Up.update = "absent" /\ ~TopLevel
    BY <1>1, <1>8, RowPlans, UpForms DEF PlanRow
  <2>3. Proper(w) /\ w \in WirePair
    BY <1>8, <2>2 DEF Proper, Lasting, Pair, WirePair, WireValue
  <2> QED
    BY <1>4, <2>1, <2>3
<1>9. CASE /\ v.up = "a" /\ \E x \in Rederived : w = Pair("a", x)
           /\ Computed(attr) /\ attr.coupled /\ (pl.up = "a" => pl.own = "unknown")
  <2>1. PICK x \in Rederived : w = Pair("a", x)
    BY <1>9
  <2>2. pl.up = "null" => v.up = "absent"
    BY UpdateUp
  <2>3. Keeps(w, pl)
    BY <1>3, <1>5, <1>9, <2>1, <2>2 DEF Keeps, Pair
  <2>4. x \in WireValue /\ (attr.class # "Computed" => x # "absent")
        /\ (x = "zero" => Presence(attr) /\ attr.kind # "Object")
    BY DEF Rederived, WireOf, KnownOf, WireValue, Known
  <2>5. attr.class # "Computed" /\ "pointer" \notin {attr.create, attr.update} => ~Presence(attr) \/ attr.kind = "Object"
    <3>1. attr.handler = "mask"
      BY <1>1, <1>9, RowLaws DEF Planned
    <3> QED
      BY <1>1, <1>9, <3>1, RowLaws DEF Suited, Presence
  <2>6. Proper(w)
    BY <2>1, <2>4, <2>5 DEF Proper, Lasting, Pair
  <2>7. w \in WirePair
    BY <2>1, <2>4 DEF Pair, WirePair, WireValue, Known
  <2> QED
    BY <1>4, <2>3, <2>6, <2>7
<1>10. \/ w = v \/ (w = server /\ attr.handler = "mask" /\ ~InMask(pl))
       \/ w = Pair("absent", "absent") /\ Up.released /\ pl.up = "unknown"
       \/ /\ v.up = "a" /\ \E x \in Rederived : w = Pair("a", x)
          /\ Computed(attr) /\ attr.coupled /\ (pl.up = "a" => pl.own = "unknown")
  BY ServedValue
<1> QED
  BY <1>7, <1>8, <1>9, <1>10

\* A state and an answer that make the invariant hold again.
Settles(w, s) ==
  /\ w \in WirePair /\ Proper(w)
  /\ Storable(s) /\ s.up \in {"a", "null"} /\ s.own # "unknown"
  /\ s.up = "null" => s.own = "null"
  /\ TopLevel => s.up = "a"
  /\ Up.flatten = "has" /\ s.up = "a" => w.up = "a"

LEMMA NextSound ==
  ASSUME Sound, UNCHANGED <<attr, policy>>, config' \in Configs, exists' \in BOOLEAN, fresh' \in BOOLEAN,
         verdict' = "ok", Settles(server', state'),
         exists' /\ fresh' => FlattenPair(server', state') = state'
  PROVE  IInv'
<1>1. Configs' = Configs
  BY DEF Configs, Cleared, SwitchedOff, LeftOut, Reformatted, Up
<1>2. TypeOK'
  BY <1>1 DEF Sound, TypeOK, Settles, Storable, WirePair, TFPair, Verdicts
<1>3. Shape'
  <2>1. /\ server'.up \in {"absent", "a"} /\ state'.up \in {"null", "a"} /\ state'.own # "unknown"
        /\ (server'.up = "absent" => server'.own = "absent") /\ (state'.up = "null" => state'.own = "null")
        /\ (attr.restored /\ attr.flatten = "direct" /\ attr.class = "OptionalComputed" /\ state'.up = "a"
              => state'.own # "null")
        /\ (server'.own = "zero" => Presence(attr) /\ attr.kind # "Object")
        /\ (attr.kind = "Object" => state'.own # "zero")
        /\ (state'.own = "alias" => attr.restored /\ attr.flatten \in Respelled)
        /\ (TopLevel => server'.up = "a" /\ state'.up = "a")
    BY DEF Settles, Storable, Proper, Lasting
  <2>2. /\ policy.up \in {"absent", "a"} /\ (policy.own = "zero" => Presence(attr) /\ attr.kind # "Object")
        /\ (~Computed(Up) => policy.up = "absent") /\ (~Computed(attr) \/ attr.default => policy.own = "absent")
    BY DEF Sound, Shape
  <2> QED
    BY <2>1, <2>2 DEF Shape, TopLevel, Up
<1>4. Assigned'
  BY DEF Settles, Proper, Lasting, Assigned, Up
<1>5. Refreshed'
  BY DEF Refreshed, FlattenPair, TopLevel, Up
<1> QED
  BY <1>2, <1>3, <1>4, <1>5 DEF IInv

LEMMA InitSound == Init => IInv
<1> SUFFICES ASSUME Init PROVE IInv
  OBVIOUS
<1>1. TypeOK
  BY TypeInit
<1>2. policy.own \in WireOf(attr) \cup {"absent"} /\ policy.up \in {"absent", "a"}
      /\ (~Computed(Up) => policy.up = "absent") /\ (~Computed(attr) \/ attr.default => policy.own = "absent")
  BY DEF Init
<1>3. "zero" \in WireOf(attr) => Presence(attr) /\ attr.kind # "Object"
  BY DEF WireOf, KnownOf
<1>4. Shape
  BY <1>2, <1>3 DEF Init, Shape, Nowhere, Pair
<1>5. Assigned /\ Refreshed /\ verdict = "ok"
  BY DEF Init, Assigned, Refreshed
<1> QED
  BY <1>1, <1>4, <1>5 DEF IInv

\* What FlattenPair stores of a proper answer settles.
LEMMA FlattenSettles ==
  ASSUME TypeOK, NEW w \in WirePair, Proper(w), NEW prev, Storable(prev),
         prev.up = "a" /\ prev.own = "unknown" => w.up = "a" /\ Up.flatten # "keep",
         Up.flatten = "has" /\ prev.up = "a" => w.up = "a",
         NEW s, s = FlattenPair(w, prev)
  PROVE  Settles(w, s) /\ FlattenPair(w, s) = s
<1>1. /\ Storable(s) /\ s.up \in {"a", "null"} /\ s.own # "unknown"
      /\ s.up = "null" => s.own = "null"
      /\ TopLevel => s.up = "a"
      /\ Up.flatten = "has" /\ s.up = "a" => w.up = "a" \/ prev.up = "a"
  BY FlattenPairStores
<1>2. FlattenPair(w, s) = s
  BY FlattenPairIdempotent DEF Storable
<1> QED
  BY <1>1, <1>2 DEF Settles

\* Create stores what the plan promises, and it settles.
LEMMA CreateSettles ==
  ASSUME Sound, Beyond = {}, Create
  PROVE  /\ Settles(server', state') /\ FlattenPair(server', state') = state'
         /\ Agrees(PlanCreate(config), state') /\ verdict' = "ok"
         /\ exists' /\ fresh /\ UNCHANGED <<attr, policy, config, fresh>>
<1> DEFINE pl == PlanCreate(config)
           w == Serve(Payload(pl, "create"), "create", policy)
           s == FlattenPair(w, pl)
<1>1. TypeOK /\ Shape /\ config \in Configs
  BY DEF Sound, TypeOK
<1>2. pl = PlanCreate(config) /\ w = Serve(Payload(pl, "create"), "create", policy) /\ s = FlattenPair(w, pl)
  OBVIOUS
<1>3. /\ server' = w /\ state' = Identified(s, "a") /\ verdict' = Judge(pl, state')
      /\ exists' /\ fresh /\ UNCHANGED <<attr, policy, config, fresh>>
  BY DEF Create
<1> HIDE DEF pl, w, s
<1>4. pl \in TFPair /\ pl.up \in {"a", "null", "unknown"} /\ (TopLevel => pl.up = "a")
      /\ (pl.up # "a" => pl.own = pl.up)
  BY <1>1, <1>2, PlanCreateValue, CreateKeeps
<1>5. Keeps(w, pl)
  BY <1>1, <1>2, <1>4, CreateKeeps DEF Keeps
<1>6. Storable(pl)
  <2>1. pl.up = "a" => config.up = "a"
    BY <1>1, <1>2, PlanCreateValue
  <2>2. pl.up = "a" => Given(pl.own) \/ pl.own = "unknown"
    BY <1>1, <1>2, CreateKeeps
  <2> QED
    BY <1>1, <1>4, <2>1, <2>2, PlanStorable
<1>7. Proper(w) /\ w \in WirePair
  BY <1>1, <1>2, <1>4, <1>6, LastingPolicy, ServeProper DEF Storable
<1>8. Settles(w, s) /\ FlattenPair(w, s) = s
  BY <1>1, <1>2, <1>5, <1>6, <1>7, FlattenSettles DEF Keeps
<1>9. Agrees(pl, s) /\ Judge(pl, s) = "ok"
  BY <1>1, <1>2, <1>5, <1>6, <1>7, KeepsAgrees
<1>10. CASE ~attr.generated
  BY <1>2, <1>3, <1>8, <1>9, <1>10 DEF Identified
<1>11. CASE attr.generated
  <2>1. Up.class = "Root" /\ TopLevel /\ attr.class = "Computed" /\ attr.flatten = "prev" /\ ~attr.restored
        /\ ~attr.inList
    BY <1>1, <1>11, RowLaws DEF Suited, Up, TopLevel, NullForms
  <2>2. state' = [s EXCEPT !.own = "a"] /\ s \in TFPair
    BY <1>3, <1>8, <1>11 DEF Identified, Settles, Storable
  <2>3. state'.up = "a" /\ state'.own = "a" /\ state' = Pair("a", "a")
    BY <1>8, <2>1, <2>2 DEF Settles, TFPair, Pair
  <2>4. Storable(state')
    BY <2>3 DEF Storable, TFPair, TFValue, Known, Pair
  <2>5. Settles(server', state')
    BY <1>3, <1>8, <2>1, <2>3, <2>4, UpForms, <1>1 DEF Settles, NullForms
  <2>6. FlattenPair(server', state') = state'
    BY <2>1, <2>3 DEF FlattenPair, Flatten, CarryPrev, NullForms, Pair
  <2>7. pl.own = "unknown" /\ pl.up = "a"
    <3>1. ~Given(pl.own)
      BY <1>1, <1>2, <1>4, <2>1, PlanCreateValue, GivenValue
    <3> QED
      BY <1>1, <1>2, <1>4, <2>1, <3>1, PlanCreateValue
  <2>8. Agrees(pl, state') /\ Judge(pl, state') = "ok"
    BY <1>1, <2>3, <2>7, RowLaws DEF Agrees, Judge
  <2> QED
    BY <1>2, <1>3, <2>5, <2>6, <2>8
<1> QED
  BY <1>10, <1>11

\* The state before settles what the API holds.
LEMMA SoundSettles ==
  ASSUME Sound, exists
  PROVE  Settles(server, state)
<1>1. TypeOK /\ Shape /\ server \in WirePair /\ state \in TFPair
  BY DEF Sound, TypeOK, WirePair, TFPair
<1>2. Storable(state) /\ Proper(server)
  BY <1>1, ProperServer DEF Storable, Shape
<1> QED
  BY <1>1, <1>2 DEF Settles, Shape, Sound, Assigned

LEMMA JudgeAgreed ==
  ASSUME TypeOK, NEW pl, NEW s, "unknown" \notin {s.up, s.own}, Agrees(pl, s)
  PROVE  Judge(pl, s) = "ok"
BY RowLaws DEF Judge

LEMMA StateUpdateSettles ==
  ASSUME Sound, Beyond = {}, NEW other \in BOOLEAN, NEW moved \in BOOLEAN, NEW pl,
         Updates(pl, other, moved), StateUpdate(pl)
  PROVE  /\ Settles(server, state') /\ FlattenPair(server, state') = state'
         /\ Agrees(pl, state') /\ verdict' = "ok" /\ server' = server
         /\ state' = IF attr.default THEN pl ELSE state
<1>1. /\ TypeOK /\ Shape /\ Refreshed /\ exists /\ fresh /\ pl = PlanUpdate(config, state, other, moved)
      /\ config \in Configs /\ state \in TFPair
      /\ attr.handler \in {"state", "user"}
      /\ attr.handler = "user" => attr.default \/ pl.own \in {state.own, "unknown"}
  BY UpdatePinned DEF Sound, StateUpdate, TypeOK, TFPair
<1>2. Up.class = "Root" /\ TopLevel
  BY <1>1, RowLaws DEF Planned, Up, TopLevel
<1>3. config.up = "a" /\ state.up = "a" /\ pl.up = "a" /\ pl \in TFPair
  BY <1>1, <1>2, ConfigValue, PlanUpdateUp, PlanUpdateType DEF Shape
<1>4. state' = (IF attr.default THEN pl ELSE state) /\ verdict' = Judge(pl, state') /\ server' = server
  BY DEF StateUpdate, Answer
<1>5. Settles(server, state) /\ FlattenPair(server, state) = state
  BY <1>1, SoundSettles DEF Refreshed
<1>6. CASE attr.default
  <2>1. attr.flatten = "default" /\ ~attr.restored /\ ~attr.inList
    BY <1>1, <1>2, <1>6, RowLaws DEF Planned, Suited, NullForms, Up
  <2>2. Given(pl.own)
    BY <1>1, <1>3, <1>6, PlanUpdateOwn
  <2>3. pl.own \in Known
    BY <1>1, <1>3, <2>1, <2>2, GivenValue
  <2>4. FlattenPair(server, pl) = pl
    <3>1. FlattenPair(server, pl) = Pair("a", Flatten("default", server.own, pl.own))
      BY <1>2, <1>3, <2>1 DEF FlattenPair, Secret
    <3>2. Flatten("default", server.own, pl.own) = pl.own
      BY <2>3 DEF Flatten, PreserveDefault, CarryPrev, NullForms, Known
    <3> QED
      BY <1>3, <3>1, <3>2 DEF Pair, TFPair
  <2>5. Storable(pl)
    BY <1>1, <1>3, <2>2, PlanStorable
  <2>6. Settles(server, pl)
    BY <1>1, <1>2, <1>3, <1>5, <2>3, <2>5, UpForms DEF Settles, Known, NullForms
  <2>7. Agrees(pl, pl) /\ "unknown" \notin {pl.up, pl.own}
    BY <1>3, <2>3 DEF Agrees, Known
  <2> QED
    BY <1>1, <1>4, <1>6, <2>4, <2>6, <2>7, JudgeAgreed
<1>7. CASE ~attr.default
  <2>1. pl.own \in {state.own, "unknown"}
    <3>1. CASE attr.handler = "user"
      BY <1>1, <1>7, <3>1
    <3>2. CASE attr.handler = "state"
      <4>1. Replacing(attr) \/ attr.class = "Computed"
        BY <1>1, <1>7, <3>2, RowLaws DEF Planned
      <4>2. CASE Replacing(attr)
        BY <1>3, <4>2 DEF Updates, Replaces, OwnOf
      <4>3. CASE attr.class = "Computed"
        <5>1. ~Given(pl.own)
          BY <1>1, <1>3, <4>3, GivenValue
        <5> QED
          BY <1>1, <1>3, <5>1, PlanUpdateOwn DEF OwnOf
      <4> QED
        BY <4>1, <4>2, <4>3
    <3> QED
      BY <1>1, <3>1, <3>2
  <2>2. Agrees(pl, state) /\ "unknown" \notin {state.up, state.own}
    BY <1>1, <1>3, <2>1 DEF Agrees, Shape
  <2> QED
    BY <1>1, <1>4, <1>5, <1>7, <2>2, JudgeAgreed
<1> QED
  BY <1>6, <1>7

\* Update stores what the plan promises, and it settles.
LEMMA UpdateSettles ==
  ASSUME Sound, Beyond = {}, NEW other \in BOOLEAN, NEW moved \in BOOLEAN, NEW pl,
         Updates(pl, other, moved),
         MaskedUpdate(pl, other, moved) \/ WholeUpdate(pl) \/ StateUpdate(pl)
         \/ PlanStored(pl) \/ EmptyUpdate(pl)
  PROVE  /\ Settles(server', state') /\ FlattenPair(server', state') = state'
         /\ Agrees(pl, state') /\ verdict' = "ok"
         /\ exists /\ fresh /\ UNCHANGED <<attr, policy, config, exists, fresh>>
         /\ \/ /\ Keeps(server', pl) /\ attr.handler \in {"mask", "whole", "user", "plan"}
               /\ \/ server' \in Served(pl, moved)
                  \/ server' = server /\ attr.handler = "mask" /\ ~InMask(pl)
            \/ server' = server /\ state' = (IF attr.default THEN pl ELSE state)
               /\ attr.handler \in {"state", "user", "none"}
<1>1. /\ TypeOK /\ Shape /\ Refreshed /\ exists /\ fresh /\ config \in Configs /\ state \in TFPair
      /\ pl = PlanUpdate(config, state, other, moved)
  BY DEF Sound, TypeOK, TFPair, Updates
<1>2. UNCHANGED <<attr, policy, config, exists, fresh>>
  BY DEF MaskedUpdate, WholeUpdate, StateUpdate, PlanStored, EmptyUpdate, Answer
<1>3. Served(pl, FALSE) \subseteq Served(pl, moved)
  BY DEF Served, Derived
<1>4. CASE MaskedUpdate(pl, other, moved) \/ WholeUpdate(pl)
  <2>1. PICK w : /\ attr.handler \in {"mask", "whole", "user"}
                 /\ w \in Served(pl, moved) \/ (w = server /\ attr.handler = "mask" /\ ~InMask(pl))
                 /\ Answer(pl, w, FlattenPair(w, pl))
    <3>1. CASE MaskedUpdate(pl, other, moved)
      BY <3>1 DEF MaskedUpdate
    <3>2. CASE WholeUpdate(pl)
      <4>1. PICK w \in Served(pl, FALSE) : Answer(pl, w, FlattenPair(w, pl))
        BY <3>2 DEF WholeUpdate
      <4>2. w \in Served(pl, moved) /\ attr.handler \in {"whole", "user"}
        BY <1>3, <3>2, <4>1 DEF WholeUpdate
      <4> QED
        BY <4>1, <4>2
    <3> QED
      BY <1>4, <3>1, <3>2
  <2>2. Storable(pl) /\ Keeps(w, pl) /\ Proper(w) /\ w \in WirePair
    BY <2>1, UpdateKeeps
  <2>3. server' = w /\ state' = FlattenPair(w, pl) /\ verdict' = Judge(pl, state')
    BY <2>1 DEF Answer
  <2>4. Settles(w, state') /\ FlattenPair(w, state') = state'
    BY <1>1, <2>2, <2>3, FlattenSettles DEF Keeps
  <2>5. Agrees(pl, state') /\ Judge(pl, state') = "ok"
    BY <1>1, <2>2, <2>3, KeepsAgrees
  <2> QED
    BY <1>1, <1>2, <2>1, <2>2, <2>3, <2>4, <2>5
<1>5. CASE StateUpdate(pl)
  <2>1. attr.handler \in {"state", "user"}
    BY <1>5 DEF StateUpdate
  <2> QED
    BY <1>1, <1>2, <1>5, <2>1, StateUpdateSettles
<1>6. CASE PlanStored(pl)
  <2>1. PICK w \in Served(pl, FALSE) : Answer(pl, w, pl)
    BY <1>6 DEF PlanStored
  <2>2. attr.handler = "plan" /\ w \in Served(pl, moved)
    BY <1>3, <1>6, <2>1 DEF PlanStored
  <2>3. Storable(pl) /\ Keeps(w, pl) /\ Proper(w) /\ w \in WirePair
    BY <2>2, UpdateKeeps
  <2>4. server' = w /\ state' = pl /\ verdict' = Judge(pl, pl)
    BY <2>1 DEF Answer
  <2>5. Up.class = "Root" /\ TopLevel
    BY <1>1, <2>2, RowLaws DEF Planned, Up, TopLevel
  <2>6. config.up = "a" /\ pl.up = "a" /\ state.up = "a"
    BY <1>1, <2>5, ConfigValue, PlanUpdateUp DEF Shape
  <2>7. pl.own # "unknown"
    <3>1. CASE Given(pl.own)
      BY <1>1, <2>6, <3>1, GivenValue DEF Known
    <3>2. CASE ~Given(pl.own)
      <4>1. Computed(attr) /\ ~attr.default
        BY <1>1, <2>6, <3>2, PlanUpdateOwn
      <4>2. Kept(attr) /\ ~attr.coupled
        BY <1>1, <2>2, <4>1, RowLaws DEF Planned
      <4>3. ~moved
        BY <4>2 DEF Updates
      <4>4. pl.own = OwnOf(state)
        BY <1>1, <2>6, <3>2, <4>2, <4>3, PlanUpdateOwn
      <4> QED
        BY <1>1, <2>6, <4>4 DEF OwnOf, Shape
    <3> QED
      BY <3>1, <3>2
  <2>8. FlattenPair(w, pl) = pl /\ Agrees(pl, pl) /\ Judge(pl, pl) = "ok"
    BY <1>1, <2>3, <2>6, <2>7, KeepsAgrees
  <2>9. Settles(w, pl)
    BY <1>1, <2>3, <2>8, FlattenSettles DEF Keeps
  <2> QED
    BY <1>1, <1>2, <2>2, <2>3, <2>4, <2>8, <2>9
<1>7. CASE EmptyUpdate(pl)
  <2>1. attr.handler = "none" /\ server' = server /\ state' = state /\ verdict' = Judge(pl, state)
    BY <1>7 DEF EmptyUpdate, Answer
  <2>2. pl = state
    BY <2>1 DEF Updates
  <2>3. Agrees(pl, state) /\ "unknown" \notin {state.up, state.own}
    BY <1>1, <2>2 DEF Agrees, Shape
  <2> QED
    BY <1>1, <1>2, <2>1, <2>2, <2>3, SoundSettles, JudgeAgreed DEF Refreshed
<1> QED
  BY <1>4, <1>5, <1>6, <1>7

\* A refresh and an import store what Flatten makes of the answer.
LEMMA ReadSettles ==
  ASSUME Sound, Beyond = {}, Read \/ ImportState
  PROVE  /\ Settles(server', state') /\ FlattenPair(server', state') = state'
         /\ verdict' = "ok" /\ exists /\ fresh' = TRUE
         /\ UNCHANGED <<attr, policy, config, exists, server>>
<1>1. TypeOK /\ Shape /\ config \in Configs /\ server \in WirePair /\ exists
  BY DEF Sound, TypeOK, WirePair, Read, ImportState
<1>2. Proper(server) /\ Settles(server, state)
  BY <1>1, ProperServer, SoundSettles
<1>3. \E prev : /\ state' = FlattenPair(server, prev) /\ Storable(prev)
                /\ prev.up \in {"a", "null"} /\ prev.own # "unknown"
                /\ Up.flatten = "has" /\ prev.up = "a" => server.up = "a"
  <2>1. CASE Read
    BY <1>2, <2>1 DEF Read, Settles
  <2>2. CASE ImportState
    <3> DEFINE own == IF ~attr.named THEN "null"
                      ELSE IF config.own = "null" THEN "a" ELSE config.own
               prev == Pair(IF TopLevel THEN "a" ELSE "null", own)
    <3>1. config.own \in Known \cup {"null", "alias"} /\ config.own \in KnownOf(attr) \cup {"null", "alias"}
          /\ (config.own = "alias" => attr.restored /\ attr.flatten \in Respelled)
      BY <1>1, ConfigValue
    <3>2. own \in TFValue /\ own # "unknown" /\ (attr.kind = "Object" => own # "zero")
          /\ (own = "alias" => attr.restored /\ attr.flatten \in Respelled)
      BY <3>1 DEF TFValue, Known, KnownOf
    <3>3. TopLevel => Up.class = "Root" /\ Up.flatten # "has"
      BY <1>1, UpForms DEF TopLevel, NullForms
    <3>4. attr.restored /\ attr.flatten = "direct" /\ attr.class = "OptionalComputed" => ~TopLevel
      BY <1>1, RowLaws DEF Suited, TopLevel, Up, NullForms
    <3>5. prev.own = own /\ prev.up \in {"a", "null"} /\ (prev.up = "a" <=> TopLevel) /\ prev \in TFPair
      BY <3>2 DEF Pair, TFPair, TFValue, Known
    <3>6. state' = FlattenPair(server, prev)
      BY <2>2 DEF ImportState
    <3> HIDE DEF own, prev
    <3>7. Storable(prev)
      BY <3>2, <3>4, <3>5 DEF Storable
    <3> QED
      BY <3>2, <3>3, <3>5, <3>6, <3>7
  <2> QED
    BY <2>1, <2>2
<1>4. PICK prev : /\ state' = FlattenPair(server, prev) /\ Storable(prev)
                  /\ prev.up \in {"a", "null"} /\ prev.own # "unknown"
                  /\ Up.flatten = "has" /\ prev.up = "a" => server.up = "a"
  BY <1>3
<1>5. server' = server /\ verdict' = Judge(state', state') /\ fresh' = TRUE
      /\ UNCHANGED <<attr, policy, config, exists, server>>
  BY DEF Read, ImportState
<1>6. Settles(server, state') /\ FlattenPair(server, state') = state'
  BY <1>1, <1>2, <1>4, FlattenSettles
<1>7. Judge(state', state') = "ok"
  BY <1>1, <1>6, JudgeAgreed DEF Settles, Agrees
<1> QED
  BY <1>1, <1>5, <1>6, <1>7

LEMMA DriftSettles ==
  ASSUME Sound, Beyond = {}, Drift
  PROVE  /\ Settles(server', state) /\ fresh' = FALSE /\ exists
         /\ UNCHANGED <<attr, policy, config, exists, state, verdict>>
<1>1. TypeOK /\ Shape /\ Assigned
  BY DEF Sound
<1>2. Settles(server, state) /\ exists /\ server' \in Elsewhere /\ fresh' = FALSE
      /\ UNCHANGED <<attr, policy, config, exists, state, verdict>>
      /\ ~(Up.flatten = "has" /\ server.up = "a" /\ server'.up = "absent")
  BY SoundSettles DEF Drift
<1>3. Proper(server') /\ server' \in WirePair
  <2>1. ASSUME NEW c \in Configs, NEW w, w = Serve(Payload(PlanCreate(c), "create"), "create", policy)
        PROVE  Proper(w) /\ w \in WirePair
    <3> DEFINE pl == PlanCreate(c)
    <3>1. pl \in TFPair
      BY PlanCreateType
    <3>2. /\ c.up \in {"null", "a"} /\ (c.up = "null" => Up.class # "Root")
          /\ c.own \in KnownOf(attr) \cup {"null", "alias"}
      BY ConfigValue
    <3>3. ~Up.default /\ ~Up.writeOnly /\ (attr.default => attr.kind # "Object")
      BY <1>1, RowPlans, RowLaws DEF Suited
    <3>4. PlanNew(Up, c.up) \in {"a", "null", "unknown"} /\ (c.up = "a" => PlanNew(Up, c.up) = "a")
      BY <3>2, <3>3 DEF PlanNew, Proposed
    <3>5. attr.kind = "Object" => PlanNew(attr, c.own) # "zero"
      BY <3>2, <3>3 DEF PlanNew, Proposed, KnownOf
    <3>6. pl.up = PlanNew(Up, c.up) /\ pl.own = IF pl.up = "a" THEN PlanNew(attr, c.own) ELSE pl.up
      BY DEF PlanCreate, Pair
    <3> HIDE DEF pl
    <3>7. (TopLevel => pl.up = "a") /\ (attr.kind = "Object" => pl.own # "zero")
      BY <3>2, <3>4, <3>5, <3>6 DEF TopLevel
    <3> QED
      BY <1>1, <2>1, <3>1, <3>7, LastingPolicy, ServeProper DEF pl
  <2>2. ASSUME attr.class = "Computed", NEW v \in WireOf(attr), server' = Pair("a", v)
        PROVE  Proper(server') /\ server' \in WirePair
    <3>1. v \in WireValue /\ (v = "zero" => Presence(attr) /\ attr.kind # "Object")
      BY DEF WireOf, KnownOf, WireValue, Known
    <3> QED
      BY <2>2, <3>1 DEF Pair, Proper, Lasting, WirePair, WireValue, Known
  <2> QED
    BY <1>2, <2>1, <2>2 DEF Elsewhere
<1>4. Up.flatten = "has" /\ state.up = "a" => server'.up = "a"
  BY <1>1, <1>2, <1>3 DEF Assigned, Proper, Lasting
<1> QED
  BY <1>2, <1>3, <1>4 DEF Settles

LEMMA SoundStep ==
  ASSUME IInv, Beyond = {}, [Next]_vars
  PROVE  IInv'
<1>1. Sound /\ verdict = "ok" /\ config \in Configs /\ exists \in BOOLEAN /\ fresh \in BOOLEAN
  BY DEF IInv, Sound, TypeOK
<1>2. CASE Configure
  <2>1. Configs' = Configs
    BY <1>2 DEF Configure, Configs, Cleared, SwitchedOff, LeftOut, Reformatted, Up
  <2> QED
    BY <1>2, <2>1 DEF Configure, IInv, TypeOK, Shape, Assigned, Refreshed, FlattenPair, TopLevel, Up
<1>3. CASE Create
  BY <1>1, <1>3, CreateSettles, NextSound
<1>4. CASE Update
  <2>1. PICK other, moved, pl :
          /\ other \in BOOLEAN /\ moved \in BOOLEAN
          /\ Updates(pl, other, moved)
          /\ MaskedUpdate(pl, other, moved) \/ WholeUpdate(pl) \/ StateUpdate(pl)
             \/ PlanStored(pl) \/ EmptyUpdate(pl)
    BY <1>4 DEF Update
  <2> QED
    BY <1>1, <2>1, UpdateSettles, NextSound
<1>5. CASE Drift
  <2>1. ~(exists' /\ fresh') /\ Settles(server', state') /\ verdict' = "ok"
        /\ UNCHANGED <<attr, policy, config, exists>> /\ fresh' \in BOOLEAN
    BY <1>1, <1>5, DriftSettles
  <2> QED
    BY <1>1, <2>1, NextSound
<1>6. CASE Read \/ ImportState
  BY <1>1, <1>6, ReadSettles, NextSound
<1>7. CASE UNCHANGED vars
  <2>1. Configs' = Configs
    BY <1>7 DEF vars, Configs, Cleared, SwitchedOff, LeftOut, Reformatted, Up
  <2> QED
    BY <1>7, <2>1 DEF vars, IInv, TypeOK, Shape, Assigned, Refreshed, FlattenPair, TopLevel, Up
<1> QED
  BY <1>2, <1>3, <1>4, <1>5, <1>6, <1>7 DEF Next

\* No apply is ever refused, and a fresh state is what Flatten makes of the API's
\* answer: the invariant that the other theorems rest on.  Beyond = {} keeps out the
\* configurations and steps in which it is false: see Cleared, SwitchedOff, LeftOut,
\* Reformatted, Updates and Drift.
THEOREM Invariance ==
  ASSUME Beyond = {}
  PROVE  Spec => []IInv
<1>1. IInv /\ [Next]_vars => IInv'
  BY SoundStep
<1> QED
  BY <1>1, InitSound, PTL DEF Spec

\* No apply ends with "Provider produced inconsistent result after apply", outside the
\* gaps.  A value that Flatten spells its own way is in them, unless it is restored
\* from the plan, in which case the theorem says that its spelling survives.
THEOREM NeverInconsistent ==
  ASSUME Beyond = {}
  PROVE  Spec => []Consistent
<1>1. IInv => Consistent
  BY DEF IInv, Consistent
<1> QED
  BY <1>1, Invariance, PTL

\* Nothing stays unknown after an apply, a read or an import.
THEOREM NothingUnknown ==
  ASSUME Beyond = {}
  PROVE  Spec => []Complete
<1>1. IInv => Complete
  BY DEF IInv, Complete
<1> QED
  BY <1>1, Invariance, PTL
=============================================================================
