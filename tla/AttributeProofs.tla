--------------------------- MODULE AttributeProofs ---------------------------
(***************************************************************************)
(* What holds of the attributes by the conversions alone, for every table  *)
(* of attributes: what each step stores is a Terraform value and what it   *)
(* sends a wire value, and what Flatten makes of an answer it makes again  *)
(* of the same answer.                                                     *)
(***************************************************************************)
EXTENDS Attribute, TLAPS

WirePair == [up : WireValue, own : WireValue]
TFPair == [up : TFValue, own : TFValue]

-----------------------------------------------------------------------------
\* The conversions.

\* A Flatten of a field answers with a known value or null, whatever its form; only
\* prev makes it answer with an alias.
LEMMA FlattenKnown ==
  ASSUME NEW form, NEW w \in WireValue, NEW prev \in TFValue
  PROVE  Flatten(form, w, prev) \in Known \cup {"null"} \cup ({prev} \cap {"alias"})
<1> USE DEF WireValue, TFValue, Known
<1> DEFINE r == Known \cup {"null"} \cup ({prev} \cap {"alias"})
<1>1. CarryPrev(prev) \in r /\ NullIfAbsent(w) \in r /\ ZeroIfAbsent(w) \in r
  BY DEF CarryPrev, NullIfAbsent, ZeroIfAbsent
<1>2. HasPresence(w, prev) \in r /\ ScalarHeuristic(w, prev) \in r /\ PreserveDefault(prev) \in r
  BY <1>1 DEF HasPresence, ScalarHeuristic, PreserveDefault
<1>3. /\ ListCarryKnownEmpty(NullIfAbsent(w), prev) \in r
      /\ OverrideFromPrev(w, prev) \in r
  BY <1>1 DEF ListCarryKnownEmpty, OverrideFromPrev
<1> QED
  BY <1>1, <1>2, <1>3 DEF Flatten

\* Flatten with its own result as prev answers with that result.
LEMMA FlattenIdempotent ==
  ASSUME NEW form, NEW w \in WireValue, NEW prev \in TFValue
  PROVE  Flatten(form, w, Flatten(form, w, prev)) = Flatten(form, w, prev)
<1> USE DEF WireValue, TFValue, Known
<1>1. CASE form = "direct"
  BY <1>1 DEF Flatten
<1>2. CASE form = "has"
  BY <1>2 DEF Flatten, HasPresence, CarryPrev
<1>3. CASE form = "nonempty"
  BY <1>3 DEF Flatten, ScalarHeuristic, CarryPrev
<1>4. CASE form = "prev"
  BY <1>4 DEF Flatten, CarryPrev
<1>5. CASE form = "default"
  BY <1>5 DEF Flatten, PreserveDefault, CarryPrev
<1>6. CASE form = "carryEmpty"
  BY <1>6 DEF Flatten, ListCarryKnownEmpty, NullIfAbsent
<1>7. CASE form = "keep"
  BY <1>7 DEF Flatten, OverrideFromPrev, NullIfAbsent
<1>8. CASE form \notin {"direct", "has", "nonempty", "prev", "default", "carryEmpty", "keep"}
  BY <1>8 DEF Flatten
<1> QED
  BY <1>1, <1>2, <1>3, <1>4, <1>5, <1>6, <1>7, <1>8

LEMMA ExpandWire == \A form, v : v \in TFValue => Expand(form, v) \in WireValue
BY DEF Expand, Parsed, OmitZero, PointerOrNil, WireValue, TFValue, Known

-----------------------------------------------------------------------------
\* The pair of an attribute and the object around it.

LEMMA FlattenPairType ==
  ASSUME NEW w \in WirePair, NEW prev \in TFPair
  PROVE  FlattenPair(w, prev) \in TFPair
<1> DEFINE p == IF TopLevel THEN "a" ELSE Flatten(Up.flatten, w.up, prev.up)
           pv == IF prev.up = "a" /\ ~attr.inList THEN prev.own ELSE "unknown"
<1>1. p \in TFValue /\ pv \in TFValue
  BY FlattenKnown DEF TFValue, Known, WirePair, TFPair
<1>2. "absent" \in WireValue
  BY DEF WireValue
<1>3. Flatten(attr.flatten, w.own, pv) \in TFValue /\ Flatten(attr.flatten, "absent", pv) \in TFValue
  BY <1>1, <1>2, FlattenKnown DEF TFValue, WirePair
<1> HIDE DEF pv
<1> QED
  BY <1>1, <1>3 DEF FlattenPair, Pair, TFPair, pv

LEMMA FlattenPairIdempotent ==
  ASSUME NEW w \in WirePair, NEW prev \in TFPair
  PROVE  FlattenPair(w, FlattenPair(w, prev)) = FlattenPair(w, prev)
<1> DEFINE s == FlattenPair(w, prev)
           P(x) == IF TopLevel THEN "a" ELSE Flatten(Up.flatten, w.up, x.up)
           V(x) == IF x.up = "a" /\ ~attr.inList THEN x.own ELSE "unknown"
           W == IF Secret(attr) THEN "absent" ELSE w.own
           Carried(x) == ~TopLevel /\ x.up = "a" /\ (w.up = "absent" \/ Up.flatten = "keep")
           Q(x) == IF P(x) # "a" THEN P(x)
                   ELSE IF Carried(x) THEN x.own
                   ELSE IF attr.restored /\ V(x) # "unknown" THEN V(x)
                   ELSE Flatten(attr.flatten, W, V(x))
<1>1. \A x : FlattenPair(w, x) = Pair(P(x), Q(x))
  BY DEF FlattenPair
<1>2. s \in TFPair /\ s.up = P(prev) /\ s.own = Q(prev)
  BY <1>1, FlattenPairType DEF Pair
<1>3. P(s) = P(prev)
  BY <1>2, FlattenIdempotent DEF WirePair, TFPair
<1>4. Q(s) = Q(prev)
  <2>1. CASE P(prev) # "a"
    BY <1>3, <2>1
  <2>2. CASE P(prev) = "a" /\ Carried(s)
    BY <1>2, <1>3, <2>2
  <2>3. CASE P(prev) = "a" /\ ~Carried(s)
    <3>1. ~Carried(prev)
      BY <1>2, <2>3
    <3>2. V(prev) \in TFValue /\ V(s) = IF attr.inList THEN "unknown" ELSE s.own
      BY <1>2, <2>3 DEF TFPair, TFValue
    <3>3. W \in WireValue /\ "unknown" \in TFValue
      BY DEF WireValue, WirePair, TFValue
    <3>4. attr.inList => V(prev) = "unknown"
      OBVIOUS
    <3>5. CASE attr.restored /\ V(prev) # "unknown"
      <4>1. Q(prev) = V(prev) /\ V(s) = V(prev)
        BY <1>2, <2>3, <3>1, <3>2, <3>4, <3>5
      <4> QED
        BY <1>3, <2>3, <3>5, <4>1
    <3>6. CASE attr.restored /\ V(prev) = "unknown"
      <4>1. Q(prev) = Flatten(attr.flatten, W, "unknown")
        BY <2>3, <3>1, <3>6
      <4>2. Q(prev) # "unknown"
        BY <3>3, <4>1, FlattenKnown DEF Known
      <4>3. CASE attr.inList
        <5>1. Q(s) = Flatten(attr.flatten, W, "unknown")
          BY <1>3, <2>3, <3>2, <3>6, <4>3
        <5> QED
          BY <4>1, <5>1
      <4>4. CASE ~attr.inList
        <5>1. V(s) = Q(prev)
          BY <1>2, <3>2, <4>4
        <5> QED
          BY <1>3, <2>3, <3>6, <4>2, <5>1
      <4> QED
        BY <4>3, <4>4
    <3>7. CASE ~attr.restored
      <4>1. Q(prev) = Flatten(attr.flatten, W, V(prev)) /\ Q(s) = Flatten(attr.flatten, W, V(s))
        BY <1>3, <2>3, <3>1, <3>7
      <4>2. V(s) = V(prev) \/ V(s) = Q(prev)
        BY <1>2, <3>2, <3>4
      <4> QED
        BY <3>2, <3>3, <4>1, <4>2, FlattenIdempotent
    <3> QED
      BY <3>5, <3>6, <3>7
  <2> QED
    BY <2>1, <2>2, <2>3
<1> HIDE DEF P, Q
<1> QED
  BY <1>1, <1>3, <1>4

-----------------------------------------------------------------------------
\* Types.

LEMMA ConfigType ==
  ASSUME NEW c \in Configs
  PROVE  c \in [up : {"null", "a"}, own : Known \cup {"alias", "null"}]
<1>1. ConfigOf(attr) \subseteq Known \cup {"alias", "null"}
  BY DEF ConfigOf, Written, KnownOf, Known
<1> QED
  BY <1>1 DEF Configs

LEMMA PlanOneType ==
  ASSUME NEW r, NEW c \in TFValue, NEW s \in TFValue, NEW changed, NEW moved
  PROVE  PlanOne(r, c, s, changed, moved) \in TFValue
<1>1. "null" \in TFValue /\ "unknown" \in TFValue /\ "zero" \in TFValue
  BY DEF TFValue, Known
<1>2. Proposed(r, c, s) \in TFValue
  BY <1>1 DEF Proposed
<1>3. \A v \in TFValue : StatePin(r, v, s, moved) \in TFValue
  BY DEF StatePin
<1>4. \A v \in TFValue : Released(r, v, moved) \in TFValue
  BY <1>1 DEF Released
<1> QED
  BY <1>1, <1>2, <1>3, <1>4 DEF PlanOne

LEMMA PlanUpdateType ==
  ASSUME NEW c \in Configs, NEW s \in TFPair, NEW other, NEW moved
  PROVE  PlanUpdate(c, s, other, moved) \in TFPair
<1>1. c.up \in TFValue /\ c.own \in TFValue /\ s.up \in TFValue /\ s.own \in TFValue
  BY ConfigType DEF TFValue, Known, TFPair
<1>2. OwnOf(s) \in TFValue
  BY <1>1 DEF OwnOf, TFValue
<1>3. Released(attr, s.own, moved) \in TFValue
  BY <1>1 DEF Released, TFValue
<1> QED
  BY <1>1, <1>2, <1>3, PlanOneType DEF PlanUpdate, Pair, TFPair

LEMMA PlanCreateType ==
  ASSUME NEW c \in Configs
  PROVE  PlanCreate(c) \in TFPair
<1>1. c.up \in TFValue /\ c.own \in TFValue
  BY ConfigType DEF TFValue, Known
<1>2. \A r, v : v \in TFValue => PlanNew(r, v) \in TFValue
  BY DEF PlanNew, Proposed, TFValue, Known
<1> QED
  BY <1>1, <1>2 DEF PlanCreate, Pair, TFPair

LEMMA ServeType ==
  ASSUME policy \in WirePair, NEW held \in WirePair, NEW pl \in TFPair, NEW root, NEW how
  PROVE  Serve(Payload(pl, root), how, held) \in WirePair
<1>1. Payload(pl, root) \in WirePair
  BY ExpandWire DEF Payload, Pair, TFPair, WirePair, WireValue
<1> HIDE DEF Payload
<1>2. "a" \in WireValue /\ "absent" \in WireValue
  BY DEF WireValue, Known
<1> QED
  BY <1>1, <1>2 DEF Serve, Pair, WirePair

LEMMA ServedType ==
  ASSUME policy \in WirePair, server \in WirePair, NEW pl \in TFPair, NEW moved
  PROVE  Served(pl, moved) \subseteq WirePair
<1> DEFINE w == Serve(Payload(pl, "update"), "update", server)
<1>1. w \in WirePair
  BY ServeType
<1>2. Rederived \subseteq WireValue
  BY DEF Rederived, WireOf, KnownOf, WireValue, Known
<1>3. Pair("absent", "absent") \in WirePair /\ \A v \in Rederived : Pair("a", v) \in WirePair
  BY <1>2 DEF Pair, WirePair, WireValue, Known
<1> HIDE DEF w
<1>4. Derived(w) \subseteq WirePair
  BY <1>1, <1>3 DEF Derived
<1> QED
  BY <1>1, <1>4 DEF Served, w

LEMMA JudgeType == \A pl, s : Judge(pl, s) \in Verdicts
BY DEF Judge, Verdicts

\* An update in place stores a Terraform value, whichever handler makes it.
LEMMA UpdateType ==
  ASSUME TypeOK, Update
  PROVE  /\ UNCHANGED <<attr, policy, config, exists, fresh>>
         /\ server' \in WirePair /\ state' \in TFPair /\ verdict' \in Verdicts
<1>1. policy \in WirePair /\ server \in WirePair /\ state \in TFPair /\ config \in Configs
  BY DEF TypeOK, WirePair, TFPair
<1>2. PICK other \in BOOLEAN, moved \in BOOLEAN, pl \in TFPair :
        MaskedUpdate(pl, other, moved) \/ WholeUpdate(pl) \/ StateUpdate(pl)
        \/ PlanStored(pl) \/ EmptyUpdate(pl)
  BY <1>1, PlanUpdateType DEF Update
<1>3. ASSUME NEW w \in WirePair, NEW s \in TFPair, Answer(pl, w, s)
      PROVE  /\ UNCHANGED <<attr, policy, config, exists, fresh>>
             /\ server' \in WirePair /\ state' \in TFPair /\ verdict' \in Verdicts
  BY <1>3, JudgeType DEF Answer
<1>4. CASE MaskedUpdate(pl, other, moved) \/ WholeUpdate(pl)
  <2> PICK w \in WirePair : Answer(pl, w, FlattenPair(w, pl))
    BY <1>1, <1>4, ServedType DEF MaskedUpdate, WholeUpdate
  <2> QED
    BY <1>3, FlattenPairType
<1>5. CASE StateUpdate(pl) \/ EmptyUpdate(pl)
  BY <1>1, <1>3, <1>5 DEF StateUpdate, EmptyUpdate
<1>6. CASE PlanStored(pl)
  BY <1>1, <1>3, <1>6, ServedType DEF PlanStored
<1> QED
  BY <1>2, <1>4, <1>5, <1>6

\* What the other steps store.
LEMMA StepType ==
  ASSUME TypeOK, Create \/ Read \/ ImportState
  PROVE  /\ UNCHANGED <<attr, policy, config>>
         /\ exists' = TRUE /\ fresh' = TRUE
         /\ server' \in WirePair /\ state' \in TFPair /\ verdict' \in Verdicts
<1>1. policy \in WirePair /\ server \in WirePair /\ state \in TFPair /\ config \in Configs
      /\ exists \in BOOLEAN /\ fresh \in BOOLEAN
  BY DEF TypeOK, WirePair, TFPair
<1>2. CASE Create
  <2> DEFINE pl == PlanCreate(config)
  <2>1. pl \in TFPair
    BY <1>1, PlanCreateType
  <2>2. Serve(Payload(pl, "create"), "create", policy) \in WirePair
    BY <1>1, <2>1, ServeType
  <2> HIDE DEF pl
  <2>3. /\ server' \in WirePair /\ state' = Identified(FlattenPair(server', pl), "a")
        /\ verdict' = Judge(pl, state') /\ exists' = TRUE /\ fresh
        /\ UNCHANGED <<attr, policy, config, fresh>>
    BY <1>2, <2>2 DEF Create, pl
  <2>4. \A s \in TFPair : Identified(s, "a") \in TFPair
    BY DEF Identified, TFPair, TFValue, Known
  <2> QED
    BY <1>1, <2>1, <2>3, <2>4, FlattenPairType, JudgeType
<1>3. CASE Read
  BY <1>1, <1>3, FlattenPairType, JudgeType DEF Read
<1>4. CASE ImportState
  <2> PICK v : /\ v \in TFPair
               /\ state' = FlattenPair(server, v) /\ verdict' = Judge(state', state')
    <3> DEFINE own == IF ~attr.named THEN "null"
                      ELSE IF config.own = "null" THEN "a" ELSE config.own
               up == IF TopLevel THEN "a" ELSE "null"
    <3>1. own \in TFValue /\ up \in TFValue
      BY <1>1, ConfigType DEF TFValue, Known
    <3>2. Pair(up, own) \in TFPair
      BY <3>1 DEF Pair, TFPair
    <3> QED
      BY <1>4, <3>2 DEF ImportState
  <2> QED
    BY <1>1, <1>4, FlattenPairType, JudgeType DEF ImportState
<1> QED
  BY <1>2, <1>3, <1>4

LEMMA DriftType ==
  ASSUME TypeOK, Drift
  PROVE  /\ UNCHANGED <<attr, policy, config, exists, state, verdict>>
         /\ server' \in WirePair /\ fresh' = FALSE
<1>1. policy \in WirePair
  BY DEF TypeOK, WirePair
<1>2. \A c \in Configs : Serve(Payload(PlanCreate(c), "create"), "create", policy) \in WirePair
  BY <1>1, PlanCreateType, ServeType
<1>3. \A v \in WireOf(attr) : Pair("a", v) \in WirePair
  BY DEF WireOf, KnownOf, Pair, WirePair, WireValue, Known
<1>4. Elsewhere \subseteq WirePair
  BY <1>2, <1>3 DEF Elsewhere
<1> QED
  BY <1>4 DEF Drift

LEMMA TypeStep == TypeOK /\ [Next]_vars => TypeOK'
<1> SUFFICES ASSUME TypeOK, [Next]_vars PROVE TypeOK'
  OBVIOUS
<1>1. ASSUME UNCHANGED <<attr, policy>> PROVE Configs' = Configs
  BY <1>1 DEF Configs, Cleared, SwitchedOff, LeftOut, Reformatted, Up
<1>2. CASE Configure
  BY <1>1, <1>2 DEF Configure, TypeOK
<1>3. CASE Create \/ Read \/ ImportState
  BY <1>1, <1>3, StepType DEF TypeOK, WirePair, TFPair
<1>4. CASE Update
  BY <1>1, <1>4, UpdateType DEF TypeOK, WirePair, TFPair
<1>5. CASE Drift
  BY <1>1, <1>5, DriftType DEF TypeOK, WirePair, TFPair
<1>6. CASE UNCHANGED vars
  BY <1>1, <1>6 DEF vars, TypeOK
<1> QED
  BY <1>2, <1>3, <1>4, <1>5, <1>6 DEF Next

LEMMA TypeInit == Init => TypeOK
<1> SUFFICES ASSUME Init PROVE TypeOK
  OBVIOUS
<1>1. WireOf(attr) \subseteq WireValue
  BY DEF WireOf, KnownOf, WireValue, Known
<1>2. policy \in [up : WireValue, own : WireValue]
  BY <1>1 DEF Init, WireValue, Known
<1> QED
  BY <1>2 DEF Init, TypeOK, Nowhere, Pair, WireValue, TFValue, Verdicts, Known

\* Every value on the wire and in the state is one the conversions know.
THEOREM TypeInvariant == Spec => []TypeOK
BY TypeInit, TypeStep, PTL DEF Spec
=============================================================================
