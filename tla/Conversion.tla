----------------------------- MODULE Conversion -----------------------------
\* How one attribute crosses between Terraform and the API.  A Terraform value is
\* null, unknown or known; of the known values only the zero one ("", 0, false,
\* [] or {}) and two others matter.  On the wire a field is absent or holds a
\* value.  A field without presence cannot hold the zero value: it is absent.  A
\* duration, a timestamp and a JSON object can be written in more than one way, and
\* the wire does not tell which: alias is a way to write a that Flatten does not
\* use, as "60s" is for "1m0s".
EXTENDS TLC

Known == {"zero", "a", "b"}
TFValue == Known \cup {"alias", "null", "unknown"}
WireValue == Known \cup {"absent"}

-----------------------------------------------------------------------------
\* Flatten: from the wire to the state.

\* Mutant of CarryPrev: an unknown prev is taken for a value.
CarryUnknown(prev) == prev

\* What prev holds of a field: an unknown one, and a nil prev, read as null.
CarryPrev(prev) == IF prev = "unknown" THEN "null" ELSE prev

\* Mutant of NullIfAbsent: a nil message is not looked for.
NilTaken(w) == w

\* A list, a map, a message, a timestamp: nothing on the wire is null.
NullIfAbsent(w) == IF w = "absent" THEN "null" ELSE w

\* A getter of a field without presence.
ZeroIfAbsent(w) == IF w = "absent" THEN "zero" ELSE w

\* Mutants of ListCarryKnownEmpty: prev is not carried; any list of prev is; the
\* test of prev is the wrong way round.
ListCarryNothing(cur, prev) == cur
ListCarryAny(cur, prev) == IF prev \in Known THEN prev ELSE cur
ListCarryUnset(cur, prev) == IF cur = "null" /\ prev # "zero" THEN "zero" ELSE cur

\* A list that is empty on the wire stays [] where prev says [].
ListCarryKnownEmpty(cur, prev) == IF cur = "null" /\ prev = "zero" THEN prev ELSE cur

HasPresence(w, prev) == IF w # "absent" THEN w ELSE CarryPrev(prev)

ScalarHeuristic(w, prev) == IF w \notin {"absent", "zero"} THEN w ELSE CarryPrev(prev)

PreserveDefault(prev) == IF CarryPrev(prev) = "null" THEN "zero" ELSE CarryPrev(prev)

OverrideFromPrev(w, prev) == IF prev \in {"null", "unknown"} THEN NullIfAbsent(w) ELSE prev

NullForms == {"list", "map", "objects", "object", "oneof", "timestamp", "duration", "struct"}
PrevForms == {"has", "nonempty", "prev", "default", "carryEmpty", "keep"}
Respelled == {"timestamp", "duration", "struct"}
FlattenForms == NullForms \cup PrevForms \cup {"direct", "none"}

\* The statement a Flatten makes about one attribute, by its form.  What it makes of
\* the wire is never an alias; what it takes from prev is spelled as it was.
Flatten(form, w, prev) ==
  CASE form = "direct"     -> ZeroIfAbsent(w)
    [] form = "has"        -> HasPresence(w, prev)
    [] form = "nonempty"   -> ScalarHeuristic(w, prev)
    [] form = "prev"       -> CarryPrev(prev)
    [] form = "default"    -> PreserveDefault(prev)
    [] form = "carryEmpty" -> ListCarryKnownEmpty(NullIfAbsent(w), prev)
    [] form = "keep"       -> OverrideFromPrev(w, prev)
    [] form \in NullForms  -> NullIfAbsent(w)
    [] OTHER               -> "null"

-----------------------------------------------------------------------------
\* Expand: from the plan to the wire.

\* Parsing forgets how a value was written.
Parsed(v) == IF v = "alias" THEN "a" ELSE v

\* Mutant of PointerOrNil: a pointer to the zero value is not worth sending.
PointerOrNonZero(v) == IF v \in {"null", "unknown", "zero"} THEN "absent" ELSE v

PointerOrNil(v) == IF v \in {"null", "unknown"} THEN "absent" ELSE v

\* A field without presence: null, unknown and the zero value send nothing.
OmitZero(v) == IF v = "zero" THEN "absent" ELSE PointerOrNil(v)

ExpandForms == {"value", "pointer", "absent"}

Expand(form, v) ==
  CASE form = "value"   -> OmitZero(Parsed(v))
    [] form = "pointer" -> PointerOrNil(Parsed(v))
    [] OTHER            -> "absent"
=============================================================================
