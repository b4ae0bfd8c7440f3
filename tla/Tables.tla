------------------------------- MODULE Tables -------------------------------
\* The vocabulary of the attribute tables.  The provider's models, conversions
\* and schemas are long generated files that make the same few statements about
\* hundreds of attributes; a table makes each statement once, for the set of
\* attributes it holds of.  An entry is keyed by <<message, attribute>>, the
\* message that is the resource itself being "Resource".
EXTENDS TLC

\* f, said of each message of M.
In(M, f) == [p \in M \X DOMAIN f |-> f[p[2]]]

\* v, said of each attribute of S.
Each(v, S) == [a \in S |-> v]

\* The union of a set of tables; no key is in two of them.
Merge(S) ==
  LET keys == UNION {DOMAIN f : f \in S}
  IN [k \in keys |-> (CHOOSE f \in S : k \in DOMAIN f)[k]]

Nothing == [k \in {} |-> k]

\* Conversions: the attributes of S have this form; those of f have it too, and
\* are nested messages, which f names, or the functions that expand them.
As(form, S) == [a \in S |-> <<form, "">>]
Nest(form, f) == [a \in DOMAIN f |-> <<form, f[a]>>]
Form(e) == e[1]
Child(e) == e[2]

-----------------------------------------------------------------------------
\* A schema attribute: how the practitioner may set it, its kind, and what the
\* plan does to it.
Entry(class, kind) ==
  [class |-> class, kind |-> kind, default |-> FALSE, writeOnly |-> FALSE, mods |-> {}]

Required(kind) == Entry("Required", kind)
Optional(kind) == Entry("Optional", kind)
OptionalComputed(kind) == Entry("OptionalComputed", kind)
Computed(kind) == Entry("Computed", kind)

Defaulted(e) == [e EXCEPT !.default = TRUE]
WriteOnly(e) == [e EXCEPT !.writeOnly = TRUE]

Modified(e, mod) == [e EXCEPT !.mods = @ \cup {mod}]

Pinned(e)        == Modified(e, "UseStateForUnknown")
PinnedNonNull(e) == Modified(e, "UseNonNullStateForUnknown")
Replacing(e)     == Modified(e, "RequiresReplace")
ReplacingIf(e)   == Modified(e, "RequiresReplaceIf")
GatewayPinned(e) == Modified(e, "gcpGatewayStatePin")
RpsqlPinned(e)   == Modified(e, "rpsqlStringStatePin")
ZonesPinned(e)   == Modified(e, "rpsqlZonesStatePin")
=============================================================================
