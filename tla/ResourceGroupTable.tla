------------------------- MODULE ResourceGroupTable -------------------------
\* The attributes of a resource group.  Models: the type of each attribute.
\* Types: the type its attr.Type map gives it.  Decoders: the attribute each As or
\* Decode function reads a nested object from.  Flatten and Conversions: the form
\* each attribute is flattened and expanded in, and the message a nested one has.
\* Schema: how each attribute may be set, its kind and its plan modifiers.  The
\* Data tables say the same of the data source.  Restored: the attributes taken
\* from the plan or the prior state after Flatten.
EXTENDS Tables

\* Resource
Models == In({"Resource"}, Each("String", {"id", "name"}))

Flatten == In({"Resource"}, As("direct", {"name", "id"}))

ExpandCreate == In({"Create"}, As("value", {"name"}))

ExpandUpdate == In({"Update"}, As("value", {"name", "id"}))

\* name to id
Schema == In({"Resource"}, [name |-> Required("String"), id |-> Pinned(Computed("String"))])

\* Resource
DataModels == In({"Resource"}, Each("String", {"id", "name"}))

DataFlatten == In({"Resource"}, As("direct", {"id", "name"}))

\* id to name
DataSchema == In({"Resource"}, Each(OptionalComputed("String"), {"id", "name"}))

AllModels == Merge({Models})

AllTypes == Nothing

AllDecoders == Nothing

AllFlattens == Merge({Flatten})

AllExpands == Merge({ExpandCreate, ExpandUpdate})

AllSchema == Merge({Schema})

Restored == {}

AllDataModels == Merge({DataModels})

AllDataTypes == Nothing

AllDataDecoders == Nothing

AllDataFlattens == Merge({DataFlatten})

AllDataSchema == Merge({DataSchema})
=============================================================================
