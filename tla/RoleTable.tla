----------------------------- MODULE RoleTable -----------------------------
\* The attributes of a role.  Models: the type of each attribute.  Types: the type
\* its attr.Type map gives it.  Decoders: the attribute each As or Decode function
\* reads a nested object from.  Flatten and Conversions: the form each attribute
\* is flattened and expanded in, and the message a nested one has.  Schema: how
\* each attribute may be set, its kind and its plan modifiers.  Restored: the
\* attributes taken from the plan or the prior state after Flatten.
EXTENDS Tables

\* Resource
Models ==
  In({"Resource"},
     Each("Bool", {"allow_deletion", "delete_acls"})
     @@ Each("String", {"cluster_api_url", "id", "name"}))

Flatten ==
  In({"Resource"},
     As("direct", {"name"})
     @@ As("prev", {"cluster_api_url", "id"})
     @@ As("default", {"allow_deletion", "delete_acls"}))

ExpandCreate == In({"Create"}, As("value", {"name"}))

\* cluster_api_url to id
Schema ==
  In({"Resource"},
     Each(Replacing(Required("String")), {"cluster_api_url", "name"})
     @@ Each(Defaulted(OptionalComputed("Bool")), {"allow_deletion", "delete_acls"})
     @@ [id |-> Pinned(Computed("String"))])

AllModels == Merge({Models})

AllTypes == Nothing

AllDecoders == Nothing

AllFlattens == Merge({Flatten})

AllExpands == Merge({ExpandCreate})

AllSchema == Merge({Schema})

Restored == {}
=============================================================================
