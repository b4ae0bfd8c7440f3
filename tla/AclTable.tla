------------------------------ MODULE AclTable ------------------------------
\* The attributes of an ACL.  Models: the type of each attribute.  Types: the type
\* its attr.Type map gives it.  Decoders: the attribute each As or Decode function
\* reads a nested object from.  Flatten and Conversions: the form each attribute
\* is flattened and expanded in, and the message a nested one has.  Schema: how
\* each attribute may be set, its kind and its plan modifiers.  Restored: the
\* attributes taken from the plan or the prior state after Flatten.
EXTENDS Tables

\* Resource
Models ==
  In({"Resource"},
     Each("String", {"cluster_api_url", "host", "id", "operation", "permission_type",
        "principal", "resource_name", "resource_pattern_type", "resource_type"})
     @@ [allow_deletion |-> "Bool"])

Flatten ==
  In({"Resource"},
     As("direct", {"resource_name", "resource_pattern_type", "resource_type"})
     @@ As("prev", {"cluster_api_url", "host", "operation", "permission_type", "principal",
           "id"})
     @@ As("default", {"allow_deletion"}))

ExpandCreate ==
  In({"Create"},
     As("value", {"resource_type", "resource_name", "resource_pattern_type", "principal", "host",
        "operation", "permission_type"}))

\* cluster_api_url to id
Schema ==
  In({"Resource"},
     Each(Replacing(Required("String")), {"cluster_api_url", "host", "operation",
        "permission_type", "principal", "resource_name", "resource_pattern_type", "resource_type"})
     @@ [allow_deletion |-> Defaulted(OptionalComputed("Bool")),
           id |-> Pinned(Computed("String"))])

AllModels == Merge({Models})

AllTypes == Nothing

AllDecoders == Nothing

AllFlattens == Merge({Flatten})

AllExpands == Merge({ExpandCreate})

AllSchema == Merge({Schema})

Restored == {}
=============================================================================
