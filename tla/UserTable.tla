----------------------------- MODULE UserTable -----------------------------
\* The attributes of a user.  Models: the type of each attribute.  Types: the type
\* its attr.Type map gives it.  Decoders: the attribute each As or Decode function
\* reads a nested object from.  Flatten and Conversions: the form each attribute
\* is flattened and expanded in, and the message a nested one has.  Schema: how
\* each attribute may be set, its kind and its plan modifiers.  Restored: the
\* attributes taken from the plan or the prior state after Flatten.
EXTENDS Tables

\* Resource
Models ==
  In({"Resource"},
     Each("String", {"cluster_api_url", "id", "mechanism", "name", "password", "password_wo"})
     @@ [allow_deletion |-> "Bool", password_wo_version |-> "Int64"])

Flatten ==
  In({"Resource"},
     As("direct", {"name", "id"})
     @@ As("has", {"mechanism"})
     @@ As("prev", {"cluster_api_url", "password", "password_wo", "password_wo_version"})
     @@ As("default", {"allow_deletion"}))

ExpandCreate == In({"Create"}, As("value", {"name", "password", "mechanism"}))

ExpandUpdate == In({"Update"}, As("value", {"name", "password", "mechanism"}))

\* cluster_api_url to id
Schema ==
  In({"Resource"},
     Each(Replacing(Required("String")), {"cluster_api_url", "name"})
     @@ [password |-> Optional("String"), password_wo |-> WriteOnly(Optional("String")),
           password_wo_version |-> Optional("Int64"),
           allow_deletion |-> Defaulted(OptionalComputed("Bool")),
           mechanism |-> Pinned(OptionalComputed("String")), id |-> Pinned(Computed("String"))])

AllModels == Merge({Models})

AllTypes == Nothing

AllDecoders == Nothing

AllFlattens == Merge({Flatten})

AllExpands == Merge({ExpandCreate, ExpandUpdate})

AllSchema == Merge({Schema})

Restored == {}
=============================================================================
