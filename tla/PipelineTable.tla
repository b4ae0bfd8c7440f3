--------------------------- MODULE PipelineTable ---------------------------
\* The attributes of a pipeline.  Models: the type of each attribute.  Types: the
\* type its attr.Type map gives it.  Decoders: the attribute each As or Decode
\* function reads a nested object from.  Flatten and Conversions: the form each
\* attribute is flattened and expanded in, and the message a nested one has.
\* Schema: how each attribute may be set, its kind and its plan modifiers.
\* Restored: the attributes taken from the plan or the prior state after Flatten.
EXTENDS Tables

\* Resource to Status
Models ==
  In({"Resource"},
     Each("String", {"cluster_api_url", "config_yaml", "description", "display_name", "id",
        "state", "url"})
     @@ Each("Object", {"resources", "service_account", "status"})
     @@ [allow_deletion |-> "Bool", tags |-> "Map", timeouts |-> "Timeouts"])
  @@ In({"ServiceAccount"},
        Each("String", {"client_id", "client_secret"})
        @@ [secret_version |-> "Int64"])
  @@ In({"Resources"}, Each("String", {"cpu_shares", "memory_shares"}))
  @@ In({"Status"}, [error |-> "String"])

\* ServiceAccount to Status
Types ==
  In({"ServiceAccount"},
     Each("String", {"client_id", "client_secret"})
     @@ [secret_version |-> "Int64"])
  @@ In({"Resources"}, Each("String", {"cpu_shares", "memory_shares"}))
  @@ In({"Status"}, [error |-> "String"])

\* AsServiceAccount to AsStatus
Decoders ==
  [ServiceAccount |-> <<"Resource", "service_account">>, Resources |-> <<"Resource", "resources">>,
   Status |-> <<"Resource", "status">>]

Flatten ==
  In({"Resource"},
     As("direct", {"config_yaml", "display_name", "state", "id", "url"})
     @@ As("nonempty", {"description"})
     @@ As("map", {"tags"})
     @@ As("prev", {"cluster_api_url", "timeouts"})
     @@ As("default", {"allow_deletion"})
     @@ Nest("object", [service_account |-> "ServiceAccount", status |-> "Status"])
     @@ Nest("keep", [resources |-> "Resources"]))

ExpandCreate ==
  In({"Create"},
     As("value", {"config_yaml", "display_name", "description", "tags"})
     @@ Nest("value", [service_account |-> "ServiceAccount", resources |-> "Resources"]))

ExpandUpdate ==
  In({"Update"},
     As("value", {"config_yaml", "display_name", "description", "tags"})
     @@ Nest("value", [service_account |-> "ServiceAccount", resources |-> "Resources"]))

\* FlattenServiceAccount to ExpandStatus
Conversions ==
  [flatten |-> In({"ServiceAccount"}, As("direct", {"client_id"}))
           @@ In({"Resources"}, As("nonempty", {"cpu_shares", "memory_shares"}))
           @@ In({"Status"}, As("direct", {"error"})),
   expand  |-> In({"ServiceAccount"}, As("value", {"client_id", "client_secret"}))
           @@ In({"Resources"}, As("value", {"cpu_shares", "memory_shares"}))
           @@ In({"Status"}, As("value", {"error"}))]

\* cluster_api_url to timeouts
Schema ==
  In({"Resource"},
     Each(Required("String"), {"config_yaml", "display_name"})
     @@ Each(Pinned(Computed("String")), {"id", "url"})
     @@ [cluster_api_url |-> Replacing(Required("String")), description |-> Optional("String"),
           service_account |-> Pinned(Optional("Object")), tags |-> Optional("Map"),
           allow_deletion |-> Defaulted(OptionalComputed("Bool")),
           resources |-> Pinned(OptionalComputed("Object")),
           state |-> Defaulted(OptionalComputed("String")), status |-> Pinned(Computed("Object")),
           timeouts |-> Optional("Timeouts")])
  @@ In({"ServiceAccount"},
        [client_id |-> Required("String"), client_secret |-> WriteOnly(Required("String")),
           secret_version |-> Pinned(Optional("Int64"))])
  @@ In({"Resources"}, Each(Optional("String"), {"cpu_shares", "memory_shares"}))
  @@ In({"Status"}, [error |-> Pinned(Computed("String"))])

AllModels == Merge({Models})

AllTypes == Merge({Types})

AllDecoders == Merge({Decoders})

AllFlattens == Merge({Flatten, Conversions.flatten})

AllExpands == Merge({ExpandCreate, ExpandUpdate, Conversions.expand})

AllSchema == Merge({Schema})

Restored == {<<"ServiceAccount", "client_secret">>, <<"ServiceAccount", "secret_version">>}
=============================================================================
