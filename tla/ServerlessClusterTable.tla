----------------------- MODULE ServerlessClusterTable -----------------------
\* The attributes of a serverless cluster.  Models: the type of each attribute.
\* Types: the type its attr.Type map gives it.  Decoders: the attribute each As or
\* Decode function reads a nested object from.  Flatten and Conversions: the form
\* each attribute is flattened and expanded in, and the message a nested one has.
\* Schema: how each attribute may be set, its kind and its plan modifiers.  The
\* Data tables say the same of the data source.  Restored: the attributes taken
\* from the plan or the prior state after Flatten.
EXTENDS Tables

\* Resource to SchemaRegistry
Models ==
  In({"Resource"},
     Each("String", {"cluster_api_url", "console_private_url", "console_url", "id", "name",
        "private_link_id", "resource_group_id", "serverless_region", "state"})
     @@ Each("Object", {"dataplane_api", "kafka_api", "networking_config", "planned_deletion",
           "prometheus", "schema_registry"})
     @@ [allow_deletion |-> "Bool", tags |-> "Map", timeouts |-> "Timeouts"])
  @@ In({"NetworkingConfig"}, Each("String", {"private", "public"}))
  @@ In({"DataplaneAPI", "Prometheus", "SchemaRegistry"}, Each("String", {"private_url", "url"}))
  @@ In({"KafkaAPI"}, Each("List", {"private_seed_brokers", "seed_brokers"}))
  @@ In({"PlannedDeletion"}, Each("String", {"delete_after", "reason"}))

\* NetworkingConfig to SchemaRegistry
Types ==
  In({"NetworkingConfig"}, Each("String", {"private", "public"}))
  @@ In({"DataplaneAPI", "Prometheus", "SchemaRegistry"}, Each("String", {"private_url", "url"}))
  @@ In({"KafkaAPI"}, Each("List", {"private_seed_brokers", "seed_brokers"}))
  @@ In({"PlannedDeletion"}, Each("String", {"delete_after", "reason"}))

\* AsNetworkingConfig to AsSchemaRegistry
Decoders ==
  [NetworkingConfig |-> <<"Resource", "networking_config">>,
   DataplaneAPI |-> <<"Resource", "dataplane_api">>, KafkaAPI |-> <<"Resource", "kafka_api">>,
   PlannedDeletion |-> <<"Resource", "planned_deletion">>,
   Prometheus |-> <<"Resource", "prometheus">>,
   SchemaRegistry |-> <<"Resource", "schema_registry">>]

Flatten ==
  In({"Resource"},
     As("direct", {"name", "resource_group_id", "serverless_region", "console_private_url",
        "console_url", "id", "state"})
     @@ As("map", {"tags"})
     @@ As("has", {"private_link_id"})
     @@ As("object", {"cluster_api_url"})
     @@ As("default", {"allow_deletion"})
     @@ As("prev", {"timeouts"})
     @@ Nest("object", [networking_config |-> "NetworkingConfig",
           dataplane_api |-> "DataplaneAPI", kafka_api |-> "KafkaAPI", prometheus |-> "Prometheus",
           schema_registry |-> "SchemaRegistry"])
     @@ Nest("has", [planned_deletion |-> "PlannedDeletion"]))

ExpandCreate ==
  In({"Create"},
     As("value", {"name", "resource_group_id", "serverless_region", "tags"})
     @@ As("pointer", {"private_link_id"})
     @@ Nest("value", [networking_config |-> "NetworkingConfig"]))

ExpandUpdate ==
  In({"Update"},
     As("value", {"id", "tags"})
     @@ As("pointer", {"private_link_id"})
     @@ Nest("value", [networking_config |-> "NetworkingConfig"]))

\* FlattenNetworkingConfig to FlattenSchemaRegistry
Conversions1 ==
  [flatten |-> In({"NetworkingConfig"}, As("direct", {"private", "public"}))
           @@ In({"DataplaneAPI", "Prometheus", "SchemaRegistry"},
                 As("direct", {"private_url", "url"}))
           @@ In({"KafkaAPI"}, As("list", {"private_seed_brokers", "seed_brokers"}))
           @@ In({"PlannedDeletion"}, As("timestamp", {"delete_after"}) @@ As("direct", {"reason"})),
   expand  |-> In({"NetworkingConfig"}, As("value", {"private", "public"}))
           @@ In({"DataplaneAPI", "Prometheus"}, As("value", {"private_url", "url"}))
           @@ In({"KafkaAPI"}, As("value", {"private_seed_brokers", "seed_brokers"}))
           @@ In({"PlannedDeletion"}, As("value", {"delete_after", "reason"}))]

\* ExpandSchemaRegistry
Conversions2 == In({"SchemaRegistry"}, As("value", {"private_url", "url"}))

\* name to private_url
Schema1 ==
  In({"Resource"},
     Each(Replacing(Required("String")), {"name", "resource_group_id", "serverless_region"})
     @@ Each(Pinned(Computed("String")), {"cluster_api_url", "console_private_url",
           "console_url", "id"})
     @@ Each(Pinned(Computed("Object")), {"dataplane_api", "kafka_api", "planned_deletion",
           "prometheus"})
     @@ [tags |-> Optional("Map"), allow_deletion |-> Defaulted(OptionalComputed("Bool")),
           networking_config |-> Pinned(OptionalComputed("Object")),
           private_link_id |-> Pinned(OptionalComputed("String"))])
  @@ In({"NetworkingConfig"}, Each(Pinned(OptionalComputed("String")), {"private", "public"}))
  @@ In({"DataplaneAPI"}, Each(Pinned(Computed("String")), {"private_url", "url"}))
  @@ In({"KafkaAPI"}, Each(Pinned(Computed("List")), {"private_seed_brokers", "seed_brokers"}))
  @@ In({"PlannedDeletion"}, Each(Pinned(Computed("String")), {"delete_after", "reason"}))
  @@ In({"Prometheus"}, [private_url |-> Pinned(Computed("String"))])

\* url to timeouts
Schema2 ==
  In({"Prometheus"}, [url |-> Pinned(Computed("String"))])
  @@ In({"Resource"},
        [schema_registry |-> Pinned(Computed("Object")), state |-> Pinned(Computed("String")),
           timeouts |-> Optional("Timeouts")])
  @@ In({"SchemaRegistry"}, Each(Pinned(Computed("String")), {"private_url", "url"}))

\* Resource to SchemaRegistry
DataModels ==
  In({"Resource"},
     Each("String", {"cluster_api_url", "console_private_url", "console_url", "id", "name",
        "private_link_id", "resource_group_id", "serverless_region", "state"})
     @@ Each("Object", {"dataplane_api", "kafka_api", "networking_config", "planned_deletion",
           "prometheus", "schema_registry"})
     @@ [tags |-> "Map"])
  @@ In({"DataplaneAPI", "Prometheus", "SchemaRegistry"}, Each("String", {"private_url", "url"}))
  @@ In({"KafkaAPI"}, Each("List", {"private_seed_brokers", "seed_brokers"}))
  @@ In({"NetworkingConfig"}, Each("String", {"private", "public"}))
  @@ In({"PlannedDeletion"}, Each("String", {"delete_after", "reason"}))

\* DataplaneAPI to SchemaRegistry
DataTypes ==
  In({"DataplaneAPI", "Prometheus", "SchemaRegistry"}, Each("String", {"private_url", "url"}))
  @@ In({"KafkaAPI"}, Each("List", {"private_seed_brokers", "seed_brokers"}))
  @@ In({"NetworkingConfig"}, Each("String", {"private", "public"}))
  @@ In({"PlannedDeletion"}, Each("String", {"delete_after", "reason"}))

\* AsDataplaneAPI to AsSchemaRegistry
DataDecoders ==
  [DataplaneAPI |-> <<"Resource", "dataplane_api">>, KafkaAPI |-> <<"Resource", "kafka_api">>,
   NetworkingConfig |-> <<"Resource", "networking_config">>,
   PlannedDeletion |-> <<"Resource", "planned_deletion">>,
   Prometheus |-> <<"Resource", "prometheus">>,
   SchemaRegistry |-> <<"Resource", "schema_registry">>]

DataFlatten ==
  In({"Resource"},
     As("direct", {"id", "console_private_url", "console_url", "name", "resource_group_id",
        "serverless_region", "state"})
     @@ As("object", {"cluster_api_url"})
     @@ As("has", {"private_link_id"})
     @@ As("map", {"tags"})
     @@ Nest("object", [dataplane_api |-> "DataplaneAPI", kafka_api |-> "KafkaAPI",
           networking_config |-> "NetworkingConfig", prometheus |-> "Prometheus",
           schema_registry |-> "SchemaRegistry"])
     @@ Nest("has", [planned_deletion |-> "PlannedDeletion"]))

\* FlattenDataDataplaneAPI to FlattenDataSchemaRegistry
DataConversions1 ==
  In({"DataplaneAPI", "Prometheus", "SchemaRegistry"}, As("direct", {"private_url", "url"}))
  @@ In({"KafkaAPI"}, As("list", {"private_seed_brokers", "seed_brokers"}))
  @@ In({"NetworkingConfig"}, As("direct", {"private", "public"}))
  @@ In({"PlannedDeletion"}, As("timestamp", {"delete_after"}) @@ As("direct", {"reason"}))

\* ExpandDataSchemaRegistry
DataConversions2 == Nothing

\* id to tags
DataSchema ==
  In({"Resource"},
     Each(Computed("String"), {"cluster_api_url", "console_private_url", "console_url", "name",
        "private_link_id", "resource_group_id", "serverless_region", "state"})
     @@ Each(Computed("Object"), {"dataplane_api", "kafka_api", "networking_config",
           "planned_deletion", "prometheus", "schema_registry"})
     @@ [id |-> Required("String"), tags |-> Computed("Map")])
  @@ In({"DataplaneAPI", "Prometheus", "SchemaRegistry"},
        Each(Computed("String"), {"private_url", "url"}))
  @@ In({"KafkaAPI"}, Each(Computed("List"), {"private_seed_brokers", "seed_brokers"}))
  @@ In({"NetworkingConfig"}, Each(Computed("String"), {"private", "public"}))
  @@ In({"PlannedDeletion"}, Each(Computed("String"), {"delete_after", "reason"}))

AllModels == Merge({Models})

AllTypes == Merge({Types})

AllDecoders == Merge({Decoders})

AllFlattens == Merge({Flatten, Conversions1.flatten})

AllExpands == Merge({ExpandCreate, ExpandUpdate, Conversions1.expand, Conversions2})

AllSchema == Merge({Schema1, Schema2})

Restored == {}

AllDataModels == Merge({DataModels})

AllDataTypes == Merge({DataTypes})

AllDataDecoders == Merge({DataDecoders})

AllDataFlattens == Merge({DataFlatten, DataConversions1, DataConversions2})

AllDataSchema == Merge({DataSchema})
=============================================================================
