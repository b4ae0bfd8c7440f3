-------------------------- MODULE ShadowLinkTable --------------------------
\* The attributes of a shadow link.  Models: the type of each attribute.  Types:
\* the type its attr.Type map gives it.  Decoders: the attribute each As or Decode
\* function reads a nested object from.  Flatten and Conversions: the form each
\* attribute is flattened and expanded in, and the message a nested one has.
\* Schema: how each attribute may be set, its kind and its plan modifiers.
\* Restored: the attributes taken from the plan or the prior state after Flatten.
EXTENDS Tables

\* Resource to SecuritySyncOptionsAclFiltersResourceFilter
Models1 ==
  In({"Resource"},
     Each("Object", {"client_options", "consumer_offset_sync_options",
        "schema_registry_sync_options", "security_sync_options", "topic_metadata_sync_options"})
     @@ Each("String", {"id", "name", "reason", "shadow_redpanda_id", "source_redpanda_id",
           "state"})
     @@ [allow_deletion |-> "Bool", timeouts |-> "Timeouts"])
  @@ In({"ClientOptions"},
        Each("Object", {"authentication_configuration", "tls_settings"})
        @@ Each("Int32", {"connection_timeout_ms", "fetch_max_bytes", "fetch_min_bytes",
              "fetch_partition_max_bytes", "fetch_wait_max_ms", "metadata_max_age_ms",
              "retry_backoff_ms", "effective_connection_timeout_ms", "effective_fetch_max_bytes",
              "effective_fetch_min_bytes", "effective_fetch_partition_max_bytes",
              "effective_fetch_wait_max_ms", "effective_metadata_max_age_ms",
              "effective_retry_backoff_ms"})
        @@ Each("String", {"source_cluster_id", "client_id"})
        @@ [bootstrap_servers |-> "List"])
  @@ In({"ClientOptionsAuthenticationConfiguration"},
        Each("Object", {"plain_configuration", "scram_configuration"}))
  @@ In({"ClientOptionsAuthenticationConfigurationPlainConfiguration"},
        Each("String", {"password", "username"})
        @@ [password_set |-> "Bool"])
  @@ In({"ClientOptionsAuthenticationConfigurationScramConfiguration"},
        Each("String", {"password", "scram_mechanism", "username"})
        @@ [password_set |-> "Bool"])
  @@ In({"ClientOptionsTLSSettings"},
        Each("String", {"ca", "cert", "key"})
        @@ Each("Bool", {"do_not_set_sni_hostname", "enabled"}))
  @@ In({"ConsumerOffsetSyncOptions"},
        [group_filters |-> "List", interval |-> "String", paused |-> "Bool"])
  @@ In({"ConsumerOffsetSyncOptionsGroupFilters"},
        Each("String", {"filter_type", "name", "pattern_type"}))
  @@ In({"SchemaRegistrySyncOptions"}, [shadow_schema_registry_topic |-> "Bool"])
  @@ In({"SecuritySyncOptions"}, [acl_filters |-> "List", interval |-> "String", paused |-> "Bool"])
  @@ In({"SecuritySyncOptionsAclFilters"}, Each("Object", {"access_filter", "resource_filter"}))
  @@ In({"SecuritySyncOptionsAclFiltersAccessFilter"},
        Each("String", {"operation", "permission_type", "host", "principal"}))
  @@ In({"SecuritySyncOptionsAclFiltersResourceFilter"},
        Each("String", {"pattern_type", "resource_type", "name"}))

\* TopicMetadataSyncOptions to TopicMetadataSyncOptionsAutoCreateShadowTopicFilters
Models2 ==
  In({"TopicMetadataSyncOptions"},
     Each("List", {"auto_create_shadow_topic_filters", "synced_shadow_topic_properties"})
     @@ Each("Bool", {"exclude_default", "paused", "start_at_earliest", "start_at_latest"})
     @@ Each("String", {"interval", "start_at_timestamp"}))
  @@ In({"TopicMetadataSyncOptionsAutoCreateShadowTopicFilters"},
        Each("String", {"filter_type", "name", "pattern_type"}))

\* ClientOptions to TopicMetadataSyncOptions
Types1 ==
  In({"ClientOptions"},
     Each("Object", {"authentication_configuration", "tls_settings"})
     @@ Each("Int32", {"connection_timeout_ms", "fetch_max_bytes", "fetch_min_bytes",
           "fetch_partition_max_bytes", "fetch_wait_max_ms", "metadata_max_age_ms",
           "retry_backoff_ms", "effective_connection_timeout_ms", "effective_fetch_max_bytes",
           "effective_fetch_min_bytes", "effective_fetch_partition_max_bytes",
           "effective_fetch_wait_max_ms", "effective_metadata_max_age_ms",
           "effective_retry_backoff_ms"})
     @@ Each("String", {"source_cluster_id", "client_id"})
     @@ [bootstrap_servers |-> "List"])
  @@ In({"ClientOptionsAuthenticationConfiguration"},
        Each("Object", {"plain_configuration", "scram_configuration"}))
  @@ In({"ClientOptionsAuthenticationConfigurationPlainConfiguration"},
        Each("String", {"password", "username"})
        @@ [password_set |-> "Bool"])
  @@ In({"ClientOptionsAuthenticationConfigurationScramConfiguration"},
        Each("String", {"password", "scram_mechanism", "username"})
        @@ [password_set |-> "Bool"])
  @@ In({"ClientOptionsTLSSettings"},
        Each("String", {"ca", "cert", "key"})
        @@ Each("Bool", {"do_not_set_sni_hostname", "enabled"}))
  @@ In({"ConsumerOffsetSyncOptions"},
        [group_filters |-> "List", interval |-> "String", paused |-> "Bool"])
  @@ In({"ConsumerOffsetSyncOptionsGroupFilters"},
        Each("String", {"filter_type", "name", "pattern_type"}))
  @@ In({"SchemaRegistrySyncOptions"}, [shadow_schema_registry_topic |-> "Bool"])
  @@ In({"SecuritySyncOptions"}, [acl_filters |-> "List", interval |-> "String", paused |-> "Bool"])
  @@ In({"SecuritySyncOptionsAclFilters"}, Each("Object", {"access_filter", "resource_filter"}))
  @@ In({"SecuritySyncOptionsAclFiltersAccessFilter"},
        Each("String", {"operation", "permission_type", "host", "principal"}))
  @@ In({"SecuritySyncOptionsAclFiltersResourceFilter"},
        Each("String", {"pattern_type", "resource_type", "name"}))
  @@ In({"TopicMetadataSyncOptions"},
        Each("List", {"auto_create_shadow_topic_filters", "synced_shadow_topic_properties"})
        @@ Each("Bool", {"exclude_default", "paused", "start_at_earliest", "start_at_latest"})
        @@ Each("String", {"interval", "start_at_timestamp"}))

\* TopicMetadataSyncOptionsAutoCreateShadowTopicFilters
Types2 ==
  In({"TopicMetadataSyncOptionsAutoCreateShadowTopicFilters"},
     Each("String", {"filter_type", "name", "pattern_type"}))

\* AsClientOptions to DecodeClientOptionsAuthenticationConfiguration
Decoders1 ==
  [ClientOptions |-> <<"Resource", "client_options">>,
   ConsumerOffsetSyncOptions |-> <<"Resource", "consumer_offset_sync_options">>,
   SchemaRegistrySyncOptions |-> <<"Resource", "schema_registry_sync_options">>,
   SecuritySyncOptions |-> <<"Resource", "security_sync_options">>,
   TopicMetadataSyncOptions |-> <<"Resource", "topic_metadata_sync_options">>,
   ClientOptionsAuthenticationConfiguration |-> <<"ClientOptions", "authentication_configuration">>]

\* DecodeClientOptionsAuthenticationConfigurationPlainConfiguration to DecodeSecuritySyncOptionsAclFiltersResourceFilter
Decoders2 ==
  [ClientOptionsAuthenticationConfigurationPlainConfiguration |-> <<"ClientOptionsAuthenticationConfiguration", "plain_configuration">>,
   ClientOptionsAuthenticationConfigurationScramConfiguration |-> <<"ClientOptionsAuthenticationConfiguration", "scram_configuration">>,
   ClientOptionsTLSSettings |-> <<"ClientOptions", "tls_settings">>,
   SecuritySyncOptionsAclFiltersAccessFilter |-> <<"SecuritySyncOptionsAclFilters", "access_filter">>,
   SecuritySyncOptionsAclFiltersResourceFilter |-> <<"SecuritySyncOptionsAclFilters", "resource_filter">>]

Flatten ==
  In({"Resource"},
     As("direct", {"name", "shadow_redpanda_id", "id", "reason", "state"})
     @@ As("prev", {"source_redpanda_id", "timeouts"})
     @@ As("default", {"allow_deletion"})
     @@ Nest("object", [client_options |-> "ClientOptions",
           consumer_offset_sync_options |-> "ConsumerOffsetSyncOptions",
           schema_registry_sync_options |-> "SchemaRegistrySyncOptions",
           security_sync_options |-> "SecuritySyncOptions",
           topic_metadata_sync_options |-> "TopicMetadataSyncOptions"]))

ExpandCreate ==
  In({"Create"},
     As("value", {"name", "shadow_redpanda_id"})
     @@ Nest("value", [client_options |-> "ClientOptions",
           consumer_offset_sync_options |-> "ConsumerOffsetSyncOptions",
           schema_registry_sync_options |-> "SchemaRegistrySyncOptions",
           security_sync_options |-> "SecuritySyncOptions",
           topic_metadata_sync_options |-> "TopicMetadataSyncOptions"]))

ExpandUpdate ==
  In({"Update"},
     As("value", {"id"})
     @@ Nest("value", [client_options |-> "ClientOptions",
           consumer_offset_sync_options |-> "ConsumerOffsetSyncOptions",
           schema_registry_sync_options |-> "SchemaRegistrySyncOptions",
           security_sync_options |-> "SecuritySyncOptions",
           topic_metadata_sync_options |-> "TopicMetadataSyncOptions"]))

\* FlattenClientOptions to FlattenClientOptionsAuthenticationConfigurationScramConfiguration
Conversions1 ==
  [flatten |-> In({"ClientOptions"},
                 As("carryEmpty", {"bootstrap_servers"})
                 @@ As("direct", {"connection_timeout_ms", "fetch_max_bytes", "fetch_min_bytes",
                       "fetch_partition_max_bytes", "fetch_wait_max_ms", "metadata_max_age_ms",
                       "retry_backoff_ms", "source_cluster_id", "client_id",
                       "effective_connection_timeout_ms", "effective_fetch_max_bytes",
                       "effective_fetch_min_bytes", "effective_fetch_partition_max_bytes",
                       "effective_fetch_wait_max_ms", "effective_metadata_max_age_ms",
                       "effective_retry_backoff_ms"})
                 @@ Nest("object",
                       [authentication_configuration |-> "ClientOptionsAuthenticationConfiguration",
                       tls_settings |-> "ClientOptionsTLSSettings"]))
           @@ In({"ClientOptionsAuthenticationConfiguration"},
                 Nest("object",
                    [plain_configuration |-> "ClientOptionsAuthenticationConfigurationPlainConfiguration",
                    scram_configuration |-> "ClientOptionsAuthenticationConfigurationScramConfiguration"]))
           @@ In({"ClientOptionsAuthenticationConfigurationPlainConfiguration"},
                 As("direct", {"password", "username", "password_set"}))
           @@ In({"ClientOptionsAuthenticationConfigurationScramConfiguration"},
                 As("direct", {"password", "scram_mechanism", "username", "password_set"})),
   expand  |-> In({"ClientOptions"},
                 As("value", {"bootstrap_servers", "connection_timeout_ms", "fetch_max_bytes",
                    "fetch_min_bytes", "fetch_partition_max_bytes", "fetch_wait_max_ms",
                    "metadata_max_age_ms", "retry_backoff_ms", "source_cluster_id", "client_id",
                    "effective_connection_timeout_ms", "effective_fetch_max_bytes",
                    "effective_fetch_min_bytes", "effective_fetch_partition_max_bytes",
                    "effective_fetch_wait_max_ms", "effective_metadata_max_age_ms",
                    "effective_retry_backoff_ms"})
                 @@ Nest("value",
                       [authentication_configuration |-> "ClientOptionsAuthenticationConfiguration",
                       tls_settings |-> "ClientOptionsTLSSettings"]))
           @@ In({"ClientOptionsAuthenticationConfiguration"},
                 Nest("value",
                    [plain_configuration |-> "ClientOptionsAuthenticationConfigurationPlainConfiguration",
                    scram_configuration |-> "ClientOptionsAuthenticationConfigurationScramConfiguration"]))
           @@ In({"ClientOptionsAuthenticationConfigurationPlainConfiguration"},
                 As("value", {"password", "username", "password_set"}))]

\* ExpandClientOptionsAuthenticationConfigurationScramConfiguration to FlattenSecuritySyncOptions
Conversions2 ==
  [flatten |-> In({"ClientOptionsTLSSettings"},
                 As("direct", {"ca", "cert", "do_not_set_sni_hostname", "enabled", "key"}))
           @@ In({"ConsumerOffsetSyncOptions"},
                 As("duration", {"interval"})
                 @@ As("direct", {"paused"})
                 @@ Nest("objects", [group_filters |-> "ConsumerOffsetSyncOptionsGroupFilters"]))
           @@ In({"ConsumerOffsetSyncOptionsGroupFilters"},
                 As("direct", {"filter_type", "name", "pattern_type"}))
           @@ In({"SchemaRegistrySyncOptions"}, As("oneof", {"shadow_schema_registry_topic"}))
           @@ In({"SecuritySyncOptions"},
                 As("duration", {"interval"})
                 @@ As("direct", {"paused"})
                 @@ Nest("objects", [acl_filters |-> "SecuritySyncOptionsAclFilters"])),
   expand  |-> In({"ClientOptionsAuthenticationConfigurationScramConfiguration"},
                 As("value", {"password", "scram_mechanism", "username", "password_set"}))
           @@ In({"ClientOptionsTLSSettings"},
                 As("value", {"ca", "cert", "do_not_set_sni_hostname", "enabled", "key"}))
           @@ In({"ConsumerOffsetSyncOptions"},
                 As("value", {"interval", "paused"})
                 @@ Nest("value", [group_filters |-> "ConsumerOffsetSyncOptionsGroupFilters"]))
           @@ In({"ConsumerOffsetSyncOptionsGroupFilters"},
                 As("value", {"filter_type", "name", "pattern_type"}))
           @@ In({"SchemaRegistrySyncOptions"}, As("value", {"shadow_schema_registry_topic"}))]

\* ExpandSecuritySyncOptions to FlattenTopicMetadataSyncOptions
Conversions3 ==
  [flatten |-> In({"SecuritySyncOptionsAclFilters"},
                 Nest("object", [access_filter |-> "SecuritySyncOptionsAclFiltersAccessFilter",
                    resource_filter |-> "SecuritySyncOptionsAclFiltersResourceFilter"]))
           @@ In({"SecuritySyncOptionsAclFiltersAccessFilter"},
                 As("direct", {"operation", "permission_type", "host", "principal"}))
           @@ In({"SecuritySyncOptionsAclFiltersResourceFilter"},
                 As("direct", {"pattern_type", "resource_type", "name"}))
           @@ In({"TopicMetadataSyncOptions"},
                 As("direct", {"exclude_default", "paused"})
                 @@ As("duration", {"interval"})
                 @@ As("oneof", {"start_at_earliest", "start_at_latest"})
                 @@ As("timestamp", {"start_at_timestamp"})
                 @@ As("carryEmpty", {"synced_shadow_topic_properties"})
                 @@ Nest("objects",
                       [auto_create_shadow_topic_filters |-> "TopicMetadataSyncOptionsAutoCreateShadowTopicFilters"])),
   expand  |-> In({"SecuritySyncOptions"},
                 As("value", {"interval", "paused"})
                 @@ Nest("value", [acl_filters |-> "SecuritySyncOptionsAclFilters"]))
           @@ In({"SecuritySyncOptionsAclFilters"},
                 Nest("value", [access_filter |-> "SecuritySyncOptionsAclFiltersAccessFilter",
                    resource_filter |-> "SecuritySyncOptionsAclFiltersResourceFilter"]))
           @@ In({"SecuritySyncOptionsAclFiltersAccessFilter"},
                 As("value", {"operation", "permission_type", "host", "principal"}))
           @@ In({"SecuritySyncOptionsAclFiltersResourceFilter"},
                 As("value", {"pattern_type", "resource_type", "name"}))]

\* ExpandTopicMetadataSyncOptions to ExpandTopicMetadataSyncOptionsAutoCreateShadowTopicFilters
Conversions4 ==
  [flatten |-> In({"TopicMetadataSyncOptionsAutoCreateShadowTopicFilters"},
                 As("direct", {"filter_type", "name", "pattern_type"})),
   expand  |-> In({"TopicMetadataSyncOptions"},
                 As("value", {"exclude_default", "interval", "paused",
                    "synced_shadow_topic_properties", "start_at_earliest", "start_at_latest",
                    "start_at_timestamp"})
                 @@ Nest("value",
                       [auto_create_shadow_topic_filters |-> "TopicMetadataSyncOptionsAutoCreateShadowTopicFilters"]))
           @@ In({"TopicMetadataSyncOptionsAutoCreateShadowTopicFilters"},
                 As("value", {"filter_type", "name", "pattern_type"}))]

\* name to retry_backoff_ms
Schema1 ==
  In({"Resource"},
     Each(Replacing(Required("String")), {"name", "shadow_redpanda_id"})
     @@ [source_redpanda_id |-> Replacing(Optional("String")),
           allow_deletion |-> Defaulted(OptionalComputed("Bool")),
           client_options |-> Pinned(OptionalComputed("Object"))])
  @@ In({"ClientOptions"},
        Each(Pinned(OptionalComputed("Int32")), {"connection_timeout_ms", "fetch_max_bytes",
           "fetch_min_bytes", "fetch_partition_max_bytes", "fetch_wait_max_ms",
           "metadata_max_age_ms", "retry_backoff_ms"})
        @@ [authentication_configuration |-> Pinned(OptionalComputed("Object")),
              bootstrap_servers |-> Pinned(OptionalComputed("List"))])
  @@ In({"ClientOptionsAuthenticationConfiguration"},
        Each(Pinned(OptionalComputed("Object")), {"plain_configuration", "scram_configuration"}))
  @@ In({"ClientOptionsAuthenticationConfigurationPlainConfiguration"},
        Each(Pinned(OptionalComputed("String")), {"password", "username"})
        @@ [password_set |-> PinnedNonNull(Computed("Bool"))])
  @@ In({"ClientOptionsAuthenticationConfigurationScramConfiguration"},
        Each(Pinned(OptionalComputed("String")), {"password", "scram_mechanism", "username"})
        @@ [password_set |-> PinnedNonNull(Computed("Bool"))])

\* source_cluster_id to shadow_schema_registry_topic
Schema2 ==
  In({"ClientOptions"},
     Each(PinnedNonNull(Computed("Int32")), {"effective_connection_timeout_ms",
        "effective_fetch_max_bytes", "effective_fetch_min_bytes",
        "effective_fetch_partition_max_bytes", "effective_fetch_wait_max_ms",
        "effective_metadata_max_age_ms", "effective_retry_backoff_ms"})
     @@ [source_cluster_id |-> Pinned(OptionalComputed("String")),
           tls_settings |-> Pinned(OptionalComputed("Object")),
           client_id |-> PinnedNonNull(Computed("String"))])
  @@ In({"ClientOptionsTLSSettings"},
        Each(Pinned(OptionalComputed("String")), {"ca", "cert", "key"})
        @@ Each(Pinned(OptionalComputed("Bool")), {"do_not_set_sni_hostname", "enabled"}))
  @@ In({"Resource"},
        Each(Pinned(OptionalComputed("Object")), {"consumer_offset_sync_options",
           "schema_registry_sync_options"}))
  @@ In({"ConsumerOffsetSyncOptions"},
        [group_filters |-> Pinned(OptionalComputed("List")),
           interval |-> Pinned(OptionalComputed("String")),
           paused |-> Pinned(OptionalComputed("Bool"))])
  @@ In({"ConsumerOffsetSyncOptionsGroupFilters"},
        Each(Required("String"), {"filter_type", "name", "pattern_type"}))
  @@ In({"SchemaRegistrySyncOptions"},
        [shadow_schema_registry_topic |-> Pinned(OptionalComputed("Bool"))])

\* security_sync_options to synced_shadow_topic_properties
Schema3 ==
  In({"Resource"},
     Each(Pinned(OptionalComputed("Object")), {"security_sync_options",
        "topic_metadata_sync_options"}))
  @@ In({"SecuritySyncOptions"},
        [acl_filters |-> Pinned(OptionalComputed("List")),
           interval |-> Pinned(OptionalComputed("String")),
           paused |-> Pinned(OptionalComputed("Bool"))])
  @@ In({"SecuritySyncOptionsAclFilters"},
        Each(Required("Object"), {"access_filter", "resource_filter"}))
  @@ In({"SecuritySyncOptionsAclFiltersAccessFilter"},
        Each(Required("String"), {"operation", "permission_type"})
        @@ Each(Pinned(OptionalComputed("String")), {"host", "principal"}))
  @@ In({"SecuritySyncOptionsAclFiltersResourceFilter"},
        Each(Required("String"), {"pattern_type", "resource_type"})
        @@ [name |-> Pinned(OptionalComputed("String"))])
  @@ In({"TopicMetadataSyncOptions"},
        Each(Pinned(OptionalComputed("List")), {"auto_create_shadow_topic_filters",
           "synced_shadow_topic_properties"})
        @@ Each(Pinned(OptionalComputed("Bool")), {"exclude_default", "paused",
              "start_at_earliest", "start_at_latest"})
        @@ Each(Pinned(OptionalComputed("String")), {"interval", "start_at_timestamp"}))
  @@ In({"TopicMetadataSyncOptionsAutoCreateShadowTopicFilters"},
        Each(Required("String"), {"filter_type", "name", "pattern_type"}))

\* id to timeouts
Schema4 ==
  In({"Resource"},
     Each(Pinned(Computed("String")), {"id", "reason", "state"})
     @@ [timeouts |-> Optional("Timeouts")])

AllModels == Merge({Models1, Models2})

AllTypes == Merge({Types1, Types2})

AllDecoders == Merge({Decoders1, Decoders2})

AllFlattens ==
  Merge({Flatten, Conversions1.flatten, Conversions2.flatten, Conversions3.flatten,
         Conversions4.flatten})

AllExpands ==
  Merge({ExpandCreate, ExpandUpdate, Conversions1.expand, Conversions2.expand, Conversions3.expand,
         Conversions4.expand})

AllSchema == Merge({Schema1, Schema2, Schema3, Schema4})

Restored == {<<"ClientOptionsAuthenticationConfigurationPlainConfiguration", "password">>, <<"ClientOptionsAuthenticationConfigurationScramConfiguration", "password">>, <<"ClientOptionsAuthenticationConfigurationPlainConfiguration", "password">>, <<"ClientOptionsAuthenticationConfigurationScramConfiguration", "password">>, <<"ClientOptionsTLSSettings", "key">>}
=============================================================================
