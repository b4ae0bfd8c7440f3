--------------------------- MODULE ClusterSchema ---------------------------
\* The schema of a cluster.  Schema: how each attribute may be set, its kind and
\* its plan modifiers.
EXTENDS Tables

\* cloud_provider to arn
Schema1 ==
  In({"Resource"},
     Each(Replacing(Required("String")), {"cloud_provider", "connection_type", "network_id",
        "region", "resource_group_id"})
     @@ Each(Required("String"), {"name", "throughput_tier"})
     @@ [zones |-> Replacing(Required("List")),
           customer_managed_resources |-> Replacing(Optional("Object"))])
  @@ In({"CustomerManagedResources"}, [aws |-> Replacing(Optional("Object"))])
  @@ In({"CustomerManagedResourcesAWS"},
        Each(Required("Object"), {"agent_instance_profile", "cloud_storage_bucket",
           "cluster_security_group", "connectors_node_group_instance_profile",
           "connectors_security_group", "k8s_cluster_role", "node_security_group",
           "permissions_boundary_policy", "redpanda_agent_security_group"}))
  @@ In({"CustomerManagedResourcesAWSAgentInstanceProfile",
        "CustomerManagedResourcesAWSCloudStorageBucket",
        "CustomerManagedResourcesAWSClusterSecurityGroup",
        "CustomerManagedResourcesAWSConnectorsNodeGroupInstanceProfile",
        "CustomerManagedResourcesAWSConnectorsSecurityGroup",
        "CustomerManagedResourcesAWSK8sClusterRole", "CustomerManagedResourcesAWSNodeSecurityGroup",
        "CustomerManagedResourcesAWSPermissionsBoundaryPolicy",
        "CustomerManagedResourcesAWSRedpandaAgentSecurityGroup"},
        [arn |-> Required("String")])

\* redpanda_node_group_instance_profile to email
Schema2 ==
  In({"CustomerManagedResourcesAWS"},
     Each(Required("Object"), {"redpanda_node_group_instance_profile",
        "redpanda_node_group_security_group", "utility_node_group_instance_profile",
        "utility_security_group"})
     @@ Each(Optional("Object"), {"redpanda_connect_node_group_instance_profile",
           "redpanda_connect_security_group", "rpsql_cloud_storage_bucket",
           "rpsql_node_group_instance_profile", "rpsql_security_group"}))
  @@ In({"CustomerManagedResourcesAWSRedpandaNodeGroupInstanceProfile",
        "CustomerManagedResourcesAWSRedpandaNodeGroupSecurityGroup",
        "CustomerManagedResourcesAWSUtilityNodeGroupInstanceProfile",
        "CustomerManagedResourcesAWSUtilitySecurityGroup",
        "CustomerManagedResourcesAWSRedpandaConnectNodeGroupInstanceProfile",
        "CustomerManagedResourcesAWSRedpandaConnectSecurityGroup",
        "CustomerManagedResourcesAWSRpsqlCloudStorageBucket",
        "CustomerManagedResourcesAWSRpsqlNodeGroupInstanceProfile",
        "CustomerManagedResourcesAWSRpsqlSecurityGroup"},
        [arn |-> Required("String")])
  @@ In({"CustomerManagedResources"}, [gcp |-> Replacing(Optional("Object"))])
  @@ In({"CustomerManagedResourcesGCP"},
        Each(Required("Object"), {"agent_service_account", "connector_service_account",
           "console_service_account", "gke_service_account", "redpanda_cluster_service_account"}))
  @@ In({"CustomerManagedResourcesGCPAgentServiceAccount",
        "CustomerManagedResourcesGCPConnectorServiceAccount",
        "CustomerManagedResourcesGCPConsoleServiceAccount",
        "CustomerManagedResourcesGCPGkeServiceAccount",
        "CustomerManagedResourcesGCPRedpandaClusterServiceAccount"},
        [email |-> Replacing(Required("String"))])

\* subnet to redpanda_proxy_seed_port
Schema3 ==
  In({"CustomerManagedResourcesGCP"},
     Each(Required("Object"), {"subnet", "tiered_storage_bucket"})
     @@ [psc_nat_subnet_name |-> Replacing(Optional("String"))])
  @@ In({"CustomerManagedResourcesGCPSubnet"},
        Each(Replacing(Required("String")), {"k8s_master_ipv4_range", "name"})
        @@ Each(Required("Object"), {"secondary_ipv4_range_pods",
              "secondary_ipv4_range_services"}))
  @@ In({"CustomerManagedResourcesGCPSubnetSecondaryIpv4RangePods",
        "CustomerManagedResourcesGCPSubnetSecondaryIpv4RangeServices",
        "CustomerManagedResourcesGCPTieredStorageBucket"},
        [name |-> Replacing(Required("String"))])
  @@ In({"Resource"},
        [gcp_enable_global_access_api_gateway |-> Optional("Bool"),
           read_replica_cluster_ids |-> Optional("List"),
           redpanda_version |-> Replacing(Optional("String")),
           allow_deletion |-> Defaulted(OptionalComputed("Bool")),
           api_gateway_access |-> Pinned(OptionalComputed("String")),
           aws_private_link |-> Pinned(OptionalComputed("Object"))])
  @@ In({"AWSPrivateLink"},
        Each(Required("Bool"), {"connect_console", "enabled"})
        @@ [allowed_principals |-> Required("List"),
              supported_regions |-> Pinned(OptionalComputed("List")),
              status |-> PinnedNonNull(Computed("Object"))])
  @@ In({"AWSPrivateLinkStatus"},
        Each(PinnedNonNull(Computed("Int32")), {"console_port", "kafka_api_node_base_port",
           "kafka_api_seed_port", "redpanda_proxy_node_base_port", "redpanda_proxy_seed_port"}))

\* schema_registry_seed_port to private_endpoint_id
Schema4 ==
  In({"AWSPrivateLinkStatus"},
     Each(PinnedNonNull(Computed("String")), {"service_id", "service_name", "service_state"})
     @@ [schema_registry_seed_port |-> PinnedNonNull(Computed("Int32")),
           vpc_endpoint_connections |-> PinnedNonNull(Computed("List"))])
  @@ In({"AWSPrivateLinkStatusVPCEndpointConnections"},
        Each(PinnedNonNull(Computed("String")), {"connection_id", "id", "owner", "state"})
        @@ Each(PinnedNonNull(Computed("List")), {"dns_entries", "load_balancer_arns"}))
  @@ In({"AWSPrivateLinkStatusVPCEndpointConnectionsDNSEntries"},
        Each(PinnedNonNull(Computed("String")), {"dns_name", "hosted_zone_id"}))
  @@ In({"Resource"}, [azure_private_link |-> Pinned(OptionalComputed("Object"))])
  @@ In({"AzurePrivateLink"},
        Each(Required("Bool"), {"connect_console", "enabled"})
        @@ [allowed_subscriptions |-> Required("List"),
              status |-> PinnedNonNull(Computed("Object"))])
  @@ In({"AzurePrivateLinkStatus"},
        Each(PinnedNonNull(Computed("List")), {"approved_subscriptions",
           "private_endpoint_connections"})
        @@ Each(PinnedNonNull(Computed("Int32")), {"console_port", "kafka_api_node_base_port",
              "kafka_api_seed_port"})
        @@ [dns_a_record |-> PinnedNonNull(Computed("String"))])
  @@ In({"AzurePrivateLinkStatusPrivateEndpointConnections"},
        Each(PinnedNonNull(Computed("String")), {"connection_id", "connection_name",
           "private_endpoint_id"}))

\* private_endpoint_name to enabled
Schema5 ==
  In({"AzurePrivateLinkStatusPrivateEndpointConnections"},
     Each(PinnedNonNull(Computed("String")), {"private_endpoint_name", "status"}))
  @@ In({"AzurePrivateLinkStatus"},
        Each(PinnedNonNull(Computed("Int32")), {"redpanda_proxy_node_base_port",
           "redpanda_proxy_seed_port", "schema_registry_seed_port"})
        @@ Each(PinnedNonNull(Computed("String")), {"service_id", "service_name"}))
  @@ In({"Resource"},
        Each(Pinned(OptionalComputed("Object")), {"cloud_storage", "cluster_configuration",
           "gcp_private_service_connect"})
        @@ [cluster_type |-> Pinned(Replacing(OptionalComputed("String")))])
  @@ In({"CloudStorage"},
        Each(Pinned(OptionalComputed("Object")), {"aws", "azure", "gcp"})
        @@ [skip_destroy |-> Pinned(OptionalComputed("Bool"))])
  @@ In({"CloudStorageAWS"}, [arn |-> PinnedNonNull(Computed("String"))])
  @@ In({"CloudStorageAzure"},
        Each(PinnedNonNull(Computed("String")), {"container_name", "storage_account_name"}))
  @@ In({"CloudStorageGCP"}, [name |-> PinnedNonNull(Computed("String"))])
  @@ In({"ClusterConfiguration"}, [custom_properties_json |-> Pinned(OptionalComputed("String"))])
  @@ In({"GCPPrivateServiceConnect"},
        [consumer_accept_list |-> Required("List"), enabled |-> Required("Bool")])
  @@ In({"GCPPrivateServiceConnectConsumerAcceptList"}, [source |-> Required("String")])

\* global_access_enabled to private_link_sasl
Schema6 ==
  In({"GCPPrivateServiceConnect"},
     [global_access_enabled |-> Required("Bool"), status |-> PinnedNonNull(Computed("Object"))])
  @@ In({"GCPPrivateServiceConnectStatus"},
        Each(PinnedNonNull(Computed("List")), {"connected_endpoints", "dns_a_records"})
        @@ Each(PinnedNonNull(Computed("Int32")), {"kafka_api_node_base_port",
              "kafka_api_seed_port", "redpanda_proxy_node_base_port", "redpanda_proxy_seed_port",
              "schema_registry_seed_port"})
        @@ Each(PinnedNonNull(Computed("String")), {"seed_hostname", "service_attachment"}))
  @@ In({"GCPPrivateServiceConnectStatusConnectedEndpoints"},
        Each(PinnedNonNull(Computed("String")), {"connection_id", "consumer_network", "endpoint",
           "status"}))
  @@ In({"Resource"}, [http_proxy |-> Pinned(OptionalComputed("Object"))])
  @@ In({"HTTPProxy"},
        Each(Pinned(OptionalComputed("Object")), {"mtls", "sasl"})
        @@ [all_urls |-> PinnedNonNull(Computed("Object"))])
  @@ In({"HTTPProxyMtls"},
        Each(Optional("List"), {"ca_certificates_pem", "principal_mapping_rules"})
        @@ [enabled |-> Defaulted(OptionalComputed("Bool"))])
  @@ In({"HTTPProxySasl"}, [enabled |-> Pinned(OptionalComputed("Bool"))])
  @@ In({"HTTPProxyAllUrls"},
        Each(PinnedNonNull(Computed("String")), {"mtls", "private_link_mtls",
           "private_link_sasl"}))

\* sasl to redpanda_node_count
Schema7 ==
  In({"HTTPProxyAllUrls"}, [sasl |-> PinnedNonNull(Computed("String"))])
  @@ In({"HTTPProxy"}, [url |-> PinnedNonNull(Computed("String"))])
  @@ In({"Resource"},
        Each(Pinned(OptionalComputed("Object")), {"kafka_api", "kafka_connect",
           "maintenance_window_config"})
        @@ [redpanda_node_count |-> Pinned(OptionalComputed("Int32"))])
  @@ In({"KafkaAPI"},
        Each(Pinned(OptionalComputed("Object")), {"mtls", "sasl"})
        @@ [all_seed_brokers |-> PinnedNonNull(Computed("Object")),
              seed_brokers |-> PinnedNonNull(Computed("List"))])
  @@ In({"KafkaAPIMtls"},
        Each(Optional("List"), {"ca_certificates_pem", "principal_mapping_rules"})
        @@ [enabled |-> Defaulted(OptionalComputed("Bool"))])
  @@ In({"KafkaAPISasl"}, [enabled |-> Pinned(OptionalComputed("Bool"))])
  @@ In({"KafkaAPIAllSeedBrokers"},
        Each(PinnedNonNull(Computed("String")), {"mtls", "private_link_mtls",
           "private_link_sasl", "sasl"}))
  @@ In({"KafkaConnect"}, [enabled |-> Defaulted(OptionalComputed("Bool"))])
  @@ In({"MaintenanceWindowConfig"},
        [anytime |-> Optional("Bool"), day_hour |-> Optional("Object"),
           unspecified |-> Pinned(Computed("Bool"))])
  @@ In({"MaintenanceWindowConfigDayHour"},
        [day_of_week |-> Optional("String"), hour_of_day |-> Pinned(OptionalComputed("Int32"))])

\* rpsql to gcp_global_access_api_gateway_enabled
Schema8 ==
  In({"Resource"},
     Each(Pinned(OptionalComputed("Object")), {"rpsql", "schema_registry"})
     @@ Each(Pinned(Computed("String")), {"cluster_api_url", "current_redpanda_version",
           "desired_redpanda_version"})
     @@ [tags |-> Pinned(OptionalComputed("Map")), dataplane_api |-> Pinned(Computed("Object")),
           gcp_global_access_api_gateway_enabled |-> GatewayPinned(Computed("Bool"))])
  @@ In({"Rpsql"},
        Each(RpsqlPinned(Computed("String")), {"url", "version"})
        @@ [enabled |-> Pinned(Defaulted(OptionalComputed("Bool"))),
              replicas |-> Pinned(Defaulted(OptionalComputed("Int32"))),
              zones |-> ZonesPinned(OptionalComputed("List"))])
  @@ In({"SchemaRegistry"},
        [mtls |-> Optional("Object"), all_urls |-> PinnedNonNull(Computed("Object")),
           url |-> PinnedNonNull(Computed("String"))])
  @@ In({"SchemaRegistryMtls"},
        Each(Optional("List"), {"ca_certificates_pem", "principal_mapping_rules"})
        @@ [enabled |-> Defaulted(OptionalComputed("Bool"))])
  @@ In({"SchemaRegistryAllUrls"},
        Each(PinnedNonNull(Computed("String")), {"mtls", "private_link_mtls",
           "private_link_sasl", "sasl"}))
  @@ In({"DataplaneAPI"}, [url |-> Pinned(Computed("String"))])

\* gcp_global_access_enabled to timeouts
Schema9 ==
  In({"Resource"},
     Each(Pinned(Computed("String")), {"id", "state"})
     @@ Each(Pinned(Computed("Object")), {"prometheus", "redpanda_console", "state_description"})
     @@ [gcp_global_access_enabled |-> Pinned(Computed("Bool")),
           nat_gateways |-> Pinned(Computed("List")), timeouts |-> Optional("Timeouts")])
  @@ In({"Prometheus", "RedpandaConsole"}, [url |-> Pinned(Computed("String"))])
  @@ In({"StateDescription"},
        [code |-> Pinned(Computed("Int32")), message |-> Pinned(Computed("String"))])
=============================================================================
