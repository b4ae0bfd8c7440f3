---------------------------- MODULE ClusterModel ----------------------------
\* The attributes of a cluster as the Go models declare them.  Models: the type of
\* each attribute.  Types: the type its attr.Type map gives it.  Decoders: the
\* attribute each As or Decode function reads a nested object from.
EXTENDS Tables

\* Resource to CustomerManagedResourcesAWSRedpandaNodeGroupInstanceProfile
Models1 ==
  In({"Resource"},
     Each("String", {"api_gateway_access", "cloud_provider", "cluster_api_url", "cluster_type",
        "connection_type", "current_redpanda_version", "desired_redpanda_version", "id", "name",
        "network_id", "redpanda_version", "region", "resource_group_id", "state",
        "throughput_tier"})
     @@ Each("Object", {"aws_private_link", "azure_private_link", "cloud_storage",
           "cluster_configuration", "customer_managed_resources", "dataplane_api",
           "gcp_private_service_connect", "http_proxy", "kafka_api", "kafka_connect",
           "maintenance_window_config", "prometheus", "redpanda_console", "rpsql",
           "schema_registry", "state_description"})
     @@ Each("Bool", {"allow_deletion", "gcp_enable_global_access_api_gateway",
           "gcp_global_access_api_gateway_enabled", "gcp_global_access_enabled"})
     @@ Each("List", {"nat_gateways", "read_replica_cluster_ids", "zones"})
     @@ [redpanda_node_count |-> "Int32", tags |-> "Map", timeouts |-> "Timeouts"])
  @@ In({"CustomerManagedResources"}, Each("Object", {"aws", "gcp"}))
  @@ In({"CustomerManagedResourcesAWS"},
        Each("Object", {"agent_instance_profile", "cloud_storage_bucket",
           "cluster_security_group", "connectors_node_group_instance_profile",
           "connectors_security_group", "k8s_cluster_role", "node_security_group",
           "permissions_boundary_policy", "redpanda_agent_security_group",
           "redpanda_node_group_instance_profile", "redpanda_node_group_security_group",
           "utility_node_group_instance_profile", "utility_security_group",
           "redpanda_connect_node_group_instance_profile", "redpanda_connect_security_group",
           "rpsql_cloud_storage_bucket", "rpsql_node_group_instance_profile",
           "rpsql_security_group"}))
  @@ In({"CustomerManagedResourcesAWSAgentInstanceProfile",
        "CustomerManagedResourcesAWSCloudStorageBucket",
        "CustomerManagedResourcesAWSClusterSecurityGroup",
        "CustomerManagedResourcesAWSConnectorsNodeGroupInstanceProfile",
        "CustomerManagedResourcesAWSConnectorsSecurityGroup",
        "CustomerManagedResourcesAWSK8sClusterRole", "CustomerManagedResourcesAWSNodeSecurityGroup",
        "CustomerManagedResourcesAWSPermissionsBoundaryPolicy",
        "CustomerManagedResourcesAWSRedpandaAgentSecurityGroup",
        "CustomerManagedResourcesAWSRedpandaNodeGroupInstanceProfile"},
        [arn |-> "String"])

\* CustomerManagedResourcesAWSRedpandaNodeGroupSecurityGroup to AWSPrivateLink
Models2 ==
  In({"CustomerManagedResourcesAWSRedpandaNodeGroupSecurityGroup",
     "CustomerManagedResourcesAWSUtilityNodeGroupInstanceProfile",
     "CustomerManagedResourcesAWSUtilitySecurityGroup",
     "CustomerManagedResourcesAWSRedpandaConnectNodeGroupInstanceProfile",
     "CustomerManagedResourcesAWSRedpandaConnectSecurityGroup",
     "CustomerManagedResourcesAWSRpsqlCloudStorageBucket",
     "CustomerManagedResourcesAWSRpsqlNodeGroupInstanceProfile",
     "CustomerManagedResourcesAWSRpsqlSecurityGroup"},
     [arn |-> "String"])
  @@ In({"CustomerManagedResourcesGCP"},
        Each("Object", {"agent_service_account", "connector_service_account",
           "console_service_account", "gke_service_account", "redpanda_cluster_service_account",
           "subnet", "tiered_storage_bucket"})
        @@ [psc_nat_subnet_name |-> "String"])
  @@ In({"CustomerManagedResourcesGCPAgentServiceAccount",
        "CustomerManagedResourcesGCPConnectorServiceAccount",
        "CustomerManagedResourcesGCPConsoleServiceAccount",
        "CustomerManagedResourcesGCPGkeServiceAccount",
        "CustomerManagedResourcesGCPRedpandaClusterServiceAccount"},
        [email |-> "String"])
  @@ In({"CustomerManagedResourcesGCPSubnet"},
        Each("String", {"k8s_master_ipv4_range", "name"})
        @@ Each("Object", {"secondary_ipv4_range_pods", "secondary_ipv4_range_services"}))
  @@ In({"CustomerManagedResourcesGCPSubnetSecondaryIpv4RangePods",
        "CustomerManagedResourcesGCPSubnetSecondaryIpv4RangeServices",
        "CustomerManagedResourcesGCPTieredStorageBucket"},
        [name |-> "String"])
  @@ In({"AWSPrivateLink"},
        Each("List", {"allowed_principals", "supported_regions"})
        @@ Each("Bool", {"connect_console", "enabled"})
        @@ [status |-> "Object"])

\* AWSPrivateLinkStatus to GCPPrivateServiceConnectStatus
Models3 ==
  In({"AWSPrivateLinkStatus"},
     Each("Int32", {"console_port", "kafka_api_node_base_port", "kafka_api_seed_port",
        "redpanda_proxy_node_base_port", "redpanda_proxy_seed_port", "schema_registry_seed_port"})
     @@ Each("String", {"service_id", "service_name", "service_state"})
     @@ [vpc_endpoint_connections |-> "List"])
  @@ In({"AWSPrivateLinkStatusVPCEndpointConnections"},
        Each("String", {"connection_id", "id", "owner", "state"})
        @@ Each("List", {"dns_entries", "load_balancer_arns"}))
  @@ In({"AWSPrivateLinkStatusVPCEndpointConnectionsDNSEntries"},
        Each("String", {"dns_name", "hosted_zone_id"}))
  @@ In({"AzurePrivateLink"},
        Each("Bool", {"connect_console", "enabled"})
        @@ [allowed_subscriptions |-> "List", status |-> "Object"])
  @@ In({"AzurePrivateLinkStatus"},
        Each("List", {"approved_subscriptions", "private_endpoint_connections"})
        @@ Each("Int32", {"console_port", "kafka_api_node_base_port", "kafka_api_seed_port",
              "redpanda_proxy_node_base_port", "redpanda_proxy_seed_port",
              "schema_registry_seed_port"})
        @@ Each("String", {"dns_a_record", "service_id", "service_name"}))
  @@ In({"AzurePrivateLinkStatusPrivateEndpointConnections"},
        Each("String", {"connection_id", "connection_name", "private_endpoint_id",
           "private_endpoint_name", "status"}))
  @@ In({"CloudStorage"}, Each("Object", {"aws", "azure", "gcp"}) @@ [skip_destroy |-> "Bool"])
  @@ In({"CloudStorageAWS"}, [arn |-> "String"])
  @@ In({"CloudStorageAzure"}, Each("String", {"container_name", "storage_account_name"}))
  @@ In({"CloudStorageGCP"}, [name |-> "String"])
  @@ In({"ClusterConfiguration"}, [custom_properties_json |-> "String"])
  @@ In({"GCPPrivateServiceConnect"},
        Each("Bool", {"enabled", "global_access_enabled"})
        @@ [consumer_accept_list |-> "List", status |-> "Object"])
  @@ In({"GCPPrivateServiceConnectConsumerAcceptList"}, [source |-> "String"])
  @@ In({"GCPPrivateServiceConnectStatus"},
        Each("List", {"connected_endpoints", "dns_a_records"})
        @@ Each("Int32", {"kafka_api_node_base_port", "kafka_api_seed_port",
              "redpanda_proxy_node_base_port", "redpanda_proxy_seed_port",
              "schema_registry_seed_port"})
        @@ Each("String", {"seed_hostname", "service_attachment"}))

\* GCPPrivateServiceConnectStatusConnectedEndpoints to SchemaRegistryAllUrls
Models4 ==
  In({"GCPPrivateServiceConnectStatusConnectedEndpoints"},
     Each("String", {"connection_id", "consumer_network", "endpoint", "status"}))
  @@ In({"HTTPProxy"}, Each("Object", {"mtls", "sasl", "all_urls"}) @@ [url |-> "String"])
  @@ In({"HTTPProxyMtls", "KafkaAPIMtls", "SchemaRegistryMtls"},
        Each("List", {"ca_certificates_pem", "principal_mapping_rules"})
        @@ [enabled |-> "Bool"])
  @@ In({"HTTPProxySasl", "KafkaAPISasl", "KafkaConnect"}, [enabled |-> "Bool"])
  @@ In({"HTTPProxyAllUrls", "KafkaAPIAllSeedBrokers", "SchemaRegistryAllUrls"},
        Each("String", {"mtls", "private_link_mtls", "private_link_sasl", "sasl"}))
  @@ In({"KafkaAPI"},
        Each("Object", {"mtls", "sasl", "all_seed_brokers"})
        @@ [seed_brokers |-> "List"])
  @@ In({"MaintenanceWindowConfig"},
        Each("Bool", {"anytime", "unspecified"})
        @@ [day_hour |-> "Object"])
  @@ In({"MaintenanceWindowConfigDayHour"}, [day_of_week |-> "String", hour_of_day |-> "Int32"])
  @@ In({"Rpsql"},
        Each("String", {"url", "version"})
        @@ [enabled |-> "Bool", replicas |-> "Int32", zones |-> "List"])
  @@ In({"SchemaRegistry"}, Each("Object", {"mtls", "all_urls"}) @@ [url |-> "String"])

\* DataplaneAPI to StateDescription
Models5 ==
  In({"DataplaneAPI", "Prometheus", "RedpandaConsole"}, [url |-> "String"])
  @@ In({"StateDescription"}, [code |-> "Int32", message |-> "String"])

\* CustomerManagedResources to CustomerManagedResourcesAWSRedpandaConnectNodeGroupInstanceProfile
Types1 ==
  In({"CustomerManagedResources"}, Each("Object", {"aws", "gcp"}))
  @@ In({"CustomerManagedResourcesAWS"},
        Each("Object", {"agent_instance_profile", "cloud_storage_bucket",
           "cluster_security_group", "connectors_node_group_instance_profile",
           "connectors_security_group", "k8s_cluster_role", "node_security_group",
           "permissions_boundary_policy", "redpanda_agent_security_group",
           "redpanda_node_group_instance_profile", "redpanda_node_group_security_group",
           "utility_node_group_instance_profile", "utility_security_group",
           "redpanda_connect_node_group_instance_profile", "redpanda_connect_security_group",
           "rpsql_cloud_storage_bucket", "rpsql_node_group_instance_profile",
           "rpsql_security_group"}))
  @@ In({"CustomerManagedResourcesAWSAgentInstanceProfile",
        "CustomerManagedResourcesAWSCloudStorageBucket",
        "CustomerManagedResourcesAWSClusterSecurityGroup",
        "CustomerManagedResourcesAWSConnectorsNodeGroupInstanceProfile",
        "CustomerManagedResourcesAWSConnectorsSecurityGroup",
        "CustomerManagedResourcesAWSK8sClusterRole", "CustomerManagedResourcesAWSNodeSecurityGroup",
        "CustomerManagedResourcesAWSPermissionsBoundaryPolicy",
        "CustomerManagedResourcesAWSRedpandaAgentSecurityGroup",
        "CustomerManagedResourcesAWSRedpandaNodeGroupInstanceProfile",
        "CustomerManagedResourcesAWSRedpandaNodeGroupSecurityGroup",
        "CustomerManagedResourcesAWSUtilityNodeGroupInstanceProfile",
        "CustomerManagedResourcesAWSUtilitySecurityGroup",
        "CustomerManagedResourcesAWSRedpandaConnectNodeGroupInstanceProfile"},
        [arn |-> "String"])

\* CustomerManagedResourcesAWSRedpandaConnectSecurityGroup to AWSPrivateLinkStatus
Types2 ==
  In({"CustomerManagedResourcesAWSRedpandaConnectSecurityGroup",
     "CustomerManagedResourcesAWSRpsqlCloudStorageBucket",
     "CustomerManagedResourcesAWSRpsqlNodeGroupInstanceProfile",
     "CustomerManagedResourcesAWSRpsqlSecurityGroup"},
     [arn |-> "String"])
  @@ In({"CustomerManagedResourcesGCP"},
        Each("Object", {"agent_service_account", "connector_service_account",
           "console_service_account", "gke_service_account", "redpanda_cluster_service_account",
           "subnet", "tiered_storage_bucket"})
        @@ [psc_nat_subnet_name |-> "String"])
  @@ In({"CustomerManagedResourcesGCPAgentServiceAccount",
        "CustomerManagedResourcesGCPConnectorServiceAccount",
        "CustomerManagedResourcesGCPConsoleServiceAccount",
        "CustomerManagedResourcesGCPGkeServiceAccount",
        "CustomerManagedResourcesGCPRedpandaClusterServiceAccount"},
        [email |-> "String"])
  @@ In({"CustomerManagedResourcesGCPSubnet"},
        Each("String", {"k8s_master_ipv4_range", "name"})
        @@ Each("Object", {"secondary_ipv4_range_pods", "secondary_ipv4_range_services"}))
  @@ In({"CustomerManagedResourcesGCPSubnetSecondaryIpv4RangePods",
        "CustomerManagedResourcesGCPSubnetSecondaryIpv4RangeServices",
        "CustomerManagedResourcesGCPTieredStorageBucket"},
        [name |-> "String"])
  @@ In({"AWSPrivateLink"},
        Each("List", {"allowed_principals", "supported_regions"})
        @@ Each("Bool", {"connect_console", "enabled"})
        @@ [status |-> "Object"])
  @@ In({"AWSPrivateLinkStatus"},
        Each("Int32", {"console_port", "kafka_api_node_base_port", "kafka_api_seed_port",
           "redpanda_proxy_node_base_port", "redpanda_proxy_seed_port",
           "schema_registry_seed_port"})
        @@ Each("String", {"service_id", "service_name", "service_state"})
        @@ [vpc_endpoint_connections |-> "List"])

\* AWSPrivateLinkStatusVPCEndpointConnections to GCPPrivateServiceConnectStatus
Types3 ==
  In({"AWSPrivateLinkStatusVPCEndpointConnections"},
     Each("String", {"connection_id", "id", "owner", "state"})
     @@ Each("List", {"dns_entries", "load_balancer_arns"}))
  @@ In({"AWSPrivateLinkStatusVPCEndpointConnectionsDNSEntries"},
        Each("String", {"dns_name", "hosted_zone_id"}))
  @@ In({"AzurePrivateLink"},
        Each("Bool", {"connect_console", "enabled"})
        @@ [allowed_subscriptions |-> "List", status |-> "Object"])
  @@ In({"AzurePrivateLinkStatus"},
        Each("List", {"approved_subscriptions", "private_endpoint_connections"})
        @@ Each("Int32", {"console_port", "kafka_api_node_base_port", "kafka_api_seed_port",
              "redpanda_proxy_node_base_port", "redpanda_proxy_seed_port",
              "schema_registry_seed_port"})
        @@ Each("String", {"dns_a_record", "service_id", "service_name"}))
  @@ In({"AzurePrivateLinkStatusPrivateEndpointConnections"},
        Each("String", {"connection_id", "connection_name", "private_endpoint_id",
           "private_endpoint_name", "status"}))
  @@ In({"CloudStorage"}, Each("Object", {"aws", "azure", "gcp"}) @@ [skip_destroy |-> "Bool"])
  @@ In({"CloudStorageAWS"}, [arn |-> "String"])
  @@ In({"CloudStorageAzure"}, Each("String", {"container_name", "storage_account_name"}))
  @@ In({"CloudStorageGCP"}, [name |-> "String"])
  @@ In({"ClusterConfiguration"}, [custom_properties_json |-> "String"])
  @@ In({"GCPPrivateServiceConnect"},
        Each("Bool", {"enabled", "global_access_enabled"})
        @@ [consumer_accept_list |-> "List", status |-> "Object"])
  @@ In({"GCPPrivateServiceConnectConsumerAcceptList"}, [source |-> "String"])
  @@ In({"GCPPrivateServiceConnectStatus"},
        Each("List", {"connected_endpoints", "dns_a_records"})
        @@ Each("Int32", {"kafka_api_node_base_port", "kafka_api_seed_port",
              "redpanda_proxy_node_base_port", "redpanda_proxy_seed_port",
              "schema_registry_seed_port"})
        @@ Each("String", {"seed_hostname", "service_attachment"}))

\* GCPPrivateServiceConnectStatusConnectedEndpoints to SchemaRegistryMtls
Types4 ==
  In({"GCPPrivateServiceConnectStatusConnectedEndpoints"},
     Each("String", {"connection_id", "consumer_network", "endpoint", "status"}))
  @@ In({"HTTPProxy"}, Each("Object", {"mtls", "sasl", "all_urls"}) @@ [url |-> "String"])
  @@ In({"HTTPProxyMtls", "KafkaAPIMtls", "SchemaRegistryMtls"},
        Each("List", {"ca_certificates_pem", "principal_mapping_rules"})
        @@ [enabled |-> "Bool"])
  @@ In({"HTTPProxySasl", "KafkaAPISasl", "KafkaConnect"}, [enabled |-> "Bool"])
  @@ In({"HTTPProxyAllUrls", "KafkaAPIAllSeedBrokers"},
        Each("String", {"mtls", "private_link_mtls", "private_link_sasl", "sasl"}))
  @@ In({"KafkaAPI"},
        Each("Object", {"mtls", "sasl", "all_seed_brokers"})
        @@ [seed_brokers |-> "List"])
  @@ In({"MaintenanceWindowConfig"},
        Each("Bool", {"anytime", "unspecified"})
        @@ [day_hour |-> "Object"])
  @@ In({"MaintenanceWindowConfigDayHour"}, [day_of_week |-> "String", hour_of_day |-> "Int32"])
  @@ In({"Rpsql"},
        Each("String", {"url", "version"})
        @@ [enabled |-> "Bool", replicas |-> "Int32", zones |-> "List"])
  @@ In({"SchemaRegistry"}, Each("Object", {"mtls", "all_urls"}) @@ [url |-> "String"])

\* SchemaRegistryAllUrls to StateDescription
Types5 ==
  In({"SchemaRegistryAllUrls"},
     Each("String", {"mtls", "private_link_mtls", "private_link_sasl", "sasl"}))
  @@ In({"DataplaneAPI", "Prometheus", "RedpandaConsole"}, [url |-> "String"])
  @@ In({"StateDescription"}, [code |-> "Int32", message |-> "String"])

\* AsCustomerManagedResources to AsGCPPrivateServiceConnect
Decoders1 ==
  [CustomerManagedResources |-> <<"Resource", "customer_managed_resources">>,
   AWSPrivateLink |-> <<"Resource", "aws_private_link">>,
   AzurePrivateLink |-> <<"Resource", "azure_private_link">>,
   CloudStorage |-> <<"Resource", "cloud_storage">>,
   ClusterConfiguration |-> <<"Resource", "cluster_configuration">>,
   GCPPrivateServiceConnect |-> <<"Resource", "gcp_private_service_connect">>]

\* AsHTTPProxy to AsSchemaRegistry
Decoders2 ==
  [HTTPProxy |-> <<"Resource", "http_proxy">>, KafkaAPI |-> <<"Resource", "kafka_api">>,
   KafkaConnect |-> <<"Resource", "kafka_connect">>,
   MaintenanceWindowConfig |-> <<"Resource", "maintenance_window_config">>,
   Rpsql |-> <<"Resource", "rpsql">>, SchemaRegistry |-> <<"Resource", "schema_registry">>]

\* AsDataplaneAPI to DecodeCustomerManagedResourcesAWSAgentInstanceProfile
Decoders3 ==
  [DataplaneAPI |-> <<"Resource", "dataplane_api">>, Prometheus |-> <<"Resource", "prometheus">>,
   RedpandaConsole |-> <<"Resource", "redpanda_console">>,
   StateDescription |-> <<"Resource", "state_description">>,
   CustomerManagedResourcesAWS |-> <<"CustomerManagedResources", "aws">>,
   CustomerManagedResourcesAWSAgentInstanceProfile |-> <<"CustomerManagedResourcesAWS", "agent_instance_profile">>]

\* DecodeCustomerManagedResourcesAWSCloudStorageBucket to DecodeCustomerManagedResourcesAWSPermissionsBoundaryPolicy
Decoders4 ==
  [CustomerManagedResourcesAWSCloudStorageBucket |-> <<"CustomerManagedResourcesAWS", "cloud_storage_bucket">>,
   CustomerManagedResourcesAWSClusterSecurityGroup |-> <<"CustomerManagedResourcesAWS", "cluster_security_group">>,
   CustomerManagedResourcesAWSConnectorsNodeGroupInstanceProfile |-> <<"CustomerManagedResourcesAWS", "connectors_node_group_instance_profile">>,
   CustomerManagedResourcesAWSConnectorsSecurityGroup |-> <<"CustomerManagedResourcesAWS", "connectors_security_group">>,
   CustomerManagedResourcesAWSK8sClusterRole |-> <<"CustomerManagedResourcesAWS", "k8s_cluster_role">>,
   CustomerManagedResourcesAWSNodeSecurityGroup |-> <<"CustomerManagedResourcesAWS", "node_security_group">>,
   CustomerManagedResourcesAWSPermissionsBoundaryPolicy |-> <<"CustomerManagedResourcesAWS", "permissions_boundary_policy">>]

\* DecodeCustomerManagedResourcesAWSRedpandaAgentSecurityGroup to DecodeCustomerManagedResourcesAWSRedpandaConnectSecurityGroup
Decoders5 ==
  [CustomerManagedResourcesAWSRedpandaAgentSecurityGroup |-> <<"CustomerManagedResourcesAWS", "redpanda_agent_security_group">>,
   CustomerManagedResourcesAWSRedpandaNodeGroupInstanceProfile |-> <<"CustomerManagedResourcesAWS", "redpanda_node_group_instance_profile">>,
   CustomerManagedResourcesAWSRedpandaNodeGroupSecurityGroup |-> <<"CustomerManagedResourcesAWS", "redpanda_node_group_security_group">>,
   CustomerManagedResourcesAWSUtilityNodeGroupInstanceProfile |-> <<"CustomerManagedResourcesAWS", "utility_node_group_instance_profile">>,
   CustomerManagedResourcesAWSUtilitySecurityGroup |-> <<"CustomerManagedResourcesAWS", "utility_security_group">>,
   CustomerManagedResourcesAWSRedpandaConnectNodeGroupInstanceProfile |-> <<"CustomerManagedResourcesAWS", "redpanda_connect_node_group_instance_profile">>,
   CustomerManagedResourcesAWSRedpandaConnectSecurityGroup |-> <<"CustomerManagedResourcesAWS", "redpanda_connect_security_group">>]

\* DecodeCustomerManagedResourcesAWSRpsqlCloudStorageBucket to DecodeCustomerManagedResourcesGCPConsoleServiceAccount
Decoders6 ==
  [CustomerManagedResourcesAWSRpsqlCloudStorageBucket |-> <<"CustomerManagedResourcesAWS", "rpsql_cloud_storage_bucket">>,
   CustomerManagedResourcesAWSRpsqlNodeGroupInstanceProfile |-> <<"CustomerManagedResourcesAWS", "rpsql_node_group_instance_profile">>,
   CustomerManagedResourcesAWSRpsqlSecurityGroup |-> <<"CustomerManagedResourcesAWS", "rpsql_security_group">>,
   CustomerManagedResourcesGCP |-> <<"CustomerManagedResources", "gcp">>,
   CustomerManagedResourcesGCPAgentServiceAccount |-> <<"CustomerManagedResourcesGCP", "agent_service_account">>,
   CustomerManagedResourcesGCPConnectorServiceAccount |-> <<"CustomerManagedResourcesGCP", "connector_service_account">>,
   CustomerManagedResourcesGCPConsoleServiceAccount |-> <<"CustomerManagedResourcesGCP", "console_service_account">>]

\* DecodeCustomerManagedResourcesGCPGkeServiceAccount to DecodeAWSPrivateLinkStatus
Decoders7 ==
  [CustomerManagedResourcesGCPGkeServiceAccount |-> <<"CustomerManagedResourcesGCP", "gke_service_account">>,
   CustomerManagedResourcesGCPRedpandaClusterServiceAccount |-> <<"CustomerManagedResourcesGCP", "redpanda_cluster_service_account">>,
   CustomerManagedResourcesGCPSubnet |-> <<"CustomerManagedResourcesGCP", "subnet">>,
   CustomerManagedResourcesGCPSubnetSecondaryIpv4RangePods |-> <<"CustomerManagedResourcesGCPSubnet", "secondary_ipv4_range_pods">>,
   CustomerManagedResourcesGCPSubnetSecondaryIpv4RangeServices |-> <<"CustomerManagedResourcesGCPSubnet", "secondary_ipv4_range_services">>,
   CustomerManagedResourcesGCPTieredStorageBucket |-> <<"CustomerManagedResourcesGCP", "tiered_storage_bucket">>,
   AWSPrivateLinkStatus |-> <<"AWSPrivateLink", "status">>]

\* DecodeAzurePrivateLinkStatus to DecodeHTTPProxySasl
Decoders8 ==
  [AzurePrivateLinkStatus |-> <<"AzurePrivateLink", "status">>,
   CloudStorageAWS |-> <<"CloudStorage", "aws">>, CloudStorageAzure |-> <<"CloudStorage", "azure">>,
   CloudStorageGCP |-> <<"CloudStorage", "gcp">>,
   GCPPrivateServiceConnectStatus |-> <<"GCPPrivateServiceConnect", "status">>,
   HTTPProxyMtls |-> <<"HTTPProxy", "mtls">>, HTTPProxySasl |-> <<"HTTPProxy", "sasl">>]

\* DecodeHTTPProxyAllUrls to DecodeSchemaRegistryAllUrls
Decoders9 ==
  [HTTPProxyAllUrls |-> <<"HTTPProxy", "all_urls">>, KafkaAPIMtls |-> <<"KafkaAPI", "mtls">>,
   KafkaAPISasl |-> <<"KafkaAPI", "sasl">>,
   KafkaAPIAllSeedBrokers |-> <<"KafkaAPI", "all_seed_brokers">>,
   MaintenanceWindowConfigDayHour |-> <<"MaintenanceWindowConfig", "day_hour">>,
   SchemaRegistryMtls |-> <<"SchemaRegistry", "mtls">>,
   SchemaRegistryAllUrls |-> <<"SchemaRegistry", "all_urls">>]
=============================================================================
