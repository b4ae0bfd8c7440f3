------------------------- MODULE ClusterDataSource -------------------------
\* The data source of a cluster: its models, conversions and schema, described as
\* those of the resource are.
EXTENDS Tables

\* Resource to CustomerManagedResources
DataModels1 ==
  In({"Resource"},
     Each("Object", {"aws_private_link", "azure_private_link", "cluster_configuration",
        "customer_managed_resources", "dataplane_api", "gcp_private_service_connect", "http_proxy",
        "kafka_api", "kafka_connect", "maintenance_window_config", "prometheus", "redpanda_console",
        "rpsql", "schema_registry", "state_description"})
     @@ Each("Bool", {"allow_deletion", "gcp_global_access_api_gateway_enabled",
           "gcp_global_access_enabled"})
     @@ Each("String", {"cloud_provider", "cluster_api_url", "cluster_type", "connection_type",
           "id", "name", "network_id", "redpanda_version", "region", "resource_group_id", "state",
           "throughput_tier"})
     @@ Each("List", {"read_replica_cluster_ids", "zones"})
     @@ [tags |-> "Map", timeouts |-> "Timeouts"])
  @@ In({"AWSPrivateLink"},
        Each("List", {"allowed_principals", "supported_regions"})
        @@ Each("Bool", {"connect_console", "enabled"})
        @@ [status |-> "Object"])
  @@ In({"AWSPrivateLinkStatus"},
        Each("Int32", {"console_port", "kafka_api_node_base_port", "kafka_api_seed_port",
           "redpanda_proxy_node_base_port", "redpanda_proxy_seed_port",
           "schema_registry_seed_port"})
        @@ Each("String", {"service_id", "service_name", "service_state"})
        @@ [vpc_endpoint_connections |-> "List"])
  @@ In({"AWSPrivateLinkStatusVPCEndpointConnections"},
        Each("String", {"connection_id", "id", "owner", "state"})
        @@ Each("List", {"dns_entries", "load_balancer_arns"}))
  @@ In({"AWSPrivateLinkStatusVPCEndpointConnectionsDNSEntries"},
        Each("String", {"dns_name", "hosted_zone_id"}))
  @@ In({"AzurePrivateLink"},
        Each("Bool", {"connect_console", "enabled"})
        @@ [allowed_subscriptions |-> "List", status |-> "Object"])
  @@ In({"AzurePrivateLinkStatus"},
        Each("List", {"approved_subscriptions", "private_endpoint_connections"})
        @@ Each("Int32", {"console_port", "kafka_api_node_base_port", "kafka_api_seed_port",
              "redpanda_proxy_node_base_port", "redpanda_proxy_seed_port",
              "schema_registry_seed_port"})
        @@ Each("String", {"dns_a_record", "service_id", "service_name"}))
  @@ In({"AzurePrivateLinkStatusPrivateEndpointConnections"},
        Each("String", {"connection_id", "connection_name", "private_endpoint_id",
           "private_endpoint_name", "status"}))
  @@ In({"ClusterConfiguration"}, [custom_properties_json |-> "String"])
  @@ In({"CustomerManagedResources"}, Each("Object", {"aws", "gcp"}))

\* CustomerManagedResourcesAWS to CustomerManagedResourcesAWSUtilitySecurityGroup
DataModels2 ==
  In({"CustomerManagedResourcesAWS"},
     Each("Object", {"agent_instance_profile", "cloud_storage_bucket", "cluster_security_group",
        "connectors_node_group_instance_profile", "connectors_security_group", "k8s_cluster_role",
        "node_security_group", "permissions_boundary_policy", "redpanda_agent_security_group",
        "redpanda_connect_node_group_instance_profile", "redpanda_connect_security_group",
        "redpanda_node_group_instance_profile", "redpanda_node_group_security_group",
        "rpsql_cloud_storage_bucket", "rpsql_node_group_instance_profile", "rpsql_security_group",
        "utility_node_group_instance_profile", "utility_security_group"}))
  @@ In({"CustomerManagedResourcesAWSAgentInstanceProfile",
        "CustomerManagedResourcesAWSCloudStorageBucket",
        "CustomerManagedResourcesAWSClusterSecurityGroup",
        "CustomerManagedResourcesAWSConnectorsNodeGroupInstanceProfile",
        "CustomerManagedResourcesAWSConnectorsSecurityGroup",
        "CustomerManagedResourcesAWSK8sClusterRole", "CustomerManagedResourcesAWSNodeSecurityGroup",
        "CustomerManagedResourcesAWSPermissionsBoundaryPolicy",
        "CustomerManagedResourcesAWSRedpandaAgentSecurityGroup",
        "CustomerManagedResourcesAWSRedpandaConnectNodeGroupInstanceProfile",
        "CustomerManagedResourcesAWSRedpandaConnectSecurityGroup",
        "CustomerManagedResourcesAWSRedpandaNodeGroupInstanceProfile",
        "CustomerManagedResourcesAWSRedpandaNodeGroupSecurityGroup",
        "CustomerManagedResourcesAWSRpsqlCloudStorageBucket",
        "CustomerManagedResourcesAWSRpsqlNodeGroupInstanceProfile",
        "CustomerManagedResourcesAWSRpsqlSecurityGroup",
        "CustomerManagedResourcesAWSUtilityNodeGroupInstanceProfile",
        "CustomerManagedResourcesAWSUtilitySecurityGroup"},
        [arn |-> "String"])

\* CustomerManagedResourcesGCP to HTTPProxyAllUrls
DataModels3 ==
  In({"CustomerManagedResourcesGCP"},
     Each("Object", {"agent_service_account", "connector_service_account",
        "console_service_account", "gke_service_account", "redpanda_cluster_service_account",
        "subnet", "tiered_storage_bucket"})
     @@ [psc_nat_subnet_name |-> "String"])
  @@ In({"CustomerManagedResourcesGCPAgentServiceAccount",
        "CustomerManagedResourcesGCPConnectorServiceAccount",
        "CustomerManagedResourcesGCPConsoleServiceAccount",
        "CustomerManagedResourcesGCPGkeServiceAccount",
        "CustomerManagedResourcesGCPRedpandaClusterServiceAccount"},
        [email |-> "String"])
  @@ In({"CustomerManagedResourcesGCPSubnet"},
        Each("String", {"k8s_master_ipv4_range", "name"})
        @@ Each("Object", {"secondary_ipv4_range_pods", "secondary_ipv4_range_services"}))
  @@ In({"CustomerManagedResourcesGCPSubnetSecondaryIpv4RangePods",
        "CustomerManagedResourcesGCPSubnetSecondaryIpv4RangeServices",
        "CustomerManagedResourcesGCPTieredStorageBucket"},
        [name |-> "String"])
  @@ In({"DataplaneAPI"}, [url |-> "String"])
  @@ In({"GCPPrivateServiceConnect"},
        Each("Bool", {"enabled", "global_access_enabled"})
        @@ [consumer_accept_list |-> "List", status |-> "Object"])
  @@ In({"GCPPrivateServiceConnectConsumerAcceptList"}, [source |-> "String"])
  @@ In({"GCPPrivateServiceConnectStatus"},
        Each("List", {"connected_endpoints", "dns_a_records"})
        @@ Each("Int32", {"kafka_api_node_base_port", "kafka_api_seed_port",
              "redpanda_proxy_node_base_port", "redpanda_proxy_seed_port",
              "schema_registry_seed_port"})
        @@ Each("String", {"seed_hostname", "service_attachment"}))
  @@ In({"GCPPrivateServiceConnectStatusConnectedEndpoints"},
        Each("String", {"connection_id", "consumer_network", "endpoint", "status"}))
  @@ In({"HTTPProxy"}, Each("Object", {"all_urls", "mtls", "sasl"}) @@ [url |-> "String"])
  @@ In({"HTTPProxyAllUrls"},
        Each("String", {"mtls", "private_link_mtls", "private_link_sasl", "sasl"}))

\* HTTPProxyMtls to StateDescription
DataModels4 ==
  In({"HTTPProxyMtls", "KafkaAPIMtls", "SchemaRegistryMtls"},
     Each("List", {"ca_certificates_pem", "principal_mapping_rules"})
     @@ [enabled |-> "Bool"])
  @@ In({"HTTPProxySasl", "KafkaAPISasl", "KafkaConnect"}, [enabled |-> "Bool"])
  @@ In({"KafkaAPI"},
        Each("Object", {"all_seed_brokers", "mtls", "sasl"})
        @@ [seed_brokers |-> "List"])
  @@ In({"KafkaAPIAllSeedBrokers", "SchemaRegistryAllUrls"},
        Each("String", {"mtls", "private_link_mtls", "private_link_sasl", "sasl"}))
  @@ In({"MaintenanceWindowConfig"},
        Each("Bool", {"anytime", "unspecified"})
        @@ [day_hour |-> "Object"])
  @@ In({"MaintenanceWindowConfigDayHour"}, [day_of_week |-> "String", hour_of_day |-> "Int32"])
  @@ In({"Prometheus", "RedpandaConsole"}, [url |-> "String"])
  @@ In({"Rpsql"},
        Each("String", {"url", "version"})
        @@ [enabled |-> "Bool", replicas |-> "Int32", zones |-> "List"])
  @@ In({"SchemaRegistry"}, Each("Object", {"all_urls", "mtls"}) @@ [url |-> "String"])
  @@ In({"StateDescription"}, [code |-> "Int32", message |-> "String"])

\* AWSPrivateLink to CustomerManagedResourcesAWSCloudStorageBucket
DataTypes1 ==
  In({"AWSPrivateLink"},
     Each("List", {"allowed_principals", "supported_regions"})
     @@ Each("Bool", {"connect_console", "enabled"})
     @@ [status |-> "Object"])
  @@ In({"AWSPrivateLinkStatus"},
        Each("Int32", {"console_port", "kafka_api_node_base_port", "kafka_api_seed_port",
           "redpanda_proxy_node_base_port", "redpanda_proxy_seed_port",
           "schema_registry_seed_port"})
        @@ Each("String", {"service_id", "service_name", "service_state"})
        @@ [vpc_endpoint_connections |-> "List"])
  @@ In({"AWSPrivateLinkStatusVPCEndpointConnections"},
        Each("String", {"connection_id", "id", "owner", "state"})
        @@ Each("List", {"dns_entries", "load_balancer_arns"}))
  @@ In({"AWSPrivateLinkStatusVPCEndpointConnectionsDNSEntries"},
        Each("String", {"dns_name", "hosted_zone_id"}))
  @@ In({"AzurePrivateLink"},
        Each("Bool", {"connect_console", "enabled"})
        @@ [allowed_subscriptions |-> "List", status |-> "Object"])
  @@ In({"AzurePrivateLinkStatus"},
        Each("List", {"approved_subscriptions", "private_endpoint_connections"})
        @@ Each("Int32", {"console_port", "kafka_api_node_base_port", "kafka_api_seed_port",
              "redpanda_proxy_node_base_port", "redpanda_proxy_seed_port",
              "schema_registry_seed_port"})
        @@ Each("String", {"dns_a_record", "service_id", "service_name"}))
  @@ In({"AzurePrivateLinkStatusPrivateEndpointConnections"},
        Each("String", {"connection_id", "connection_name", "private_endpoint_id",
           "private_endpoint_name", "status"}))
  @@ In({"ClusterConfiguration"}, [custom_properties_json |-> "String"])
  @@ In({"CustomerManagedResources"}, Each("Object", {"aws", "gcp"}))
  @@ In({"CustomerManagedResourcesAWS"},
        Each("Object", {"agent_instance_profile", "cloud_storage_bucket",
           "cluster_security_group", "connectors_node_group_instance_profile",
           "connectors_security_group", "k8s_cluster_role", "node_security_group",
           "permissions_boundary_policy", "redpanda_agent_security_group",
           "redpanda_connect_node_group_instance_profile", "redpanda_connect_security_group",
           "redpanda_node_group_instance_profile", "redpanda_node_group_security_group",
           "rpsql_cloud_storage_bucket", "rpsql_node_group_instance_profile",
           "rpsql_security_group", "utility_node_group_instance_profile", "utility_security_group"}))
  @@ In({"CustomerManagedResourcesAWSAgentInstanceProfile",
        "CustomerManagedResourcesAWSCloudStorageBucket"},
        [arn |-> "String"])

\* CustomerManagedResourcesAWSClusterSecurityGroup to CustomerManagedResourcesGCPAgentServiceAccount
DataTypes2 ==
  In({"CustomerManagedResourcesAWSClusterSecurityGroup",
     "CustomerManagedResourcesAWSConnectorsNodeGroupInstanceProfile",
     "CustomerManagedResourcesAWSConnectorsSecurityGroup",
     "CustomerManagedResourcesAWSK8sClusterRole", "CustomerManagedResourcesAWSNodeSecurityGroup",
     "CustomerManagedResourcesAWSPermissionsBoundaryPolicy",
     "CustomerManagedResourcesAWSRedpandaAgentSecurityGroup",
     "CustomerManagedResourcesAWSRedpandaConnectNodeGroupInstanceProfile",
     "CustomerManagedResourcesAWSRedpandaConnectSecurityGroup",
     "CustomerManagedResourcesAWSRedpandaNodeGroupInstanceProfile",
     "CustomerManagedResourcesAWSRedpandaNodeGroupSecurityGroup",
     "CustomerManagedResourcesAWSRpsqlCloudStorageBucket",
     "CustomerManagedResourcesAWSRpsqlNodeGroupInstanceProfile",
     "CustomerManagedResourcesAWSRpsqlSecurityGroup",
     "CustomerManagedResourcesAWSUtilityNodeGroupInstanceProfile",
     "CustomerManagedResourcesAWSUtilitySecurityGroup"},
     [arn |-> "String"])
  @@ In({"CustomerManagedResourcesGCP"},
        Each("Object", {"agent_service_account", "connector_service_account",
           "console_service_account", "gke_service_account", "redpanda_cluster_service_account",
           "subnet", "tiered_storage_bucket"})
        @@ [psc_nat_subnet_name |-> "String"])
  @@ In({"CustomerManagedResourcesGCPAgentServiceAccount"}, [email |-> "String"])

\* CustomerManagedResourcesGCPConnectorServiceAccount to HTTPProxyAllUrls
DataTypes3 ==
  In({"CustomerManagedResourcesGCPConnectorServiceAccount",
     "CustomerManagedResourcesGCPConsoleServiceAccount",
     "CustomerManagedResourcesGCPGkeServiceAccount",
     "CustomerManagedResourcesGCPRedpandaClusterServiceAccount"},
     [email |-> "String"])
  @@ In({"CustomerManagedResourcesGCPSubnet"},
        Each("String", {"k8s_master_ipv4_range", "name"})
        @@ Each("Object", {"secondary_ipv4_range_pods", "secondary_ipv4_range_services"}))
  @@ In({"CustomerManagedResourcesGCPSubnetSecondaryIpv4RangePods",
        "CustomerManagedResourcesGCPSubnetSecondaryIpv4RangeServices",
        "CustomerManagedResourcesGCPTieredStorageBucket"},
        [name |-> "String"])
  @@ In({"DataplaneAPI"}, [url |-> "String"])
  @@ In({"GCPPrivateServiceConnect"},
        Each("Bool", {"enabled", "global_access_enabled"})
        @@ [consumer_accept_list |-> "List", status |-> "Object"])
  @@ In({"GCPPrivateServiceConnectConsumerAcceptList"}, [source |-> "String"])
  @@ In({"GCPPrivateServiceConnectStatus"},
        Each("List", {"connected_endpoints", "dns_a_records"})
        @@ Each("Int32", {"kafka_api_node_base_port", "kafka_api_seed_port",
              "redpanda_proxy_node_base_port", "redpanda_proxy_seed_port",
              "schema_registry_seed_port"})
        @@ Each("String", {"seed_hostname", "service_attachment"}))
  @@ In({"GCPPrivateServiceConnectStatusConnectedEndpoints"},
        Each("String", {"connection_id", "consumer_network", "endpoint", "status"}))
  @@ In({"HTTPProxy"}, Each("Object", {"all_urls", "mtls", "sasl"}) @@ [url |-> "String"])
  @@ In({"HTTPProxyAllUrls"},
        Each("String", {"mtls", "private_link_mtls", "private_link_sasl", "sasl"}))

\* HTTPProxyMtls to SchemaRegistryMtls
DataTypes4 ==
  In({"HTTPProxyMtls", "KafkaAPIMtls", "SchemaRegistryMtls"},
     Each("List", {"ca_certificates_pem", "principal_mapping_rules"})
     @@ [enabled |-> "Bool"])
  @@ In({"HTTPProxySasl", "KafkaAPISasl", "KafkaConnect"}, [enabled |-> "Bool"])
  @@ In({"KafkaAPI"},
        Each("Object", {"all_seed_brokers", "mtls", "sasl"})
        @@ [seed_brokers |-> "List"])
  @@ In({"KafkaAPIAllSeedBrokers", "SchemaRegistryAllUrls"},
        Each("String", {"mtls", "private_link_mtls", "private_link_sasl", "sasl"}))
  @@ In({"MaintenanceWindowConfig"},
        Each("Bool", {"anytime", "unspecified"})
        @@ [day_hour |-> "Object"])
  @@ In({"MaintenanceWindowConfigDayHour"}, [day_of_week |-> "String", hour_of_day |-> "Int32"])
  @@ In({"Prometheus", "RedpandaConsole"}, [url |-> "String"])
  @@ In({"Rpsql"},
        Each("String", {"url", "version"})
        @@ [enabled |-> "Bool", replicas |-> "Int32", zones |-> "List"])
  @@ In({"SchemaRegistry"}, Each("Object", {"all_urls", "mtls"}) @@ [url |-> "String"])

\* StateDescription
DataTypes5 == In({"StateDescription"}, [code |-> "Int32", message |-> "String"])

\* AsAWSPrivateLink to AsGCPPrivateServiceConnect
DataDecoders1 ==
  [AWSPrivateLink |-> <<"Resource", "aws_private_link">>,
   AzurePrivateLink |-> <<"Resource", "azure_private_link">>,
   ClusterConfiguration |-> <<"Resource", "cluster_configuration">>,
   CustomerManagedResources |-> <<"Resource", "customer_managed_resources">>,
   DataplaneAPI |-> <<"Resource", "dataplane_api">>,
   GCPPrivateServiceConnect |-> <<"Resource", "gcp_private_service_connect">>]

\* AsHTTPProxy to AsRedpandaConsole
DataDecoders2 ==
  [HTTPProxy |-> <<"Resource", "http_proxy">>, KafkaAPI |-> <<"Resource", "kafka_api">>,
   KafkaConnect |-> <<"Resource", "kafka_connect">>,
   MaintenanceWindowConfig |-> <<"Resource", "maintenance_window_config">>,
   Prometheus |-> <<"Resource", "prometheus">>,
   RedpandaConsole |-> <<"Resource", "redpanda_console">>]

\* AsRpsql to DecodeDataCustomerManagedResourcesAWSAgentInstanceProfile
DataDecoders3 ==
  [Rpsql |-> <<"Resource", "rpsql">>, SchemaRegistry |-> <<"Resource", "schema_registry">>,
   StateDescription |-> <<"Resource", "state_description">>,
   AWSPrivateLinkStatus |-> <<"AWSPrivateLink", "status">>,
   AzurePrivateLinkStatus |-> <<"AzurePrivateLink", "status">>,
   CustomerManagedResourcesAWS |-> <<"CustomerManagedResources", "aws">>,
   CustomerManagedResourcesAWSAgentInstanceProfile |-> <<"CustomerManagedResourcesAWS", "agent_instance_profile">>]

\* DecodeDataCustomerManagedResourcesAWSCloudStorageBucket to DecodeDataCustomerManagedResourcesAWSPermissionsBoundaryPolicy
DataDecoders4 ==
  [CustomerManagedResourcesAWSCloudStorageBucket |-> <<"CustomerManagedResourcesAWS", "cloud_storage_bucket">>,
   CustomerManagedResourcesAWSClusterSecurityGroup |-> <<"CustomerManagedResourcesAWS", "cluster_security_group">>,
   CustomerManagedResourcesAWSConnectorsNodeGroupInstanceProfile |-> <<"CustomerManagedResourcesAWS", "connectors_node_group_instance_profile">>,
   CustomerManagedResourcesAWSConnectorsSecurityGroup |-> <<"CustomerManagedResourcesAWS", "connectors_security_group">>,
   CustomerManagedResourcesAWSK8sClusterRole |-> <<"CustomerManagedResourcesAWS", "k8s_cluster_role">>,
   CustomerManagedResourcesAWSNodeSecurityGroup |-> <<"CustomerManagedResourcesAWS", "node_security_group">>,
   CustomerManagedResourcesAWSPermissionsBoundaryPolicy |-> <<"CustomerManagedResourcesAWS", "permissions_boundary_policy">>]

\* DecodeDataCustomerManagedResourcesAWSRedpandaAgentSecurityGroup to DecodeDataCustomerManagedResourcesAWSRpsqlNodeGroupInstanceProfile
DataDecoders5 ==
  [CustomerManagedResourcesAWSRedpandaAgentSecurityGroup |-> <<"CustomerManagedResourcesAWS", "redpanda_agent_security_group">>,
   CustomerManagedResourcesAWSRedpandaConnectNodeGroupInstanceProfile |-> <<"CustomerManagedResourcesAWS", "redpanda_connect_node_group_instance_profile">>,
   CustomerManagedResourcesAWSRedpandaConnectSecurityGroup |-> <<"CustomerManagedResourcesAWS", "redpanda_connect_security_group">>,
   CustomerManagedResourcesAWSRedpandaNodeGroupInstanceProfile |-> <<"CustomerManagedResourcesAWS", "redpanda_node_group_instance_profile">>,
   CustomerManagedResourcesAWSRedpandaNodeGroupSecurityGroup |-> <<"CustomerManagedResourcesAWS", "redpanda_node_group_security_group">>,
   CustomerManagedResourcesAWSRpsqlCloudStorageBucket |-> <<"CustomerManagedResourcesAWS", "rpsql_cloud_storage_bucket">>,
   CustomerManagedResourcesAWSRpsqlNodeGroupInstanceProfile |-> <<"CustomerManagedResourcesAWS", "rpsql_node_group_instance_profile">>]

\* DecodeDataCustomerManagedResourcesAWSRpsqlSecurityGroup to DecodeDataCustomerManagedResourcesGCPConsoleServiceAccount
DataDecoders6 ==
  [CustomerManagedResourcesAWSRpsqlSecurityGroup |-> <<"CustomerManagedResourcesAWS", "rpsql_security_group">>,
   CustomerManagedResourcesAWSUtilityNodeGroupInstanceProfile |-> <<"CustomerManagedResourcesAWS", "utility_node_group_instance_profile">>,
   CustomerManagedResourcesAWSUtilitySecurityGroup |-> <<"CustomerManagedResourcesAWS", "utility_security_group">>,
   CustomerManagedResourcesGCP |-> <<"CustomerManagedResources", "gcp">>,
   CustomerManagedResourcesGCPAgentServiceAccount |-> <<"CustomerManagedResourcesGCP", "agent_service_account">>,
   CustomerManagedResourcesGCPConnectorServiceAccount |-> <<"CustomerManagedResourcesGCP", "connector_service_account">>,
   CustomerManagedResourcesGCPConsoleServiceAccount |-> <<"CustomerManagedResourcesGCP", "console_service_account">>]

\* DecodeDataCustomerManagedResourcesGCPGkeServiceAccount to DecodeDataGCPPrivateServiceConnectStatus
DataDecoders7 ==
  [CustomerManagedResourcesGCPGkeServiceAccount |-> <<"CustomerManagedResourcesGCP", "gke_service_account">>,
   CustomerManagedResourcesGCPRedpandaClusterServiceAccount |-> <<"CustomerManagedResourcesGCP", "redpanda_cluster_service_account">>,
   CustomerManagedResourcesGCPSubnet |-> <<"CustomerManagedResourcesGCP", "subnet">>,
   CustomerManagedResourcesGCPSubnetSecondaryIpv4RangePods |-> <<"CustomerManagedResourcesGCPSubnet", "secondary_ipv4_range_pods">>,
   CustomerManagedResourcesGCPSubnetSecondaryIpv4RangeServices |-> <<"CustomerManagedResourcesGCPSubnet", "secondary_ipv4_range_services">>,
   CustomerManagedResourcesGCPTieredStorageBucket |-> <<"CustomerManagedResourcesGCP", "tiered_storage_bucket">>,
   GCPPrivateServiceConnectStatus |-> <<"GCPPrivateServiceConnect", "status">>]

\* DecodeDataHTTPProxyAllUrls to DecodeDataMaintenanceWindowConfigDayHour
DataDecoders8 ==
  [HTTPProxyAllUrls |-> <<"HTTPProxy", "all_urls">>, HTTPProxyMtls |-> <<"HTTPProxy", "mtls">>,
   HTTPProxySasl |-> <<"HTTPProxy", "sasl">>,
   KafkaAPIAllSeedBrokers |-> <<"KafkaAPI", "all_seed_brokers">>,
   KafkaAPIMtls |-> <<"KafkaAPI", "mtls">>, KafkaAPISasl |-> <<"KafkaAPI", "sasl">>,
   MaintenanceWindowConfigDayHour |-> <<"MaintenanceWindowConfig", "day_hour">>]

\* DecodeDataSchemaRegistryAllUrls to DecodeDataSchemaRegistryMtls
DataDecoders9 ==
  [SchemaRegistryAllUrls |-> <<"SchemaRegistry", "all_urls">>,
   SchemaRegistryMtls |-> <<"SchemaRegistry", "mtls">>]

DataFlatten ==
  In({"Resource"},
     As("direct", {"id", "cloud_provider", "cluster_type", "connection_type", "name",
        "network_id", "region", "resource_group_id", "state", "throughput_tier"})
     @@ As("object", {"cluster_api_url"})
     @@ As("has", {"gcp_global_access_api_gateway_enabled", "gcp_global_access_enabled"})
     @@ As("list", {"read_replica_cluster_ids", "zones"})
     @@ As("map", {"tags"})
     @@ As("prev", {"allow_deletion", "redpanda_version", "timeouts"})
     @@ Nest("has", [aws_private_link |-> "AWSPrivateLink",
           azure_private_link |-> "AzurePrivateLink",
           gcp_private_service_connect |-> "GCPPrivateServiceConnect"])
     @@ Nest("object", [cluster_configuration |-> "ClusterConfiguration",
           customer_managed_resources |-> "CustomerManagedResources",
           dataplane_api |-> "DataplaneAPI", http_proxy |-> "HTTPProxy", kafka_api |-> "KafkaAPI",
           kafka_connect |-> "KafkaConnect",
           maintenance_window_config |-> "MaintenanceWindowConfig", prometheus |-> "Prometheus",
           redpanda_console |-> "RedpandaConsole", rpsql |-> "Rpsql",
           schema_registry |-> "SchemaRegistry", state_description |-> "StateDescription"]))

\* FlattenDataAWSPrivateLink to ExpandDataAWSPrivateLinkStatusVPCEndpointConnectionsDNSEntries
DataConversions1 ==
  In({"AWSPrivateLink"},
     As("list", {"allowed_principals", "supported_regions"})
     @@ As("direct", {"connect_console", "enabled"})
     @@ Nest("object", [status |-> "AWSPrivateLinkStatus"]))
  @@ In({"AWSPrivateLinkStatus"},
        As("direct", {"console_port", "kafka_api_node_base_port", "kafka_api_seed_port",
           "redpanda_proxy_node_base_port", "redpanda_proxy_seed_port", "schema_registry_seed_port",
           "service_id", "service_name", "service_state"})
        @@ Nest("objects",
              [vpc_endpoint_connections |-> "AWSPrivateLinkStatusVPCEndpointConnections"]))
  @@ In({"AWSPrivateLinkStatusVPCEndpointConnections"},
        As("direct", {"connection_id", "id", "owner", "state"})
        @@ As("list", {"load_balancer_arns"})
        @@ Nest("objects",
              [dns_entries |-> "AWSPrivateLinkStatusVPCEndpointConnectionsDNSEntries"]))
  @@ In({"AWSPrivateLinkStatusVPCEndpointConnectionsDNSEntries"},
        As("direct", {"dns_name", "hosted_zone_id"}))

\* FlattenDataAzurePrivateLink to ExpandDataClusterConfiguration
DataConversions2 ==
  In({"AzurePrivateLink"},
     As("list", {"allowed_subscriptions"})
     @@ As("direct", {"connect_console", "enabled"})
     @@ Nest("object", [status |-> "AzurePrivateLinkStatus"]))
  @@ In({"AzurePrivateLinkStatus"},
        As("list", {"approved_subscriptions"})
        @@ As("direct", {"console_port", "dns_a_record", "kafka_api_node_base_port",
              "kafka_api_seed_port", "redpanda_proxy_node_base_port", "redpanda_proxy_seed_port",
              "schema_registry_seed_port", "service_id", "service_name"})
        @@ Nest("objects",
              [private_endpoint_connections |-> "AzurePrivateLinkStatusPrivateEndpointConnections"]))
  @@ In({"AzurePrivateLinkStatusPrivateEndpointConnections"},
        As("direct", {"connection_id", "connection_name", "private_endpoint_id",
           "private_endpoint_name", "status"}))
  @@ In({"ClusterConfiguration"}, As("struct", {"custom_properties_json"}))

\* FlattenDataCustomerManagedResources to ExpandDataCustomerManagedResourcesAWS
DataConversions3 ==
  In({"CustomerManagedResources"},
     Nest("object", [aws |-> "CustomerManagedResourcesAWS",
        gcp |-> "CustomerManagedResourcesGCP"]))
  @@ In({"CustomerManagedResourcesAWS"},
        Nest("object",
           [agent_instance_profile |-> "CustomerManagedResourcesAWSAgentInstanceProfile",
           cloud_storage_bucket |-> "CustomerManagedResourcesAWSCloudStorageBucket",
           cluster_security_group |-> "CustomerManagedResourcesAWSClusterSecurityGroup",
           connectors_node_group_instance_profile |-> "CustomerManagedResourcesAWSConnectorsNodeGroupInstanceProfile",
           connectors_security_group |-> "CustomerManagedResourcesAWSConnectorsSecurityGroup",
           k8s_cluster_role |-> "CustomerManagedResourcesAWSK8sClusterRole",
           node_security_group |-> "CustomerManagedResourcesAWSNodeSecurityGroup",
           permissions_boundary_policy |-> "CustomerManagedResourcesAWSPermissionsBoundaryPolicy",
           redpanda_agent_security_group |-> "CustomerManagedResourcesAWSRedpandaAgentSecurityGroup",
           redpanda_connect_node_group_instance_profile |-> "CustomerManagedResourcesAWSRedpandaConnectNodeGroupInstanceProfile",
           redpanda_connect_security_group |-> "CustomerManagedResourcesAWSRedpandaConnectSecurityGroup",
           redpanda_node_group_instance_profile |-> "CustomerManagedResourcesAWSRedpandaNodeGroupInstanceProfile",
           redpanda_node_group_security_group |-> "CustomerManagedResourcesAWSRedpandaNodeGroupSecurityGroup",
           rpsql_cloud_storage_bucket |-> "CustomerManagedResourcesAWSRpsqlCloudStorageBucket",
           rpsql_node_group_instance_profile |-> "CustomerManagedResourcesAWSRpsqlNodeGroupInstanceProfile",
           rpsql_security_group |-> "CustomerManagedResourcesAWSRpsqlSecurityGroup",
           utility_node_group_instance_profile |-> "CustomerManagedResourcesAWSUtilityNodeGroupInstanceProfile",
           utility_security_group |-> "CustomerManagedResourcesAWSUtilitySecurityGroup"]))

\* FlattenDataCustomerManagedResourcesAWSAgentInstanceProfile to ExpandDataCustomerManagedResourcesAWSK8sClusterRole
DataConversions4 ==
  In({"CustomerManagedResourcesAWSAgentInstanceProfile",
     "CustomerManagedResourcesAWSCloudStorageBucket",
     "CustomerManagedResourcesAWSClusterSecurityGroup",
     "CustomerManagedResourcesAWSConnectorsNodeGroupInstanceProfile",
     "CustomerManagedResourcesAWSConnectorsSecurityGroup",
     "CustomerManagedResourcesAWSK8sClusterRole"},
     As("direct", {"arn"}))

\* FlattenDataCustomerManagedResourcesAWSNodeSecurityGroup to ExpandDataCustomerManagedResourcesAWSRedpandaNodeGroupInstanceProfile
DataConversions5 ==
  In({"CustomerManagedResourcesAWSNodeSecurityGroup",
     "CustomerManagedResourcesAWSPermissionsBoundaryPolicy",
     "CustomerManagedResourcesAWSRedpandaAgentSecurityGroup",
     "CustomerManagedResourcesAWSRedpandaConnectNodeGroupInstanceProfile",
     "CustomerManagedResourcesAWSRedpandaConnectSecurityGroup",
     "CustomerManagedResourcesAWSRedpandaNodeGroupInstanceProfile"},
     As("direct", {"arn"}))

\* FlattenDataCustomerManagedResourcesAWSRedpandaNodeGroupSecurityGroup to ExpandDataCustomerManagedResourcesAWSUtilitySecurityGroup
DataConversions6 ==
  In({"CustomerManagedResourcesAWSRedpandaNodeGroupSecurityGroup",
     "CustomerManagedResourcesAWSRpsqlCloudStorageBucket",
     "CustomerManagedResourcesAWSRpsqlNodeGroupInstanceProfile",
     "CustomerManagedResourcesAWSRpsqlSecurityGroup",
     "CustomerManagedResourcesAWSUtilityNodeGroupInstanceProfile",
     "CustomerManagedResourcesAWSUtilitySecurityGroup"},
     As("direct", {"arn"}))

\* FlattenDataCustomerManagedResourcesGCP to FlattenDataCustomerManagedResourcesGCPGkeServiceAccount
DataConversions7 ==
  In({"CustomerManagedResourcesGCP"},
     As("direct", {"psc_nat_subnet_name"})
     @@ Nest("object",
           [agent_service_account |-> "CustomerManagedResourcesGCPAgentServiceAccount",
           connector_service_account |-> "CustomerManagedResourcesGCPConnectorServiceAccount",
           console_service_account |-> "CustomerManagedResourcesGCPConsoleServiceAccount",
           gke_service_account |-> "CustomerManagedResourcesGCPGkeServiceAccount",
           redpanda_cluster_service_account |-> "CustomerManagedResourcesGCPRedpandaClusterServiceAccount",
           subnet |-> "CustomerManagedResourcesGCPSubnet",
           tiered_storage_bucket |-> "CustomerManagedResourcesGCPTieredStorageBucket"]))
  @@ In({"CustomerManagedResourcesGCPAgentServiceAccount",
        "CustomerManagedResourcesGCPConnectorServiceAccount",
        "CustomerManagedResourcesGCPConsoleServiceAccount",
        "CustomerManagedResourcesGCPGkeServiceAccount"},
        As("direct", {"email"}))

\* ExpandDataCustomerManagedResourcesGCPGkeServiceAccount to ExpandDataCustomerManagedResourcesGCPTieredStorageBucket
DataConversions8 ==
  In({"CustomerManagedResourcesGCPRedpandaClusterServiceAccount"}, As("direct", {"email"}))
  @@ In({"CustomerManagedResourcesGCPSubnet"},
        As("direct", {"k8s_master_ipv4_range", "name"})
        @@ Nest("object",
              [secondary_ipv4_range_pods |-> "CustomerManagedResourcesGCPSubnetSecondaryIpv4RangePods",
              secondary_ipv4_range_services |-> "CustomerManagedResourcesGCPSubnetSecondaryIpv4RangeServices"]))
  @@ In({"CustomerManagedResourcesGCPSubnetSecondaryIpv4RangePods",
        "CustomerManagedResourcesGCPSubnetSecondaryIpv4RangeServices",
        "CustomerManagedResourcesGCPTieredStorageBucket"},
        As("direct", {"name"}))

\* FlattenDataDataplaneAPI to FlattenDataGCPPrivateServiceConnectStatusConnectedEndpoints
DataConversions9 ==
  In({"DataplaneAPI"}, As("direct", {"url"}))
  @@ In({"GCPPrivateServiceConnect"},
        As("direct", {"enabled", "global_access_enabled"})
        @@ Nest("objects",
              [consumer_accept_list |-> "GCPPrivateServiceConnectConsumerAcceptList"])
        @@ Nest("object", [status |-> "GCPPrivateServiceConnectStatus"]))
  @@ In({"GCPPrivateServiceConnectConsumerAcceptList"}, As("direct", {"source"}))
  @@ In({"GCPPrivateServiceConnectStatus"},
        As("list", {"dns_a_records"})
        @@ As("direct", {"kafka_api_node_base_port", "kafka_api_seed_port",
              "redpanda_proxy_node_base_port", "redpanda_proxy_seed_port",
              "schema_registry_seed_port", "seed_hostname", "service_attachment"})
        @@ Nest("objects",
              [connected_endpoints |-> "GCPPrivateServiceConnectStatusConnectedEndpoints"]))
  @@ In({"GCPPrivateServiceConnectStatusConnectedEndpoints"},
        As("direct", {"connection_id", "consumer_network", "endpoint", "status"}))

\* ExpandDataGCPPrivateServiceConnectStatusConnectedEndpoints to FlattenDataKafkaAPI
DataConversions10 ==
  In({"HTTPProxy"},
     As("direct", {"url"})
     @@ Nest("object", [all_urls |-> "HTTPProxyAllUrls", mtls |-> "HTTPProxyMtls",
           sasl |-> "HTTPProxySasl"]))
  @@ In({"HTTPProxyAllUrls"},
        As("direct", {"mtls", "private_link_mtls", "private_link_sasl", "sasl"}))
  @@ In({"HTTPProxyMtls"},
        As("list", {"ca_certificates_pem", "principal_mapping_rules"})
        @@ As("direct", {"enabled"}))
  @@ In({"HTTPProxySasl"}, As("direct", {"enabled"}))
  @@ In({"KafkaAPI"},
        As("list", {"seed_brokers"})
        @@ Nest("object", [all_seed_brokers |-> "KafkaAPIAllSeedBrokers",
              mtls |-> "KafkaAPIMtls", sasl |-> "KafkaAPISasl"]))

\* ExpandDataKafkaAPI to FlattenDataMaintenanceWindowConfig
DataConversions11 ==
  In({"KafkaAPIAllSeedBrokers"},
     As("direct", {"mtls", "private_link_mtls", "private_link_sasl", "sasl"}))
  @@ In({"KafkaAPIMtls"},
        As("list", {"ca_certificates_pem", "principal_mapping_rules"})
        @@ As("direct", {"enabled"}))
  @@ In({"KafkaAPISasl", "KafkaConnect"}, As("direct", {"enabled"}))
  @@ In({"MaintenanceWindowConfig"},
        As("oneof", {"anytime", "unspecified"})
        @@ Nest("object", [day_hour |-> "MaintenanceWindowConfigDayHour"]))

\* ExpandDataMaintenanceWindowConfig to FlattenDataSchemaRegistry
DataConversions12 ==
  In({"MaintenanceWindowConfigDayHour"}, As("direct", {"day_of_week", "hour_of_day"}))
  @@ In({"Prometheus", "RedpandaConsole"}, As("direct", {"url"}))
  @@ In({"Rpsql"}, As("direct", {"enabled", "replicas", "url", "version"}) @@ As("list", {"zones"}))
  @@ In({"SchemaRegistry"},
        As("direct", {"url"})
        @@ Nest("object", [all_urls |-> "SchemaRegistryAllUrls", mtls |-> "SchemaRegistryMtls"]))

\* ExpandDataSchemaRegistry to ExpandDataStateDescription
DataConversions13 ==
  In({"SchemaRegistryAllUrls"},
     As("direct", {"mtls", "private_link_mtls", "private_link_sasl", "sasl"}))
  @@ In({"SchemaRegistryMtls"},
        As("list", {"ca_certificates_pem", "principal_mapping_rules"})
        @@ As("direct", {"enabled"}))
  @@ In({"StateDescription"}, As("direct", {"code", "message"}))

\* id to approved_subscriptions
DataSchema1 ==
  In({"Resource"},
     Each(Computed("Object"), {"aws_private_link", "azure_private_link"})
     @@ [id |-> Required("String"), allow_deletion |-> Computed("Bool")])
  @@ In({"AWSPrivateLink"},
        Each(Computed("List"), {"allowed_principals", "supported_regions"})
        @@ Each(Computed("Bool"), {"connect_console", "enabled"})
        @@ [status |-> Computed("Object")])
  @@ In({"AWSPrivateLinkStatus"},
        Each(Computed("Int32"), {"console_port", "kafka_api_node_base_port",
           "kafka_api_seed_port", "redpanda_proxy_node_base_port", "redpanda_proxy_seed_port",
           "schema_registry_seed_port"})
        @@ Each(Computed("String"), {"service_id", "service_name", "service_state"})
        @@ [vpc_endpoint_connections |-> Computed("List")])
  @@ In({"AWSPrivateLinkStatusVPCEndpointConnections"},
        Each(Computed("String"), {"connection_id", "id", "owner", "state"})
        @@ Each(Computed("List"), {"dns_entries", "load_balancer_arns"}))
  @@ In({"AWSPrivateLinkStatusVPCEndpointConnectionsDNSEntries"},
        Each(Computed("String"), {"dns_name", "hosted_zone_id"}))
  @@ In({"AzurePrivateLink"},
        Each(Computed("Bool"), {"connect_console", "enabled"})
        @@ [allowed_subscriptions |-> Computed("List"), status |-> Computed("Object")])
  @@ In({"AzurePrivateLinkStatus"}, [approved_subscriptions |-> Computed("List")])

\* console_port to arn
DataSchema2 ==
  In({"AzurePrivateLinkStatus"},
     Each(Computed("Int32"), {"console_port", "kafka_api_node_base_port", "kafka_api_seed_port",
        "redpanda_proxy_node_base_port", "redpanda_proxy_seed_port", "schema_registry_seed_port"})
     @@ Each(Computed("String"), {"dns_a_record", "service_id", "service_name"})
     @@ [private_endpoint_connections |-> Computed("List")])
  @@ In({"AzurePrivateLinkStatusPrivateEndpointConnections"},
        Each(Computed("String"), {"connection_id", "connection_name", "private_endpoint_id",
           "private_endpoint_name", "status"}))
  @@ In({"Resource"},
        Each(Computed("String"), {"cloud_provider", "cluster_api_url", "cluster_type",
           "connection_type"})
        @@ Each(Computed("Object"), {"cluster_configuration", "customer_managed_resources"}))
  @@ In({"ClusterConfiguration"}, [custom_properties_json |-> Computed("String")])
  @@ In({"CustomerManagedResources"}, [aws |-> Computed("Object")])
  @@ In({"CustomerManagedResourcesAWS"},
        Each(Computed("Object"), {"agent_instance_profile", "cloud_storage_bucket",
           "cluster_security_group", "connectors_node_group_instance_profile"}))
  @@ In({"CustomerManagedResourcesAWSAgentInstanceProfile",
        "CustomerManagedResourcesAWSCloudStorageBucket",
        "CustomerManagedResourcesAWSClusterSecurityGroup",
        "CustomerManagedResourcesAWSConnectorsNodeGroupInstanceProfile"},
        [arn |-> Computed("String")])

\* connectors_security_group to agent_service_account
DataSchema3 ==
  In({"CustomerManagedResourcesAWS"},
     Each(Computed("Object"), {"connectors_security_group", "k8s_cluster_role",
        "node_security_group", "permissions_boundary_policy", "redpanda_agent_security_group",
        "redpanda_connect_node_group_instance_profile", "redpanda_connect_security_group",
        "redpanda_node_group_instance_profile", "redpanda_node_group_security_group",
        "rpsql_cloud_storage_bucket", "rpsql_node_group_instance_profile", "rpsql_security_group",
        "utility_node_group_instance_profile", "utility_security_group"}))
  @@ In({"CustomerManagedResourcesAWSConnectorsSecurityGroup",
        "CustomerManagedResourcesAWSK8sClusterRole", "CustomerManagedResourcesAWSNodeSecurityGroup",
        "CustomerManagedResourcesAWSPermissionsBoundaryPolicy",
        "CustomerManagedResourcesAWSRedpandaAgentSecurityGroup",
        "CustomerManagedResourcesAWSRedpandaConnectNodeGroupInstanceProfile",
        "CustomerManagedResourcesAWSRedpandaConnectSecurityGroup",
        "CustomerManagedResourcesAWSRedpandaNodeGroupInstanceProfile",
        "CustomerManagedResourcesAWSRedpandaNodeGroupSecurityGroup",
        "CustomerManagedResourcesAWSRpsqlCloudStorageBucket",
        "CustomerManagedResourcesAWSRpsqlNodeGroupInstanceProfile",
        "CustomerManagedResourcesAWSRpsqlSecurityGroup",
        "CustomerManagedResourcesAWSUtilityNodeGroupInstanceProfile",
        "CustomerManagedResourcesAWSUtilitySecurityGroup"},
        [arn |-> Computed("String")])
  @@ In({"CustomerManagedResources"}, [gcp |-> Computed("Object")])
  @@ In({"CustomerManagedResourcesGCP"}, [agent_service_account |-> Computed("Object")])

\* email to status
DataSchema4 ==
  In({"CustomerManagedResourcesGCPAgentServiceAccount",
     "CustomerManagedResourcesGCPConnectorServiceAccount",
     "CustomerManagedResourcesGCPConsoleServiceAccount",
     "CustomerManagedResourcesGCPGkeServiceAccount",
     "CustomerManagedResourcesGCPRedpandaClusterServiceAccount"},
     [email |-> Computed("String")])
  @@ In({"CustomerManagedResourcesGCP"},
        Each(Computed("Object"), {"connector_service_account", "console_service_account",
           "gke_service_account", "redpanda_cluster_service_account", "subnet",
           "tiered_storage_bucket"})
        @@ [psc_nat_subnet_name |-> Computed("String")])
  @@ In({"CustomerManagedResourcesGCPSubnet"},
        Each(Computed("String"), {"k8s_master_ipv4_range", "name"})
        @@ Each(Computed("Object"), {"secondary_ipv4_range_pods",
              "secondary_ipv4_range_services"}))
  @@ In({"CustomerManagedResourcesGCPSubnetSecondaryIpv4RangePods",
        "CustomerManagedResourcesGCPSubnetSecondaryIpv4RangeServices",
        "CustomerManagedResourcesGCPTieredStorageBucket"},
        [name |-> Computed("String")])
  @@ In({"Resource"},
        Each(Computed("Object"), {"dataplane_api", "gcp_private_service_connect"})
        @@ Each(Computed("Bool"), {"gcp_global_access_api_gateway_enabled",
              "gcp_global_access_enabled"}))
  @@ In({"DataplaneAPI"}, [url |-> Computed("String")])
  @@ In({"GCPPrivateServiceConnect"},
        Each(Computed("Bool"), {"enabled", "global_access_enabled"})
        @@ [consumer_accept_list |-> Computed("List"), status |-> Computed("Object")])
  @@ In({"GCPPrivateServiceConnectConsumerAcceptList"}, [source |-> Computed("String")])

\* connected_endpoints to sasl
DataSchema5 ==
  In({"GCPPrivateServiceConnectStatus"},
     Each(Computed("List"), {"connected_endpoints", "dns_a_records"})
     @@ Each(Computed("Int32"), {"kafka_api_node_base_port", "kafka_api_seed_port",
           "redpanda_proxy_node_base_port", "redpanda_proxy_seed_port",
           "schema_registry_seed_port"})
     @@ Each(Computed("String"), {"seed_hostname", "service_attachment"}))
  @@ In({"GCPPrivateServiceConnectStatusConnectedEndpoints"},
        Each(Computed("String"), {"connection_id", "consumer_network", "endpoint", "status"}))
  @@ In({"Resource"}, Each(Computed("Object"), {"http_proxy", "kafka_api"}))
  @@ In({"HTTPProxy"},
        Each(Computed("Object"), {"all_urls", "mtls", "sasl"})
        @@ [url |-> Computed("String")])
  @@ In({"HTTPProxyAllUrls", "KafkaAPIAllSeedBrokers"},
        Each(Computed("String"), {"mtls", "private_link_mtls", "private_link_sasl", "sasl"}))
  @@ In({"HTTPProxyMtls"},
        Each(Computed("List"), {"ca_certificates_pem", "principal_mapping_rules"})
        @@ [enabled |-> Computed("Bool")])
  @@ In({"HTTPProxySasl"}, [enabled |-> Computed("Bool")])
  @@ In({"KafkaAPI"}, [all_seed_brokers |-> Computed("Object")])

\* mtls to url
DataSchema6 ==
  In({"KafkaAPI"},
     Each(Computed("Object"), {"mtls", "sasl"})
     @@ [seed_brokers |-> Computed("List")])
  @@ In({"KafkaAPIMtls"},
        Each(Computed("List"), {"ca_certificates_pem", "principal_mapping_rules"})
        @@ [enabled |-> Computed("Bool")])
  @@ In({"KafkaAPISasl", "KafkaConnect"}, [enabled |-> Computed("Bool")])
  @@ In({"Resource"},
        Each(Computed("Object"), {"kafka_connect", "maintenance_window_config", "prometheus",
           "redpanda_console", "rpsql"})
        @@ Each(Computed("String"), {"name", "network_id", "redpanda_version", "region",
              "resource_group_id"})
        @@ [read_replica_cluster_ids |-> Computed("List")])
  @@ In({"MaintenanceWindowConfig"},
        Each(Computed("Bool"), {"anytime", "unspecified"})
        @@ [day_hour |-> Computed("Object")])
  @@ In({"MaintenanceWindowConfigDayHour"},
        [day_of_week |-> Computed("String"), hour_of_day |-> Computed("Int32")])
  @@ In({"Prometheus", "RedpandaConsole"}, [url |-> Computed("String")])
  @@ In({"Rpsql"},
        [enabled |-> Computed("Bool"), replicas |-> Computed("Int32"),
           url |-> Computed("String")])

\* version to timeouts
DataSchema7 ==
  In({"Rpsql"}, [version |-> Computed("String"), zones |-> Computed("List")])
  @@ In({"Resource"},
        Each(Computed("Object"), {"schema_registry", "state_description"})
        @@ Each(Computed("String"), {"state", "throughput_tier"})
        @@ [tags |-> Computed("Map"), zones |-> Computed("List"),
              timeouts |-> Optional("Timeouts")])
  @@ In({"SchemaRegistry"},
        Each(Computed("Object"), {"all_urls", "mtls"})
        @@ [url |-> Computed("String")])
  @@ In({"SchemaRegistryAllUrls"},
        Each(Computed("String"), {"mtls", "private_link_mtls", "private_link_sasl", "sasl"}))
  @@ In({"SchemaRegistryMtls"},
        Each(Computed("List"), {"ca_certificates_pem", "principal_mapping_rules"})
        @@ [enabled |-> Computed("Bool")])
  @@ In({"StateDescription"}, [code |-> Computed("Int32"), message |-> Computed("String")])
=============================================================================
