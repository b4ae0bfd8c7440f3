------------------------- MODULE ClusterConversion -------------------------
\* The conversions of a cluster.  Flatten and Conversions: the form each attribute
\* is flattened and expanded in, and the message a nested one has.
EXTENDS Tables

Flatten ==
  In({"Resource"},
     As("direct", {"cloud_provider", "connection_type", "name", "network_id", "region",
        "resource_group_id", "throughput_tier", "api_gateway_access", "cluster_type",
        "redpanda_node_count", "current_redpanda_version", "desired_redpanda_version", "id",
        "state"})
     @@ As("list", {"zones", "nat_gateways"})
     @@ As("carryEmpty", {"read_replica_cluster_ids"})
     @@ As("map", {"tags"})
     @@ As("object", {"cluster_api_url"})
     @@ As("has", {"gcp_global_access_api_gateway_enabled", "gcp_global_access_enabled"})
     @@ As("prev", {"gcp_enable_global_access_api_gateway", "redpanda_version", "timeouts"})
     @@ As("default", {"allow_deletion"})
     @@ Nest("object", [customer_managed_resources |-> "CustomerManagedResources",
           cloud_storage |-> "CloudStorage", cluster_configuration |-> "ClusterConfiguration",
           http_proxy |-> "HTTPProxy", kafka_api |-> "KafkaAPI", kafka_connect |-> "KafkaConnect",
           maintenance_window_config |-> "MaintenanceWindowConfig", rpsql |-> "Rpsql",
           schema_registry |-> "SchemaRegistry", dataplane_api |-> "DataplaneAPI",
           prometheus |-> "Prometheus", redpanda_console |-> "RedpandaConsole",
           state_description |-> "StateDescription"])
     @@ Nest("has", [aws_private_link |-> "AWSPrivateLink",
           azure_private_link |-> "AzurePrivateLink",
           gcp_private_service_connect |-> "GCPPrivateServiceConnect"]))

ExpandCreate ==
  In({"Create"},
     As("value", {"cloud_provider", "connection_type", "name", "network_id", "region",
        "resource_group_id", "throughput_tier", "zones", "gcp_enable_global_access_api_gateway",
        "read_replica_cluster_ids", "api_gateway_access", "cluster_type", "redpanda_node_count",
        "tags"})
     @@ Nest("value", [customer_managed_resources |-> "CustomerManagedResources",
           aws_private_link |-> "CreateAWSPrivateLink",
           azure_private_link |-> "CreateAzurePrivateLink", cloud_storage |-> "CreateCloudStorage",
           cluster_configuration |-> "CreateClusterConfiguration",
           gcp_private_service_connect |-> "CreateGCPPrivateServiceConnect",
           http_proxy |-> "CreateHTTPProxy", kafka_api |-> "CreateKafkaAPI",
           kafka_connect |-> "KafkaConnect",
           maintenance_window_config |-> "MaintenanceWindowConfig", rpsql |-> "Rpsql",
           schema_registry |-> "CreateSchemaRegistry"]))

ExpandUpdate ==
  In({"Update"},
     As("value", {"name", "throughput_tier", "gcp_enable_global_access_api_gateway",
        "read_replica_cluster_ids", "api_gateway_access", "redpanda_node_count", "tags", "id"})
     @@ Nest("value", [customer_managed_resources |-> "UpdateCustomerManagedResources",
           aws_private_link |-> "UpdateAWSPrivateLink",
           azure_private_link |-> "UpdateAzurePrivateLink", cloud_storage |-> "UpdateCloudStorage",
           cluster_configuration |-> "UpdateClusterConfiguration",
           gcp_private_service_connect |-> "UpdateGCPPrivateServiceConnect",
           http_proxy |-> "UpdateHTTPProxy", kafka_api |-> "UpdateKafkaAPI",
           kafka_connect |-> "KafkaConnect",
           maintenance_window_config |-> "MaintenanceWindowConfig", rpsql |-> "Rpsql",
           schema_registry |-> "UpdateSchemaRegistry"]))

\* FlattenCustomerManagedResources to ExpandCustomerManagedResourcesAWS
Conversions1 ==
  [flatten |-> In({"CustomerManagedResources"},
                 Nest("object", [aws |-> "CustomerManagedResourcesAWS",
                    gcp |-> "CustomerManagedResourcesGCP"]))
           @@ In({"CustomerManagedResourcesAWS"},
                 Nest("object",
                    [agent_instance_profile |-> "CustomerManagedResourcesAWSAgentInstanceProfile",
                    cloud_storage_bucket |-> "CustomerManagedResourcesAWSCloudStorageBucket",
                    cluster_security_group |-> "CustomerManagedResourcesAWSClusterSecurityGroup",
                    connectors_node_group_instance_profile |-> "CustomerManagedResourcesAWSConnectorsNodeGroupInstanceProfile",
                    connectors_security_group |-> "CustomerManagedResourcesAWSConnectorsSecurityGroup",
                    k8s_cluster_role |-> "CustomerManagedResourcesAWSK8sClusterRole",
                    node_security_group |-> "CustomerManagedResourcesAWSNodeSecurityGroup",
                    permissions_boundary_policy |-> "CustomerManagedResourcesAWSPermissionsBoundaryPolicy",
                    redpanda_agent_security_group |-> "CustomerManagedResourcesAWSRedpandaAgentSecurityGroup",
                    redpanda_node_group_instance_profile |-> "CustomerManagedResourcesAWSRedpandaNodeGroupInstanceProfile",
                    redpanda_node_group_security_group |-> "CustomerManagedResourcesAWSRedpandaNodeGroupSecurityGroup",
                    utility_node_group_instance_profile |-> "CustomerManagedResourcesAWSUtilityNodeGroupInstanceProfile",
                    utility_security_group |-> "CustomerManagedResourcesAWSUtilitySecurityGroup",
                    redpanda_connect_node_group_instance_profile |-> "CustomerManagedResourcesAWSRedpandaConnectNodeGroupInstanceProfile",
                    redpanda_connect_security_group |-> "CustomerManagedResourcesAWSRedpandaConnectSecurityGroup",
                    rpsql_cloud_storage_bucket |-> "CustomerManagedResourcesAWSRpsqlCloudStorageBucket",
                    rpsql_node_group_instance_profile |-> "CustomerManagedResourcesAWSRpsqlNodeGroupInstanceProfile",
                    rpsql_security_group |-> "CustomerManagedResourcesAWSRpsqlSecurityGroup"])),
   expand  |-> In({"CustomerManagedResources"},
                 Nest("value", [aws |-> "CustomerManagedResourcesAWS",
                    gcp |-> "CustomerManagedResourcesGCP"]))
           @@ In({"CustomerManagedResourcesAWS"},
                 Nest("value",
                    [agent_instance_profile |-> "CustomerManagedResourcesAWSAgentInstanceProfile",
                    cloud_storage_bucket |-> "CustomerManagedResourcesAWSCloudStorageBucket",
                    cluster_security_group |-> "CustomerManagedResourcesAWSClusterSecurityGroup",
                    connectors_node_group_instance_profile |-> "CustomerManagedResourcesAWSConnectorsNodeGroupInstanceProfile",
                    connectors_security_group |-> "CustomerManagedResourcesAWSConnectorsSecurityGroup",
                    k8s_cluster_role |-> "CustomerManagedResourcesAWSK8sClusterRole",
                    node_security_group |-> "CustomerManagedResourcesAWSNodeSecurityGroup",
                    permissions_boundary_policy |-> "CustomerManagedResourcesAWSPermissionsBoundaryPolicy",
                    redpanda_agent_security_group |-> "CustomerManagedResourcesAWSRedpandaAgentSecurityGroup",
                    redpanda_node_group_instance_profile |-> "CustomerManagedResourcesAWSRedpandaNodeGroupInstanceProfile",
                    redpanda_node_group_security_group |-> "CustomerManagedResourcesAWSRedpandaNodeGroupSecurityGroup",
                    utility_node_group_instance_profile |-> "CustomerManagedResourcesAWSUtilityNodeGroupInstanceProfile",
                    utility_security_group |-> "CustomerManagedResourcesAWSUtilitySecurityGroup",
                    redpanda_connect_node_group_instance_profile |-> "CustomerManagedResourcesAWSRedpandaConnectNodeGroupInstanceProfile",
                    redpanda_connect_security_group |-> "CustomerManagedResourcesAWSRedpandaConnectSecurityGroup",
                    rpsql_cloud_storage_bucket |-> "CustomerManagedResourcesAWSRpsqlCloudStorageBucket",
                    rpsql_node_group_instance_profile |-> "CustomerManagedResourcesAWSRpsqlNodeGroupInstanceProfile",
                    rpsql_security_group |-> "CustomerManagedResourcesAWSRpsqlSecurityGroup"]))]

\* FlattenCustomerManagedResourcesAWSAgentInstanceProfile to ExpandCustomerManagedResourcesAWSK8sClusterRole
Conversions2 ==
  [flatten |-> In({"CustomerManagedResourcesAWSAgentInstanceProfile",
                 "CustomerManagedResourcesAWSCloudStorageBucket",
                 "CustomerManagedResourcesAWSClusterSecurityGroup",
                 "CustomerManagedResourcesAWSConnectorsNodeGroupInstanceProfile",
                 "CustomerManagedResourcesAWSConnectorsSecurityGroup",
                 "CustomerManagedResourcesAWSK8sClusterRole"},
                 As("direct", {"arn"})),
   expand  |-> In({"CustomerManagedResourcesAWSAgentInstanceProfile",
                 "CustomerManagedResourcesAWSCloudStorageBucket",
                 "CustomerManagedResourcesAWSClusterSecurityGroup",
                 "CustomerManagedResourcesAWSConnectorsNodeGroupInstanceProfile",
                 "CustomerManagedResourcesAWSConnectorsSecurityGroup",
                 "CustomerManagedResourcesAWSK8sClusterRole"},
                 As("value", {"arn"}))]

\* FlattenCustomerManagedResourcesAWSNodeSecurityGroup to ExpandCustomerManagedResourcesAWSUtilityNodeGroupInstanceProfile
Conversions3 ==
  [flatten |-> In({"CustomerManagedResourcesAWSNodeSecurityGroup",
                 "CustomerManagedResourcesAWSPermissionsBoundaryPolicy",
                 "CustomerManagedResourcesAWSRedpandaAgentSecurityGroup",
                 "CustomerManagedResourcesAWSRedpandaNodeGroupInstanceProfile",
                 "CustomerManagedResourcesAWSRedpandaNodeGroupSecurityGroup",
                 "CustomerManagedResourcesAWSUtilityNodeGroupInstanceProfile"},
                 As("direct", {"arn"})),
   expand  |-> In({"CustomerManagedResourcesAWSNodeSecurityGroup",
                 "CustomerManagedResourcesAWSPermissionsBoundaryPolicy",
                 "CustomerManagedResourcesAWSRedpandaAgentSecurityGroup",
                 "CustomerManagedResourcesAWSRedpandaNodeGroupInstanceProfile",
                 "CustomerManagedResourcesAWSRedpandaNodeGroupSecurityGroup",
                 "CustomerManagedResourcesAWSUtilityNodeGroupInstanceProfile"},
                 As("value", {"arn"}))]

\* FlattenCustomerManagedResourcesAWSUtilitySecurityGroup to ExpandCustomerManagedResourcesAWSRpsqlSecurityGroup
Conversions4 ==
  [flatten |-> In({"CustomerManagedResourcesAWSUtilitySecurityGroup",
                 "CustomerManagedResourcesAWSRedpandaConnectNodeGroupInstanceProfile",
                 "CustomerManagedResourcesAWSRedpandaConnectSecurityGroup",
                 "CustomerManagedResourcesAWSRpsqlCloudStorageBucket",
                 "CustomerManagedResourcesAWSRpsqlNodeGroupInstanceProfile",
                 "CustomerManagedResourcesAWSRpsqlSecurityGroup"},
                 As("direct", {"arn"})),
   expand  |-> In({"CustomerManagedResourcesAWSUtilitySecurityGroup",
                 "CustomerManagedResourcesAWSRedpandaConnectNodeGroupInstanceProfile",
                 "CustomerManagedResourcesAWSRedpandaConnectSecurityGroup",
                 "CustomerManagedResourcesAWSRpsqlCloudStorageBucket",
                 "CustomerManagedResourcesAWSRpsqlNodeGroupInstanceProfile",
                 "CustomerManagedResourcesAWSRpsqlSecurityGroup"},
                 As("value", {"arn"}))]

\* FlattenCustomerManagedResourcesGCP to ExpandCustomerManagedResourcesGCPConsoleServiceAccount
Conversions5 ==
  [flatten |-> In({"CustomerManagedResourcesGCP"},
                 As("nonempty", {"psc_nat_subnet_name"})
                 @@ Nest("object",
                       [agent_service_account |-> "CustomerManagedResourcesGCPAgentServiceAccount",
                       connector_service_account |-> "CustomerManagedResourcesGCPConnectorServiceAccount",
                       console_service_account |-> "CustomerManagedResourcesGCPConsoleServiceAccount",
                       gke_service_account |-> "CustomerManagedResourcesGCPGkeServiceAccount",
                       redpanda_cluster_service_account |-> "CustomerManagedResourcesGCPRedpandaClusterServiceAccount",
                       subnet |-> "CustomerManagedResourcesGCPSubnet",
                       tiered_storage_bucket |-> "CustomerManagedResourcesGCPTieredStorageBucket"]))
           @@ In({"CustomerManagedResourcesGCPAgentServiceAccount",
                 "CustomerManagedResourcesGCPConnectorServiceAccount",
                 "CustomerManagedResourcesGCPConsoleServiceAccount"},
                 As("direct", {"email"})),
   expand  |-> In({"CustomerManagedResourcesGCP"},
                 As("value", {"psc_nat_subnet_name"})
                 @@ Nest("value",
                       [agent_service_account |-> "CustomerManagedResourcesGCPAgentServiceAccount",
                       connector_service_account |-> "CustomerManagedResourcesGCPConnectorServiceAccount",
                       console_service_account |-> "CustomerManagedResourcesGCPConsoleServiceAccount",
                       gke_service_account |-> "CustomerManagedResourcesGCPGkeServiceAccount",
                       redpanda_cluster_service_account |-> "CustomerManagedResourcesGCPRedpandaClusterServiceAccount",
                       subnet |-> "CustomerManagedResourcesGCPSubnet",
                       tiered_storage_bucket |-> "CustomerManagedResourcesGCPTieredStorageBucket"]))
           @@ In({"CustomerManagedResourcesGCPAgentServiceAccount",
                 "CustomerManagedResourcesGCPConnectorServiceAccount",
                 "CustomerManagedResourcesGCPConsoleServiceAccount"},
                 As("value", {"email"}))]

\* FlattenCustomerManagedResourcesGCPGkeServiceAccount to FlattenCustomerManagedResourcesGCPTieredStorageBucket
Conversions6 ==
  [flatten |-> In({"CustomerManagedResourcesGCPGkeServiceAccount",
                 "CustomerManagedResourcesGCPRedpandaClusterServiceAccount"},
                 As("direct", {"email"}))
           @@ In({"CustomerManagedResourcesGCPSubnet"},
                 As("direct", {"k8s_master_ipv4_range", "name"})
                 @@ Nest("object",
                       [secondary_ipv4_range_pods |-> "CustomerManagedResourcesGCPSubnetSecondaryIpv4RangePods",
                       secondary_ipv4_range_services |-> "CustomerManagedResourcesGCPSubnetSecondaryIpv4RangeServices"]))
           @@ In({"CustomerManagedResourcesGCPSubnetSecondaryIpv4RangePods",
                 "CustomerManagedResourcesGCPSubnetSecondaryIpv4RangeServices",
                 "CustomerManagedResourcesGCPTieredStorageBucket"},
                 As("direct", {"name"})),
   expand  |-> In({"CustomerManagedResourcesGCPGkeServiceAccount",
                 "CustomerManagedResourcesGCPRedpandaClusterServiceAccount"},
                 As("value", {"email"}))
           @@ In({"CustomerManagedResourcesGCPSubnet"},
                 As("value", {"k8s_master_ipv4_range", "name"})
                 @@ Nest("value",
                       [secondary_ipv4_range_pods |-> "CustomerManagedResourcesGCPSubnetSecondaryIpv4RangePods",
                       secondary_ipv4_range_services |-> "CustomerManagedResourcesGCPSubnetSecondaryIpv4RangeServices"]))
           @@ In({"CustomerManagedResourcesGCPSubnetSecondaryIpv4RangePods",
                 "CustomerManagedResourcesGCPSubnetSecondaryIpv4RangeServices"},
                 As("value", {"name"}))]

\* ExpandCustomerManagedResourcesGCPTieredStorageBucket to FlattenAWSPrivateLinkStatusVPCEndpointConnectionsDNSEntries
Conversions7 ==
  [flatten |-> In({"AWSPrivateLink"},
                 As("list", {"allowed_principals"})
                 @@ As("direct", {"connect_console", "enabled"})
                 @@ As("carryEmpty", {"supported_regions"})
                 @@ Nest("object", [status |-> "AWSPrivateLinkStatus"]))
           @@ In({"AWSPrivateLinkStatus"},
                 As("direct", {"console_port", "kafka_api_node_base_port", "kafka_api_seed_port",
                    "redpanda_proxy_node_base_port", "redpanda_proxy_seed_port",
                    "schema_registry_seed_port", "service_id", "service_name", "service_state"})
                 @@ Nest("objects",
                       [vpc_endpoint_connections |-> "AWSPrivateLinkStatusVPCEndpointConnections"]))
           @@ In({"AWSPrivateLinkStatusVPCEndpointConnections"},
                 As("direct", {"connection_id", "id", "owner", "state"})
                 @@ As("list", {"load_balancer_arns"})
                 @@ Nest("objects",
                       [dns_entries |-> "AWSPrivateLinkStatusVPCEndpointConnectionsDNSEntries"]))
           @@ In({"AWSPrivateLinkStatusVPCEndpointConnectionsDNSEntries"},
                 As("direct", {"dns_name", "hosted_zone_id"})),
   expand  |-> In({"CustomerManagedResourcesGCPTieredStorageBucket"}, As("value", {"name"}))
           @@ In({"AWSPrivateLink"},
                 As("value", {"allowed_principals", "connect_console", "enabled",
                    "supported_regions"})
                 @@ Nest("value", [status |-> "AWSPrivateLinkStatus"]))
           @@ In({"AWSPrivateLinkStatus"},
                 As("value", {"console_port", "kafka_api_node_base_port", "kafka_api_seed_port",
                    "redpanda_proxy_node_base_port", "redpanda_proxy_seed_port",
                    "schema_registry_seed_port", "service_id", "service_name", "service_state"})
                 @@ Nest("value",
                       [vpc_endpoint_connections |-> "AWSPrivateLinkStatusVPCEndpointConnections"]))
           @@ In({"AWSPrivateLinkStatusVPCEndpointConnections"},
                 As("value", {"connection_id", "id", "load_balancer_arns", "owner", "state"})
                 @@ Nest("value",
                       [dns_entries |-> "AWSPrivateLinkStatusVPCEndpointConnectionsDNSEntries"]))]

\* ExpandAWSPrivateLinkStatusVPCEndpointConnectionsDNSEntries to FlattenCloudStorage
Conversions8 ==
  [flatten |-> In({"AzurePrivateLink"},
                 As("list", {"allowed_subscriptions"})
                 @@ As("direct", {"connect_console", "enabled"})
                 @@ Nest("object", [status |-> "AzurePrivateLinkStatus"]))
           @@ In({"AzurePrivateLinkStatus"},
                 As("list", {"approved_subscriptions"})
                 @@ As("direct", {"console_port", "dns_a_record", "kafka_api_node_base_port",
                       "kafka_api_seed_port", "redpanda_proxy_node_base_port",
                       "redpanda_proxy_seed_port", "schema_registry_seed_port", "service_id",
                       "service_name"})
                 @@ Nest("objects",
                       [private_endpoint_connections |-> "AzurePrivateLinkStatusPrivateEndpointConnections"]))
           @@ In({"AzurePrivateLinkStatusPrivateEndpointConnections"},
                 As("direct", {"connection_id", "connection_name", "private_endpoint_id",
                    "private_endpoint_name", "status"}))
           @@ In({"CloudStorage"},
                 As("direct", {"skip_destroy"})
                 @@ Nest("object", [aws |-> "CloudStorageAWS", azure |-> "CloudStorageAzure",
                       gcp |-> "CloudStorageGCP"])),
   expand  |-> In({"AWSPrivateLinkStatusVPCEndpointConnectionsDNSEntries"},
                 As("value", {"dns_name", "hosted_zone_id"}))
           @@ In({"AzurePrivateLink"},
                 As("value", {"allowed_subscriptions", "connect_console", "enabled"})
                 @@ Nest("value", [status |-> "AzurePrivateLinkStatus"]))
           @@ In({"AzurePrivateLinkStatus"},
                 As("value", {"approved_subscriptions", "console_port", "dns_a_record",
                    "kafka_api_node_base_port", "kafka_api_seed_port",
                    "redpanda_proxy_node_base_port", "redpanda_proxy_seed_port",
                    "schema_registry_seed_port", "service_id", "service_name"})
                 @@ Nest("value",
                       [private_endpoint_connections |-> "AzurePrivateLinkStatusPrivateEndpointConnections"]))
           @@ In({"AzurePrivateLinkStatusPrivateEndpointConnections"},
                 As("value", {"connection_id", "connection_name", "private_endpoint_id",
                    "private_endpoint_name", "status"}))]

\* ExpandCloudStorage to FlattenGCPPrivateServiceConnect
Conversions9 ==
  [flatten |-> In({"CloudStorageAWS"}, As("direct", {"arn"}))
           @@ In({"CloudStorageAzure"}, As("direct", {"container_name", "storage_account_name"}))
           @@ In({"CloudStorageGCP"}, As("direct", {"name"}))
           @@ In({"ClusterConfiguration"}, As("struct", {"custom_properties_json"}))
           @@ In({"GCPPrivateServiceConnect"},
                 As("direct", {"enabled", "global_access_enabled"})
                 @@ Nest("objects",
                       [consumer_accept_list |-> "GCPPrivateServiceConnectConsumerAcceptList"])
                 @@ Nest("object", [status |-> "GCPPrivateServiceConnectStatus"])),
   expand  |-> In({"CloudStorage"},
                 As("value", {"skip_destroy"})
                 @@ Nest("value", [aws |-> "CloudStorageAWS", azure |-> "CloudStorageAzure",
                       gcp |-> "CloudStorageGCP"]))
           @@ In({"CloudStorageAWS"}, As("value", {"arn"}))
           @@ In({"CloudStorageAzure"}, As("value", {"container_name", "storage_account_name"}))
           @@ In({"CloudStorageGCP"}, As("value", {"name"}))
           @@ In({"ClusterConfiguration"}, As("value", {"custom_properties_json"}))]

\* ExpandGCPPrivateServiceConnect to ExpandHTTPProxy
Conversions10 ==
  [flatten |-> In({"GCPPrivateServiceConnectConsumerAcceptList"}, As("direct", {"source"}))
           @@ In({"GCPPrivateServiceConnectStatus"},
                 As("list", {"dns_a_records"})
                 @@ As("direct", {"kafka_api_node_base_port", "kafka_api_seed_port",
                       "redpanda_proxy_node_base_port", "redpanda_proxy_seed_port",
                       "schema_registry_seed_port", "seed_hostname", "service_attachment"})
                 @@ Nest("objects",
                       [connected_endpoints |-> "GCPPrivateServiceConnectStatusConnectedEndpoints"]))
           @@ In({"GCPPrivateServiceConnectStatusConnectedEndpoints"},
                 As("direct", {"connection_id", "consumer_network", "endpoint", "status"}))
           @@ In({"HTTPProxy"},
                 As("direct", {"url"})
                 @@ Nest("object", [mtls |-> "HTTPProxyMtls", sasl |-> "HTTPProxySasl",
                       all_urls |-> "HTTPProxyAllUrls"])),
   expand  |-> In({"GCPPrivateServiceConnect"},
                 As("value", {"enabled", "global_access_enabled"})
                 @@ Nest("value",
                       [consumer_accept_list |-> "GCPPrivateServiceConnectConsumerAcceptList",
                       status |-> "GCPPrivateServiceConnectStatus"]))
           @@ In({"GCPPrivateServiceConnectConsumerAcceptList"}, As("value", {"source"}))
           @@ In({"GCPPrivateServiceConnectStatus"},
                 As("value", {"dns_a_records", "kafka_api_node_base_port", "kafka_api_seed_port",
                    "redpanda_proxy_node_base_port", "redpanda_proxy_seed_port",
                    "schema_registry_seed_port", "seed_hostname", "service_attachment"})
                 @@ Nest("value",
                       [connected_endpoints |-> "GCPPrivateServiceConnectStatusConnectedEndpoints"]))
           @@ In({"GCPPrivateServiceConnectStatusConnectedEndpoints"},
                 As("value", {"connection_id", "consumer_network", "endpoint", "status"}))
           @@ In({"HTTPProxy"},
                 As("value", {"url"})
                 @@ Nest("value", [mtls |-> "HTTPProxyMtls", sasl |-> "HTTPProxySasl",
                       all_urls |-> "HTTPProxyAllUrls"]))]

\* FlattenHTTPProxyMtls to FlattenKafkaAPIMtls
Conversions11 ==
  [flatten |-> In({"HTTPProxyMtls", "KafkaAPIMtls"},
                 As("carryEmpty", {"ca_certificates_pem", "principal_mapping_rules"})
                 @@ As("direct", {"enabled"}))
           @@ In({"HTTPProxySasl"}, As("direct", {"enabled"}))
           @@ In({"HTTPProxyAllUrls"},
                 As("direct", {"mtls", "private_link_mtls", "private_link_sasl", "sasl"}))
           @@ In({"KafkaAPI"},
                 As("list", {"seed_brokers"})
                 @@ Nest("object", [mtls |-> "KafkaAPIMtls", sasl |-> "KafkaAPISasl",
                       all_seed_brokers |-> "KafkaAPIAllSeedBrokers"])),
   expand  |-> In({"HTTPProxyMtls"},
                 As("value", {"ca_certificates_pem", "principal_mapping_rules", "enabled"}))
           @@ In({"HTTPProxySasl"}, As("value", {"enabled"}))
           @@ In({"HTTPProxyAllUrls"},
                 As("value", {"mtls", "private_link_mtls", "private_link_sasl", "sasl"}))
           @@ In({"KafkaAPI"},
                 As("value", {"seed_brokers"})
                 @@ Nest("value", [mtls |-> "KafkaAPIMtls", sasl |-> "KafkaAPISasl",
                       all_seed_brokers |-> "KafkaAPIAllSeedBrokers"]))]

\* ExpandKafkaAPIMtls to FlattenMaintenanceWindowConfigDayHour
Conversions12 ==
  [flatten |-> In({"KafkaAPISasl", "KafkaConnect"}, As("direct", {"enabled"}))
           @@ In({"KafkaAPIAllSeedBrokers"},
                 As("direct", {"mtls", "private_link_mtls", "private_link_sasl", "sasl"}))
           @@ In({"MaintenanceWindowConfig"},
                 As("oneof", {"anytime", "unspecified"})
                 @@ Nest("object", [day_hour |-> "MaintenanceWindowConfigDayHour"]))
           @@ In({"MaintenanceWindowConfigDayHour"}, As("direct", {"day_of_week", "hour_of_day"})),
   expand  |-> In({"KafkaAPIMtls"},
                 As("value", {"ca_certificates_pem", "principal_mapping_rules", "enabled"}))
           @@ In({"KafkaAPISasl", "KafkaConnect"}, As("value", {"enabled"}))
           @@ In({"KafkaAPIAllSeedBrokers"},
                 As("value", {"mtls", "private_link_mtls", "private_link_sasl", "sasl"}))
           @@ In({"MaintenanceWindowConfig"},
                 As("value", {"anytime", "unspecified"})
                 @@ Nest("value", [day_hour |-> "MaintenanceWindowConfigDayHour"]))]

\* ExpandMaintenanceWindowConfigDayHour to ExpandSchemaRegistryAllUrls
Conversions13 ==
  [flatten |-> In({"Rpsql"},
                 As("direct", {"enabled", "replicas", "url", "version"})
                 @@ As("carryEmpty", {"zones"}))
           @@ In({"SchemaRegistry"},
                 As("direct", {"url"})
                 @@ Nest("object", [mtls |-> "SchemaRegistryMtls",
                       all_urls |-> "SchemaRegistryAllUrls"]))
           @@ In({"SchemaRegistryMtls"},
                 As("carryEmpty", {"ca_certificates_pem", "principal_mapping_rules"})
                 @@ As("direct", {"enabled"}))
           @@ In({"SchemaRegistryAllUrls"},
                 As("direct", {"mtls", "private_link_mtls", "private_link_sasl", "sasl"})),
   expand  |-> In({"MaintenanceWindowConfigDayHour"}, As("value", {"day_of_week", "hour_of_day"}))
           @@ In({"Rpsql"}, As("value", {"enabled", "replicas", "zones", "url", "version"}))
           @@ In({"SchemaRegistry"},
                 As("value", {"url"})
                 @@ Nest("value", [mtls |-> "SchemaRegistryMtls",
                       all_urls |-> "SchemaRegistryAllUrls"]))
           @@ In({"SchemaRegistryMtls"},
                 As("value", {"ca_certificates_pem", "principal_mapping_rules", "enabled"}))
           @@ In({"SchemaRegistryAllUrls"},
                 As("value", {"mtls", "private_link_mtls", "private_link_sasl", "sasl"}))]

\* FlattenDataplaneAPI to ExpandCreateCloudStorageAzure
Conversions14 ==
  [flatten |-> In({"DataplaneAPI", "Prometheus", "RedpandaConsole"}, As("direct", {"url"}))
           @@ In({"StateDescription"}, As("direct", {"code", "message"})),
   expand  |-> In({"DataplaneAPI", "Prometheus", "RedpandaConsole"}, As("value", {"url"}))
           @@ In({"StateDescription"}, As("value", {"code", "message"}))
           @@ In({"CreateAWSPrivateLink"},
                 As("value", {"allowed_principals", "enabled", "supported_regions"})
                 @@ As("pointer", {"connect_console"}))
           @@ In({"CreateAzurePrivateLink"},
                 As("value", {"allowed_subscriptions", "enabled"})
                 @@ As("pointer", {"connect_console"}))]

\* ExpandCreateCloudStorageGCP to ExpandCreateKafkaAPI
Conversions15 ==
  In({"CreateCloudStorage"},
     As("value", {"skip_destroy"})
     @@ Nest("value", [aws |-> "CreateCloudStorageAWS", azure |-> "CreateCloudStorageAzure",
           gcp |-> "CreateCloudStorageGCP"]))
  @@ In({"CreateClusterConfiguration"}, As("value", {"custom_properties_json"}))
  @@ In({"CreateGCPPrivateServiceConnectConsumerAcceptList"}, As("value", {"source"}))
  @@ In({"CreateGCPPrivateServiceConnect"},
        As("value", {"enabled", "global_access_enabled"})
        @@ Nest("value",
              [consumer_accept_list |-> "CreateGCPPrivateServiceConnectConsumerAcceptList"]))
  @@ In({"CreateHTTPProxyMtls", "CreateKafkaAPIMtls"},
        As("value", {"ca_certificates_pem", "principal_mapping_rules", "enabled"}))
  @@ In({"CreateHTTPProxySasl", "CreateKafkaAPISasl"}, As("value", {"enabled"}))
  @@ In({"CreateHTTPProxy"},
        Nest("value", [mtls |-> "CreateHTTPProxyMtls", sasl |-> "CreateHTTPProxySasl"]))
  @@ In({"CreateKafkaAPI"},
        Nest("value", [mtls |-> "CreateKafkaAPIMtls", sasl |-> "CreateKafkaAPISasl"]))

\* ExpandCreateSchemaRegistryMtls to ExpandUpdateAWSPrivateLink
Conversions16 ==
  In({"CreateSchemaRegistryMtls"},
     As("value", {"ca_certificates_pem", "principal_mapping_rules", "enabled"}))
  @@ In({"CreateSchemaRegistry"}, Nest("value", [mtls |-> "CreateSchemaRegistryMtls"]))
  @@ In({"UpdateCustomerManagedResourcesAWSRedpandaConnectNodeGroupInstanceProfile",
        "UpdateCustomerManagedResourcesAWSRedpandaConnectSecurityGroup",
        "UpdateCustomerManagedResourcesAWSRpsqlCloudStorageBucket",
        "UpdateCustomerManagedResourcesAWSRpsqlNodeGroupInstanceProfile",
        "UpdateCustomerManagedResourcesAWSRpsqlSecurityGroup"},
        As("value", {"arn"}))
  @@ In({"UpdateCustomerManagedResourcesAWS"},
        Nest("value",
           [redpanda_connect_node_group_instance_profile |-> "UpdateCustomerManagedResourcesAWSRedpandaConnectNodeGroupInstanceProfile",
           redpanda_connect_security_group |-> "UpdateCustomerManagedResourcesAWSRedpandaConnectSecurityGroup",
           rpsql_cloud_storage_bucket |-> "UpdateCustomerManagedResourcesAWSRpsqlCloudStorageBucket",
           rpsql_node_group_instance_profile |-> "UpdateCustomerManagedResourcesAWSRpsqlNodeGroupInstanceProfile",
           rpsql_security_group |-> "UpdateCustomerManagedResourcesAWSRpsqlSecurityGroup"]))
  @@ In({"UpdateCustomerManagedResourcesGCP"}, As("value", {"psc_nat_subnet_name"}))
  @@ In({"UpdateCustomerManagedResources"},
        Nest("value", [aws |-> "UpdateCustomerManagedResourcesAWS",
           gcp |-> "UpdateCustomerManagedResourcesGCP"]))
  @@ In({"UpdateAWSPrivateLink"},
        As("value", {"allowed_principals", "enabled", "supported_regions"})
        @@ As("pointer", {"connect_console"}))

\* ExpandUpdateAzurePrivateLink to ExpandUpdateHTTPProxy
Conversions17 ==
  In({"UpdateAzurePrivateLink"},
     As("value", {"allowed_subscriptions", "enabled"})
     @@ As("pointer", {"connect_console"}))
  @@ In({"UpdateCloudStorage"},
        As("value", {"skip_destroy"})
        @@ Nest("value", [aws |-> "UpdateCloudStorageAWS", azure |-> "UpdateCloudStorageAzure",
              gcp |-> "UpdateCloudStorageGCP"]))
  @@ In({"UpdateClusterConfiguration"}, As("value", {"custom_properties_json"}))
  @@ In({"UpdateGCPPrivateServiceConnectConsumerAcceptList"}, As("value", {"source"}))
  @@ In({"UpdateGCPPrivateServiceConnect"},
        As("value", {"enabled", "global_access_enabled"})
        @@ Nest("value",
              [consumer_accept_list |-> "UpdateGCPPrivateServiceConnectConsumerAcceptList"]))
  @@ In({"UpdateHTTPProxyMtls"},
        As("value", {"ca_certificates_pem", "principal_mapping_rules", "enabled"}))
  @@ In({"UpdateHTTPProxySasl"}, As("value", {"enabled"}))
  @@ In({"UpdateHTTPProxy"},
        Nest("value", [mtls |-> "UpdateHTTPProxyMtls", sasl |-> "UpdateHTTPProxySasl"]))

\* ExpandUpdateKafkaAPIMtls to ExpandUpdateSchemaRegistry
Conversions18 ==
  In({"UpdateKafkaAPIMtls", "UpdateSchemaRegistryMtls"},
     As("value", {"ca_certificates_pem", "principal_mapping_rules", "enabled"}))
  @@ In({"UpdateKafkaAPISasl"}, As("value", {"enabled"}))
  @@ In({"UpdateKafkaAPI"},
        Nest("value", [mtls |-> "UpdateKafkaAPIMtls", sasl |-> "UpdateKafkaAPISasl"]))
  @@ In({"UpdateSchemaRegistry"}, Nest("value", [mtls |-> "UpdateSchemaRegistryMtls"]))
=============================================================================
