---------------------------- MODULE NetworkTable ----------------------------
\* The attributes of a network.  Models: the type of each attribute.  Types: the
\* type its attr.Type map gives it.  Decoders: the attribute each As or Decode
\* function reads a nested object from.  Flatten and Conversions: the form each
\* attribute is flattened and expanded in, and the message a nested one has.
\* Schema: how each attribute may be set, its kind and its plan modifiers.  The
\* Data tables say the same of the data source.  Restored: the attributes taken
\* from the plan or the prior state after Flatten.
EXTENDS Tables

\* Resource to CustomerManagedResourcesGCPManagementBucket
Models ==
  In({"Resource"},
     Each("String", {"cidr_block", "cloud_provider", "cluster_type", "id", "name", "region",
        "resource_group_id", "state"})
     @@ [customer_managed_resources |-> "Object", timeouts |-> "Timeouts", zones |-> "List"])
  @@ In({"CustomerManagedResources"}, Each("Object", {"aws", "gcp"}))
  @@ In({"CustomerManagedResourcesAWS"},
        Each("Object", {"dynamodb_table", "management_bucket", "private_subnets", "vpc"}))
  @@ In({"CustomerManagedResourcesAWSDynamodbTable",
        "CustomerManagedResourcesAWSManagementBucket", "CustomerManagedResourcesAWSVPC"},
        [arn |-> "String"])
  @@ In({"CustomerManagedResourcesAWSPrivateSubnets"}, [arns |-> "List"])
  @@ In({"CustomerManagedResourcesGCP"},
        Each("String", {"network_name", "network_project_id"})
        @@ [management_bucket |-> "Object"])
  @@ In({"CustomerManagedResourcesGCPManagementBucket"}, [name |-> "String"])

\* CustomerManagedResources to CustomerManagedResourcesGCPManagementBucket
Types ==
  In({"CustomerManagedResources"}, Each("Object", {"aws", "gcp"}))
  @@ In({"CustomerManagedResourcesAWS"},
        Each("Object", {"dynamodb_table", "management_bucket", "private_subnets", "vpc"}))
  @@ In({"CustomerManagedResourcesAWSDynamodbTable",
        "CustomerManagedResourcesAWSManagementBucket", "CustomerManagedResourcesAWSVPC"},
        [arn |-> "String"])
  @@ In({"CustomerManagedResourcesAWSPrivateSubnets"}, [arns |-> "List"])
  @@ In({"CustomerManagedResourcesGCP"},
        Each("String", {"network_name", "network_project_id"})
        @@ [management_bucket |-> "Object"])
  @@ In({"CustomerManagedResourcesGCPManagementBucket"}, [name |-> "String"])

\* AsCustomerManagedResources to DecodeCustomerManagedResourcesGCP
Decoders1 ==
  [CustomerManagedResources |-> <<"Resource", "customer_managed_resources">>,
   CustomerManagedResourcesAWS |-> <<"CustomerManagedResources", "aws">>,
   CustomerManagedResourcesAWSDynamodbTable |-> <<"CustomerManagedResourcesAWS", "dynamodb_table">>,
   CustomerManagedResourcesAWSManagementBucket |-> <<"CustomerManagedResourcesAWS", "management_bucket">>,
   CustomerManagedResourcesAWSPrivateSubnets |-> <<"CustomerManagedResourcesAWS", "private_subnets">>,
   CustomerManagedResourcesAWSVPC |-> <<"CustomerManagedResourcesAWS", "vpc">>,
   CustomerManagedResourcesGCP |-> <<"CustomerManagedResources", "gcp">>]

\* DecodeCustomerManagedResourcesGCPManagementBucket
Decoders2 ==
  [CustomerManagedResourcesGCPManagementBucket |-> <<"CustomerManagedResourcesGCP", "management_bucket">>]

Flatten ==
  In({"Resource"},
     As("direct", {"cloud_provider", "cluster_type", "name", "region", "resource_group_id", "id",
        "state"})
     @@ As("object", {"cidr_block"})
     @@ As("list", {"zones"})
     @@ As("prev", {"timeouts"})
     @@ Nest("object", [customer_managed_resources |-> "CustomerManagedResources"]))

ExpandCreate ==
  In({"Create"},
     As("value", {"cloud_provider", "cluster_type", "name", "region", "resource_group_id",
        "cidr_block"})
     @@ Nest("value", [customer_managed_resources |-> "CustomerManagedResources"]))

\* FlattenCustomerManagedResources to FlattenCustomerManagedResourcesAWSPrivateSubnets
Conversions1 ==
  [flatten |-> In({"CustomerManagedResources"},
                 Nest("object", [aws |-> "CustomerManagedResourcesAWS",
                    gcp |-> "CustomerManagedResourcesGCP"]))
           @@ In({"CustomerManagedResourcesAWS"},
                 Nest("object", [dynamodb_table |-> "CustomerManagedResourcesAWSDynamodbTable",
                    management_bucket |-> "CustomerManagedResourcesAWSManagementBucket",
                    private_subnets |-> "CustomerManagedResourcesAWSPrivateSubnets",
                    vpc |-> "CustomerManagedResourcesAWSVPC"]))
           @@ In({"CustomerManagedResourcesAWSDynamodbTable",
                 "CustomerManagedResourcesAWSManagementBucket"},
                 As("direct", {"arn"}))
           @@ In({"CustomerManagedResourcesAWSPrivateSubnets"}, As("list", {"arns"})),
   expand  |-> In({"CustomerManagedResources"},
                 Nest("value", [aws |-> "CustomerManagedResourcesAWS",
                    gcp |-> "CustomerManagedResourcesGCP"]))
           @@ In({"CustomerManagedResourcesAWS"},
                 Nest("value", [dynamodb_table |-> "CustomerManagedResourcesAWSDynamodbTable",
                    management_bucket |-> "CustomerManagedResourcesAWSManagementBucket",
                    private_subnets |-> "CustomerManagedResourcesAWSPrivateSubnets",
                    vpc |-> "CustomerManagedResourcesAWSVPC"]))
           @@ In({"CustomerManagedResourcesAWSDynamodbTable",
                 "CustomerManagedResourcesAWSManagementBucket"},
                 As("value", {"arn"}))]

\* ExpandCustomerManagedResourcesAWSPrivateSubnets to ExpandCustomerManagedResourcesGCPManagementBucket
Conversions2 ==
  [flatten |-> In({"CustomerManagedResourcesAWSVPC"}, As("direct", {"arn"}))
           @@ In({"CustomerManagedResourcesGCP"},
                 As("direct", {"network_name", "network_project_id"})
                 @@ Nest("object",
                       [management_bucket |-> "CustomerManagedResourcesGCPManagementBucket"]))
           @@ In({"CustomerManagedResourcesGCPManagementBucket"}, As("direct", {"name"})),
   expand  |-> In({"CustomerManagedResourcesAWSPrivateSubnets"}, As("value", {"arns"}))
           @@ In({"CustomerManagedResourcesAWSVPC"}, As("value", {"arn"}))
           @@ In({"CustomerManagedResourcesGCP"},
                 As("value", {"network_name", "network_project_id"})
                 @@ Nest("value",
                       [management_bucket |-> "CustomerManagedResourcesGCPManagementBucket"]))
           @@ In({"CustomerManagedResourcesGCPManagementBucket"}, As("value", {"name"}))]

\* cloud_provider to timeouts
Schema ==
  In({"Resource"},
     Each(Replacing(Required("String")), {"cloud_provider", "cluster_type", "name", "region",
        "resource_group_id"})
     @@ Each(Pinned(Computed("String")), {"id", "state"})
     @@ [cidr_block |-> Replacing(Optional("String")),
           customer_managed_resources |-> Optional("Object"), zones |-> Pinned(Computed("List")),
           timeouts |-> Optional("Timeouts")])
  @@ In({"CustomerManagedResources"}, Each(Replacing(Optional("Object")), {"aws", "gcp"}))
  @@ In({"CustomerManagedResourcesAWS"},
        Each(Required("Object"), {"dynamodb_table", "management_bucket", "private_subnets",
           "vpc"}))
  @@ In({"CustomerManagedResourcesAWSDynamodbTable",
        "CustomerManagedResourcesAWSManagementBucket", "CustomerManagedResourcesAWSVPC"},
        [arn |-> Required("String")])
  @@ In({"CustomerManagedResourcesAWSPrivateSubnets"}, [arns |-> Required("List")])
  @@ In({"CustomerManagedResourcesGCP"},
        Each(Required("String"), {"network_name", "network_project_id"})
        @@ [management_bucket |-> Required("Object")])
  @@ In({"CustomerManagedResourcesGCPManagementBucket"}, [name |-> Required("String")])

\* Resource to CustomerManagedResourcesGCPManagementBucket
DataModels ==
  In({"Resource"},
     Each("String", {"cidr_block", "cloud_provider", "cluster_type", "id", "name", "region",
        "resource_group_id", "state"})
     @@ [customer_managed_resources |-> "Object", zones |-> "List"])
  @@ In({"CustomerManagedResources"}, Each("Object", {"aws", "gcp"}))
  @@ In({"CustomerManagedResourcesAWS"},
        Each("Object", {"dynamodb_table", "management_bucket", "private_subnets", "vpc"}))
  @@ In({"CustomerManagedResourcesAWSDynamodbTable",
        "CustomerManagedResourcesAWSManagementBucket", "CustomerManagedResourcesAWSVPC"},
        [arn |-> "String"])
  @@ In({"CustomerManagedResourcesAWSPrivateSubnets"}, [arns |-> "List"])
  @@ In({"CustomerManagedResourcesGCP"},
        Each("String", {"network_name", "network_project_id"})
        @@ [management_bucket |-> "Object"])
  @@ In({"CustomerManagedResourcesGCPManagementBucket"}, [name |-> "String"])

\* CustomerManagedResources to CustomerManagedResourcesGCPManagementBucket
DataTypes ==
  In({"CustomerManagedResources"}, Each("Object", {"aws", "gcp"}))
  @@ In({"CustomerManagedResourcesAWS"},
        Each("Object", {"dynamodb_table", "management_bucket", "private_subnets", "vpc"}))
  @@ In({"CustomerManagedResourcesAWSDynamodbTable",
        "CustomerManagedResourcesAWSManagementBucket", "CustomerManagedResourcesAWSVPC"},
        [arn |-> "String"])
  @@ In({"CustomerManagedResourcesAWSPrivateSubnets"}, [arns |-> "List"])
  @@ In({"CustomerManagedResourcesGCP"},
        Each("String", {"network_name", "network_project_id"})
        @@ [management_bucket |-> "Object"])
  @@ In({"CustomerManagedResourcesGCPManagementBucket"}, [name |-> "String"])

\* AsCustomerManagedResources to DecodeDataCustomerManagedResourcesGCP
DataDecoders1 ==
  [CustomerManagedResources |-> <<"Resource", "customer_managed_resources">>,
   CustomerManagedResourcesAWS |-> <<"CustomerManagedResources", "aws">>,
   CustomerManagedResourcesAWSDynamodbTable |-> <<"CustomerManagedResourcesAWS", "dynamodb_table">>,
   CustomerManagedResourcesAWSManagementBucket |-> <<"CustomerManagedResourcesAWS", "management_bucket">>,
   CustomerManagedResourcesAWSPrivateSubnets |-> <<"CustomerManagedResourcesAWS", "private_subnets">>,
   CustomerManagedResourcesAWSVPC |-> <<"CustomerManagedResourcesAWS", "vpc">>,
   CustomerManagedResourcesGCP |-> <<"CustomerManagedResources", "gcp">>]

\* DecodeDataCustomerManagedResourcesGCPManagementBucket
DataDecoders2 ==
  [CustomerManagedResourcesGCPManagementBucket |-> <<"CustomerManagedResourcesGCP", "management_bucket">>]

DataFlatten ==
  In({"Resource"},
     As("direct", {"id", "cloud_provider", "cluster_type", "name", "region", "resource_group_id",
        "state"})
     @@ As("object", {"cidr_block"})
     @@ As("list", {"zones"})
     @@ Nest("object", [customer_managed_resources |-> "CustomerManagedResources"]))

\* FlattenDataCustomerManagedResources to FlattenDataCustomerManagedResourcesAWSPrivateSubnets
DataConversions1 ==
  In({"CustomerManagedResources"},
     Nest("object", [aws |-> "CustomerManagedResourcesAWS",
        gcp |-> "CustomerManagedResourcesGCP"]))
  @@ In({"CustomerManagedResourcesAWS"},
        Nest("object", [dynamodb_table |-> "CustomerManagedResourcesAWSDynamodbTable",
           management_bucket |-> "CustomerManagedResourcesAWSManagementBucket",
           private_subnets |-> "CustomerManagedResourcesAWSPrivateSubnets",
           vpc |-> "CustomerManagedResourcesAWSVPC"]))
  @@ In({"CustomerManagedResourcesAWSDynamodbTable",
        "CustomerManagedResourcesAWSManagementBucket"},
        As("direct", {"arn"}))
  @@ In({"CustomerManagedResourcesAWSPrivateSubnets"}, As("list", {"arns"}))

\* ExpandDataCustomerManagedResourcesAWSPrivateSubnets to ExpandDataCustomerManagedResourcesGCPManagementBucket
DataConversions2 ==
  In({"CustomerManagedResourcesAWSVPC"}, As("direct", {"arn"}))
  @@ In({"CustomerManagedResourcesGCP"},
        As("direct", {"network_name", "network_project_id"})
        @@ Nest("object", [management_bucket |-> "CustomerManagedResourcesGCPManagementBucket"]))
  @@ In({"CustomerManagedResourcesGCPManagementBucket"}, As("direct", {"name"}))

\* id to zones
DataSchema ==
  In({"Resource"},
     Each(Computed("String"), {"cidr_block", "cloud_provider", "cluster_type", "name", "region",
        "resource_group_id", "state"})
     @@ [id |-> Required("String"), customer_managed_resources |-> Computed("Object"),
           zones |-> Computed("List")])
  @@ In({"CustomerManagedResources"}, Each(Computed("Object"), {"aws", "gcp"}))
  @@ In({"CustomerManagedResourcesAWS"},
        Each(Computed("Object"), {"dynamodb_table", "management_bucket", "private_subnets",
           "vpc"}))
  @@ In({"CustomerManagedResourcesAWSDynamodbTable",
        "CustomerManagedResourcesAWSManagementBucket", "CustomerManagedResourcesAWSVPC"},
        [arn |-> Required("String")])
  @@ In({"CustomerManagedResourcesAWSPrivateSubnets"}, [arns |-> Required("List")])
  @@ In({"CustomerManagedResourcesGCP"},
        Each(Computed("String"), {"network_name", "network_project_id"})
        @@ [management_bucket |-> Computed("Object")])
  @@ In({"CustomerManagedResourcesGCPManagementBucket"}, [name |-> Required("String")])

AllModels == Merge({Models})

AllTypes == Merge({Types})

AllDecoders == Merge({Decoders1, Decoders2})

AllFlattens == Merge({Flatten, Conversions1.flatten, Conversions2.flatten})

AllExpands == Merge({ExpandCreate, Conversions1.expand, Conversions2.expand})

AllSchema == Merge({Schema})

Restored == {}

AllDataModels == Merge({DataModels})

AllDataTypes == Merge({DataTypes})

AllDataDecoders == Merge({DataDecoders1, DataDecoders2})

AllDataFlattens == Merge({DataFlatten, DataConversions1, DataConversions2})

AllDataSchema == Merge({DataSchema})
=============================================================================
