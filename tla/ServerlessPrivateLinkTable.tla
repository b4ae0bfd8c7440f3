--------------------- MODULE ServerlessPrivateLinkTable ---------------------
\* The attributes of a serverless private link.  Models: the type of each
\* attribute.  Types: the type its attr.Type map gives it.  Decoders: the
\* attribute each As or Decode function reads a nested object from.  Flatten and
\* Conversions: the form each attribute is flattened and expanded in, and the
\* message a nested one has.  Schema: how each attribute may be set, its kind and
\* its plan modifiers.  Restored: the attributes taken from the plan or the prior
\* state after Flatten.
EXTENDS Tables

\* Resource to StatusAWS
Models ==
  In({"Resource"},
     Each("Object", {"aws_config", "cloud_provider_config", "status"})
     @@ Each("String", {"cloud_provider", "id", "name", "resource_group_id", "serverless_region",
           "state"})
     @@ [allow_deletion |-> "Bool", timeouts |-> "Timeouts"])
  @@ In({"CloudProviderConfig", "Status"}, [aws |-> "Object"])
  @@ In({"CloudProviderConfigAWS", "AWSConfig"}, [allowed_principals |-> "List"])
  @@ In({"StatusAWS"}, [availability_zones |-> "List", vpc_endpoint_service_name |-> "String"])

\* CloudProviderConfig to StatusAWS
Types ==
  In({"CloudProviderConfig", "Status"}, [aws |-> "Object"])
  @@ In({"CloudProviderConfigAWS", "AWSConfig"}, [allowed_principals |-> "List"])
  @@ In({"StatusAWS"}, [availability_zones |-> "List", vpc_endpoint_service_name |-> "String"])

\* AsCloudProviderConfig to DecodeStatusAWS
Decoders ==
  [CloudProviderConfig |-> <<"Resource", "cloud_provider_config">>,
   AWSConfig |-> <<"Resource", "aws_config">>, Status |-> <<"Resource", "status">>,
   CloudProviderConfigAWS |-> <<"CloudProviderConfig", "aws">>, StatusAWS |-> <<"Status", "aws">>]

Flatten ==
  In({"Resource"},
     As("direct", {"cloud_provider", "name", "resource_group_id", "serverless_region", "id",
        "state"})
     @@ As("prev", {"cloud_provider_config", "timeouts"})
     @@ As("default", {"allow_deletion"})
     @@ Nest("object", [aws_config |-> "AWSConfig", status |-> "Status"]))

ExpandCreate ==
  In({"Create"},
     As("value", {"cloud_provider", "name", "resource_group_id", "serverless_region"})
     @@ Nest("value", [aws_config |-> "CreateAWSConfig"]))

ExpandUpdate ==
  In({"Update"}, As("value", {"id"}) @@ Nest("value", [aws_config |-> "UpdateAWSConfig"]))

\* FlattenAWSConfig to ExpandUpdateAWSConfig
Conversions ==
  [flatten |-> In({"AWSConfig"}, As("list", {"allowed_principals"}))
           @@ In({"Status"}, Nest("object", [aws |-> "StatusAWS"]))
           @@ In({"StatusAWS"},
                 As("list", {"availability_zones"})
                 @@ As("direct", {"vpc_endpoint_service_name"})),
   expand  |-> In({"AWSConfig", "CreateAWSConfig", "UpdateAWSConfig"},
                 As("value", {"allowed_principals"}))
           @@ In({"Status"}, Nest("value", [aws |-> "StatusAWS"]))
           @@ In({"StatusAWS"}, As("value", {"availability_zones", "vpc_endpoint_service_name"}))]

\* cloud_provider to timeouts
Schema ==
  In({"Resource"},
     Each(Replacing(Required("String")), {"cloud_provider", "name", "resource_group_id",
        "serverless_region"})
     @@ Each(Pinned(Computed("String")), {"id", "state"})
     @@ [cloud_provider_config |-> Optional("Object"),
           allow_deletion |-> Defaulted(OptionalComputed("Bool")),
           aws_config |-> Pinned(OptionalComputed("Object")), status |-> Pinned(Computed("Object")),
           timeouts |-> Optional("Timeouts")])
  @@ In({"CloudProviderConfig"}, [aws |-> Optional("Object")])
  @@ In({"CloudProviderConfigAWS"}, [allowed_principals |-> Optional("List")])
  @@ In({"AWSConfig"}, [allowed_principals |-> Required("List")])
  @@ In({"Status"}, [aws |-> Pinned(Computed("Object"))])
  @@ In({"StatusAWS"},
        [availability_zones |-> Pinned(Computed("List")),
           vpc_endpoint_service_name |-> Pinned(Computed("String"))])

AllModels == Merge({Models})

AllTypes == Merge({Types})

AllDecoders == Merge({Decoders})

AllFlattens == Merge({Flatten, Conversions.flatten})

AllExpands == Merge({ExpandCreate, ExpandUpdate, Conversions.expand})

AllSchema == Merge({Schema})

Restored == {}
=============================================================================
