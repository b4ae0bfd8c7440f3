--------------------------- MODULE AttributeTable ---------------------------
\* The rows of module Attribute: every attribute of the generated resources, with
\* what its schema, its model and its conversions say of it brought together.
EXTENDS Tables

A   == INSTANCE AclTable
C   == INSTANCE ClusterTable
N   == INSTANCE NetworkTable
P   == INSTANCE PipelineTable
RG  == INSTANCE ResourceGroupTable
R   == INSTANCE RoleTable
SC  == INSTANCE ServerlessClusterTable
SPL == INSTANCE ServerlessPrivateLinkTable
SA  == INSTANCE ServiceAccountTable
SL  == INSTANCE ShadowLinkTable
T   == INSTANCE TopicTable
U   == INSTANCE UserTable

\* What a resource, or a data source, says of its attributes.
Source(models, types, decoders, flattens, schema) ==
  [models |-> models, types |-> types, decoders |-> decoders, flattens |-> flattens,
   schema |-> schema]
NoSource == Source(Nothing, Nothing, Nothing, Nothing, Nothing)

\* handler is the way its Update works (see module Attribute).
Resource(handler, source, expands, restored, data) ==
  [handler |-> handler, expands |-> expands, restored |-> restored, data |-> data] @@ source

Resources ==
  [acl |->
     Resource("state", Source(A!AllModels, A!AllTypes, A!AllDecoders, A!AllFlattens, A!AllSchema),
              A!AllExpands, A!Restored,
              NoSource),
   cluster |->
     Resource("mask", Source(C!AllModels, C!AllTypes, C!AllDecoders, C!AllFlattens, C!AllSchema),
              C!AllExpands, C!Restored,
              Source(C!AllDataModels, C!AllDataTypes, C!AllDataDecoders, C!AllDataFlattens,
                     C!AllDataSchema)),
   network |->
     Resource("none", Source(N!AllModels, N!AllTypes, N!AllDecoders, N!AllFlattens, N!AllSchema),
              N!AllExpands, N!Restored,
              Source(N!AllDataModels, N!AllDataTypes, N!AllDataDecoders, N!AllDataFlattens,
                     N!AllDataSchema)),
   pipeline |->
     Resource("whole", Source(P!AllModels, P!AllTypes, P!AllDecoders, P!AllFlattens, P!AllSchema),
              P!AllExpands, P!Restored,
              NoSource),
   resource_group |->
     Resource("plan", Source(RG!AllModels, RG!AllTypes, RG!AllDecoders, RG!AllFlattens, RG!AllSchema),
              RG!AllExpands, RG!Restored,
              Source(RG!AllDataModels, RG!AllDataTypes, RG!AllDataDecoders, RG!AllDataFlattens,
                     RG!AllDataSchema)),
   role |->
     Resource("plan", Source(R!AllModels, R!AllTypes, R!AllDecoders, R!AllFlattens, R!AllSchema),
              R!AllExpands, R!Restored,
              NoSource),
   serverless_cluster |->
     Resource("mask", Source(SC!AllModels, SC!AllTypes, SC!AllDecoders, SC!AllFlattens, SC!AllSchema),
              SC!AllExpands, SC!Restored,
              Source(SC!AllDataModels, SC!AllDataTypes, SC!AllDataDecoders, SC!AllDataFlattens,
                     SC!AllDataSchema)),
   serverless_private_link |->
     Resource("mask", Source(SPL!AllModels, SPL!AllTypes, SPL!AllDecoders, SPL!AllFlattens, SPL!AllSchema),
              SPL!AllExpands, SPL!Restored,
              NoSource),
   service_account |->
     Resource("mask", Source(SA!AllModels, SA!AllTypes, SA!AllDecoders, SA!AllFlattens, SA!AllSchema),
              SA!AllExpands, SA!Restored,
              NoSource),
   shadow_link |->
     Resource("mask", Source(SL!AllModels, SL!AllTypes, SL!AllDecoders, SL!AllFlattens, SL!AllSchema),
              SL!AllExpands, SL!Restored,
              NoSource),
   topic |->
     Resource("plan", Source(T!AllModels, T!AllTypes, T!AllDecoders, T!AllFlattens, T!AllSchema),
              T!AllExpands, T!Restored,
              NoSource),
   user |->
     Resource("user", Source(U!AllModels, U!AllTypes, U!AllDecoders, U!AllFlattens, U!AllSchema),
              U!AllExpands, U!Restored,
              NoSource)]

\* Attributes with a rule of their own: topic.configuration and the partition
\* count are the Topic's, a pipeline's state and service account are its Update's.
OwnRule ==
  {<<"topic", <<"Resource", "configuration">>>>, <<"topic", <<"Resource", "partition_count">>>>,
   <<"pipeline", <<"Resource", "state">>>>, <<"pipeline", <<"Resource", "service_account">>>>}

\* What ModifyPlan of the cluster sets to unknown.
ModifyPlan ==
  {<<"KafkaAPI", "all_seed_brokers">>, <<"HTTPProxy", "all_urls">>,
   <<"SchemaRegistry", "all_urls">>, <<"AWSPrivateLink", "status">>,
   <<"GCPPrivateServiceConnect", "status">>, <<"AzurePrivateLink", "status">>}

\* What ThreadCreateExtras puts into the create request.
ThreadCreateExtras ==
  {<<"service_account", "role_bindings">>, <<"shadow_link", "source_redpanda_id">>}

\* What the import id names.
ImportNames ==
  [acl |-> {"cluster_api_url", "resource_type", "resource_name", "resource_pattern_type",
            "principal", "host", "operation", "permission_type", "id"},
   role |-> {"name", "id", "cluster_api_url"},
   topic |-> {"name", "id", "cluster_api_url"},
   user |-> {"name", "id", "cluster_api_url"},
   pipeline |-> {"id", "cluster_api_url"}]
  @@ [name \in DOMAIN Resources |-> {}]

-----------------------------------------------------------------------------
Kind(kind) == CASE kind \in {"Object", "Timeouts"}    -> "Object"
                [] kind \in {"List", "Map", "Bool"} -> kind
                [] OTHER                            -> "Scalar"

TheResource ==
  [class |-> "Root", kind |-> "Object", default |-> FALSE, writeOnly |-> FALSE, mods |-> {},
   flatten |-> "object", create |-> "value", update |-> "value", data |-> "object",
   released |-> FALSE]

\* The rows of a resource from its tables t.  Parent is the attribute a nested message is flattened
\* for, Expander the function a request expands it with, "" where it has no place.
RowsOf(name, t) ==
  LET Nested == {k \in DOMAIN t.flattens : Child(t.flattens[k]) # ""}
      Parent == [m \in {Child(t.flattens[k]) : k \in Nested} |->
                   CHOOSE k \in Nested : Child(t.flattens[k]) = m]
      Messages == {"Resource"} \cup DOMAIN Parent
      Top(k) == k[1] = "Resource"

      Expander[root \in {"Create", "Update"}, m \in Messages] ==
        IF m = "Resource" THEN root
        ELSE LET key == <<Expander[root, Parent[m][1]], Parent[m][2]>>
             IN IF key \in DOMAIN t.expands THEN Child(t.expands[key]) ELSE ""
      Threaded(root, k) == root = "Create" /\ Top(k) /\ <<name, k[2]>> \in ThreadCreateExtras
      ExpandForm(root, k) ==
        LET key == <<Expander[root, k[1]], k[2]>>
        IN IF Threaded(root, k) THEN "value"
           ELSE IF key \in DOMAIN t.expands THEN Form(t.expands[key]) ELSE "absent"

      FormIn(f, k) == IF k \in DOMAIN f THEN Form(f[k]) ELSE "none"
      Within[m \in Messages, S \in {"lists", "replaced", "released", "own"}] ==
        /\ m # "Resource"
        /\ \/ Within[Parent[m][1], S]
           \/ CASE S = "lists"    -> Form(t.flattens[Parent[m]]) = "objects"
                [] S = "replaced" -> "RequiresReplace" \in t.schema[Parent[m]].mods
                [] S = "released" -> name = "cluster" /\ Parent[m] \in ModifyPlan
                [] S = "own"      -> <<name, Parent[m]>> \in OwnRule

      \* An attribute by itself.
      One(k) ==
        [class |-> t.schema[k].class, kind |-> Kind(t.models[k]), default |-> t.schema[k].default,
         writeOnly |-> t.schema[k].writeOnly, mods |-> t.schema[k].mods,
         flatten |-> FormIn(t.flattens, k), data |-> FormIn(t.data.flattens, k),
         create |-> ExpandForm("Create", k), update |-> ExpandForm("Update", k),
         released |-> name = "cluster" /\ (k \in ModifyPlan \/ Within[k[1], "released"])]
      Above(k) == IF Top(k) THEN TheResource ELSE One(Parent[k[1]])

      \* The three descriptions of the attribute's type are one, a nested object is
      \* decoded from the attribute it is flattened to, and the data source agrees.
      OneType(d, k) ==
        /\ d.schema[k].kind = d.models[k]
        /\ Top(k) \/ d.types[k] = d.models[k]
        /\ LET child == Child(d.flattens[k]) IN child \in DOMAIN d.decoders => d.decoders[child] = k
      Fits(k) ==
        /\ OneType(t, k)
        /\ k \in DOMAIN t.data.models => OneType(t.data, k) /\ t.data.models[k] = t.models[k]

      Row(k) ==
        LET one == One(k)
            up == Above(k)
        IN [resource |-> name, path |-> k, handler |-> t.handler, up |-> up,
            restored |-> k \in t.restored,
            inList |-> Within[k[1], "lists"],
            replaced |-> Within[k[1], "replaced"],
            coupled |-> one.released \/ up.released
                        \/ one.mods \cap {"gcpGatewayStatePin", "rpsqlStringStatePin",
                                          "rpsqlZonesStatePin"} # {},
            named |-> Top(k) /\ k[2] \in ({"id"} \cup ImportNames[name]),
            generated |-> k = <<"Resource", "id">> /\ name \in {"acl", "role"},
            fits |-> Fits(k)] @@ one
  IN {Row(k) : k \in {k \in DOMAIN t.models :
                        k[1] \in Messages /\ <<name, k>> \notin OwnRule /\ ~Within[k[1], "own"]}}

AllAttributes == UNION {RowsOf(name, Resources[name]) : name \in DOMAIN Resources}
=============================================================================
