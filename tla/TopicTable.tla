----------------------------- MODULE TopicTable -----------------------------
\* The attributes of a topic.  Models: the type of each attribute.  Types: the
\* type its attr.Type map gives it.  Decoders: the attribute each As or Decode
\* function reads a nested object from.  Flatten and Conversions: the form each
\* attribute is flattened and expanded in, and the message a nested one has.
\* Schema: how each attribute may be set, its kind and its plan modifiers.
\* Restored: the attributes taken from the plan or the prior state after Flatten.
EXTENDS Tables

\* Resource to ReplicaAssignments
Models ==
  In({"Resource"},
     Each("String", {"cluster_api_url", "id", "name"})
     @@ Each("Number", {"partition_count", "replication_factor"})
     @@ [allow_deletion |-> "Bool", configuration |-> "Map", replica_assignments |-> "List"])
  @@ In({"ReplicaAssignments"}, [partition_id |-> "Int32", replica_ids |-> "List"])

\* ReplicaAssignments
Types == In({"ReplicaAssignments"}, [partition_id |-> "Int32", replica_ids |-> "List"])

\* AsReplicaAssignments
Decoders == [ReplicaAssignments |-> <<"Resource", "replica_assignments">>]

Flatten ==
  In({"Resource"},
     As("direct", {"name", "id"})
     @@ As("has", {"partition_count", "replication_factor"})
     @@ As("prev", {"cluster_api_url", "replica_assignments", "configuration"})
     @@ As("default", {"allow_deletion"}))

ExpandCreate ==
  In({"Create"},
     As("value", {"name"})
     @@ As("pointer", {"partition_count", "replication_factor"})
     @@ Nest("value", [replica_assignments |-> "ReplicaAssignments"]))

\* FlattenReplicaAssignments to ExpandReplicaAssignments
Conversions ==
  [flatten |-> In({"ReplicaAssignments"},
                 As("direct", {"partition_id"})
                 @@ As("list", {"replica_ids"})),
   expand  |-> In({"ReplicaAssignments"}, As("value", {"partition_id", "replica_ids"}))]

\* cluster_api_url to id
Schema ==
  In({"Resource"},
     Each(Replacing(Required("String")), {"cluster_api_url", "name"})
     @@ [replica_assignments |-> Replacing(Optional("List")),
           allow_deletion |-> Defaulted(OptionalComputed("Bool")),
           configuration |-> Pinned(OptionalComputed("Map")),
           partition_count |-> Pinned(ReplacingIf(OptionalComputed("Number"))),
           replication_factor |-> Pinned(Replacing(OptionalComputed("Number"))),
           id |-> Pinned(Computed("String"))])
  @@ In({"ReplicaAssignments"},
        [partition_id |-> Required("Int32"), replica_ids |-> Required("List")])

AllModels == Merge({Models})

AllTypes == Merge({Types})

AllDecoders == Merge({Decoders})

AllFlattens == Merge({Flatten, Conversions.flatten})

AllExpands == Merge({ExpandCreate, Conversions.expand})

AllSchema == Merge({Schema})

Restored == {}
=============================================================================
