------------------------ MODULE ServiceAccountTable ------------------------
\* The attributes of a service account.  Models: the type of each attribute.
\* Types: the type its attr.Type map gives it.  Decoders: the attribute each As or
\* Decode function reads a nested object from.  Flatten and Conversions: the form
\* each attribute is flattened and expanded in, and the message a nested one has.
\* Schema: how each attribute may be set, its kind and its plan modifiers.
\* Restored: the attributes taken from the plan or the prior state after Flatten.
EXTENDS Tables

\* Resource to Auth0ClientCredentials
Models ==
  In({"Resource"},
     Each("String", {"description", "id", "name"})
     @@ [auth0_client_credentials |-> "Object", role_bindings |-> "List",
           timeouts |-> "Timeouts"])
  @@ In({"RoleBindings"}, [role_name |-> "String", scope |-> "Object"])
  @@ In({"RoleBindingsScope"}, Each("String", {"resource_id", "resource_type", "dataplane_id"}))
  @@ In({"Auth0ClientCredentials"}, Each("String", {"client_id", "client_secret"}))

\* RoleBindings to Auth0ClientCredentials
Types ==
  In({"RoleBindings"}, [role_name |-> "String", scope |-> "Object"])
  @@ In({"RoleBindingsScope"}, Each("String", {"resource_id", "resource_type", "dataplane_id"}))
  @@ In({"Auth0ClientCredentials"}, Each("String", {"client_id", "client_secret"}))

\* AsRoleBindings to DecodeRoleBindingsScope
Decoders ==
  [RoleBindings |-> <<"Resource", "role_bindings">>,
   Auth0ClientCredentials |-> <<"Resource", "auth0_client_credentials">>,
   RoleBindingsScope |-> <<"RoleBindings", "scope">>]

Flatten ==
  In({"Resource"},
     As("direct", {"description", "name", "id"})
     @@ As("prev", {"role_bindings", "timeouts"})
     @@ Nest("has", [auth0_client_credentials |-> "Auth0ClientCredentials"]))

ExpandCreate == In({"Create"}, As("value", {"description", "name"}))

ExpandUpdate == In({"Update"}, As("value", {"description", "name"}))

\* FlattenAuth0ClientCredentials to ExpandAuth0ClientCredentials
Conversions ==
  [flatten |-> In({"Auth0ClientCredentials"},
                 As("direct", {"client_id"})
                 @@ As("has", {"client_secret"})),
   expand  |-> In({"Auth0ClientCredentials"},
                 As("value", {"client_id"})
                 @@ As("pointer", {"client_secret"}))]

\* description to timeouts
Schema ==
  In({"Resource"},
     Each(Required("String"), {"description", "name"})
     @@ [role_bindings |-> Replacing(Optional("List")),
           auth0_client_credentials |-> Pinned(Computed("Object")),
           id |-> Pinned(Computed("String")), timeouts |-> Optional("Timeouts")])
  @@ In({"RoleBindings"}, [role_name |-> Required("String"), scope |-> Required("Object")])
  @@ In({"RoleBindingsScope"},
        Each(Required("String"), {"resource_id", "resource_type"})
        @@ [dataplane_id |-> Optional("String")])
  @@ In({"Auth0ClientCredentials"},
        Each(Pinned(Computed("String")), {"client_id", "client_secret"}))

AllModels == Merge({Models})

AllTypes == Merge({Types})

AllDecoders == Merge({Decoders})

AllFlattens == Merge({Flatten, Conversions.flatten})

AllExpands == Merge({ExpandCreate, ExpandUpdate, Conversions.expand})

AllSchema == Merge({Schema})

Restored == {<<"Auth0ClientCredentials", "client_secret">>}
=============================================================================
