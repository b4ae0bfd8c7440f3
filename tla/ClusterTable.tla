---------------------------- MODULE ClusterTable ----------------------------
\* The attributes of a cluster, each table whole.  Restored: the attributes that
\* the resource takes from the plan or the prior state after Flatten.
EXTENDS ClusterModel, ClusterConversion, ClusterSchema, ClusterDataSource

AllModels == Merge({Models1, Models2, Models3, Models4, Models5})

AllTypes == Merge({Types1, Types2, Types3, Types4, Types5})

AllDecoders ==
  Merge({Decoders1, Decoders2, Decoders3, Decoders4, Decoders5, Decoders6, Decoders7, Decoders8,
         Decoders9})

AllFlattens ==
  Merge({Flatten, Conversions1.flatten, Conversions2.flatten, Conversions3.flatten,
         Conversions4.flatten, Conversions5.flatten, Conversions6.flatten, Conversions7.flatten,
         Conversions8.flatten, Conversions9.flatten, Conversions10.flatten, Conversions11.flatten,
         Conversions12.flatten, Conversions13.flatten, Conversions14.flatten})

AllExpands ==
  Merge({ExpandCreate, ExpandUpdate, Conversions1.expand, Conversions2.expand, Conversions3.expand,
         Conversions4.expand, Conversions5.expand, Conversions6.expand, Conversions7.expand,
         Conversions8.expand, Conversions9.expand, Conversions10.expand, Conversions11.expand,
         Conversions12.expand, Conversions13.expand, Conversions14.expand, Conversions15,
         Conversions16, Conversions17, Conversions18})

AllSchema ==
  Merge({Schema1, Schema2, Schema3, Schema4, Schema5, Schema6, Schema7, Schema8, Schema9})

Restored == {<<"ClusterConfiguration", "custom_properties_json">>}

AllDataModels == Merge({DataModels1, DataModels2, DataModels3, DataModels4})

AllDataTypes == Merge({DataTypes1, DataTypes2, DataTypes3, DataTypes4, DataTypes5})

AllDataDecoders ==
  Merge({DataDecoders1, DataDecoders2, DataDecoders3, DataDecoders4, DataDecoders5, DataDecoders6,
         DataDecoders7, DataDecoders8, DataDecoders9})

AllDataFlattens ==
  Merge({DataFlatten, DataConversions1, DataConversions2, DataConversions3, DataConversions4,
         DataConversions5, DataConversions6, DataConversions7, DataConversions8, DataConversions9,
         DataConversions10, DataConversions11, DataConversions12, DataConversions13})

AllDataSchema ==
  Merge({DataSchema1, DataSchema2, DataSchema3, DataSchema4, DataSchema5, DataSchema6, DataSchema7})
=============================================================================
