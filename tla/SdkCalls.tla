------------------------------ MODULE SdkCalls ------------------------------
(***************************************************************************)
(* What each function of the Go packages sends and what it makes of the    *)
(* answer.  One table per package and direction, by function name: the     *)
(* stub it calls with the request it builds from its arguments a and its   *)
(* client's store s, and the Go values it builds from the answer r.  A     *)
(* result is the sequence of structs the caller gets; a bare value is a    *)
(* struct with the one field value.                                        *)
(*                                                                         *)
(* Left to other modules: the channels of the streaming calls              *)
(* (StreamBridge; here, one message of the stream) and Latest, which       *)
(* chooses from List (Snapshots).                                          *)
(***************************************************************************)
EXTENDS Services

Call(stub, request) == [stub |-> stub, request |-> request]

Each(conv(_), list) == [i \in DOMAIN list |-> conv(list[i])]
\* A message field that is not repeated: nil when it is unset.
Only(list) == IF list = <<>> THEN <<>> ELSE list[1]

\* time.UnixMilli and time.UnixMicro of a wire number, and back.  Zero is
\* 1970; a number counted in the other unit is some other instant.
Epoch1970 == <<"1970">>
In(unit, w) == IF w = Zero THEN Epoch1970
               ELSE IF w[Len(w)] = unit THEN SubSeq(w, 1, Len(w) - 1)
               ELSE <<"another instant">>
UnixMilli(w) == In("ms", w)
UnixMicro(w) == In("us", w)
ToMillis(t) == t \o <<"ms">>
ToMicros(t) == t \o <<"us">>
\* time.Parse of a text whose error is dropped: the zero time stands for a text
\* that is empty or names no instant in this layout.
ParseRFC3339(w) ==
  IF w # Zero /\ w[Len(w)] = "rfc3339" THEN SubSeq(w, 1, Len(w) - 1) ELSE Zero

\* An event of an Append: streams and dcb have the same struct.
ProposedToProto(e) ==
  [event_id |-> e.EventID, event_type |-> e.EventType, data |-> e.Data,
   metadata |-> e.Metadata, tags |-> e.Tags,
   data_content_type |-> e.DataContentType,
   metadata_content_type |-> e.MetadataContentType]

\* Mutant: the epoch, in microseconds, is read as milliseconds.
recordedFromProtoMillis(p) ==
  [EventID |-> Get(p, "event_id"), EventType |-> Get(p, "event_type"),
   StreamID |-> Get(p, "stream_id"), Version |-> Get(p, "version"),
   Data |-> Get(p, "data"), Metadata |-> Get(p, "metadata"),
   Tags |-> Get(p, "tags"), Timestamp |-> UnixMilli(Get(p, "timestamp")),
   Epoch |-> UnixMilli(Get(p, "epoch_us")),
   DataContentType |-> Get(p, "data_content_type"),
   MetadataContentType |-> Get(p, "metadata_content_type"),
   PrevEventHash |-> Get(p, "prev_event_hash")]
\* The conversion that streams, subscriptions, temporal and schema each
\* write down.
recordedFromProto(p) ==
  [EventID |-> Get(p, "event_id"), EventType |-> Get(p, "event_type"),
   StreamID |-> Get(p, "stream_id"), Version |-> Get(p, "version"),
   Data |-> Get(p, "data"), Metadata |-> Get(p, "metadata"),
   Tags |-> Get(p, "tags"), Timestamp |-> UnixMilli(Get(p, "timestamp")),
   Epoch |-> UnixMicro(Get(p, "epoch_us")),
   DataContentType |-> Get(p, "data_content_type"),
   MetadataContentType |-> Get(p, "metadata_content_type"),
   PrevEventHash |-> Get(p, "prev_event_hash")]
Events(r) == Each(recordedFromProto, Get(r, "events"))

Value(v) == <<[value |-> v]>>
Nothing == <<>>

------------------------------------------------------------------------------
\* streams

tagMatchToProto(m) ==
  IF m = <<"all">> THEN <<"TAG_MATCH_ALL">> ELSE <<"TAG_MATCH_ANY">>

StreamsAppend(s, a) == Call("AppendEvents",
  [store_id |-> s, stream_id |-> a.streamID, expected_version |-> a.expected,
   events |-> Each(ProposedToProto, a.events)])

StreamsReads(s, a) ==
  LET page == [store_id |-> s, stream_id |-> a.streamID,
               start_version |-> a.startVersion, count |-> a.count]
  IN [Read |-> Call("ReadStreamForward", page),
      ReadBackward |-> Call("ReadStreamBackward", page),
      Watch |-> Call("StreamEventsForward", page)]

StreamsByKey(s, a) ==
  [Version |-> Call("GetStreamVersion",
     [store_id |-> s, stream_id |-> a.streamID]),
   List |-> Call("ListStreams", [store_id |-> s]),
   Delete |-> Call("DeleteStream", [store_id |-> s, stream_id |-> a.streamID]),
   ReadByEventTypes |-> Call("ReadByEventTypes",
     [store_id |-> s, event_types |-> a.types, batch_size |-> a.batch]),
   ReadByTags |-> Call("ReadByTags",
     [store_id |-> s, tags |-> a.tags, match |-> tagMatchToProto(a.match),
      batch_size |-> a.batch]),
   ReadByMetadata |-> Call("ReadByMetadata",
     [store_id |-> s, key |-> a.key, value |-> a.value,
      batch_size |-> a.batch]),
   ReadAllGlobal |-> Call("ReadAllGlobal",
     [store_id |-> s, offset |-> a.offset, limit |-> a.limit])]

\* ReadEffects, ReadCorrelated and ReadConversation: ReadByMetadata under a
\* key of their own, with the id as the value.
StreamsLineage(s, a) ==
  LET Under(key) == Call("ReadByMetadata",
        [store_id |-> s, key |-> <<key>>, value |-> a.id,
         batch_size |-> a.batch])
  IN [ReadEffects |-> Under("causation_id"),
      ReadCorrelated |-> Under("correlation_id"),
      ReadConversation |-> Under("conversation_id")]

StreamsCalls(s, a) == [Append |-> StreamsAppend(s, a)] ++ StreamsReads(s, a)
  ++ StreamsByKey(s, a) ++ StreamsLineage(s, a)

StreamsResults(r) ==
  [Append |-> <<[Version |-> Get(r, "version"), Position |-> Get(r, "position"),
                 Count |-> Get(r, "count")]>>,
   Watch |-> <<recordedFromProto(r)>>,
   Version |-> Value(Get(r, "version")),
   List |-> Value(Get(r, "stream_ids")),
   Delete |-> Nothing]
  ++ [f \in {"Read", "ReadBackward", "ReadByEventTypes", "ReadByTags",
             "ReadByMetadata", "ReadAllGlobal", "ReadEffects",
             "ReadCorrelated", "ReadConversation"} |-> Events(r)]

------------------------------------------------------------------------------
\* subscriptions

\* The Go types, in the order of the enum.
Types == <<<<"unspecified">>, <<"stream">>, <<"event_type">>,
           <<"event_pattern">>, <<"event_payload">>, <<"tags">>>>
typeToProto(t) ==
  IF \E i \in 2..6 : Types[i] = t
  THEN <<SubscriptionType[CHOOSE i \in 2..6 : Types[i] = t]>>
  ELSE <<"SUBSCRIPTION_TYPE_UNSPECIFIED">>
typeFromProto(w) ==
  IF \E i \in 2..6 : <<SubscriptionType[i]>> = w
  THEN Types[CHOOSE i \in 2..6 : <<SubscriptionType[i]>> = w]
  ELSE <<"unspecified">>

infoFromProto(p) ==
  [ID |-> Get(p, "id"), Type |-> typeFromProto(Get(p, "type")),
   Selector |-> Get(p, "selector"), Name |-> Get(p, "subscription_name"),
   CreatedAt |-> UnixMilli(Get(p, "created_at")),
   PoolSize |-> Get(p, "pool_size"), Checkpoint |-> Get(p, "checkpoint")]

SubscriptionsCalls(s, a) ==
  LET named == [store_id |-> s, subscription_name |-> a.spec.Name]
      target == [store_id |-> s, subscription_name |-> a.spec.Name,
                 type |-> typeToProto(a.spec.Type), selector |-> a.spec.Selector]
      full == [store_id |-> s, subscription_name |-> a.spec.Name,
               type |-> typeToProto(a.spec.Type), selector |-> a.spec.Selector,
               start_from |-> a.spec.StartFrom, pool_size |-> a.spec.PoolSize]
  IN [Create |-> Call("CreateSubscription", full),
      Remove |-> Call("RemoveSubscription", target),
      Subscribe |-> Call("Subscribe", full),
      List |-> Call("ListSubscriptions", [store_id |-> s]),
      Get |-> Call("GetSubscription", named),
      Lag |-> Call("GetSubscriptionLag", named),
      Ack |-> Call("AckEvent", [store_id |-> s, subscription_name |-> a.spec.Name,
        stream_id |-> a.streamID, event_number |-> a.eventNumber])]

SubscriptionsResults(r) ==
  [Create |-> Value(Get(r, "subscription_id")),
   Remove |-> Nothing,
   Subscribe |-> <<[Checkpoint |-> Get(r, "checkpoint")],
                   recordedFromProto(Only(Get(r, "event")))>>,
   List |-> Each(infoFromProto, Get(r, "subscriptions")),
   Get |-> <<infoFromProto(r)>>,
   Lag |-> <<[Lag |-> Get(r, "lag"),
              CurrentCheckpoint |-> Get(r, "current_checkpoint"),
              LatestVersion |-> Get(r, "latest_version")]>>,
   Ack |-> Nothing]

------------------------------------------------------------------------------
\* snapshots

recordFromProto(p) ==
  [StreamID |-> Get(p, "stream_id"), Version |-> Get(p, "version"),
   Data |-> Get(p, "data"), Metadata |-> Get(p, "metadata"),
   Timestamp |-> UnixMilli(Get(p, "timestamp")),
   AnchorHash |-> Get(p, "anchor_hash")]

SnapshotsCalls(s, a) ==
  LET stream == [store_id |-> s, source_uuid |-> a.sourceUUID,
                 stream_uuid |-> a.streamUUID]
      one == [store_id |-> s, source_uuid |-> a.sourceUUID,
              stream_uuid |-> a.streamUUID, version |-> a.version]
  IN [Save |-> Call("RecordSnapshot",
        [store_id |-> s, source_uuid |-> a.sourceUUID, stream_uuid |-> a.streamUUID,
         version |-> a.version, data |-> a.Data, metadata |-> a.Metadata]),
      At |-> Call("ReadSnapshot", one),
      Delete |-> Call("DeleteSnapshot", one),
      List |-> Call("ListSnapshots", stream),
      ListAll |-> Call("ListAllSnapshots", [store_id |-> s])]

SnapshotsResults(r) ==
  LET all == Each(recordFromProto, Get(r, "snapshots"))
  IN [Save |-> Nothing, At |-> <<recordFromProto(r)>>, Delete |-> Nothing,
      List |-> all, ListAll |-> all]

------------------------------------------------------------------------------
\* stores

modeFromProto(m) == IF m = <<"STORE_MODE_SINGLE">> THEN <<"single">>
                    ELSE IF m = <<"STORE_MODE_CLUSTER">> THEN <<"cluster">>
                    ELSE <<"unspecified">>
eventTypeFromProto(t) ==
  IF t = <<"STORE_EVENT_TYPE_RETIRED">> THEN <<"retired">> ELSE <<"announced">>

instanceFromProto(p) ==
  [StoreID |-> Get(p, "store_id"), Node |-> Get(p, "node"),
   Mode |-> modeFromProto(Get(p, "mode")), DataDir |-> Get(p, "data_dir"),
   Timeout |-> UnixMilli(Get(p, "timeout_ms")),
   RegisteredAt |-> UnixMicro(Get(p, "registered_at_us"))]

\* This client has no store of its own; Get takes the store's id.
StoresCalls(a) ==
  [List |-> Call("ListStores", [f \in {} |-> Zero]),
   Get |-> Call("GetStore", [store_id |-> a.storeID]),
   Watch |-> Call("WatchStores", [include_snapshot |-> a.snapshot])]

StoresResults(r) ==
  LET all == Each(instanceFromProto, Get(r, "instances"))
  IN [List |-> all, Get |-> all,
      Watch |-> <<[Type |-> eventTypeFromProto(Get(r, "type")),
                   At |-> UnixMicro(Get(r, "event_at_us"))],
                  instanceFromProto(Only(Get(r, "instance")))>>]

------------------------------------------------------------------------------
\* temporal

TemporalCalls(s, a) ==
  [Until |-> Call("ReadUntil",
     [store_id |-> s, stream_id |-> a.streamID, timestamp |-> ToMillis(a.cutoff),
      batch_size |-> a.batch]),
   Range |-> Call("ReadRange",
     [store_id |-> s, stream_id |-> a.streamID, from_timestamp |-> ToMillis(a.from),
      to_timestamp |-> ToMillis(a.to), batch_size |-> a.batch]),
   VersionAt |-> Call("VersionAt",
     [store_id |-> s, stream_id |-> a.streamID, timestamp |-> ToMillis(a.at)])]

TemporalResults(r) ==
  [Until |-> Events(r), Range |-> Events(r),
   VersionAt |-> Value(Get(r, "version"))]

------------------------------------------------------------------------------
\* schema

toProto(e) ==
  [event_id |-> e.EventID, event_type |-> e.EventType,
   stream_id |-> e.StreamID, version |-> e.Version, data |-> e.Data,
   metadata |-> e.Metadata, tags |-> e.Tags,
   timestamp |-> ToMillis(e.Timestamp), epoch_us |-> ToMicros(e.Epoch),
   data_content_type |-> e.DataContentType,
   metadata_content_type |-> e.MetadataContentType,
   prev_event_hash |-> e.PrevEventHash]

definitionFromProto(p) ==
  [EventType |-> Get(p, "event_type"), Schema |-> Get(p, "schema"),
   Version |-> Get(p, "version")]

SchemaCalls(s, a) ==
  LET ofType == [store_id |-> s, event_type |-> a.eventType]
  IN [Register |-> Call("RegisterSchema",
        [store_id |-> s, event_type |-> a.eventType, schema |-> a.blob]),
      Unregister |-> Call("UnregisterSchema", ofType),
      Get |-> Call("GetSchema", ofType),
      List |-> Call("ListSchemas", [store_id |-> s]),
      Version |-> Call("GetSchemaVersion", ofType),
      Upcast |-> Call("UpcastEvents",
        [store_id |-> s, events |-> Each(toProto, a.recorded)])]

SchemaResults(r) ==
  [Register |-> Nothing, Unregister |-> Nothing,
   Get |-> <<definitionFromProto(r)>>,
   List |-> Each(definitionFromProto, Get(r, "schemas")),
   Version |-> Value(Get(r, "version")), Upcast |-> Events(r)]

------------------------------------------------------------------------------
\* dcb

\* Mutant: the two tag lists are swapped.
KindSwapped == [matchAny |-> "match_all", matchAll |-> "match_any",
                eventTypeMatch |-> "event_type_match",
                conjunction |-> "conjunction", disjunction |-> "disjunction"]
\* A filter of Go is a tree.  It is written as the sequence of its nodes, the root
\* first: each has a kind, and its tags, its event type, or its filters, which are
\* the positions of nodes behind it.  The wire filter is the same tree, under the
\* names of the oneof.
Kind == [matchAny |-> "match_any", matchAll |-> "match_all",
         eventTypeMatch |-> "event_type_match",
         conjunction |-> "conjunction", disjunction |-> "disjunction"]
FilterToProto(f) ==
  LET NodeToProto(node) == [kind |-> Kind[node.go], tags |-> node.tags,
                            event_type |-> node.eventType, filters |-> node.subs]
  IN Each(NodeToProto, f)

DcbCalls(s, a) ==
  [Append |-> Call("AppendIfNoTagMatches",
     [store_id |-> s, tag_filter |-> FilterToProto(a.filter),
      seq_cutoff |-> a.cutoff, events |-> Each(ProposedToProto, a.events)]),
   Read |-> Call("ReadDcbContext",
     [store_id |-> s, tag_filter |-> FilterToProto(a.filter),
      batch_size |-> a.batch]),
   CccReadByPayload |-> Call("CccReadByPayload",
     [store_id |-> s, key |-> a.key, value |-> a.value,
      batch_size |-> a.batch]),
   CccReadByPayloadHash |-> Call("CccReadByPayloadHash",
     [store_id |-> s, keys |-> a.keys, values |-> a.values,
      batch_size |-> a.batch])]

\* Neither variant of the answer is an error ("unknown result variant").
DcbResults(r) ==
  [Append |->
     IF Get(r, "committed") # <<>>
     THEN <<[LastSeq |-> Get(Only(Get(r, "committed")), "last_seq")]>>
     ELSE IF Get(r, "conflict") # <<>>
     THEN <<[MaxSeq |-> Get(Only(Get(r, "conflict")), "max_seq")]>>
     ELSE Nothing,
   Read |-> <<[MaxSeq |-> Get(r, "max_seq")]>> \o Events(r),
   CccReadByPayload |-> Events(r), CccReadByPayloadHash |-> Events(r)]

------------------------------------------------------------------------------
\* admin

scavengeResultFromProto(p) ==
  [EventsRemoved |-> Get(p, "events_removed"),
   EventsRemaining |-> Get(p, "events_remaining"),
   SpaceReclaimedBytes |-> Get(p, "space_reclaimed_bytes"),
   Details |-> Get(p, "details")]

\* Mutant: the dry run passes the same method as the real one.
ScavengeCallsAlwaysReal(s, a) ==
  LET one == [store_id |-> s, stream_id |-> a.streamID, options |-> a.options]
  IN [Scavenge |-> Call("Scavenge", one),
      ScavengeDryRun |-> Call("Scavenge", one),
      ScavengeMatching |-> Call("ScavengeMatching",
        [store_id |-> s, pattern |-> a.pattern, options |-> a.options])]
\* Scavenge and ScavengeDryRun share scavenge and differ in the method passed.
ScavengeCalls(s, a) ==
  LET one == [store_id |-> s, stream_id |-> a.streamID, options |-> a.options]
  IN [Scavenge |-> Call("Scavenge", one),
      ScavengeDryRun |-> Call("ScavengeDryRun", one),
      ScavengeMatching |-> Call("ScavengeMatching",
        [store_id |-> s, pattern |-> a.pattern, options |-> a.options])]

StatsCalls(s, a) ==
  LET store == [store_id |-> s]
      stream == [store_id |-> s, stream_id |-> a.streamID]
  IN [StoreStats |-> Call("GetStoreStats", store),
      StreamInfo |-> Call("GetStreamInfo", stream),
      EventTypeSummary |-> Call("GetEventTypeSummary", store)]

LinkCalls(s, a) ==
  LET link == [store_id |-> s, name |-> a.linkName]
  IN [CreateLink |-> Call("CreateLink", [store_id |-> s, name |-> a.linkName,
        source |-> a.Source, target |-> a.Target, options |-> a.options]),
      DeleteLink |-> Call("DeleteLink", link),
      GetLink |-> Call("GetLink", link),
      ListLinks |-> Call("ListLinks", [store_id |-> s]),
      StartLink |-> Call("StartLink", link),
      StopLink |-> Call("StopLink", link),
      LinkInfo |-> Call("GetLinkInfo", link)]

\* These two are about the gateway, not about a store.
CatalogueCalls ==
  [ReloadCatalogue |-> Call("ReloadCatalogue", [f \in {} |-> Zero]),
   GetCatalogueStatus |-> Call("GetCatalogueStatus", [f \in {} |-> Zero])]

AdminCalls(s, a) == ScavengeCalls(s, a) ++ StatsCalls(s, a) ++ LinkCalls(s, a)
  ++ CatalogueCalls

StatsResults(r) ==
  LET count(e) == [EventType |-> Get(e, "event_type"),
                   Count |-> Get(e, "count")]
  IN [StoreStats |->
        <<[TotalStreams |-> Get(r, "total_streams"),
           TotalEvents |-> Get(r, "total_events"),
           TotalSubscriptions |-> Get(r, "total_subscriptions"),
           TotalSnapshots |-> Get(r, "total_snapshots"),
           Details |-> Get(r, "details")]>>,
      StreamInfo |->
        <<[StreamID |-> Get(r, "stream_id"), Version |-> Get(r, "version"),
           EventCount |-> Get(r, "event_count"),
           CreatedAt |-> UnixMilli(Get(r, "created_at")),
           LastEventAt |-> UnixMilli(Get(r, "last_event_at")),
           EventTypes |-> Get(r, "event_types")]>>,
      EventTypeSummary |-> Each(count, Get(r, "entries")),
      Scavenge |-> <<scavengeResultFromProto(r)>>,
      ScavengeDryRun |-> <<scavengeResultFromProto(r)>>,
      ScavengeMatching |-> Each(scavengeResultFromProto, Get(r, "results"))]

LinkResults(r) ==
  LET spec(l) == [Name |-> Get(l, "name"), Source |-> Get(l, "source"),
                  Target |-> Get(l, "target"), Options |-> Get(l, "options")]
  IN [GetLink |-> <<spec(r)>>, ListLinks |-> Each(spec, Get(r, "links")),
      LinkInfo |-> <<[Name |-> Get(r, "name"), Status |-> Get(r, "status"),
                      EventsProcessed |-> Get(r, "events_processed"),
                      Details |-> Get(r, "details")]>>]
     ++ [f \in {"CreateLink", "DeleteLink", "StartLink", "StopLink"} |->
           Nothing]

catalogueClusterInfoFromProto(p) ==
  [ClusterID |-> Get(p, "cluster_id"), Members |-> Get(p, "members"),
   StoreCount |-> Get(p, "store_count"), Status |-> Get(p, "status"),
   LastRefresh |-> ParseRFC3339(Get(p, "last_refresh")), LastError |-> Get(p, "last_error")]

CatalogueResults(r) ==
  [ReloadCatalogue |->
     <<[Added |-> Get(r, "added"), Removed |-> Get(r, "removed"),
        Restarted |-> Get(r, "restarted"), Error |-> Get(r, "error")]>>,
   GetCatalogueStatus |->
     <<[CatalogueSize |-> Get(r, "catalogue_size"),
        GatewayUptimeMs |-> Get(r, "gateway_uptime_ms")]>>
     \o Each(catalogueClusterInfoFromProto, Get(r, "clusters"))]

AdminResults(r) == StatsResults(r) ++ LinkResults(r) ++ CatalogueResults(r)

------------------------------------------------------------------------------
\* health

statusFromProto(w) == IF w = <<"HEALTH_STATUS_HEALTHY">> THEN <<"healthy">>
                      ELSE IF w = <<"HEALTH_STATUS_DEGRADED">> THEN <<"degraded">>
                      ELSE IF w = <<"HEALTH_STATUS_UNHEALTHY">> THEN <<"unhealthy">>
                      ELSE <<"unknown">>
\* Mutant: what the switch does not name reads as healthy.
clusterStatusFromProtoLenient(w) ==
  IF w = <<"CLUSTER_STATUS_DEGRADED">> THEN <<"degraded">> ELSE <<"healthy">>
clusterStatusFromProto(w) ==
  IF w = <<"CLUSTER_STATUS_HEALTHY">> THEN <<"healthy">>
  ELSE IF w = <<"CLUSTER_STATUS_DEGRADED">> THEN <<"degraded">>
  ELSE <<"unhealthy">>
memoryLevelFromProto(w) ==
  IF w = <<"MEMORY_LEVEL_HIGH">> THEN <<"high">>
  ELSE IF w = <<"MEMORY_LEVEL_CRITICAL">> THEN <<"critical">>
  ELSE <<"normal">>

HealthCalls(s) ==
  LET store == [store_id |-> s]
  IN [Check |-> Call("Check", store),
      Health |-> Call("Health", [f \in {} |-> Zero]),
      ClusterConsistency |-> Call("VerifyClusterConsistency", store),
      MembershipConsensus |-> Call("VerifyMembershipConsensus", store),
      RaftLogConsistency |-> Call("CheckRaftLogConsistency", store),
      MemoryLevel |-> Call("GetMemoryLevel", store),
      MemoryStats |-> Call("GetMemoryStats", store),
      ServerInfo |-> Call("GetServerInfo", store)]

HealthResults(r) ==
  LET cluster == <<[Status |-> clusterStatusFromProto(Get(r, "status")),
                    Details |-> Get(r, "details")]>>
  IN [Check |-> <<[Status |-> statusFromProto(Get(r, "status")),
                   Details |-> Get(r, "details")]>>,
      Health |-> <<[Status |-> statusFromProto(Get(r, "status")),
                    Stores |-> Get(r, "stores"),
                    TotalWorkers |-> Get(r, "total_workers"),
                    Node |-> Get(r, "node"),
                    Timestamp |-> UnixMilli(Get(r, "timestamp"))]>>,
      ClusterConsistency |-> cluster, MembershipConsensus |-> cluster,
      RaftLogConsistency |-> cluster,
      MemoryLevel |-> Value(memoryLevelFromProto(Get(r, "level"))),
      MemoryStats |-> <<[UsedBytes |-> Get(r, "used_bytes"),
                         TotalBytes |-> Get(r, "total_bytes"),
                         UsagePercent |-> Get(r, "usage_percent"),
                         Breakdown |-> Get(r, "breakdown")]>>,
      ServerInfo |->
        <<[ReckonDbVersion |-> Get(r, "reckon_db_version"),
           ReckonGatewayVersion |-> Get(r, "reckon_gateway_version"),
           APICompatibilityVersion |-> Get(r, "api_compatibility_version"),
           IntegrityEnabled |-> Get(r, "integrity_enabled"),
           IntegrityAlgo |-> Get(r, "integrity_algo"),
           HmacKeyId |-> Get(r, "hmac_key_id")]>>]

------------------------------------------------------------------------------
Calls(s, a) ==
  [streams |-> StreamsCalls(s, a), subscriptions |-> SubscriptionsCalls(s, a),
   snapshots |-> SnapshotsCalls(s, a), stores |-> StoresCalls(a),
   temporal |-> TemporalCalls(s, a), schema |-> SchemaCalls(s, a),
   dcb |-> DcbCalls(s, a), admin |-> AdminCalls(s, a),
   health |-> HealthCalls(s)]

Results(r) ==
  [streams |-> StreamsResults(r), subscriptions |-> SubscriptionsResults(r),
   snapshots |-> SnapshotsResults(r), stores |-> StoresResults(r),
   temporal |-> TemporalResults(r), schema |-> SchemaResults(r),
   dcb |-> DcbResults(r), admin |-> AdminResults(r),
   health |-> HealthResults(r)]
=============================================================================
