------------------------------ MODULE Messages ------------------------------
(***************************************************************************)
(* The messages of genproto/gatewayv1: what protoc generated as structs    *)
(* with one nil-safe getter per field.  A message type maps each field to  *)
(* its kind; how a field is encoded is left out, but an enum keeps its     *)
(* values and a time the unit its number counts.                           *)
(*                                                                         *)
(* A scalar, a list of scalars, a map or a byte string is data the SDK     *)
(* hands on whole: a tuple of names that says where it came from, <<>>     *)
(* for the zero value.  A message field is the sequence of its messages:   *)
(* none when it is unset, one, or two for a repeated field.                *)
(***************************************************************************)
EXTENDS Naturals, Sequences, TLC

Zero == <<>>

\* f extended by the fields of g that it has not: @@ of module TLC, as a
\* definition that proofs can expand.
f ++ g == [x \in DOMAIN f \cup DOMAIN g |-> IF x \in DOMAIN f THEN f[x] ELSE g[x]]

Scalar == [of |-> <<>>, len |-> 0, enum |-> <<>>]
Enum(names) == [Scalar EXCEPT !.enum = names]
One(T) == [of |-> T, len |-> 1, enum |-> <<>>]
Many(T) == [of |-> T, len |-> 2, enum |-> <<>>]
\* The k-th member of a oneof.
Variant(k, T) == [of |-> T, len |-> 1, enum |-> <<k>>]
Plain(fields) == [f \in fields |-> Scalar]

\* The fields that count milliseconds and those that count microseconds.
Millis == {"timestamp", "created_at", "last_event_at", "from_timestamp",
           "to_timestamp", "timeout_ms"}
Micros == {"epoch_us", "registered_at_us", "event_at_us"}
\* The field that names its time as a text.
Texts == {"last_refresh"}

\* Events, snapshots, subscriptions and the enums more than one file uses: reckon_shared.pb.go
SubscriptionType == <<"SUBSCRIPTION_TYPE_UNSPECIFIED", "SUBSCRIPTION_TYPE_STREAM",
    "SUBSCRIPTION_TYPE_EVENT_TYPE", "SUBSCRIPTION_TYPE_EVENT_PATTERN",
    "SUBSCRIPTION_TYPE_EVENT_PAYLOAD", "SUBSCRIPTION_TYPE_TAGS">>
TagMatch == <<"TAG_MATCH_ANY", "TAG_MATCH_ALL">>
ProposedEvent == Plain({"event_id", "event_type", "data", "metadata", "tags",
    "data_content_type", "metadata_content_type"})
RecordedEvent == Plain({"event_id", "event_type", "stream_id", "version", "data",
    "metadata", "tags", "timestamp", "epoch_us", "data_content_type",
    "metadata_content_type", "prev_event_hash"})
SnapshotRecord == Plain({"stream_id", "version", "data", "metadata", "timestamp",
    "anchor_hash"})
SubscriptionInfo == Plain({"id", "selector", "subscription_name", "created_at",
    "pool_size", "checkpoint"}) ++ [type |-> Enum(SubscriptionType)]

\* StreamService: reckon_streams.pb.go
AppendEventsRequest == Plain({"store_id", "stream_id", "expected_version"}) ++
    [events |-> Many(ProposedEvent)]
ReadStreamRequest == Plain({"store_id", "stream_id", "start_version", "count"})
GetStreamVersionRequest == Plain({"store_id", "stream_id"})
ListStreamsRequest == Plain({"store_id"})
DeleteStreamRequest == Plain({"store_id", "stream_id"})
ReadByEventTypesRequest == Plain({"store_id", "event_types", "batch_size"})
ReadByTagsRequest == Plain({"store_id", "tags", "batch_size"}) ++ [match |->
    Enum(TagMatch)]
ReadByMetadataRequest == Plain({"store_id", "key", "value", "batch_size"})
ReadAllGlobalRequest == Plain({"store_id", "offset", "limit"})
AppendEventsResponse == Plain({"version", "position", "count"})
ReadStreamResponse == [events |-> Many(RecordedEvent)]
GetStreamVersionResponse == Plain({"version"})
ListStreamsResponse == Plain({"stream_ids"})
DeleteStreamResponse == Plain({})

\* SubscriptionService: reckon_subscriptions.pb.go
SubscribeRequest == Plain({"store_id", "selector", "subscription_name",
    "start_from", "pool_size"}) ++ [type |-> Enum(SubscriptionType)]
AckEventRequest == Plain({"store_id", "stream_id", "subscription_name",
    "event_number"})
CreateSubscriptionRequest == Plain({"store_id", "selector", "subscription_name",
    "start_from", "pool_size"}) ++ [type |-> Enum(SubscriptionType)]
RemoveSubscriptionRequest == Plain({"store_id", "selector", "subscription_name"}) ++
    [type |-> Enum(SubscriptionType)]
ListSubscriptionsRequest == Plain({"store_id"})
GetSubscriptionRequest == Plain({"store_id", "subscription_name"})
GetSubscriptionLagRequest == Plain({"store_id", "subscription_name"})
SubscriptionEvent == Plain({"checkpoint"}) ++ [event |-> One(RecordedEvent)]
AckEventResponse == Plain({})
CreateSubscriptionResponse == Plain({"subscription_id"})
RemoveSubscriptionResponse == Plain({})
ListSubscriptionsResponse == [subscriptions |-> Many(SubscriptionInfo)]
GetSubscriptionLagResponse == Plain({"lag", "current_checkpoint", "latest_version"})

\* SnapshotService: reckon_snapshots.pb.go
RecordSnapshotRequest == Plain({"store_id", "source_uuid", "stream_uuid", "version",
    "data", "metadata"})
ReadSnapshotRequest == Plain({"store_id", "source_uuid", "stream_uuid", "version"})
DeleteSnapshotRequest == Plain({"store_id", "source_uuid", "stream_uuid",
    "version"})
ListSnapshotsRequest == Plain({"store_id", "source_uuid", "stream_uuid"})
ListAllSnapshotsRequest == Plain({"store_id"})
RecordSnapshotResponse == Plain({})
DeleteSnapshotResponse == Plain({})
ListSnapshotsResponse == [snapshots |-> Many(SnapshotRecord)]

\* StoresService: reckon_stores.pb.go
StoreEventType == <<"STORE_EVENT_TYPE_UNSPECIFIED", "STORE_EVENT_TYPE_ANNOUNCED",
    "STORE_EVENT_TYPE_RETIRED">>
StoreMode == <<"STORE_MODE_UNSPECIFIED", "STORE_MODE_SINGLE", "STORE_MODE_CLUSTER">>
ListStoresRequest == Plain({})
StoreInstance == Plain({"store_id", "node", "data_dir", "timeout_ms",
    "registered_at_us"}) ++ [mode |-> Enum(StoreMode)]
ListStoresResponse == [instances |-> Many(StoreInstance)]
GetStoreRequest == Plain({"store_id"})
GetStoreResponse == [instances |-> Many(StoreInstance)]
WatchStoresRequest == Plain({"include_snapshot"})
StoreEvent == Plain({"event_at_us"}) ++ [type |-> Enum(StoreEventType), instance |->
    One(StoreInstance)]

\* TemporalService: reckon_temporal.pb.go
ReadUntilRequest == Plain({"store_id", "stream_id", "timestamp", "batch_size"})
ReadRangeRequest == Plain({"store_id", "stream_id", "from_timestamp",
    "to_timestamp", "batch_size"})
VersionAtRequest == Plain({"store_id", "stream_id", "timestamp"})
ReadUntilResponse == [events |-> Many(RecordedEvent)]
ReadRangeResponse == [events |-> Many(RecordedEvent)]
VersionAtResponse == Plain({"version"})

\* SchemaService: reckon_schema.pb.go
RegisterSchemaRequest == Plain({"store_id", "event_type", "schema"})
UnregisterSchemaRequest == Plain({"store_id", "event_type"})
GetSchemaRequest == Plain({"store_id", "event_type"})
ListSchemasRequest == Plain({"store_id"})
GetSchemaVersionRequest == Plain({"store_id", "event_type"})
UpcastEventsRequest == Plain({"store_id"}) ++ [events |-> Many(RecordedEvent)]
RegisterSchemaResponse == Plain({})
UnregisterSchemaResponse == Plain({})
GetSchemaResponse == Plain({"event_type", "schema", "version"})
ListSchemasResponse == [schemas |-> Many(GetSchemaResponse)]
GetSchemaVersionResponse == Plain({"version"})
UpcastEventsResponse == [events |-> Many(RecordedEvent)]

\* DcbService: reckon_dcb.pb.go
\* The kinds of a filter: the names of its oneof.
TagFilter == {"match_any", "match_all", "conjunction", "disjunction",
              "event_type_match"}
AppendIfNoTagMatchesRequest == Plain({"store_id", "seq_cutoff", "tag_filter"}) ++
    [events |-> Many(ProposedEvent)]
Committed == Plain({"last_seq"})
Conflict == Plain({"max_seq"})
AppendIfNoTagMatchesResponse == [committed |-> Variant(0, Committed), conflict |->
    Variant(1, Conflict)]
ReadDcbContextRequest == Plain({"store_id", "batch_size", "tag_filter"})
ReadDcbContextResponse == Plain({"max_seq"}) ++ [events |-> Many(RecordedEvent)]
CccReadByPayloadRequest == Plain({"store_id", "key", "value", "batch_size"})
CccReadByPayloadResponse == [events |-> Many(RecordedEvent)]
CccReadByPayloadHashRequest == Plain({"store_id", "keys", "values", "batch_size"})
CccReadByPayloadHashResponse == [events |-> Many(RecordedEvent)]

\* AdminService: reckon_admin.pb.go
StoreStatsRequest == Plain({"store_id"})
StoreStatsResponse == Plain({"total_streams", "total_events", "total_subscriptions",
    "total_snapshots", "details"})
StreamInfoRequest == Plain({"store_id", "stream_id"})
StreamInfoResponse == Plain({"stream_id", "version", "event_count", "created_at",
    "last_event_at", "event_types"})
EventTypeSummaryRequest == Plain({"store_id"})
EventTypeSummaryEntry == Plain({"event_type", "count"})
EventTypeSummaryResponse == [entries |-> Many(EventTypeSummaryEntry)]
ScavengeRequest == Plain({"store_id", "stream_id", "options"})
ScavengeResponse == Plain({"events_removed", "events_remaining",
    "space_reclaimed_bytes", "details"})
ScavengeMatchingRequest == Plain({"store_id", "pattern", "options"})
ScavengeMatchingResponse == [results |-> Many(ScavengeResponse)]
CreateLinkRequest == Plain({"store_id", "name", "source", "target", "options"})
CreateLinkResponse == Plain({})
DeleteLinkRequest == Plain({"store_id", "name"})
DeleteLinkResponse == Plain({})
GetLinkRequest == Plain({"store_id", "name"})
LinkInfo == Plain({"name", "source", "target", "options"})
StartLinkRequest == Plain({"store_id", "name"})
StartLinkResponse == Plain({})
StopLinkRequest == Plain({"store_id", "name"})
StopLinkResponse == Plain({})
ListLinksRequest == Plain({"store_id"})
ListLinksResponse == [links |-> Many(LinkInfo)]
LinkRuntimeInfo == Plain({"name", "status", "events_processed", "details"})
ReloadCatalogueRequest == Plain({})
ReloadCatalogueResponse == Plain({"added", "removed", "restarted", "error"})
GetCatalogueStatusRequest == Plain({})
CatalogueClusterStatus == Plain({"cluster_id", "members", "store_count", "status",
    "last_refresh", "last_error"})
GetCatalogueStatusResponse == Plain({"catalogue_size", "gateway_uptime_ms"}) ++
    [clusters |-> Many(CatalogueClusterStatus)]

\* HealthService: reckon_health.pb.go
HealthStatus == <<"HEALTH_STATUS_HEALTHY", "HEALTH_STATUS_DEGRADED",
    "HEALTH_STATUS_UNHEALTHY">>
ClusterStatus == <<"CLUSTER_STATUS_HEALTHY", "CLUSTER_STATUS_DEGRADED",
    "CLUSTER_STATUS_SPLIT_BRAIN", "CLUSTER_STATUS_NO_QUORUM">>
MemoryLevel == <<"MEMORY_LEVEL_LOW", "MEMORY_LEVEL_NORMAL", "MEMORY_LEVEL_HIGH",
    "MEMORY_LEVEL_CRITICAL">>
HealthCheckRequest == Plain({"store_id"})
HealthRequest == Plain({})
ClusterCheckRequest == Plain({"store_id"})
MemoryLevelRequest == Plain({"store_id"})
MemoryStatsRequest == Plain({"store_id"})
HealthCheckResponse == Plain({"details"}) ++ [status |-> Enum(HealthStatus)]
HealthResponse == Plain({"stores", "total_workers", "node", "timestamp"}) ++ [status
    |-> Enum(HealthStatus)]
ClusterCheckResponse == Plain({"details"}) ++ [status |-> Enum(ClusterStatus)]
MemoryLevelResponse == [level |-> Enum(MemoryLevel)]
MemoryStatsResponse == Plain({"used_bytes", "total_bytes", "usage_percent",
    "breakdown"})
GetServerInfoRequest == Plain({"store_id"})
ServerInfoResponse == Plain({"reckon_db_version", "reckon_gateway_version",
    "integrity_algo", "integrity_enabled", "hmac_key_id",
    "api_compatibility_version"})

\* Every getter: the zero value when the message is nil or lacks the field.
Get(msg, f) == IF f \in DOMAIN msg THEN msg[f] ELSE Zero

\* msg has the shape of type T: what decoding as T finds.
Fits(msg, T) ==
  /\ DOMAIN msg = DOMAIN T
  /\ \A f \in DOMAIN T : \A i \in DOMAIN msg[f] :
       T[f].len > 0 => DOMAIN msg[f][i] = DOMAIN T[f].of
=============================================================================
