------------------------------ MODULE Services ------------------------------
(***************************************************************************)
(* The nine services of genproto/gatewayv1.  Per service, what protoc-gen- *)
(* go-grpc wrote down three times: the client stubs, the server handlers   *)
(* and the ServiceDesc that a server registers.  The path of a call is the *)
(* service and the name of the stub's method (its FullMethodName).         *)
(***************************************************************************)
EXTENDS Messages

\* A stub: what it sends, what it decodes the answer as, and the entry of
\* ServiceDesc.Streams it opens, if it opens a stream.
Unary(request, response) ==
  [request |-> request, response |-> response, stream |-> "unary"]
Streamed(request, response, name) ==
  [request |-> request, response |-> response, stream |-> name]
\* A handler: what it decodes the request as and what its method answers.
Handler(request, response) == [request |-> request, response |-> response]

\* StreamService: reckon_streams_grpc.pb.go
StreamsDesc == [service |-> "StreamService", methods |-> {"AppendEvents",
    "ReadStreamForward", "ReadStreamBackward", "GetStreamVersion", "ListStreams",
    "DeleteStream", "ReadByEventTypes", "ReadByTags", "ReadByMetadata",
    "ReadAllGlobal"}, streams |-> <<"StreamEventsForward">>]
StreamsStubs == [
  AppendEvents |-> Unary(AppendEventsRequest, AppendEventsResponse),
  ReadStreamForward |-> Unary(ReadStreamRequest, ReadStreamResponse),
  ReadStreamBackward |-> Unary(ReadStreamRequest, ReadStreamResponse),
  StreamEventsForward |-> Streamed(ReadStreamRequest, RecordedEvent, StreamsDesc.streams[1]),
  GetStreamVersion |-> Unary(GetStreamVersionRequest, GetStreamVersionResponse),
  ListStreams |-> Unary(ListStreamsRequest, ListStreamsResponse),
  DeleteStream |-> Unary(DeleteStreamRequest, DeleteStreamResponse),
  ReadByEventTypes |-> Unary(ReadByEventTypesRequest, ReadStreamResponse),
  ReadByTags |-> Unary(ReadByTagsRequest, ReadStreamResponse),
  ReadByMetadata |-> Unary(ReadByMetadataRequest, ReadStreamResponse),
  ReadAllGlobal |-> Unary(ReadAllGlobalRequest, ReadStreamResponse)]
StreamsServer == [
  AppendEvents |-> Handler(AppendEventsRequest, AppendEventsResponse),
  ReadStreamForward |-> Handler(ReadStreamRequest, ReadStreamResponse),
  ReadStreamBackward |-> Handler(ReadStreamRequest, ReadStreamResponse),
  StreamEventsForward |-> Handler(ReadStreamRequest, RecordedEvent),
  GetStreamVersion |-> Handler(GetStreamVersionRequest, GetStreamVersionResponse),
  ListStreams |-> Handler(ListStreamsRequest, ListStreamsResponse),
  DeleteStream |-> Handler(DeleteStreamRequest, DeleteStreamResponse),
  ReadByEventTypes |-> Handler(ReadByEventTypesRequest, ReadStreamResponse),
  ReadByTags |-> Handler(ReadByTagsRequest, ReadStreamResponse),
  ReadByMetadata |-> Handler(ReadByMetadataRequest, ReadStreamResponse),
  ReadAllGlobal |-> Handler(ReadAllGlobalRequest, ReadStreamResponse)]

\* SubscriptionService: reckon_subscriptions_grpc.pb.go
SubscriptionsDesc == [service |-> "SubscriptionService", methods |-> {"AckEvent",
    "CreateSubscription", "RemoveSubscription", "ListSubscriptions",
    "GetSubscription", "GetSubscriptionLag"}, streams |-> <<"Subscribe">>]
SubscriptionsStubs == [
  Subscribe |-> Streamed(SubscribeRequest, SubscriptionEvent, SubscriptionsDesc.streams[1]),
  AckEvent |-> Unary(AckEventRequest, AckEventResponse),
  CreateSubscription |-> Unary(CreateSubscriptionRequest, CreateSubscriptionResponse),
  RemoveSubscription |-> Unary(RemoveSubscriptionRequest, RemoveSubscriptionResponse),
  ListSubscriptions |-> Unary(ListSubscriptionsRequest, ListSubscriptionsResponse),
  GetSubscription |-> Unary(GetSubscriptionRequest, SubscriptionInfo),
  GetSubscriptionLag |-> Unary(GetSubscriptionLagRequest, GetSubscriptionLagResponse)]
SubscriptionsServer == [
  Subscribe |-> Handler(SubscribeRequest, SubscriptionEvent),
  AckEvent |-> Handler(AckEventRequest, AckEventResponse),
  CreateSubscription |-> Handler(CreateSubscriptionRequest, CreateSubscriptionResponse),
  RemoveSubscription |-> Handler(RemoveSubscriptionRequest, RemoveSubscriptionResponse),
  ListSubscriptions |-> Handler(ListSubscriptionsRequest, ListSubscriptionsResponse),
  GetSubscription |-> Handler(GetSubscriptionRequest, SubscriptionInfo),
  GetSubscriptionLag |-> Handler(GetSubscriptionLagRequest, GetSubscriptionLagResponse)]

\* SnapshotService: reckon_snapshots_grpc.pb.go
SnapshotsDesc == [service |-> "SnapshotService", methods |-> {"RecordSnapshot",
    "ReadSnapshot", "DeleteSnapshot", "ListSnapshots", "ListAllSnapshots"}, streams
    |-> <<>>]
SnapshotsStubs == [
  RecordSnapshot |-> Unary(RecordSnapshotRequest, RecordSnapshotResponse),
  ReadSnapshot |-> Unary(ReadSnapshotRequest, SnapshotRecord),
  DeleteSnapshot |-> Unary(DeleteSnapshotRequest, DeleteSnapshotResponse),
  ListSnapshots |-> Unary(ListSnapshotsRequest, ListSnapshotsResponse),
  ListAllSnapshots |-> Unary(ListAllSnapshotsRequest, ListSnapshotsResponse)]
SnapshotsServer == [
  RecordSnapshot |-> Handler(RecordSnapshotRequest, RecordSnapshotResponse),
  ReadSnapshot |-> Handler(ReadSnapshotRequest, SnapshotRecord),
  DeleteSnapshot |-> Handler(DeleteSnapshotRequest, DeleteSnapshotResponse),
  ListSnapshots |-> Handler(ListSnapshotsRequest, ListSnapshotsResponse),
  ListAllSnapshots |-> Handler(ListAllSnapshotsRequest, ListSnapshotsResponse)]

\* StoresService: reckon_stores_grpc.pb.go
StoresDesc == [service |-> "StoresService", methods |-> {"ListStores", "GetStore"},
    streams |-> <<"WatchStores">>]
StoresStubs == [
  ListStores |-> Unary(ListStoresRequest, ListStoresResponse),
  GetStore |-> Unary(GetStoreRequest, GetStoreResponse),
  WatchStores |-> Streamed(WatchStoresRequest, StoreEvent, StoresDesc.streams[1])]
StoresServer == [
  ListStores |-> Handler(ListStoresRequest, ListStoresResponse),
  GetStore |-> Handler(GetStoreRequest, GetStoreResponse),
  WatchStores |-> Handler(WatchStoresRequest, StoreEvent)]

\* TemporalService: reckon_temporal_grpc.pb.go
TemporalDesc == [service |-> "TemporalService", methods |-> {"ReadUntil",
    "ReadRange", "VersionAt"}, streams |-> <<>>]
TemporalStubs == [
  ReadUntil |-> Unary(ReadUntilRequest, ReadUntilResponse),
  ReadRange |-> Unary(ReadRangeRequest, ReadRangeResponse),
  VersionAt |-> Unary(VersionAtRequest, VersionAtResponse)]
TemporalServer == [
  ReadUntil |-> Handler(ReadUntilRequest, ReadUntilResponse),
  ReadRange |-> Handler(ReadRangeRequest, ReadRangeResponse),
  VersionAt |-> Handler(VersionAtRequest, VersionAtResponse)]

\* SchemaService: reckon_schema_grpc.pb.go
SchemaDesc == [service |-> "SchemaService", methods |-> {"RegisterSchema",
    "UnregisterSchema", "GetSchema", "ListSchemas", "GetSchemaVersion",
    "UpcastEvents"}, streams |-> <<>>]
SchemaStubs == [
  RegisterSchema |-> Unary(RegisterSchemaRequest, RegisterSchemaResponse),
  UnregisterSchema |-> Unary(UnregisterSchemaRequest, UnregisterSchemaResponse),
  GetSchema |-> Unary(GetSchemaRequest, GetSchemaResponse),
  ListSchemas |-> Unary(ListSchemasRequest, ListSchemasResponse),
  GetSchemaVersion |-> Unary(GetSchemaVersionRequest, GetSchemaVersionResponse),
  UpcastEvents |-> Unary(UpcastEventsRequest, UpcastEventsResponse)]
SchemaServer == [
  RegisterSchema |-> Handler(RegisterSchemaRequest, RegisterSchemaResponse),
  UnregisterSchema |-> Handler(UnregisterSchemaRequest, UnregisterSchemaResponse),
  GetSchema |-> Handler(GetSchemaRequest, GetSchemaResponse),
  ListSchemas |-> Handler(ListSchemasRequest, ListSchemasResponse),
  GetSchemaVersion |-> Handler(GetSchemaVersionRequest, GetSchemaVersionResponse),
  UpcastEvents |-> Handler(UpcastEventsRequest, UpcastEventsResponse)]

\* DcbService: reckon_dcb_grpc.pb.go
DcbDesc == [service |-> "DcbService", methods |-> {"AppendIfNoTagMatches",
    "ReadDcbContext", "CccReadByPayload", "CccReadByPayloadHash"}, streams |-> <<>>]
DcbStubs == [
  AppendIfNoTagMatches |-> Unary(AppendIfNoTagMatchesRequest, AppendIfNoTagMatchesResponse),
  ReadDcbContext |-> Unary(ReadDcbContextRequest, ReadDcbContextResponse),
  CccReadByPayload |-> Unary(CccReadByPayloadRequest, CccReadByPayloadResponse),
  CccReadByPayloadHash |-> Unary(CccReadByPayloadHashRequest, CccReadByPayloadHashResponse)]
DcbServer == [
  AppendIfNoTagMatches |-> Handler(AppendIfNoTagMatchesRequest, AppendIfNoTagMatchesResponse),
  ReadDcbContext |-> Handler(ReadDcbContextRequest, ReadDcbContextResponse),
  CccReadByPayload |-> Handler(CccReadByPayloadRequest, CccReadByPayloadResponse),
  CccReadByPayloadHash |-> Handler(CccReadByPayloadHashRequest, CccReadByPayloadHashResponse)]

\* AdminService: reckon_admin_grpc.pb.go
AdminDesc == [service |-> "AdminService", methods |-> {"GetStoreStats",
    "GetStreamInfo", "GetEventTypeSummary", "Scavenge", "ScavengeMatching",
    "ScavengeDryRun", "CreateLink", "DeleteLink", "GetLink", "ListLinks",
    "StartLink", "StopLink", "GetLinkInfo", "ReloadCatalogue",
    "GetCatalogueStatus"}, streams |-> <<>>]
AdminStubs == [
  GetStoreStats |-> Unary(StoreStatsRequest, StoreStatsResponse),
  GetStreamInfo |-> Unary(StreamInfoRequest, StreamInfoResponse),
  GetEventTypeSummary |-> Unary(EventTypeSummaryRequest, EventTypeSummaryResponse),
  Scavenge |-> Unary(ScavengeRequest, ScavengeResponse),
  ScavengeMatching |-> Unary(ScavengeMatchingRequest, ScavengeMatchingResponse),
  ScavengeDryRun |-> Unary(ScavengeRequest, ScavengeResponse),
  CreateLink |-> Unary(CreateLinkRequest, CreateLinkResponse),
  DeleteLink |-> Unary(DeleteLinkRequest, DeleteLinkResponse),
  GetLink |-> Unary(GetLinkRequest, LinkInfo),
  ListLinks |-> Unary(ListLinksRequest, ListLinksResponse),
  StartLink |-> Unary(StartLinkRequest, StartLinkResponse),
  StopLink |-> Unary(StopLinkRequest, StopLinkResponse),
  GetLinkInfo |-> Unary(GetLinkRequest, LinkRuntimeInfo),
  ReloadCatalogue |-> Unary(ReloadCatalogueRequest, ReloadCatalogueResponse),
  GetCatalogueStatus |-> Unary(GetCatalogueStatusRequest, GetCatalogueStatusResponse)]
AdminServer == [
  GetStoreStats |-> Handler(StoreStatsRequest, StoreStatsResponse),
  GetStreamInfo |-> Handler(StreamInfoRequest, StreamInfoResponse),
  GetEventTypeSummary |-> Handler(EventTypeSummaryRequest, EventTypeSummaryResponse),
  Scavenge |-> Handler(ScavengeRequest, ScavengeResponse),
  ScavengeMatching |-> Handler(ScavengeMatchingRequest, ScavengeMatchingResponse),
  ScavengeDryRun |-> Handler(ScavengeRequest, ScavengeResponse),
  CreateLink |-> Handler(CreateLinkRequest, CreateLinkResponse),
  DeleteLink |-> Handler(DeleteLinkRequest, DeleteLinkResponse),
  GetLink |-> Handler(GetLinkRequest, LinkInfo),
  ListLinks |-> Handler(ListLinksRequest, ListLinksResponse),
  StartLink |-> Handler(StartLinkRequest, StartLinkResponse),
  StopLink |-> Handler(StopLinkRequest, StopLinkResponse),
  GetLinkInfo |-> Handler(GetLinkRequest, LinkRuntimeInfo),
  ReloadCatalogue |-> Handler(ReloadCatalogueRequest, ReloadCatalogueResponse),
  GetCatalogueStatus |-> Handler(GetCatalogueStatusRequest, GetCatalogueStatusResponse)]

\* HealthService: reckon_health_grpc.pb.go
\* Mutant: the table of a server built before GetServerInfo was added.
HealthDescOlder == [service |-> "HealthService", methods |-> {"Check", "Health",
    "VerifyClusterConsistency", "VerifyMembershipConsensus",
    "CheckRaftLogConsistency", "GetMemoryLevel", "GetMemoryStats"}, streams |-> <<>>]
HealthDesc == [service |-> "HealthService", methods |-> {"Check", "Health",
    "VerifyClusterConsistency", "VerifyMembershipConsensus",
    "CheckRaftLogConsistency", "GetMemoryLevel", "GetMemoryStats", "GetServerInfo"},
    streams |-> <<>>]
HealthStubs == [
  Check |-> Unary(HealthCheckRequest, HealthCheckResponse),
  Health |-> Unary(HealthRequest, HealthResponse),
  VerifyClusterConsistency |-> Unary(ClusterCheckRequest, ClusterCheckResponse),
  VerifyMembershipConsensus |-> Unary(ClusterCheckRequest, ClusterCheckResponse),
  CheckRaftLogConsistency |-> Unary(ClusterCheckRequest, ClusterCheckResponse),
  GetMemoryLevel |-> Unary(MemoryLevelRequest, MemoryLevelResponse),
  GetMemoryStats |-> Unary(MemoryStatsRequest, MemoryStatsResponse),
  GetServerInfo |-> Unary(GetServerInfoRequest, ServerInfoResponse)]
HealthServer == [
  Check |-> Handler(HealthCheckRequest, HealthCheckResponse),
  Health |-> Handler(HealthRequest, HealthResponse),
  VerifyClusterConsistency |-> Handler(ClusterCheckRequest, ClusterCheckResponse),
  VerifyMembershipConsensus |-> Handler(ClusterCheckRequest, ClusterCheckResponse),
  CheckRaftLogConsistency |-> Handler(ClusterCheckRequest, ClusterCheckResponse),
  GetMemoryLevel |-> Handler(MemoryLevelRequest, MemoryLevelResponse),
  GetMemoryStats |-> Handler(MemoryStatsRequest, MemoryStatsResponse),
  GetServerInfo |-> Handler(GetServerInfoRequest, ServerInfoResponse)]

\* The stubs that the functions of a package call.
Stubs(p) ==
  [streams |-> StreamsStubs, subscriptions |-> SubscriptionsStubs,
   snapshots |-> SnapshotsStubs, stores |-> StoresStubs,
   temporal |-> TemporalStubs, schema |-> SchemaStubs, dcb |-> DcbStubs,
   admin |-> AdminStubs, health |-> HealthStubs][p]
=============================================================================
