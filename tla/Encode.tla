------------------------------ MODULE Encode ------------------------------
(***************************************************************************)
(* Package encode and the writeJSON calls of the commands: the JSON object *)
(* printed for each Go struct.  A byte field is its value (the two forms   *)
(* it is printed in are module Payload's), a nil list or map prints empty, *)
(* which is the zero value here, and a time prints as its instant, the     *)
(* zero time as null.                                                      *)
(***************************************************************************)
EXTENDS SdkCalls

Event(e) ==
  [event_id |-> e.EventID, event_type |-> e.EventType,
   stream_id |-> e.StreamID, version |-> e.Version, tags |-> e.Tags,
   timestamp |-> e.Timestamp, epoch |-> e.Epoch,
   data_content_type |-> e.DataContentType,
   metadata_content_type |-> e.MetadataContentType, data |-> e.Data,
   metadata |-> e.Metadata, prev_event_hash |-> e.PrevEventHash]

Instance(i) ==
  [store_id |-> i.StoreID, node |-> i.Node, mode |-> i.Mode,
   data_dir |-> i.DataDir, timeout_ms |-> i.Timeout,
   registered_at |-> i.RegisteredAt]
StoreChange(e) == [change |-> e.Type, at |-> e.At]

SubInfo(i) ==
  [id |-> i.ID, name |-> i.Name, type |-> i.Type, selector |-> i.Selector,
   created_at |-> i.CreatedAt, pool_size |-> i.PoolSize,
   checkpoint |-> i.Checkpoint]
Lag(l) == [lag |-> l.Lag, current_checkpoint |-> l.CurrentCheckpoint,
           latest_version |-> l.LatestVersion]
Delivery(d) == [checkpoint |-> d.Checkpoint]

Snapshot(r) ==
  [stream_id |-> r.StreamID, version |-> r.Version,
   timestamp |-> r.Timestamp, data |-> r.Data, metadata |-> r.Metadata,
   anchor_hash |-> r.AnchorHash]

SchemaDef(d) == [event_type |-> d.EventType, version |-> d.Version,
                 schema |-> d.Schema]

StoreStats(s) ==
  [total_streams |-> s.TotalStreams, total_events |-> s.TotalEvents,
   total_subscriptions |-> s.TotalSubscriptions,
   total_snapshots |-> s.TotalSnapshots, details |-> s.Details]
StreamInfo(s) ==
  [stream_id |-> s.StreamID, version |-> s.Version,
   event_count |-> s.EventCount, created_at |-> s.CreatedAt,
   last_event_at |-> s.LastEventAt, event_types |-> s.EventTypes]
EventTypeCount(e) == [event_type |-> e.EventType, count |-> e.Count]
ScavengeResult(s) ==
  [events_removed |-> s.EventsRemoved, events_remaining |-> s.EventsRemaining,
   space_reclaimed_bytes |-> s.SpaceReclaimedBytes, details |-> s.Details]
LinkSpec(l) == [name |-> l.Name, source |-> l.Source, target |-> l.Target,
                options |-> l.Options]
LinkRuntime(l) == [name |-> l.Name, status |-> l.Status,
                   events_processed |-> l.EventsProcessed,
                   details |-> l.Details]
Cluster(c) ==
  [cluster_id |-> c.ClusterID, members |-> c.Members,
   store_count |-> c.StoreCount, status |-> c.Status,
   last_refresh |-> c.LastRefresh, last_error |-> c.LastError]
CatalogueStatus(s) == [catalogue_size |-> s.CatalogueSize,
                       gateway_uptime_ms |-> s.GatewayUptimeMs]
CatalogueReload(r) == [added |-> r.Added, removed |-> r.Removed,
                       restarted |-> r.Restarted, error |-> r.Error]

\* CheckResult and ClusterResult.
CheckResult(r) == [status |-> r.Status, details |-> r.Details]
HealthResult(r) ==
  [status |-> r.Status, stores |-> r.Stores,
   total_workers |-> r.TotalWorkers, node |-> r.Node,
   timestamp |-> r.Timestamp]
MemoryStats(m) ==
  [used_bytes |-> m.UsedBytes, total_bytes |-> m.TotalBytes,
   usage_percent |-> m.UsagePercent, breakdown |-> m.Breakdown]
ServerInfo(s) ==
  [reckon_db_version |-> s.ReckonDbVersion,
   reckon_gateway_version |-> s.ReckonGatewayVersion,
   api_compatibility_version |-> s.APICompatibilityVersion,
   integrity_enabled |-> s.IntegrityEnabled,
   integrity_algo |-> s.IntegrityAlgo, hmac_key_id |-> s.HmacKeyId]

------------------------------------------------------------------------------
\* What the commands of each package print for the result rs of function f.
\* A call that answers nothing prints a fixed object, left out; a list of
\* names is printed as it is.

PrintStreams(f, rs) ==
  IF f = "Append" THEN <<[version |-> rs[1].Version, position |-> rs[1].Position,
                          count |-> rs[1].Count]>>
  ELSE IF f = "Version" THEN <<[version |-> rs[1].value]>>
  ELSE IF f = "List" THEN <<[stream_ids |-> rs[1].value]>>
  ELSE IF f = "Delete" THEN Nothing
  ELSE Each(Event, rs)

PrintSubscriptions(f, rs) ==
  IF f = "Create" THEN <<[subscription_id |-> rs[1].value]>>
  ELSE IF f \in {"List", "Get"} THEN Each(SubInfo, rs)
  ELSE IF f = "Lag" THEN Each(Lag, rs)
  ELSE IF f = "Subscribe" THEN <<Delivery(rs[1]), Event(rs[2])>>
  ELSE Nothing

PrintStores(f, rs) ==
  IF f = "Watch" THEN <<StoreChange(rs[1]), Instance(rs[2])>>
  ELSE Each(Instance, rs)

PrintSchema(f, rs) ==
  IF f = "Version" THEN <<[version |-> rs[1].value]>>
  ELSE IF f \in {"Get", "List"} THEN Each(SchemaDef, rs)
  ELSE IF f = "Upcast" THEN Each(Event, rs)
  ELSE Nothing

PrintAdmin(f, rs) ==
  IF f = "StoreStats" THEN Each(StoreStats, rs)
  ELSE IF f = "StreamInfo" THEN Each(StreamInfo, rs)
  ELSE IF f = "EventTypeSummary" THEN Each(EventTypeCount, rs)
  ELSE IF f \in {"Scavenge", "ScavengeDryRun", "ScavengeMatching"}
       THEN Each(ScavengeResult, rs)
  ELSE IF f \in {"GetLink", "ListLinks"} THEN Each(LinkSpec, rs)
  ELSE IF f = "LinkInfo" THEN Each(LinkRuntime, rs)
  ELSE IF f = "GetCatalogueStatus"
       THEN <<CatalogueStatus(rs[1])>> \o Each(Cluster, Tail(rs))
  ELSE IF f = "ReloadCatalogue" THEN Each(CatalogueReload, rs)
  ELSE Nothing

PrintHealth(f, rs) ==
  IF f = "Health" THEN Each(HealthResult, rs)
  ELSE IF f = "MemoryLevel" THEN <<[level |-> rs[1].value]>>
  ELSE IF f = "MemoryStats" THEN Each(MemoryStats, rs)
  ELSE IF f = "ServerInfo" THEN Each(ServerInfo, rs)
  ELSE Each(CheckResult, rs)

\* No command is about dcb: its structs as a Go program sees them.
PrintDcb(f, rs) ==
  IF f = "Append" THEN [i \in DOMAIN rs |->
       IF "LastSeq" \in DOMAIN rs[i] THEN [last_seq |-> rs[i].LastSeq]
                                     ELSE [max_seq |-> rs[i].MaxSeq]]
  ELSE IF f = "Read" THEN <<[max_seq |-> rs[1].MaxSeq]>> \o Each(Event, Tail(rs))
  ELSE Each(Event, rs)

Printed(p, f, rs) ==
  IF p = "streams" THEN PrintStreams(f, rs)
  ELSE IF p = "subscriptions" THEN PrintSubscriptions(f, rs)
  ELSE IF p = "snapshots" THEN Each(Snapshot, rs)
  ELSE IF p = "stores" THEN PrintStores(f, rs)
  ELSE IF p = "temporal" THEN IF f = "VersionAt" THEN <<[version |-> rs[1].value]>>
                              ELSE Each(Event, rs)
  ELSE IF p = "schema" THEN PrintSchema(f, rs)
  ELSE IF p = "dcb" THEN PrintDcb(f, rs)
  ELSE IF p = "admin" THEN PrintAdmin(f, rs)
  ELSE PrintHealth(f, rs)
=============================================================================
