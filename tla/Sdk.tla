-------------------------------- MODULE Sdk --------------------------------
(***************************************************************************)
(* One call of the SDK from its arguments to the printed answer: the       *)
(* function builds a request, the stub sends it under its path, the        *)
(* server finds the handler its ServiceDesc registered for that path and   *)
(* decodes the request, and the answer comes back through the stub, the    *)
(* conversions of the package and those of encode.  A Client value never   *)
(* changes after New, so one call at a time shows what any number of them  *)
(* do; the store it is bound to is chosen per call.                        *)
(*                                                                         *)
(* The server is external: it answers any message of the type its method   *)
(* returns, in which every datum is marked with the store the request      *)
(* named, the method and the field, or it answers a status.  Variant is    *)
(* the number behind every enum of the call, a text that should name a     *)
(* time names none in every other variant, and shown says whether the      *)
(* messages nested in the answer are set.                                  *)
(***************************************************************************)
EXTENDS Encode

CONSTANTS
  Stores,   \* the stores clients are bound to
  Variants  \* the enum numbers in use, some of them known to no enum

ASSUME VariantsAssumption == Variants \subseteq Nat

VARIABLES
  op,      \* <<package, function>> and the store and variant of the call
  frame,   \* the path and request on the wire, or None
  answer,  \* the message or status on the wire, or None
  printed  \* what the caller sees: the printed objects, an error, or None

vars == <<op, frame, answer, printed>>

None == [none |-> TRUE]
Status == [status_code |-> "not ok"]

Packages == {"streams", "subscriptions", "snapshots", "stores", "temporal",
             "schema", "dcb", "admin", "health"}
------------------------------------------------------------------------------
\* The arguments of a call: each names the wire field it is for.

\* Filters over the tags t1 and t2 and the type e, three levels deep.
Leaf(kind, tags, e) == [go |-> kind, tags |-> tags, eventType |-> e,
                        subs |-> <<>>]
Over(kind, subs) == [go |-> kind, tags |-> {}, eventType |-> "none", subs |-> subs]
AnyOf(tags) == Leaf("matchAny", tags, "none")
AllOf(tags) == Leaf("matchAll", tags, "none")
OfType(e) == Leaf("eventTypeMatch", {}, e)
Filters ==
  <<<<AnyOf({"t1", "t2"})>>, <<AllOf({"t1", "t2"})>>, <<OfType("e")>>,
    <<Over("conjunction", <<2, 3>>), AnyOf({"t1"}), OfType("e")>>,
    <<Over("disjunction", <<2, 3>>), AllOf({"t1", "t2"}), OfType("e")>>,
    <<Over("conjunction", <<2>>), Over("disjunction", <<>>)>>,
    <<Over("disjunction", <<2, 3>>), Over("conjunction", <<4, 5>>),
      OfType("e"), AllOf({"t1"}), AnyOf({"t2"})>>>>

Pick(seq, n) == seq[1 + (n % Len(seq))]

\* The n-th of the two events of a call, as a Go struct.
ProposedEvents == [i \in 1..2 |-> LET at(f) == <<"events", ToString(i), f>> IN
  [EventID |-> at("event_id"), EventType |-> at("event_type"),
   Data |-> at("data"), Metadata |-> at("metadata"), Tags |-> at("tags"),
   DataContentType |-> at("data_content_type"),
   MetadataContentType |-> at("metadata_content_type")]]
RecordedEvents == [i \in 1..2 |-> LET at(f) == <<"events", ToString(i), f>> IN
  ProposedEvents[i] ++
  [StreamID |-> at("stream_id"), Version |-> at("version"),
   Timestamp |-> at("timestamp"), Epoch |-> at("epoch_us"),
   PrevEventHash |-> at("prev_event_hash")]]

Args(p, n) ==
  LET spec == [Type |-> Pick(Types, n), Selector |-> <<"selector">>,
               Name |-> <<"subscription_name">>,
               StartFrom |-> <<"start_from">>, PoolSize |-> <<"pool_size">>]
  IN [streamID |-> <<"stream_id">>, expected |-> <<"expected_version">>,
      startVersion |-> <<"start_version">>, count |-> <<"count">>,
      events |-> ProposedEvents, recorded |-> RecordedEvents,
      types |-> <<"event_types">>, tags |-> <<"tags">>,
      match |-> Pick(<<<<"any">>, <<"all">>>>, n), key |-> <<"key">>,
      value |-> <<"value">>, id |-> <<"value">>, offset |-> <<"offset">>,
      limit |-> <<"limit">>, batch |-> <<"batch_size">>, spec |-> spec,
      eventNumber |-> <<"event_number">>, storeID |-> <<"store_id">>,
      sourceUUID |-> <<"source_uuid">>, streamUUID |-> <<"stream_uuid">>,
      version |-> <<"version">>, Data |-> <<"data">>,
      Metadata |-> <<"metadata">>, snapshot |-> <<"include_snapshot">>,
      cutoff |-> IF p = "dcb" THEN <<"seq_cutoff">> ELSE <<"timestamp">>,
      from |-> <<"from_timestamp">>, to |-> <<"to_timestamp">>,
      at |-> <<"timestamp">>, eventType |-> <<"event_type">>,
      blob |-> <<"schema">>, filter |-> Pick(Filters, n), keys |-> <<"keys">>,
      values |-> <<"values">>, linkName |-> <<"name">>,
      options |-> <<"options">>, pattern |-> <<"pattern">>,
      Source |-> <<"source">>, Target |-> <<"target">>]

------------------------------------------------------------------------------
\* The server's side of the wire.

\* The ServiceDesc that a package's stubs belong to.
ServiceOf(p) ==
  [streams |-> StreamsDesc, subscriptions |-> SubscriptionsDesc,
   snapshots |-> SnapshotsDesc, stores |-> StoresDesc,
   temporal |-> TemporalDesc, schema |-> SchemaDesc, dcb |-> DcbDesc,
   admin |-> AdminDesc, health |-> HealthDesc][p]
\* The handlers, by service.
Handlers ==
  [StreamService |-> StreamsServer, SubscriptionService |-> SubscriptionsServer,
   SnapshotService |-> SnapshotsServer, StoresService |-> StoresServer,
   TemporalService |-> TemporalServer, SchemaService |-> SchemaServer,
   DcbService |-> DcbServer, AdminService |-> AdminServer,
   HealthService |-> HealthServer]
HandlerAt(path) == Handlers[path[1]][path[2]]

\* The server registers a handler for the path.
Registered(path) == \E p \in Packages : LET d == ServiceOf(p) IN
  /\ d.service = path[1]
  /\ path[2] \in d.methods \cup {d.streams[i] : i \in DOMAIN d.streams}

Unit(f) == IF f \in Millis THEN <<"ms">> ELSE IF f \in Micros THEN <<"us">>
           ELSE <<>>
\* How field f ends in the n-th variant: a text by what it is, a number by its
\* unit.
Suffix(f, n) == IF f \notin Texts THEN Unit(f)
                ELSE IF n % 2 = 0 THEN <<"rfc3339">> ELSE <<"no instant">>
Number(names, n) == IF n < Len(names) THEN <<names[n + 1]>> ELSE <<"unknown">>

\* A message of type T marked with tag.
Flat(T, tag, n) == [f \in DOMAIN T |->
  IF T[f].enum # <<>> THEN Number(T[f].enum, n) ELSE tag \o <<f>> \o Suffix(f, n)]
Shown(kind, n, shown) ==
  shown /\ (kind.enum = <<>> \/ kind.enum = <<n>>)
Message(T, tag, n, shown) == [f \in DOMAIN T |->
  IF T[f].len = 0 THEN Flat(T, tag, n)[f]
  ELSE IF Shown(T[f], n, shown)
       THEN [i \in 1..T[f].len |-> Flat(T[f].of, tag \o <<f, ToString(i)>>, n)]
       ELSE <<>>]

\* What a server answers that executes the method of path for a store s.
Answer(path, s, n, shown) ==
  Message(HandlerAt(path).response, s \o <<path[2]>>, n, shown)
------------------------------------------------------------------------------
Idle == [package |-> "none"]

Init ==
  /\ op = Idle
  /\ frame = None /\ answer = None /\ printed = None

\* The caller calls function f of package p on a client of store s.  A field
\* that the function does not set goes out as zero.
Invoke(p, f, s, n) ==
  LET call == Calls(<<"store_id", s>>, Args(p, n))[p][f]
      stub == Stubs(p)[call.stub]
  IN /\ op = Idle
     /\ op' = [package |-> p, function |-> f, store |-> s, variant |-> n]
     /\ frame' = [path |-> <<ServiceOf(p).service, call.stub>>,
                  stream |-> stub.stream,
                  request |-> [g \in DOMAIN stub.request |->
                                 Get(call.request, g)]]
     /\ UNCHANGED <<answer, printed>>

\* The server decodes the request and its method answers.
Serve(shown) ==
  /\ frame # None /\ answer = None
  /\ Registered(frame.path)
  /\ Fits(frame.request, HandlerAt(frame.path).request)
  /\ answer' = Answer(frame.path, Get(frame.request, "store_id"),
                      op.variant, shown)
  /\ UNCHANGED <<op, frame, printed>>

\* The server answers a status: its method failed, or it has none of that
\* name, or it embeds UnimplementedXServer and does not implement it.
Refuse ==
  /\ frame # None /\ answer = None
  /\ answer' = Status
  /\ UNCHANGED <<op, frame, printed>>

\* The stub decodes the answer, the function converts it and the command
\* prints it; a status is the error of the call.
Return ==
  /\ answer # None /\ printed = None
  /\ printed' = IF answer = Status THEN Status
                ELSE [objects |-> Printed(op.package, op.function,
                                   Results(answer)[op.package][op.function])]
  /\ UNCHANGED <<op, frame, answer>>

\* The caller goes on to its next call.
Finish ==
  /\ printed # None
  /\ op' = Idle /\ frame' = None /\ answer' = None /\ printed' = None

Next ==
  \/ \E p \in Packages, s \in Stores, n \in Variants :
       \E f \in DOMAIN Calls(Zero, Args(p, n))[p] : Invoke(p, f, s, n)
  \/ \E shown \in BOOLEAN : Serve(shown)
  \/ Refuse
  \/ Return
  \/ Finish

Spec == Init /\ [][Next]_vars
------------------------------------------------------------------------------
Sent == frame # None
Method == frame.path[2]
Stub == Stubs(op.package)[Method]
Response == HandlerAt(frame.path).response
Shows == printed # None /\ printed # Status

\* Every frame goes to a path some ServiceDesc registers, as a stream exactly
\* when it is registered as that stream; stub and handler agree on the types
\* of the method, and request and answer have them: the three tables that the
\* generator wrote and the structs that the packages fill by hand.
TypeOK ==
  /\ Sent =>
       /\ Registered(frame.path)
       /\ (Method \in ServiceOf(op.package).methods <=> frame.stream = "unary")
       /\ frame.stream \in {"unary", Method}
       /\ Stub.request = HandlerAt(frame.path).request
       /\ Stub.response = Response
       /\ Fits(frame.request, Stub.request)
       /\ "tag_filter" \in DOMAIN frame.request =>
            \A i \in DOMAIN frame.request.tag_filter :
              frame.request.tag_filter[i].kind \in TagFilter
  /\ answer \notin {None, Status} => Fits(answer, Response)

\* Which events a filter selects: the doc comments of the Go constructors,
\* and the oneof as a server reads it.
Means(f, e) ==
  LET means[i \in DOMAIN f] ==
    \/ f[i].go = "matchAny" /\ f[i].tags \cap e.tags # {}
    \/ f[i].go = "matchAll" /\ f[i].tags \subseteq e.tags
    \/ f[i].go = "eventTypeMatch" /\ e.type = f[i].eventType
    \/ f[i].go = "conjunction" /\ \A k \in DOMAIN f[i].subs : means[f[i].subs[k]]
    \/ f[i].go = "disjunction" /\ \E k \in DOMAIN f[i].subs : means[f[i].subs[k]]
  IN means[1]
Selects(w, e) ==
  LET selects[i \in DOMAIN w] ==
    \/ w[i].kind = "match_any" /\ w[i].tags \cap e.tags # {}
    \/ w[i].kind = "match_all" /\ w[i].tags \subseteq e.tags
    \/ w[i].kind = "event_type_match" /\ e.type = w[i].event_type
    \/ /\ w[i].kind = "conjunction"
       /\ \A k \in DOMAIN w[i].filters : selects[w[i].filters[k]]
    \/ /\ w[i].kind = "disjunction"
       /\ \E k \in DOMAIN w[i].filters : selects[w[i].filters[k]]
  IN selects[1]

LineageKey == [ReadEffects |-> "causation_id",
               ReadCorrelated |-> "correlation_id",
               ReadConversation |-> "conversation_id"]
Recorded == [tags : SUBSET {"t1", "t2"}, type : {"e", "other"}]
\* Field f of the request of call c holds w.
Carries(c, f, w) ==
  LET a == Args(c.package, c.variant)
      lineage == f = "key" /\ c.function \in DOMAIN LineageKey
  IN
  /\ f = "store_id" => w = IF c.package = "stores" THEN <<"store_id">>
                           ELSE <<"store_id", c.store>>
  /\ f = "type" => typeFromProto(w) = a.spec.Type
  /\ f = "match" => (w = <<"TAG_MATCH_ALL">> <=> a.match = <<"all">>)
  /\ f = "tag_filter" =>
       \A e \in Recorded : Selects(w, e) <=> Means(a.filter, e)
  /\ f = "events" => \A i \in DOMAIN w : \A g \in DOMAIN w[i] :
                       w[i][g] = <<f, ToString(i), g>> \o Unit(g)
  /\ lineage => w = <<LineageKey[c.function]>>
  /\ \/ f \in {"store_id", "type", "match", "tag_filter", "events"} \/ lineage
     \/ w = <<f>> \o Unit(f)

\* Every argument of a call reaches the server in the field that is its
\* meaning, in that field's unit, under the store the client is bound to, and
\* a filter selects there what its constructor promises.
ArgumentsArrive ==
  Sent => \A f \in DOMAIN frame.request : Carries(op, f, frame.request[f])

\* The messages an answer is made of: its own fields, then those nested in it.
Scalars(T) == {f \in DOMAIN T : T[f].len = 0}
Part(m, T) == [f \in Scalars(T) |-> [data |-> m[f], kind |-> T[f]]]
Parts(msg, T) ==
  LET nested == {f \in DOMAIN T : T[f].len > 0 /\ msg[f] # <<>>}
  IN (IF Scalars(T) = {} THEN <<>> ELSE <<Part(msg, T)>>)
     \o (IF nested = {} THEN <<>>
         ELSE LET f == CHOOSE f \in nested : TRUE
              IN [i \in DOMAIN msg[f] |-> Part(msg[f][i], T[f].of)])

\* The wire field a printed key is about.
WireName(k, part) ==
  IF k \in DOMAIN part THEN k
  ELSE [epoch |-> "epoch_us", registered_at |-> "registered_at_us",
        at |-> "event_at_us", change |-> "type",
        name |-> "subscription_name"][k]
Instant(f, w) ==
  IF f \in Texts /\ w[Len(w)] = "no instant" THEN Zero
  ELSE IF f \in Texts \/ Unit(f) # <<>> THEN SubSeq(w, 1, Len(w) - 1) ELSE w
Faithful(object, part) ==
  /\ {WireName(k, part) : k \in DOMAIN object} = DOMAIN part
  /\ \A k \in DOMAIN object : LET f == WireName(k, part) IN
       part[f].kind.enum = <<>> => object[k] = Instant(f, part[f].data)

\* What is printed under a name is what the server sent under it, for the
\* client's own store: no field of an answer is dropped, doubled, mixed up or
\* read in the wrong unit on its way through the getters, the structs of the
\* package and the JSON objects of encode; of a message that is not set only
\* zero values are printed, and the zero time for a text that names no instant.
PrintedAsSent ==
  Shows => LET parts == Parts(answer, Response)
               objects == printed.objects
               ownStore == IF "store_id" \in DOMAIN frame.request
                             /\ op.package # "stores"
                           THEN <<"store_id", op.store>>
                           ELSE Get(frame.request, "store_id")
    IN /\ \E shown \in BOOLEAN :
            answer = Answer(frame.path, ownStore, op.variant, shown)
       /\ Len(objects) >= Len(parts)
       /\ \A i \in DOMAIN objects :
            IF i \in DOMAIN parts THEN Faithful(objects[i], parts[i])
            ELSE \A k \in DOMAIN objects[i] :
                   objects[i][k] \in {Zero, Epoch1970, <<"unspecified">>}

\* How bad a verdict is: the wire's and the SDK's.
Severity(v) ==
  IF v \in {"HEALTH_STATUS_DEGRADED", "CLUSTER_STATUS_DEGRADED",
            "MEMORY_LEVEL_HIGH", "degraded", "high"} THEN 1
  ELSE IF v \in {"HEALTH_STATUS_UNHEALTHY", "CLUSTER_STATUS_SPLIT_BRAIN",
                 "CLUSTER_STATUS_NO_QUORUM", "MEMORY_LEVEL_CRITICAL",
                 "unknown", "unhealthy", "critical", "STORE_EVENT_TYPE_RETIRED",
                 "retired"} THEN 2
  ELSE 0
Honest(object, part) ==
  \A k \in DOMAIN object \cap {"status", "level", "change"} :
    LET wire == part[WireName(k, part)] IN
    wire.kind.enum # <<>> /\ (wire.data # <<"unknown">> \/ k = "status")
    => Severity(object[k][1]) >= Severity(wire.data[1])

\* No verdict is printed better than the server gave it: a degraded or
\* unhealthy store or cluster never reads as healthy, not even under a status
\* that this build does not know; memory pressure is never understated and a
\* retired store never reads as announced, for the values this build knows.
VerdictHonest ==
  Shows => LET parts == Parts(answer, Response) IN
    \A i \in DOMAIN parts \cap DOMAIN printed.objects :
      Honest(printed.objects[i], parts[i])

\* The methods that change a store, its subscriptions, links or schemas, or
\* the gateway's catalogue.
Mutating ==
  {"AppendEvents", "DeleteStream", "AppendIfNoTagMatches", "Subscribe",
   "AckEvent", "CreateSubscription", "RemoveSubscription", "RecordSnapshot",
   "DeleteSnapshot", "RegisterSchema", "UnregisterSchema", "Scavenge",
   "ScavengeMatching", "CreateLink", "DeleteLink", "StartLink", "StopLink",
   "ReloadCatalogue"}
Writers ==
  {<<"streams", "Append">>, <<"streams", "Delete">>, <<"dcb", "Append">>,
   <<"subscriptions", "Create">>, <<"subscriptions", "Remove">>,
   <<"subscriptions", "Subscribe">>, <<"subscriptions", "Ack">>,
   <<"snapshots", "Save">>, <<"snapshots", "Delete">>,
   <<"schema", "Register">>, <<"schema", "Unregister">>}
  \cup {<<"admin", f>> : f \in {"Scavenge", "ScavengeMatching", "CreateLink",
        "DeleteLink", "StartLink", "StopLink", "ReloadCatalogue"}}

\* A function that its doc comment says only reads, ScavengeDryRun among them,
\* never makes the server run a method that writes.
ReadersDoNotWrite ==
  Sent => (Method \in Mutating <=> <<op.package, op.function>> \in Writers)
=============================================================================
