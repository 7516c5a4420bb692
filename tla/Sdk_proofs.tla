----------------------------- MODULE Sdk_proofs -----------------------------
(***************************************************************************)
(* The proofs about Sdk, in the order of a call:                           *)
(*   - the tables of each service agree, and each function reaches a stub  *)
(*     of its own service (TablesAgree, CallsReach);                       *)
(*   - what each function sends (CallsSend), what each argument becomes    *)
(*     (ArgumentCarries) and what a filter selects (FilterArrives);        *)
(*   - the inductive invariant IInv, and the theorems on requests;         *)
(*   - how an answer is marked (MessageAnswers), what each converter reads *)
(*     of a message (EventsRead and its like, ChecksRead and its like),    *)
(*     and what each package prints (CallsRender), with the theorems on    *)
(*     what is printed.                                                    *)
(***************************************************************************)
EXTENDS Sdk, SequenceTheorems, TLAPS

\* The tables that the generator wrote for one service agree.
Names(desc) == desc.methods \cup {desc.streams[i] : i \in DOMAIN desc.streams}
Agree(desc, stubs, server) ==
  /\ DOMAIN stubs = Names(desc) /\ DOMAIN server = Names(desc)
  /\ \A m \in Names(desc) :
       /\ stubs[m].request = server[m].request
       /\ stubs[m].response = server[m].response
       /\ (m \in desc.methods <=> stubs[m].stream = "unary")
       /\ stubs[m].stream \in {"unary", m}

LEMMA NamesOf ==
  ASSUME NEW desc, NEW name
  PROVE  /\ desc.streams = <<>> => Names(desc) = desc.methods
         /\ desc.streams = <<name>> => Names(desc) = desc.methods \cup {name}
<1>1. DOMAIN <<>> = {} /\ DOMAIN <<name>> = {1} /\ <<name>>[1] = name
  OBVIOUS
<1> QED
  BY <1>1 DEF Names

LEMMA StreamsAgree == Agree(StreamsDesc, StreamsStubs, StreamsServer)
<1>1. StreamsDesc.streams = <<"StreamEventsForward">> /\ StreamsDesc.streams[1] = "StreamEventsForward"
  BY DEF StreamsDesc
<1>2. Names(StreamsDesc) = DOMAIN StreamsStubs /\ Names(StreamsDesc) = DOMAIN StreamsServer
  BY <1>1, NamesOf DEF StreamsDesc, StreamsStubs, StreamsServer
<1>3. ASSUME NEW m \in DOMAIN StreamsStubs
      PROVE  /\ StreamsStubs[m].request = StreamsServer[m].request
             /\ StreamsStubs[m].response = StreamsServer[m].response
             /\ StreamsStubs[m].stream = IF m \in StreamsDesc.methods THEN "unary" ELSE m
  BY <1>1 DEF StreamsDesc, StreamsStubs, StreamsServer, Unary, Streamed, Handler
<1>4. "unary" \notin Names(StreamsDesc)
  BY <1>2 DEF StreamsStubs
<1> QED
  BY <1>2, <1>3, <1>4 DEF Agree

LEMMA SubscriptionsAgree == Agree(SubscriptionsDesc, SubscriptionsStubs, SubscriptionsServer)
<1>1. SubscriptionsDesc.streams = <<"Subscribe">> /\ SubscriptionsDesc.streams[1] = "Subscribe"
  BY DEF SubscriptionsDesc
<1>2. Names(SubscriptionsDesc) = DOMAIN SubscriptionsStubs /\ Names(SubscriptionsDesc) = DOMAIN SubscriptionsServer
  BY <1>1, NamesOf DEF SubscriptionsDesc, SubscriptionsStubs, SubscriptionsServer
<1>3. ASSUME NEW m \in DOMAIN SubscriptionsStubs
      PROVE  /\ SubscriptionsStubs[m].request = SubscriptionsServer[m].request
             /\ SubscriptionsStubs[m].response = SubscriptionsServer[m].response
             /\ SubscriptionsStubs[m].stream = IF m \in SubscriptionsDesc.methods THEN "unary" ELSE m
  BY <1>1 DEF SubscriptionsDesc, SubscriptionsStubs, SubscriptionsServer, Unary, Streamed, Handler
<1>4. "unary" \notin Names(SubscriptionsDesc)
  BY <1>2 DEF SubscriptionsStubs
<1> QED
  BY <1>2, <1>3, <1>4 DEF Agree

LEMMA SnapshotsAgree == Agree(SnapshotsDesc, SnapshotsStubs, SnapshotsServer)
<1>1. /\ Names(SnapshotsDesc) = SnapshotsDesc.methods
      /\ Names(SnapshotsDesc) = DOMAIN SnapshotsStubs /\ Names(SnapshotsDesc) = DOMAIN SnapshotsServer
  BY NamesOf DEF SnapshotsDesc, SnapshotsStubs, SnapshotsServer
<1>2. ASSUME NEW m \in DOMAIN SnapshotsStubs
      PROVE  /\ SnapshotsStubs[m].request = SnapshotsServer[m].request
             /\ SnapshotsStubs[m].response = SnapshotsServer[m].response
             /\ SnapshotsStubs[m].stream = "unary"
  BY DEF SnapshotsStubs, SnapshotsServer, Unary, Handler
<1> QED
  BY <1>1, <1>2 DEF Agree

LEMMA StoresAgree == Agree(StoresDesc, StoresStubs, StoresServer)
<1>1. StoresDesc.streams = <<"WatchStores">> /\ StoresDesc.streams[1] = "WatchStores"
  BY DEF StoresDesc
<1>2. Names(StoresDesc) = DOMAIN StoresStubs /\ Names(StoresDesc) = DOMAIN StoresServer
  BY <1>1, NamesOf DEF StoresDesc, StoresStubs, StoresServer
<1>3. ASSUME NEW m \in DOMAIN StoresStubs
      PROVE  /\ StoresStubs[m].request = StoresServer[m].request
             /\ StoresStubs[m].response = StoresServer[m].response
             /\ StoresStubs[m].stream = IF m \in StoresDesc.methods THEN "unary" ELSE m
  BY <1>1 DEF StoresDesc, StoresStubs, StoresServer, Unary, Streamed, Handler
<1>4. "unary" \notin Names(StoresDesc)
  BY <1>2 DEF StoresStubs
<1> QED
  BY <1>2, <1>3, <1>4 DEF Agree

LEMMA TemporalAgree == Agree(TemporalDesc, TemporalStubs, TemporalServer)
<1>1. /\ Names(TemporalDesc) = TemporalDesc.methods
      /\ Names(TemporalDesc) = DOMAIN TemporalStubs /\ Names(TemporalDesc) = DOMAIN TemporalServer
  BY NamesOf DEF TemporalDesc, TemporalStubs, TemporalServer
<1>2. ASSUME NEW m \in DOMAIN TemporalStubs
      PROVE  /\ TemporalStubs[m].request = TemporalServer[m].request
             /\ TemporalStubs[m].response = TemporalServer[m].response
             /\ TemporalStubs[m].stream = "unary"
  BY DEF TemporalStubs, TemporalServer, Unary, Handler
<1> QED
  BY <1>1, <1>2 DEF Agree

LEMMA SchemaAgree == Agree(SchemaDesc, SchemaStubs, SchemaServer)
<1>1. /\ Names(SchemaDesc) = SchemaDesc.methods
      /\ Names(SchemaDesc) = DOMAIN SchemaStubs /\ Names(SchemaDesc) = DOMAIN SchemaServer
  BY NamesOf DEF SchemaDesc, SchemaStubs, SchemaServer
<1>2. ASSUME NEW m \in DOMAIN SchemaStubs
      PROVE  /\ SchemaStubs[m].request = SchemaServer[m].request
             /\ SchemaStubs[m].response = SchemaServer[m].response
             /\ SchemaStubs[m].stream = "unary"
  BY DEF SchemaStubs, SchemaServer, Unary, Handler
<1> QED
  BY <1>1, <1>2 DEF Agree

LEMMA DcbAgree == Agree(DcbDesc, DcbStubs, DcbServer)
<1>1. /\ Names(DcbDesc) = DcbDesc.methods
      /\ Names(DcbDesc) = DOMAIN DcbStubs /\ Names(DcbDesc) = DOMAIN DcbServer
  BY NamesOf DEF DcbDesc, DcbStubs, DcbServer
<1>2. ASSUME NEW m \in DOMAIN DcbStubs
      PROVE  /\ DcbStubs[m].request = DcbServer[m].request
             /\ DcbStubs[m].response = DcbServer[m].response
             /\ DcbStubs[m].stream = "unary"
  BY DEF DcbStubs, DcbServer, Unary, Handler
<1> QED
  BY <1>1, <1>2 DEF Agree

LEMMA AdminAgree == Agree(AdminDesc, AdminStubs, AdminServer)
<1>1. /\ Names(AdminDesc) = AdminDesc.methods
      /\ Names(AdminDesc) = DOMAIN AdminStubs /\ Names(AdminDesc) = DOMAIN AdminServer
  BY NamesOf DEF AdminDesc, AdminStubs, AdminServer
<1>2. ASSUME NEW m \in DOMAIN AdminStubs
      PROVE  /\ AdminStubs[m].request = AdminServer[m].request
             /\ AdminStubs[m].response = AdminServer[m].response
             /\ AdminStubs[m].stream = "unary"
  BY DEF AdminStubs, AdminServer, Unary, Handler
<1> QED
  BY <1>1, <1>2 DEF Agree

LEMMA HealthAgree == Agree(HealthDesc, HealthStubs, HealthServer)
<1>1. /\ Names(HealthDesc) = HealthDesc.methods
      /\ Names(HealthDesc) = DOMAIN HealthStubs /\ Names(HealthDesc) = DOMAIN HealthServer
  BY NamesOf DEF HealthDesc, HealthStubs, HealthServer
<1>2. ASSUME NEW m \in DOMAIN HealthStubs
      PROVE  /\ HealthStubs[m].request = HealthServer[m].request
             /\ HealthStubs[m].response = HealthServer[m].response
             /\ HealthStubs[m].stream = "unary"
  BY DEF HealthStubs, HealthServer, Unary, Handler
<1> QED
  BY <1>1, <1>2 DEF Agree

\* Under a path of package p the server finds the handler of p's service.
LEMMA TablesAgree ==
  ASSUME NEW p \in Packages
  PROVE  Agree(ServiceOf(p), Stubs(p), Handlers[ServiceOf(p).service])
<1>1. CASE p = "streams"
  <2>1. ServiceOf(p) = StreamsDesc /\ Stubs(p) = StreamsStubs
    BY <1>1 DEF ServiceOf, Stubs
  <2>2. Handlers[StreamsDesc.service] = StreamsServer
    BY DEF StreamsDesc, Handlers
  <2> QED
    BY <2>1, <2>2, StreamsAgree
<1>2. CASE p = "subscriptions"
  <2>1. ServiceOf(p) = SubscriptionsDesc /\ Stubs(p) = SubscriptionsStubs
    BY <1>2 DEF ServiceOf, Stubs
  <2>2. Handlers[SubscriptionsDesc.service] = SubscriptionsServer
    BY DEF SubscriptionsDesc, Handlers
  <2> QED
    BY <2>1, <2>2, SubscriptionsAgree
<1>3. CASE p = "snapshots"
  <2>1. ServiceOf(p) = SnapshotsDesc /\ Stubs(p) = SnapshotsStubs
    BY <1>3 DEF ServiceOf, Stubs
  <2>2. Handlers[SnapshotsDesc.service] = SnapshotsServer
    BY DEF SnapshotsDesc, Handlers
  <2> QED
    BY <2>1, <2>2, SnapshotsAgree
<1>4. CASE p = "stores"
  <2>1. ServiceOf(p) = StoresDesc /\ Stubs(p) = StoresStubs
    BY <1>4 DEF ServiceOf, Stubs
  <2>2. Handlers[StoresDesc.service] = StoresServer
    BY DEF StoresDesc, Handlers
  <2> QED
    BY <2>1, <2>2, StoresAgree
<1>5. CASE p = "temporal"
  <2>1. ServiceOf(p) = TemporalDesc /\ Stubs(p) = TemporalStubs
    BY <1>5 DEF ServiceOf, Stubs
  <2>2. Handlers[TemporalDesc.service] = TemporalServer
    BY DEF TemporalDesc, Handlers
  <2> QED
    BY <2>1, <2>2, TemporalAgree
<1>6. CASE p = "schema"
  <2>1. ServiceOf(p) = SchemaDesc /\ Stubs(p) = SchemaStubs
    BY <1>6 DEF ServiceOf, Stubs
  <2>2. Handlers[SchemaDesc.service] = SchemaServer
    BY DEF SchemaDesc, Handlers
  <2> QED
    BY <2>1, <2>2, SchemaAgree
<1>7. CASE p = "dcb"
  <2>1. ServiceOf(p) = DcbDesc /\ Stubs(p) = DcbStubs
    BY <1>7 DEF ServiceOf, Stubs
  <2>2. Handlers[DcbDesc.service] = DcbServer
    BY DEF DcbDesc, Handlers
  <2> QED
    BY <2>1, <2>2, DcbAgree
<1>8. CASE p = "admin"
  <2>1. ServiceOf(p) = AdminDesc /\ Stubs(p) = AdminStubs
    BY <1>8 DEF ServiceOf, Stubs
  <2>2. Handlers[AdminDesc.service] = AdminServer
    BY DEF AdminDesc, Handlers
  <2> QED
    BY <2>1, <2>2, AdminAgree
<1>9. CASE p = "health"
  <2>1. ServiceOf(p) = HealthDesc /\ Stubs(p) = HealthStubs
    BY <1>9 DEF ServiceOf, Stubs
  <2>2. Handlers[HealthDesc.service] = HealthServer
    BY DEF HealthDesc, Handlers
  <2> QED
    BY <2>1, <2>2, HealthAgree
<1> QED
  BY <1>1, <1>2, <1>3, <1>4, <1>5, <1>6, <1>7, <1>8, <1>9 DEF Packages
------------------------------------------------------------------------------
\* Each function calls a stub of its own service, and one that writes if and only
\* if the function is a writer.
Reaches(p, f, stub) ==
  /\ stub \in Names(ServiceOf(p))
  /\ (stub \in Mutating <=> <<p, f>> \in Writers)

LEMMA CallFields ==
  ASSUME NEW stub, NEW request
  PROVE  Call(stub, request).stub = stub /\ Call(stub, request).request = request
  BY DEF Call

LEMMA StreamsReach ==
  ASSUME NEW s, NEW a, NEW f \in DOMAIN StreamsCalls(s, a)
  PROVE  Reaches("streams", f, StreamsCalls(s, a)[f].stub)
<1>1. Names(ServiceOf("streams")) = DOMAIN StreamsStubs
  BY StreamsAgree DEF Agree, ServiceOf
<1>2. ASSUME f = "Append"
      PROVE  StreamsCalls(s, a)[f].stub = "AppendEvents"
  BY <1>2 DEF StreamsCalls, StreamsAppend, Call, ++
<1>3. ASSUME f \in DOMAIN StreamsReads(s, a)
      PROVE  Reaches("streams", f, StreamsReads(s, a)[f].stub)
  BY <1>1, <1>3 DEF StreamsReads, Call, Reaches, Mutating, Writers, StreamsStubs
<1>4. ASSUME f \in DOMAIN StreamsByKey(s, a)
      PROVE  Reaches("streams", f, StreamsByKey(s, a)[f].stub)
  BY <1>1, <1>4 DEF StreamsByKey, Call, Reaches, Mutating, Writers, StreamsStubs
<1>5. ASSUME f \in DOMAIN StreamsLineage(s, a)
      PROVE  Reaches("streams", f, StreamsLineage(s, a)[f].stub)
  BY <1>1, <1>5 DEF StreamsLineage, Call, Reaches, Mutating, Writers, StreamsStubs
<1>6. Reaches("streams", "Append", "AppendEvents")
  BY <1>1 DEF Reaches, Mutating, Writers, StreamsStubs
<1> QED
  BY <1>2, <1>3, <1>4, <1>5, <1>6 DEF StreamsCalls, ++

LEMMA SubscriptionsReach ==
  ASSUME NEW s, NEW a, NEW f \in DOMAIN SubscriptionsCalls(s, a)
  PROVE  Reaches("subscriptions", f, SubscriptionsCalls(s, a)[f].stub)
<1>1. Names(ServiceOf("subscriptions")) = DOMAIN SubscriptionsStubs
  BY SubscriptionsAgree DEF Agree, ServiceOf
<1>2. SubscriptionsCalls(s, a)[f].stub \in DOMAIN SubscriptionsStubs
  BY CallFields DEF SubscriptionsCalls, SubscriptionsStubs
<1>3. SubscriptionsCalls(s, a)[f].stub \in Mutating <=> <<"subscriptions", f>> \in Writers
  BY CallFields DEF SubscriptionsCalls, Mutating, Writers
<1> QED
  BY <1>1, <1>2, <1>3 DEF Reaches

LEMMA SnapshotsReach ==
  ASSUME NEW s, NEW a, NEW f \in DOMAIN SnapshotsCalls(s, a)
  PROVE  Reaches("snapshots", f, SnapshotsCalls(s, a)[f].stub)
<1>1. Names(ServiceOf("snapshots")) = DOMAIN SnapshotsStubs
  BY SnapshotsAgree DEF Agree, ServiceOf
<1>2. SnapshotsCalls(s, a)[f].stub \in DOMAIN SnapshotsStubs
  BY DEF SnapshotsCalls, SnapshotsStubs, Call, ++
<1>3. SnapshotsCalls(s, a)[f].stub \in Mutating <=> <<"snapshots", f>> \in Writers
  BY DEF SnapshotsCalls, Call, Mutating, Writers, ++
<1> QED
  BY <1>1, <1>2, <1>3 DEF Reaches

LEMMA StoresReach ==
  ASSUME NEW a, NEW f \in DOMAIN StoresCalls(a)
  PROVE  Reaches("stores", f, StoresCalls(a)[f].stub)
<1>1. Names(ServiceOf("stores")) = DOMAIN StoresStubs
  BY StoresAgree DEF Agree, ServiceOf
<1>2. StoresCalls(a)[f].stub \in DOMAIN StoresStubs
  BY DEF StoresCalls, StoresStubs, Call
<1>3. StoresCalls(a)[f].stub \in Mutating <=> <<"stores", f>> \in Writers
  BY DEF StoresCalls, Call, Mutating, Writers
<1> QED
  BY <1>1, <1>2, <1>3 DEF Reaches

LEMMA TemporalReach ==
  ASSUME NEW s, NEW a, NEW f \in DOMAIN TemporalCalls(s, a)
  PROVE  Reaches("temporal", f, TemporalCalls(s, a)[f].stub)
<1>1. Names(ServiceOf("temporal")) = DOMAIN TemporalStubs
  BY TemporalAgree DEF Agree, ServiceOf
<1>2. TemporalCalls(s, a)[f].stub \in DOMAIN TemporalStubs
  BY DEF TemporalCalls, TemporalStubs, Call, ++
<1>3. TemporalCalls(s, a)[f].stub \in Mutating <=> <<"temporal", f>> \in Writers
  BY DEF TemporalCalls, Call, Mutating, Writers, ++
<1> QED
  BY <1>1, <1>2, <1>3 DEF Reaches

LEMMA SchemaReach ==
  ASSUME NEW s, NEW a, NEW f \in DOMAIN SchemaCalls(s, a)
  PROVE  Reaches("schema", f, SchemaCalls(s, a)[f].stub)
<1>1. Names(ServiceOf("schema")) = DOMAIN SchemaStubs
  BY SchemaAgree DEF Agree, ServiceOf
<1>2. SchemaCalls(s, a)[f].stub \in DOMAIN SchemaStubs
  BY DEF SchemaCalls, SchemaStubs, Call, ++
<1>3. SchemaCalls(s, a)[f].stub \in Mutating <=> <<"schema", f>> \in Writers
  BY DEF SchemaCalls, Call, Mutating, Writers, ++
<1> QED
  BY <1>1, <1>2, <1>3 DEF Reaches

LEMMA DcbReach ==
  ASSUME NEW s, NEW a, NEW f \in DOMAIN DcbCalls(s, a)
  PROVE  Reaches("dcb", f, DcbCalls(s, a)[f].stub)
<1>1. Names(ServiceOf("dcb")) = DOMAIN DcbStubs
  BY DcbAgree DEF Agree, ServiceOf
<1>2. DcbCalls(s, a)[f].stub \in DOMAIN DcbStubs
  BY DEF DcbCalls, DcbStubs, Call
<1>3. DcbCalls(s, a)[f].stub \in Mutating <=> <<"dcb", f>> \in Writers
  BY DEF DcbCalls, Call, Mutating, Writers
<1> QED
  BY <1>1, <1>2, <1>3 DEF Reaches

LEMMA AdminReach ==
  ASSUME NEW s, NEW a, NEW f \in DOMAIN AdminCalls(s, a)
  PROVE  Reaches("admin", f, AdminCalls(s, a)[f].stub)
<1>1. Names(ServiceOf("admin")) = DOMAIN AdminStubs
  BY AdminAgree DEF Agree, ServiceOf
<1>2. ASSUME f \in DOMAIN ScavengeCalls(s, a)
      PROVE  Reaches("admin", f, ScavengeCalls(s, a)[f].stub)
  BY <1>1, <1>2, CallFields DEF ScavengeCalls, Reaches, Mutating, Writers, AdminStubs
<1>3. ASSUME f \in DOMAIN StatsCalls(s, a)
      PROVE  Reaches("admin", f, StatsCalls(s, a)[f].stub)
  BY <1>1, <1>3, CallFields DEF StatsCalls, Reaches, Mutating, Writers, AdminStubs
<1>4. ASSUME f \in DOMAIN LinkCalls(s, a)
      PROVE  Reaches("admin", f, LinkCalls(s, a)[f].stub)
  BY <1>1, <1>4, CallFields DEF LinkCalls, Reaches, Mutating, Writers, AdminStubs
<1>5. ASSUME f \in DOMAIN CatalogueCalls
      PROVE  Reaches("admin", f, CatalogueCalls[f].stub)
  BY <1>1, <1>5, CallFields DEF CatalogueCalls, Reaches, Mutating, Writers, AdminStubs
<1> QED
  BY <1>2, <1>3, <1>4, <1>5 DEF AdminCalls, ++

LEMMA HealthReach ==
  ASSUME NEW s, NEW f \in DOMAIN HealthCalls(s)
  PROVE  Reaches("health", f, HealthCalls(s)[f].stub)
<1>1. Names(ServiceOf("health")) = DOMAIN HealthStubs
  BY HealthAgree DEF Agree, ServiceOf
<1>2. HealthCalls(s)[f].stub \in DOMAIN HealthStubs
  BY DEF HealthCalls, HealthStubs, Call
<1>3. HealthCalls(s)[f].stub \in Mutating <=> <<"health", f>> \in Writers
  BY DEF HealthCalls, Call, Mutating, Writers
<1> QED
  BY <1>1, <1>2, <1>3 DEF Reaches

LEMMA CallsReach ==
  ASSUME NEW s, NEW a, NEW p \in Packages, NEW f \in DOMAIN Calls(s, a)[p]
  PROVE  Reaches(p, f, Calls(s, a)[p][f].stub)
<1>1. CASE p = "streams"
  BY <1>1, StreamsReach DEF Calls
<1>2. CASE p = "subscriptions"
  BY <1>2, SubscriptionsReach DEF Calls
<1>3. CASE p = "snapshots"
  BY <1>3, SnapshotsReach DEF Calls
<1>4. CASE p = "stores"
  BY <1>4, StoresReach DEF Calls
<1>5. CASE p = "temporal"
  BY <1>5, TemporalReach DEF Calls
<1>6. CASE p = "schema"
  BY <1>6, SchemaReach DEF Calls
<1>7. CASE p = "dcb"
  BY <1>7, DcbReach DEF Calls
<1>8. CASE p = "admin"
  BY <1>8, AdminReach DEF Calls
<1>9. CASE p = "health"
  BY <1>9, HealthReach DEF Calls
<1> QED
  BY <1>1, <1>2, <1>3, <1>4, <1>5, <1>6, <1>7, <1>8, <1>9 DEF Packages

\* Which functions a package has does not depend on their arguments.
LEMMA SameFunctions ==
  ASSUME NEW s, NEW a, NEW t, NEW b, NEW p \in Packages
  PROVE  DOMAIN Calls(s, a)[p] = DOMAIN Calls(t, b)[p]
<1>1. CASE p = "streams"
  <2>1. DOMAIN StreamsCalls(s, a) = DOMAIN StreamsCalls(t, b)
    BY DEF StreamsCalls, StreamsReads, StreamsByKey, StreamsLineage, ++
  <2> QED
    BY <1>1, <2>1 DEF Calls
<1>2. CASE p = "subscriptions"
  <2>1. DOMAIN SubscriptionsCalls(s, a) = DOMAIN SubscriptionsCalls(t, b)
    BY DEF SubscriptionsCalls
  <2> QED
    BY <1>2, <2>1 DEF Calls
<1>3. CASE p = "snapshots"
  <2>1. DOMAIN SnapshotsCalls(s, a) = DOMAIN SnapshotsCalls(t, b)
    BY DEF SnapshotsCalls
  <2> QED
    BY <1>3, <2>1 DEF Calls
<1>4. CASE p = "stores"
  <2>1. DOMAIN StoresCalls(a) = DOMAIN StoresCalls(b)
    BY DEF StoresCalls
  <2> QED
    BY <1>4, <2>1 DEF Calls
<1>5. CASE p = "temporal"
  <2>1. DOMAIN TemporalCalls(s, a) = DOMAIN TemporalCalls(t, b)
    BY DEF TemporalCalls
  <2> QED
    BY <1>5, <2>1 DEF Calls
<1>6. CASE p = "schema"
  <2>1. DOMAIN SchemaCalls(s, a) = DOMAIN SchemaCalls(t, b)
    BY DEF SchemaCalls
  <2> QED
    BY <1>6, <2>1 DEF Calls
<1>7. CASE p = "dcb"
  <2>1. DOMAIN DcbCalls(s, a) = DOMAIN DcbCalls(t, b)
    BY DEF DcbCalls
  <2> QED
    BY <1>7, <2>1 DEF Calls
<1>8. CASE p = "admin"
  <2>1. DOMAIN AdminCalls(s, a) = DOMAIN AdminCalls(t, b)
    BY DEF AdminCalls, ScavengeCalls, StatsCalls, LinkCalls, CatalogueCalls, ++
  <2> QED
    BY <1>8, <2>1 DEF Calls
<1>9. CASE p = "health"
  <2>1. DOMAIN HealthCalls(s) = DOMAIN HealthCalls(t)
    BY DEF HealthCalls
  <2> QED
    BY <1>9, <2>1 DEF Calls
<1> QED
  BY <1>1, <1>2, <1>3, <1>4, <1>5, <1>6, <1>7, <1>8, <1>9 DEF Packages
------------------------------------------------------------------------------
\* What a field is sent as: its name, with the unit if it is a time.
Named(f) == <<f>> \o Unit(f)

LEMMA NamedIs ==
  ASSUME NEW f
  PROVE  /\ f \notin Millis \cup Micros => Named(f) = <<f>>
         /\ f \in Millis => Named(f) = ToMillis(<<f>>)
         /\ f \in Micros \ Millis => Named(f) = ToMicros(<<f>>)
<1>1. <<f>> \in Seq({f}) /\ <<f>> \o <<>> = <<f>>
  BY ConcatEmptySeq
<1> QED
  BY <1>1 DEF Named, Unit, ToMillis, ToMicros

LEMMA ArgValues ==
  ASSUME NEW p, NEW n
  PROVE  /\ Args(p, n).events = ProposedEvents
         /\ Args(p, n).recorded = RecordedEvents
         /\ Args(p, n).match = Pick(<<<<"any">>, <<"all">>>>, n)
         /\ Args(p, n).spec.Type = Pick(Types, n)
         /\ Args(p, n).filter = Pick(Filters, n)
         /\ Args(p, n).cutoff = IF p = "dcb" THEN <<"seq_cutoff">>
                                ELSE <<"timestamp">>
  BY DEF Args

LEMMA PickIn ==
  ASSUME NEW S, NEW seq \in Seq(S), seq # <<>>, NEW n \in Nat
  PROVE  Pick(seq, n) \in {seq[i] : i \in 1..Len(seq)}
  BY DEF Pick

\* A subscription type survives the way to the wire and back.
LEMMA TypeRoundTrip ==
  ASSUME NEW n \in Nat
  PROVE  typeFromProto(typeToProto(Pick(Types, n))) = Pick(Types, n)
<1>1. Pick(Types, n) \in {Types[i] : i \in 1..6}
  <2>1. Types \in Seq({Types[i] : i \in 1..6}) /\ Len(Types) = 6 /\ Types # <<>>
    BY DEF Types
  <2> QED
    BY <2>1, PickIn
<1>2. ASSUME NEW i \in 1..6, NEW j \in 1..6, i # j
      PROVE  Types[i] # Types[j] /\ <<SubscriptionType[i]>> # <<SubscriptionType[j]>>
  BY <1>2 DEF Types, SubscriptionType
<1>3. PICK i \in 1..6 : Pick(Types, n) = Types[i]
  BY <1>1
<1>4. CASE i = 1
  <2>1. ~ \E j \in 2..6 : Types[j] = Types[i]
    BY <1>2, <1>4
  <2>2. <<"SUBSCRIPTION_TYPE_UNSPECIFIED">> = <<SubscriptionType[1]>>
    BY DEF SubscriptionType
  <2>3. ~ \E j \in 2..6 : <<SubscriptionType[j]>> = <<SubscriptionType[1]>>
    BY <1>2
  <2>4. Types[1] = <<"unspecified">>
    BY DEF Types
  <2> QED
    BY <1>3, <1>4, <2>1, <2>2, <2>3, <2>4 DEF typeToProto, typeFromProto
<1>5. CASE i \in 2..6
  <2>1. (CHOOSE j \in 2..6 : Types[j] = Types[i]) = i
    BY <1>2, <1>5
  <2>2. (CHOOSE j \in 2..6 : <<SubscriptionType[j]>> = <<SubscriptionType[i]>>) = i
    BY <1>2, <1>5
  <2>3. typeToProto(Types[i]) = <<SubscriptionType[i]>>
    BY <1>5, <2>1 DEF typeToProto
  <2>4. typeFromProto(<<SubscriptionType[i]>>) = Types[i]
    BY <1>5, <2>2 DEF typeFromProto
  <2> QED
    BY <1>3, <2>3, <2>4
<1> QED
  BY <1>4, <1>5

LEMMA MatchArrives ==
  ASSUME NEW n \in Nat
  PROVE  LET m == Pick(<<<<"any">>, <<"all">>>>, n) IN
         tagMatchToProto(m) = <<"TAG_MATCH_ALL">> <=> m = <<"all">>
  BY DEF tagMatchToProto

EventsNamed(w) ==
  \A i \in DOMAIN w : \A g \in DOMAIN w[i] :
    w[i][g] = <<"events", ToString(i), g>> \o Unit(g)
LEMMA EventUnits ==
  ASSUME NEW i, NEW g
  PROVE  LET at == <<"events", ToString(i), g>> IN
         /\ g \notin Millis \cup Micros => at \o Unit(g) = at
         /\ g \in Millis => at \o Unit(g) = ToMillis(at)
         /\ g \in Micros \ Millis => at \o Unit(g) = ToMicros(at)
<1> DEFINE at == <<"events", ToString(i), g>>
<1>1. at \in Seq({"events", ToString(i), g}) /\ at \o <<>> = at
  BY ConcatEmptySeq
<1> QED
  BY <1>1 DEF Unit, ToMillis, ToMicros

LEMMA ProposedArrive ==
  EventsNamed(Each(ProposedToProto, ProposedEvents))
<1> DEFINE w == Each(ProposedToProto, ProposedEvents)
<1>1. ASSUME NEW i \in 1..2, NEW g \in DOMAIN w[i]
      PROVE  w[i][g] = <<"events", ToString(i), g>> /\ g \notin Millis \cup Micros
  BY DEF Each, ProposedToProto, ProposedEvents, Millis, Micros
<1>2. DOMAIN w = 1..2
  BY DEF Each, ProposedEvents
<1> QED
  BY <1>1, <1>2, EventUnits DEF EventsNamed

LEMMA RecordedFields ==
  ASSUME NEW i \in 1..2
  PROVE  LET at(f) == <<"events", ToString(i), f>>
             e == RecordedEvents[i]
    IN /\ e.EventID = at("event_id") /\ e.EventType = at("event_type")
       /\ e.Data = at("data") /\ e.Metadata = at("metadata")
       /\ e.Tags = at("tags") /\ e.DataContentType = at("data_content_type")
       /\ e.MetadataContentType = at("metadata_content_type")
       /\ e.StreamID = at("stream_id") /\ e.Version = at("version")
       /\ e.Timestamp = at("timestamp") /\ e.Epoch = at("epoch_us")
       /\ e.PrevEventHash = at("prev_event_hash")
  BY DEF RecordedEvents, ProposedEvents, ++

LEMMA RecordedArrive ==
  EventsNamed(Each(toProto, RecordedEvents))
<1> DEFINE w == Each(toProto, RecordedEvents)
           At(i, g) == <<"events", ToString(i), g>>
<1>1. ASSUME NEW i \in 1..2
      PROVE  w[i] = toProto(RecordedEvents[i])
  BY DEF Each, RecordedEvents
<1>2. ASSUME NEW i \in 1..2, NEW g \in DOMAIN w[i]
      PROVE  w[i][g] = IF g = "timestamp" THEN ToMillis(At(i, g))
                       ELSE IF g = "epoch_us" THEN ToMicros(At(i, g)) ELSE At(i, g)
  <2> DEFINE e == RecordedEvents[i]
  <2>1. /\ e.EventID = At(i, "event_id") /\ e.EventType = At(i, "event_type")
        /\ e.Data = At(i, "data") /\ e.Metadata = At(i, "metadata")
        /\ e.Tags = At(i, "tags")
        /\ e.DataContentType = At(i, "data_content_type")
        /\ e.MetadataContentType = At(i, "metadata_content_type")
        /\ e.StreamID = At(i, "stream_id") /\ e.Version = At(i, "version")
        /\ e.Timestamp = At(i, "timestamp") /\ e.Epoch = At(i, "epoch_us")
        /\ e.PrevEventHash = At(i, "prev_event_hash")
    BY RecordedFields
  <2>2. g \in DOMAIN toProto(e) /\ w[i][g] = toProto(e)[g]
    BY <1>1
  <2> HIDE DEF w, e, At
  <2> QED
    BY <2>1, <2>2 DEF toProto
<1>3. DOMAIN w = 1..2
  BY DEF Each, RecordedEvents
<1>4. ASSUME NEW i \in 1..2, NEW g \in DOMAIN w[i]
      PROVE  /\ g = "timestamp" => g \in Millis
             /\ g = "epoch_us" => g \in Micros \ Millis
             /\ g \notin {"timestamp", "epoch_us"} => g \notin Millis \cup Micros
  <2>1. g \in DOMAIN toProto(RecordedEvents[i])
    BY <1>1
  <2> HIDE DEF w
  <2> QED
    BY <2>1 DEF toProto, Millis, Micros
<1>5. ASSUME NEW i \in 1..2, NEW g \in DOMAIN w[i]
      PROVE  w[i][g] = At(i, g) \o Unit(g)
  <2>1. /\ g \notin Millis \cup Micros => At(i, g) \o Unit(g) = At(i, g)
        /\ g \in Millis => At(i, g) \o Unit(g) = ToMillis(At(i, g))
        /\ g \in Micros \ Millis => At(i, g) \o Unit(g) = ToMicros(At(i, g))
    BY EventUnits
  <2> HIDE DEF w, At
  <2> QED
    BY <1>2, <1>4, <2>1
<1>6. \A i \in DOMAIN w : \A g \in DOMAIN w[i] :
        w[i][g] = <<"events", ToString(i), g>> \o Unit(g)
  <2> HIDE DEF w
  <2> QED
    BY <1>3, <1>5
<1> QED
  BY <1>6 DEF EventsNamed

------------------------------------------------------------------------------
\* What function f of package p with arguments a sends in field g: the argument
\* of that name, or what becomes of it.
Argument(p, f, s, a, g) ==
  IF g = "store_id" /\ p # "stores" THEN s
  ELSE IF g = "type" THEN typeToProto(a.spec.Type)
  ELSE IF g = "match" THEN tagMatchToProto(a.match)
  ELSE IF g = "tag_filter" THEN FilterToProto(a.filter)
  ELSE IF g = "events" THEN (IF p = "schema" THEN Each(toProto, a.recorded)
                             ELSE Each(ProposedToProto, a.events))
  ELSE IF g = "key" /\ f \in DOMAIN LineageKey THEN <<LineageKey[f]>>
  ELSE Named(g)
Sends(p, f, s, a, calls) ==
  \A g \in DOMAIN Stubs(p)[calls[f].stub].request :
    Get(calls[f].request, g) = Argument(p, f, s, a, g)
\* The names of the arguments, for a package that is not dcb.
NamedArgs(a) ==
    /\ a.streamID = <<"stream_id">> /\ a.expected = <<"expected_version">>
    /\ a.startVersion = <<"start_version">> /\ a.count = <<"count">>
    /\ a.types = <<"event_types">> /\ a.tags = <<"tags">>
    /\ a.key = <<"key">> /\ a.value = <<"value">> /\ a.id = <<"value">>
    /\ a.offset = <<"offset">> /\ a.limit = <<"limit">>
    /\ a.batch = <<"batch_size">> /\ a.eventNumber = <<"event_number">>
    /\ a.spec.Selector = <<"selector">> /\ a.spec.Name = <<"subscription_name">>
    /\ a.spec.StartFrom = <<"start_from">> /\ a.spec.PoolSize = <<"pool_size">>
    /\ a.storeID = <<"store_id">> /\ a.sourceUUID = <<"source_uuid">>
    /\ a.streamUUID = <<"stream_uuid">> /\ a.version = <<"version">>
    /\ a.Data = <<"data">> /\ a.Metadata = <<"metadata">>
    /\ a.snapshot = <<"include_snapshot">>
    /\ a.from = <<"from_timestamp">> /\ a.to = <<"to_timestamp">>
    /\ a.at = <<"timestamp">> /\ a.eventType = <<"event_type">>
    /\ a.blob = <<"schema">> 
    /\ a.keys = <<"keys">> /\ a.values = <<"values">>
    /\ a.linkName = <<"name">> /\ a.options = <<"options">>
    /\ a.pattern = <<"pattern">> /\ a.Source = <<"source">>
    /\ a.Target = <<"target">>

LEMMA ArgsNamed ==
  ASSUME NEW p, NEW n
  PROVE  NamedArgs(Args(p, n))
  BY DEF Args, NamedArgs

LEMMA ArgumentIs ==
  ASSUME NEW p, NEW f, NEW s, NEW a, NEW g
  PROVE  LET w == Argument(p, f, s, a, g) IN
    /\ g = "store_id" => w = IF p = "stores" THEN Named(g) ELSE s
    /\ g = "type" => w = typeToProto(a.spec.Type)
    /\ g = "match" => w = tagMatchToProto(a.match)
    /\ g = "tag_filter" => w = FilterToProto(a.filter)
    /\ g = "events" => w = IF p = "schema" THEN Each(toProto, a.recorded)
                           ELSE Each(ProposedToProto, a.events)
    /\ g = "key" => w = IF f \in DOMAIN LineageKey THEN <<LineageKey[f]>>
                        ELSE Named(g)
    /\ g \notin {"store_id", "type", "match", "tag_filter", "events", "key"} =>
         w = Named(g)
  BY DEF Argument

LEMMA SubscriptionsSend ==
  ASSUME NEW s, NEW a, NamedArgs(a), NEW f \in DOMAIN SubscriptionsCalls(s, a)
  PROVE  Sends("subscriptions", f, s, a, SubscriptionsCalls(s, a))
<1> DEFINE c == SubscriptionsCalls(s, a)[f]
           V(x) == IF x = "store_id" THEN s ELSE IF x = "type" THEN typeToProto(a.spec.Type) ELSE Named(x)
           Carry(F) == /\ DOMAIN SubscriptionsStubs[c.stub].request = F
                       /\ c.request = [x \in F |-> V(x)]
<1>1. \A x : x \notin Millis \cup Micros => Named(x) = <<x>>
  BY NamedIs
<1>2. /\ a.eventNumber = <<"event_number">>
      /\ a.spec.Name = <<"subscription_name">>
      /\ a.spec.PoolSize = <<"pool_size">>
      /\ a.spec.Selector = <<"selector">>
      /\ a.spec.StartFrom = <<"start_from">>
      /\ a.streamID = <<"stream_id">>
  BY DEF NamedArgs
<1>3. ASSUME f \in {"Create", "Subscribe"}
      PROVE  Carry({"pool_size", "selector", "start_from", "store_id",
           "subscription_name", "type"})
  <2>1. c.stub \in {"CreateSubscription", "Subscribe"}
    BY <1>3, CallFields DEF SubscriptionsCalls
  <2>2. DOMAIN SubscriptionsStubs[c.stub].request = {"pool_size", "selector", "start_from", "store_id",
           "subscription_name", "type"}
    BY <2>1 DEF SubscriptionsStubs, Unary, Streamed, Plain, ++,
      CreateSubscriptionRequest, SubscribeRequest
  <2>3. c.request = [x \in {"pool_size", "selector", "start_from", "store_id",
           "subscription_name", "type"} |-> V(x)]
    <3>1. c.request = [store_id |-> s, subscription_name |-> a.spec.Name,
             type |-> typeToProto(a.spec.Type), selector |-> a.spec.Selector,
             start_from |-> a.spec.StartFrom, pool_size |-> a.spec.PoolSize]
      BY <1>3, CallFields DEF SubscriptionsCalls
    <3> HIDE DEF c
    <3> QED
      BY <1>1, <1>2, <3>1 DEF Millis, Micros
  <2> QED
    BY <2>2, <2>3
<1>4. ASSUME f = "Remove"
      PROVE  Carry({"selector", "store_id", "subscription_name", "type"})
  <2>1. c.stub = "RemoveSubscription"
    BY <1>4, CallFields DEF SubscriptionsCalls
  <2>2. DOMAIN SubscriptionsStubs[c.stub].request = {"selector", "store_id", "subscription_name", "type"}
    BY <2>1 DEF SubscriptionsStubs, Unary, Streamed, Plain, ++,
      RemoveSubscriptionRequest
  <2>3. c.request = [x \in {"selector", "store_id", "subscription_name", "type"} |-> V(x)]
    BY <1>1, <1>2, <1>4 DEF SubscriptionsCalls, Call, Millis, Micros
  <2> QED
    BY <2>2, <2>3
<1>5. ASSUME f = "List"
      PROVE  Carry({"store_id"})
  <2>1. c.stub = "ListSubscriptions"
    BY <1>5, CallFields DEF SubscriptionsCalls
  <2>2. DOMAIN SubscriptionsStubs[c.stub].request = {"store_id"}
    BY <2>1 DEF SubscriptionsStubs, Unary, Streamed, Plain, ++,
      ListSubscriptionsRequest
  <2>3. c.request = [x \in {"store_id"} |-> V(x)]
    BY <1>1, <1>2, <1>5 DEF SubscriptionsCalls, Call, Millis, Micros
  <2> QED
    BY <2>2, <2>3
<1>6. ASSUME f \in {"Get", "Lag"}
      PROVE  Carry({"store_id", "subscription_name"})
  <2>1. c.stub \in {"GetSubscription", "GetSubscriptionLag"}
    BY <1>6, CallFields DEF SubscriptionsCalls
  <2>2. DOMAIN SubscriptionsStubs[c.stub].request = {"store_id", "subscription_name"}
    BY <2>1 DEF SubscriptionsStubs, Unary, Streamed, Plain, ++,
      GetSubscriptionLagRequest, GetSubscriptionRequest
  <2>3. c.request = [x \in {"store_id", "subscription_name"} |-> V(x)]
    BY <1>1, <1>2, <1>6 DEF SubscriptionsCalls, Call, Millis, Micros
  <2> QED
    BY <2>2, <2>3
<1>7. ASSUME f = "Ack"
      PROVE  Carry({"event_number", "store_id", "stream_id", "subscription_name"})
  <2>1. c.stub = "AckEvent"
    BY <1>7, CallFields DEF SubscriptionsCalls
  <2>2. DOMAIN SubscriptionsStubs[c.stub].request = {"event_number", "store_id", "stream_id", "subscription_name"}
    BY <2>1 DEF SubscriptionsStubs, Unary, Streamed, Plain, ++,
      AckEventRequest
  <2>3. c.request = [x \in {"event_number", "store_id", "stream_id", "subscription_name"} |-> V(x)]
    BY <1>1, <1>2, <1>7 DEF SubscriptionsCalls, Call, Millis, Micros
  <2> QED
    BY <2>2, <2>3
<1>8. f \in {"Create", "Remove", "Subscribe", "List", "Get", "Lag", "Ack"} /\ f \notin DOMAIN LineageKey
  BY DEF SubscriptionsCalls, LineageKey
<1>9. ASSUME NEW F \in SUBSET {"event_number", "pool_size", "selector", "start_from", "store_id",
           "stream_id", "subscription_name", "type"}, Carry(F), NEW g \in F
      PROVE  Get(c.request, g) = Argument("subscriptions", f, s, a, g)
  <2>1. Get(c.request, g) = V(g)
    BY <1>9 DEF Get
  <2> HIDE DEF c
  <2> QED
    BY <2>1, <1>8, <1>9, ArgumentIs
<1>10. ASSUME NEW F \in SUBSET {"event_number", "pool_size", "selector", "start_from", "store_id",
           "stream_id", "subscription_name", "type"}, Carry(F)
      PROVE  Sends("subscriptions", f, s, a, SubscriptionsCalls(s, a))
  BY <1>9, <1>10 DEF Sends, Stubs
<1> HIDE DEF c, V, Carry
<1> QED
  BY <1>3, <1>4, <1>5, <1>6, <1>7, <1>8, <1>10

LEMMA SnapshotsSend ==
  ASSUME NEW s, NEW a, NamedArgs(a), NEW f \in DOMAIN SnapshotsCalls(s, a)
  PROVE  Sends("snapshots", f, s, a, SnapshotsCalls(s, a))
<1> DEFINE c == SnapshotsCalls(s, a)[f]
           V(x) == IF x = "store_id" THEN s ELSE Named(x)
           Carry(F) == /\ DOMAIN SnapshotsStubs[c.stub].request = F
                       /\ c.request = [x \in F |-> V(x)]
<1>1. \A x : x \notin Millis \cup Micros => Named(x) = <<x>>
  BY NamedIs
<1>2. /\ a.Data = <<"data">>
      /\ a.Metadata = <<"metadata">>
      /\ a.sourceUUID = <<"source_uuid">>
      /\ a.streamUUID = <<"stream_uuid">>
      /\ a.version = <<"version">>
  BY DEF NamedArgs
<1>3. ASSUME f = "Save"
      PROVE  Carry({"data", "metadata", "source_uuid", "store_id", "stream_uuid",
           "version"})
  <2>1. c.stub = "RecordSnapshot"
    BY <1>3, CallFields DEF SnapshotsCalls
  <2>2. DOMAIN SnapshotsStubs[c.stub].request = {"data", "metadata", "source_uuid", "store_id", "stream_uuid",
           "version"}
    BY <2>1 DEF SnapshotsStubs, Unary, Plain, ++,
      RecordSnapshotRequest
  <2>3. c.request = [x \in {"data", "metadata", "source_uuid", "store_id", "stream_uuid",
           "version"} |-> V(x)]
    BY <1>1, <1>2, <1>3 DEF SnapshotsCalls, Call, Millis, Micros
  <2> QED
    BY <2>2, <2>3
<1>4. ASSUME f \in {"At", "Delete"}
      PROVE  Carry({"source_uuid", "store_id", "stream_uuid", "version"})
  <2>1. c.stub \in {"ReadSnapshot", "DeleteSnapshot"}
    BY <1>4, CallFields DEF SnapshotsCalls
  <2>2. DOMAIN SnapshotsStubs[c.stub].request = {"source_uuid", "store_id", "stream_uuid", "version"}
    BY <2>1 DEF SnapshotsStubs, Unary, Plain, ++,
      DeleteSnapshotRequest, ReadSnapshotRequest
  <2>3. c.request = [x \in {"source_uuid", "store_id", "stream_uuid", "version"} |-> V(x)]
    BY <1>1, <1>2, <1>4 DEF SnapshotsCalls, Call, Millis, Micros
  <2> QED
    BY <2>2, <2>3
<1>5. ASSUME f = "List"
      PROVE  Carry({"source_uuid", "store_id", "stream_uuid"})
  <2>1. c.stub = "ListSnapshots"
    BY <1>5, CallFields DEF SnapshotsCalls
  <2>2. DOMAIN SnapshotsStubs[c.stub].request = {"source_uuid", "store_id", "stream_uuid"}
    BY <2>1 DEF SnapshotsStubs, Unary, Plain, ++,
      ListSnapshotsRequest
  <2>3. c.request = [x \in {"source_uuid", "store_id", "stream_uuid"} |-> V(x)]
    BY <1>1, <1>2, <1>5 DEF SnapshotsCalls, Call, Millis, Micros
  <2> QED
    BY <2>2, <2>3
<1>6. ASSUME f = "ListAll"
      PROVE  Carry({"store_id"})
  <2>1. c.stub = "ListAllSnapshots"
    BY <1>6, CallFields DEF SnapshotsCalls
  <2>2. DOMAIN SnapshotsStubs[c.stub].request = {"store_id"}
    BY <2>1 DEF SnapshotsStubs, Unary, Plain, ++,
      ListAllSnapshotsRequest
  <2>3. c.request = [x \in {"store_id"} |-> V(x)]
    BY <1>1, <1>2, <1>6 DEF SnapshotsCalls, Call, Millis, Micros
  <2> QED
    BY <2>2, <2>3
<1>7. f \in {"Save", "At", "Delete", "List", "ListAll"} /\ f \notin DOMAIN LineageKey
  BY DEF SnapshotsCalls, LineageKey
<1>8. ASSUME NEW F \in SUBSET {"data", "metadata", "source_uuid", "store_id", "stream_uuid",
           "version"}, Carry(F), NEW g \in F
      PROVE  Get(c.request, g) = Argument("snapshots", f, s, a, g)
  <2>1. Get(c.request, g) = V(g)
    BY <1>8 DEF Get
  <2> HIDE DEF c
  <2> QED
    BY <2>1, <1>7, <1>8, ArgumentIs
<1>9. ASSUME NEW F \in SUBSET {"data", "metadata", "source_uuid", "store_id", "stream_uuid",
           "version"}, Carry(F)
      PROVE  Sends("snapshots", f, s, a, SnapshotsCalls(s, a))
  BY <1>8, <1>9 DEF Sends, Stubs
<1> HIDE DEF c, V, Carry
<1> QED
  BY <1>3, <1>4, <1>5, <1>6, <1>7, <1>9

LEMMA StoresSend ==
  ASSUME NEW s, NEW a, NamedArgs(a), NEW f \in DOMAIN StoresCalls(a)
  PROVE  Sends("stores", f, s, a, StoresCalls(a))
<1> DEFINE c == StoresCalls(a)[f]
<1>1. \A x : x \notin Millis \cup Micros => Named(x) = <<x>>
  BY NamedIs
<1>2. /\ a.snapshot = <<"include_snapshot">>
      /\ a.storeID = <<"store_id">>
  BY DEF NamedArgs
<1>3. f \notin DOMAIN LineageKey
  BY DEF StoresCalls, LineageKey
<1>4. ASSUME NEW g \in DOMAIN StoresStubs[c.stub].request
      PROVE  Get(c.request, g) = Argument("stores", f, s, a, g)
  <2>1. Get(c.request, g) = Named(g)
    BY <1>1, <1>2
       DEF StoresCalls, StoresStubs, Unary, Streamed, GetStoreRequest,
           ListStoresRequest, WatchStoresRequest, Plain, Get, Call, ++, Millis,
           Micros
  <2>2. g \in {"include_snapshot", "store_id"}
    BY DEF StoresCalls, StoresStubs, Unary, Streamed, GetStoreRequest,
           ListStoresRequest, WatchStoresRequest, Plain, Call, ++
  <2> QED
    BY <1>3, <2>1, <2>2, ArgumentIs
<1> QED
  BY <1>4 DEF Sends, Stubs

LEMMA TemporalSend ==
  ASSUME NEW s, NEW a, NamedArgs(a), a.cutoff = <<"timestamp">>, NEW f \in DOMAIN TemporalCalls(s, a)
  PROVE  Sends("temporal", f, s, a, TemporalCalls(s, a))
<1> DEFINE c == TemporalCalls(s, a)[f]
           V(x) == IF x = "store_id" THEN s ELSE Named(x)
           Carry(F) == /\ DOMAIN TemporalStubs[c.stub].request = F
                       /\ c.request = [x \in F |-> V(x)]
<1>1. \A x : x \notin Millis \cup Micros => Named(x) = <<x>>
  BY NamedIs
<1>2. \A x : x \in Millis => Named(x) = ToMillis(<<x>>)
  BY NamedIs
<1>3. /\ a.at = <<"timestamp">>
      /\ a.batch = <<"batch_size">>
      /\ a.from = <<"from_timestamp">>
      /\ a.streamID = <<"stream_id">>
      /\ a.to = <<"to_timestamp">>
  BY DEF NamedArgs
<1>4. ASSUME f = "Until"
      PROVE  Carry({"batch_size", "store_id", "stream_id", "timestamp"})
  <2>1. c.stub = "ReadUntil"
    BY <1>4, CallFields DEF TemporalCalls
  <2>2. DOMAIN TemporalStubs[c.stub].request = {"batch_size", "store_id", "stream_id", "timestamp"}
    BY <2>1 DEF TemporalStubs, Unary, Plain, ++,
      ReadUntilRequest
  <2>3. c.request = [x \in {"batch_size", "store_id", "stream_id", "timestamp"} |-> V(x)]
    BY <1>1, <1>2, <1>3, <1>4 DEF TemporalCalls, Call, Millis, Micros
  <2> QED
    BY <2>2, <2>3
<1>5. ASSUME f = "Range"
      PROVE  Carry({"batch_size", "from_timestamp", "store_id", "stream_id",
           "to_timestamp"})
  <2>1. c.stub = "ReadRange"
    BY <1>5, CallFields DEF TemporalCalls
  <2>2. DOMAIN TemporalStubs[c.stub].request = {"batch_size", "from_timestamp", "store_id", "stream_id",
           "to_timestamp"}
    BY <2>1 DEF TemporalStubs, Unary, Plain, ++,
      ReadRangeRequest
  <2>3. c.request = [x \in {"batch_size", "from_timestamp", "store_id", "stream_id",
           "to_timestamp"} |-> V(x)]
    BY <1>1, <1>2, <1>3, <1>5 DEF TemporalCalls, Call, Millis, Micros
  <2> QED
    BY <2>2, <2>3
<1>6. ASSUME f = "VersionAt"
      PROVE  Carry({"store_id", "stream_id", "timestamp"})
  <2>1. c.stub = "VersionAt"
    BY <1>6, CallFields DEF TemporalCalls
  <2>2. DOMAIN TemporalStubs[c.stub].request = {"store_id", "stream_id", "timestamp"}
    BY <2>1 DEF TemporalStubs, Unary, Plain, ++,
      VersionAtRequest
  <2>3. c.request = [x \in {"store_id", "stream_id", "timestamp"} |-> V(x)]
    BY <1>1, <1>2, <1>3, <1>6 DEF TemporalCalls, Call, Millis, Micros
  <2> QED
    BY <2>2, <2>3
<1>7. f \in {"Until", "Range", "VersionAt"} /\ f \notin DOMAIN LineageKey
  BY DEF TemporalCalls, LineageKey
<1>8. ASSUME NEW F \in SUBSET {"batch_size", "from_timestamp", "store_id", "stream_id",
           "timestamp", "to_timestamp"}, Carry(F), NEW g \in F
      PROVE  Get(c.request, g) = Argument("temporal", f, s, a, g)
  <2>1. Get(c.request, g) = V(g)
    BY <1>8 DEF Get
  <2> HIDE DEF c
  <2> QED
    BY <2>1, <1>7, <1>8, ArgumentIs
<1>9. ASSUME NEW F \in SUBSET {"batch_size", "from_timestamp", "store_id", "stream_id",
           "timestamp", "to_timestamp"}, Carry(F)
      PROVE  Sends("temporal", f, s, a, TemporalCalls(s, a))
  BY <1>8, <1>9 DEF Sends, Stubs
<1> HIDE DEF c, V, Carry
<1> QED
  BY <1>4, <1>5, <1>6, <1>7, <1>9

LEMMA SchemaSend ==
  ASSUME NEW s, NEW a, NamedArgs(a), NEW f \in DOMAIN SchemaCalls(s, a)
  PROVE  Sends("schema", f, s, a, SchemaCalls(s, a))
<1> DEFINE c == SchemaCalls(s, a)[f]
           V(x) == IF x = "store_id" THEN s ELSE IF x = "events" THEN Each(toProto, a.recorded) ELSE Named(x)
           Carry(F) == /\ DOMAIN SchemaStubs[c.stub].request = F
                       /\ c.request = [x \in F |-> V(x)]
<1>1. \A x : x \notin Millis \cup Micros => Named(x) = <<x>>
  BY NamedIs
<1>2. /\ a.blob = <<"schema">>
      /\ a.eventType = <<"event_type">>
  BY DEF NamedArgs
<1>3. ASSUME f = "Register"
      PROVE  Carry({"event_type", "schema", "store_id"})
  <2>1. c.stub = "RegisterSchema"
    BY <1>3, CallFields DEF SchemaCalls
  <2>2. DOMAIN SchemaStubs[c.stub].request = {"event_type", "schema", "store_id"}
    BY <2>1 DEF SchemaStubs, Unary, Plain, ++,
      RegisterSchemaRequest
  <2>3. c.request = [x \in {"event_type", "schema", "store_id"} |-> V(x)]
    BY <1>1, <1>2, <1>3 DEF SchemaCalls, Call, Millis, Micros
  <2> QED
    BY <2>2, <2>3
<1>4. ASSUME f \in {"Unregister", "Get", "Version"}
      PROVE  Carry({"event_type", "store_id"})
  <2>1. c.stub \in {"UnregisterSchema", "GetSchema", "GetSchemaVersion"}
    BY <1>4, CallFields DEF SchemaCalls
  <2>2. DOMAIN SchemaStubs[c.stub].request = {"event_type", "store_id"}
    BY <2>1 DEF SchemaStubs, Unary, Plain, ++,
      GetSchemaRequest, GetSchemaVersionRequest, UnregisterSchemaRequest
  <2>3. c.request = [x \in {"event_type", "store_id"} |-> V(x)]
    BY <1>1, <1>2, <1>4 DEF SchemaCalls, Call, Millis, Micros
  <2> QED
    BY <2>2, <2>3
<1>5. ASSUME f = "List"
      PROVE  Carry({"store_id"})
  <2>1. c.stub = "ListSchemas"
    BY <1>5, CallFields DEF SchemaCalls
  <2>2. DOMAIN SchemaStubs[c.stub].request = {"store_id"}
    BY <2>1 DEF SchemaStubs, Unary, Plain, ++,
      ListSchemasRequest
  <2>3. c.request = [x \in {"store_id"} |-> V(x)]
    BY <1>1, <1>2, <1>5 DEF SchemaCalls, Call, Millis, Micros
  <2> QED
    BY <2>2, <2>3
<1>6. ASSUME f = "Upcast"
      PROVE  Carry({"events", "store_id"})
  <2>1. c.stub = "UpcastEvents"
    BY <1>6, CallFields DEF SchemaCalls
  <2>2. DOMAIN SchemaStubs[c.stub].request = {"events", "store_id"}
    BY <2>1 DEF SchemaStubs, Unary, Plain, ++,
      UpcastEventsRequest
  <2>3. c.request = [x \in {"events", "store_id"} |-> V(x)]
    BY <1>1, <1>2, <1>6 DEF SchemaCalls, Call, Millis, Micros
  <2> QED
    BY <2>2, <2>3
<1>7. f \in {"Register", "Unregister", "Get", "List", "Version", "Upcast"} /\ f \notin DOMAIN LineageKey
  BY DEF SchemaCalls, LineageKey
<1>8. ASSUME NEW F \in SUBSET {"event_type", "events", "schema", "store_id"}, Carry(F), NEW g \in F
      PROVE  Get(c.request, g) = Argument("schema", f, s, a, g)
  <2>1. Get(c.request, g) = V(g)
    BY <1>8 DEF Get
  <2> HIDE DEF c
  <2> QED
    BY <2>1, <1>7, <1>8, ArgumentIs
<1>9. ASSUME NEW F \in SUBSET {"event_type", "events", "schema", "store_id"}, Carry(F)
      PROVE  Sends("schema", f, s, a, SchemaCalls(s, a))
  BY <1>8, <1>9 DEF Sends, Stubs
<1> HIDE DEF c, V, Carry
<1> QED
  BY <1>3, <1>4, <1>5, <1>6, <1>7, <1>9

LEMMA DcbSend ==
  ASSUME NEW s, NEW a, NamedArgs(a), a.cutoff = <<"seq_cutoff">>, NEW f \in DOMAIN DcbCalls(s, a)
  PROVE  Sends("dcb", f, s, a, DcbCalls(s, a))
<1> DEFINE c == DcbCalls(s, a)[f]
           V(x) == IF x = "store_id" THEN s ELSE IF x = "tag_filter" THEN FilterToProto(a.filter)
                ELSE IF x = "events" THEN Each(ProposedToProto, a.events) ELSE Named(x)
           Carry(F) == /\ DOMAIN DcbStubs[c.stub].request = F
                       /\ c.request = [x \in F |-> V(x)]
<1>1. \A x : x \notin Millis \cup Micros => Named(x) = <<x>>
  BY NamedIs
<1>2. /\ a.batch = <<"batch_size">>
      /\ a.key = <<"key">>
      /\ a.keys = <<"keys">>
      /\ a.value = <<"value">>
      /\ a.values = <<"values">>
  BY DEF NamedArgs
<1>3. ASSUME f = "Append"
      PROVE  Carry({"events", "seq_cutoff", "store_id", "tag_filter"})
  <2>1. c.stub = "AppendIfNoTagMatches"
    BY <1>3, CallFields DEF DcbCalls
  <2>2. DOMAIN DcbStubs[c.stub].request = {"events", "seq_cutoff", "store_id", "tag_filter"}
    BY <2>1 DEF DcbStubs, Unary, Plain, ++,
      AppendIfNoTagMatchesRequest
  <2>3. c.request = [x \in {"events", "seq_cutoff", "store_id", "tag_filter"} |-> V(x)]
    BY <1>1, <1>2, <1>3 DEF DcbCalls, Call, Millis, Micros
  <2> QED
    BY <2>2, <2>3
<1>4. ASSUME f = "Read"
      PROVE  Carry({"batch_size", "store_id", "tag_filter"})
  <2>1. c.stub = "ReadDcbContext"
    BY <1>4, CallFields DEF DcbCalls
  <2>2. DOMAIN DcbStubs[c.stub].request = {"batch_size", "store_id", "tag_filter"}
    BY <2>1 DEF DcbStubs, Unary, Plain, ++,
      ReadDcbContextRequest
  <2>3. c.request = [x \in {"batch_size", "store_id", "tag_filter"} |-> V(x)]
    BY <1>1, <1>2, <1>4 DEF DcbCalls, Call, Millis, Micros
  <2> QED
    BY <2>2, <2>3
<1>5. ASSUME f = "CccReadByPayload"
      PROVE  Carry({"batch_size", "key", "store_id", "value"})
  <2>1. c.stub = "CccReadByPayload"
    BY <1>5, CallFields DEF DcbCalls
  <2>2. DOMAIN DcbStubs[c.stub].request = {"batch_size", "key", "store_id", "value"}
    BY <2>1 DEF DcbStubs, Unary, Plain, ++,
      CccReadByPayloadRequest
  <2>3. c.request = [x \in {"batch_size", "key", "store_id", "value"} |-> V(x)]
    BY <1>1, <1>2, <1>5 DEF DcbCalls, Call, Millis, Micros
  <2> QED
    BY <2>2, <2>3
<1>6. ASSUME f = "CccReadByPayloadHash"
      PROVE  Carry({"batch_size", "keys", "store_id", "values"})
  <2>1. c.stub = "CccReadByPayloadHash"
    BY <1>6, CallFields DEF DcbCalls
  <2>2. DOMAIN DcbStubs[c.stub].request = {"batch_size", "keys", "store_id", "values"}
    BY <2>1 DEF DcbStubs, Unary, Plain, ++,
      CccReadByPayloadHashRequest
  <2>3. c.request = [x \in {"batch_size", "keys", "store_id", "values"} |-> V(x)]
    BY <1>1, <1>2, <1>6 DEF DcbCalls, Call, Millis, Micros
  <2> QED
    BY <2>2, <2>3
<1>7. f \in {"Append", "Read", "CccReadByPayload", "CccReadByPayloadHash"} /\ f \notin DOMAIN LineageKey
  BY DEF DcbCalls, LineageKey
<1>8. ASSUME NEW F \in SUBSET {"batch_size", "events", "key", "keys", "seq_cutoff", "store_id",
           "tag_filter", "value", "values"}, Carry(F), NEW g \in F
      PROVE  Get(c.request, g) = Argument("dcb", f, s, a, g)
  <2>1. Get(c.request, g) = V(g)
    BY <1>8 DEF Get
  <2> HIDE DEF c
  <2> QED
    BY <2>1, <1>7, <1>8, ArgumentIs
<1>9. ASSUME NEW F \in SUBSET {"batch_size", "events", "key", "keys", "seq_cutoff", "store_id",
           "tag_filter", "value", "values"}, Carry(F)
      PROVE  Sends("dcb", f, s, a, DcbCalls(s, a))
  BY <1>8, <1>9 DEF Sends, Stubs
<1> HIDE DEF c, V, Carry
<1> QED
  BY <1>3, <1>4, <1>5, <1>6, <1>7, <1>9

LEMMA ScavengeSend ==
  ASSUME NEW s, NEW a, NamedArgs(a), NEW f \in DOMAIN ScavengeCalls(s, a)
  PROVE  Sends("admin", f, s, a, ScavengeCalls(s, a))
<1> DEFINE c == ScavengeCalls(s, a)[f]
<1>1. \A x : x \notin Millis \cup Micros => Named(x) = <<x>>
  BY NamedIs
<1>2. /\ a.options = <<"options">>
      /\ a.pattern = <<"pattern">>
      /\ a.streamID = <<"stream_id">>
  BY DEF NamedArgs
<1>3. f \notin DOMAIN LineageKey
  BY DEF ScavengeCalls, LineageKey
<1>4. ASSUME NEW g \in DOMAIN AdminStubs[c.stub].request
      PROVE  Get(c.request, g) = Argument("admin", f, s, a, g)
  <2>1. Get(c.request, g) = IF g = "store_id" THEN s ELSE Named(g)
    BY <1>1, <1>2, SMTT(30)
       DEF ScavengeCalls, AdminStubs, Unary, ScavengeMatchingRequest,
           ScavengeRequest, Plain, Get, Call, ++, Millis, Micros
  <2>2. g \in {"options", "pattern", "store_id", "stream_id"}
    BY DEF ScavengeCalls, AdminStubs, Unary, ScavengeMatchingRequest,
           ScavengeRequest, Plain, Call, ++
  <2> QED
    BY <1>3, <2>1, <2>2, ArgumentIs
<1> QED
  BY <1>4 DEF Sends, Stubs

LEMMA StatsSend ==
  ASSUME NEW s, NEW a, NamedArgs(a), NEW f \in DOMAIN StatsCalls(s, a)
  PROVE  Sends("admin", f, s, a, StatsCalls(s, a))
<1> DEFINE c == StatsCalls(s, a)[f]
           V(x) == IF x = "store_id" THEN s ELSE Named(x)
           Carry(F) == /\ DOMAIN AdminStubs[c.stub].request = F
                       /\ c.request = [x \in F |-> V(x)]
<1>1. \A x : x \notin Millis \cup Micros => Named(x) = <<x>>
  BY NamedIs
<1>2. /\ a.streamID = <<"stream_id">>
  BY DEF NamedArgs
<1>3. ASSUME f \in {"StoreStats", "EventTypeSummary"}
      PROVE  Carry({"store_id"})
  <2>1. c.stub \in {"GetStoreStats", "GetEventTypeSummary"}
    BY <1>3, CallFields DEF StatsCalls
  <2>2. DOMAIN AdminStubs[c.stub].request = {"store_id"}
    BY <2>1 DEF AdminStubs, Unary, Plain, ++,
      EventTypeSummaryRequest, StoreStatsRequest
  <2>3. c.request = [x \in {"store_id"} |-> V(x)]
    BY <1>1, <1>2, <1>3 DEF StatsCalls, Call, Millis, Micros
  <2> QED
    BY <2>2, <2>3
<1>4. ASSUME f = "StreamInfo"
      PROVE  Carry({"store_id", "stream_id"})
  <2>1. c.stub = "GetStreamInfo"
    BY <1>4, CallFields DEF StatsCalls
  <2>2. DOMAIN AdminStubs[c.stub].request = {"store_id", "stream_id"}
    BY <2>1 DEF AdminStubs, Unary, Plain, ++,
      StreamInfoRequest
  <2>3. c.request = [x \in {"store_id", "stream_id"} |-> V(x)]
    BY <1>1, <1>2, <1>4 DEF StatsCalls, Call, Millis, Micros
  <2> QED
    BY <2>2, <2>3
<1>5. f \in {"StoreStats", "StreamInfo", "EventTypeSummary"} /\ f \notin DOMAIN LineageKey
  BY DEF StatsCalls, LineageKey
<1>6. ASSUME NEW F \in SUBSET {"store_id", "stream_id"}, Carry(F), NEW g \in F
      PROVE  Get(c.request, g) = Argument("admin", f, s, a, g)
  <2>1. Get(c.request, g) = V(g)
    BY <1>6 DEF Get
  <2> HIDE DEF c
  <2> QED
    BY <2>1, <1>5, <1>6, ArgumentIs
<1>7. ASSUME NEW F \in SUBSET {"store_id", "stream_id"}, Carry(F)
      PROVE  Sends("admin", f, s, a, StatsCalls(s, a))
  BY <1>6, <1>7 DEF Sends, Stubs
<1> HIDE DEF c, V, Carry
<1> QED
  BY <1>3, <1>4, <1>5, <1>7

LEMMA LinkSend ==
  ASSUME NEW s, NEW a, NamedArgs(a), NEW f \in DOMAIN LinkCalls(s, a)
  PROVE  Sends("admin", f, s, a, LinkCalls(s, a))
<1> DEFINE c == LinkCalls(s, a)[f]
           V(x) == IF x = "store_id" THEN s ELSE Named(x)
           Carry(F) == /\ DOMAIN AdminStubs[c.stub].request = F
                       /\ c.request = [x \in F |-> V(x)]
<1>1. \A x : x \notin Millis \cup Micros => Named(x) = <<x>>
  BY NamedIs
<1>2. /\ a.Source = <<"source">>
      /\ a.Target = <<"target">>
      /\ a.linkName = <<"name">>
      /\ a.options = <<"options">>
  BY DEF NamedArgs
<1>3. ASSUME f = "CreateLink"
      PROVE  Carry({"name", "options", "source", "store_id", "target"})
  <2>1. c.stub = "CreateLink"
    BY <1>3, CallFields DEF LinkCalls
  <2>2. DOMAIN AdminStubs[c.stub].request = {"name", "options", "source", "store_id", "target"}
    BY <2>1 DEF AdminStubs, Unary, Plain, ++,
      CreateLinkRequest
  <2>3. c.request = [x \in {"name", "options", "source", "store_id", "target"} |-> V(x)]
    BY <1>1, <1>2, <1>3 DEF LinkCalls, Call, Millis, Micros
  <2> QED
    BY <2>2, <2>3
<1>4. ASSUME f \in {"DeleteLink", "GetLink", "StartLink", "StopLink", "LinkInfo"}
      PROVE  Carry({"name", "store_id"})
  <2>1. c.stub \in {"DeleteLink", "GetLink", "StartLink", "StopLink", "GetLinkInfo"}
    BY <1>4, CallFields DEF LinkCalls
  <2>2. DOMAIN AdminStubs[c.stub].request = {"name", "store_id"}
    BY <2>1 DEF AdminStubs, Unary, Plain, ++,
      DeleteLinkRequest, GetLinkRequest, StartLinkRequest, StopLinkRequest
  <2>3. c.request = [x \in {"name", "store_id"} |-> V(x)]
    BY <1>1, <1>2, <1>4 DEF LinkCalls, Call, Millis, Micros
  <2> QED
    BY <2>2, <2>3
<1>5. ASSUME f = "ListLinks"
      PROVE  Carry({"store_id"})
  <2>1. c.stub = "ListLinks"
    BY <1>5, CallFields DEF LinkCalls
  <2>2. DOMAIN AdminStubs[c.stub].request = {"store_id"}
    BY <2>1 DEF AdminStubs, Unary, Plain, ++,
      ListLinksRequest
  <2>3. c.request = [x \in {"store_id"} |-> V(x)]
    BY <1>1, <1>2, <1>5 DEF LinkCalls, Call, Millis, Micros
  <2> QED
    BY <2>2, <2>3
<1>6. f \in {"CreateLink", "DeleteLink", "GetLink", "ListLinks", "StartLink",
           "StopLink", "LinkInfo"} /\ f \notin DOMAIN LineageKey
  BY DEF LinkCalls, LineageKey
<1>7. ASSUME NEW F \in SUBSET {"name", "options", "source", "store_id", "target"}, Carry(F), NEW g \in F
      PROVE  Get(c.request, g) = Argument("admin", f, s, a, g)
  <2>1. Get(c.request, g) = V(g)
    BY <1>7 DEF Get
  <2> HIDE DEF c
  <2> QED
    BY <2>1, <1>6, <1>7, ArgumentIs
<1>8. ASSUME NEW F \in SUBSET {"name", "options", "source", "store_id", "target"}, Carry(F)
      PROVE  Sends("admin", f, s, a, LinkCalls(s, a))
  BY <1>7, <1>8 DEF Sends, Stubs
<1> HIDE DEF c, V, Carry
<1> QED
  BY <1>3, <1>4, <1>5, <1>6, <1>8

LEMMA CatalogueSend ==
  ASSUME NEW s, NEW a, NamedArgs(a), NEW f \in DOMAIN CatalogueCalls
  PROVE  Sends("admin", f, s, a, CatalogueCalls)
<1> DEFINE c == CatalogueCalls[f]
<1>1. \A x : x \notin Millis \cup Micros => Named(x) = <<x>>
  BY NamedIs
<1>2. f \notin DOMAIN LineageKey
  BY DEF CatalogueCalls, LineageKey
<1>3. ASSUME NEW g \in DOMAIN AdminStubs[c.stub].request
      PROVE  Get(c.request, g) = Argument("admin", f, s, a, g)
  <2>1. Get(c.request, g) = IF g = "store_id" THEN s ELSE Named(g)
    BY <1>1
       DEF CatalogueCalls, AdminStubs, Unary, GetCatalogueStatusRequest,
           ReloadCatalogueRequest, Plain, Get, Call, ++, Millis, Micros
  <2>2. g \in {}
    BY DEF CatalogueCalls, AdminStubs, Unary, GetCatalogueStatusRequest,
           ReloadCatalogueRequest, Plain, Call, ++
  <2> QED
    BY <1>2, <2>1, <2>2, ArgumentIs
<1> QED
  BY <1>3 DEF Sends, Stubs

LEMMA HealthSend ==
  ASSUME NEW s, NEW a, NamedArgs(a), NEW f \in DOMAIN HealthCalls(s)
  PROVE  Sends("health", f, s, a, HealthCalls(s))
<1> DEFINE c == HealthCalls(s)[f]
<1>1. \A x : x \notin Millis \cup Micros => Named(x) = <<x>>
  BY NamedIs
<1>2. f \notin DOMAIN LineageKey
  BY DEF HealthCalls, LineageKey
<1>3. ASSUME NEW g \in DOMAIN HealthStubs[c.stub].request
      PROVE  Get(c.request, g) = Argument("health", f, s, a, g)
  <2>1. Get(c.request, g) = IF g = "store_id" THEN s ELSE Named(g)
    BY <1>1
       DEF HealthCalls, HealthStubs, Unary, ClusterCheckRequest,
           GetServerInfoRequest, HealthCheckRequest, HealthRequest,
           MemoryLevelRequest, MemoryStatsRequest, Plain, Get, Call, ++, Millis,
           Micros
  <2>2. g \in {"store_id"}
    BY DEF HealthCalls, HealthStubs, Unary, ClusterCheckRequest,
           GetServerInfoRequest, HealthCheckRequest, HealthRequest,
           MemoryLevelRequest, MemoryStatsRequest, Plain, Call, ++
  <2> QED
    BY <1>2, <2>1, <2>2, ArgumentIs
<1> QED
  BY <1>3 DEF Sends, Stubs

LEMMA StreamsReadsSend ==
  ASSUME NEW s, NEW a, NamedArgs(a), NEW f \in DOMAIN StreamsReads(s, a)
  PROVE  Sends("streams", f, s, a, StreamsReads(s, a))
<1> DEFINE c == StreamsReads(s, a)[f]
<1>1. \A x : x \notin Millis \cup Micros => Named(x) = <<x>>
  BY NamedIs
<1>2. /\ a.count = <<"count">>
      /\ a.startVersion = <<"start_version">>
      /\ a.streamID = <<"stream_id">>
  BY DEF NamedArgs
<1>3. f \notin DOMAIN LineageKey
  BY DEF StreamsReads, LineageKey
<1>4. ASSUME NEW g \in DOMAIN StreamsStubs[c.stub].request
      PROVE  Get(c.request, g) = Argument("streams", f, s, a, g)
  <2>1. Get(c.request, g) = IF g = "store_id" THEN s ELSE Named(g)
    BY <1>1, <1>2
       DEF StreamsReads, StreamsStubs, Unary, Streamed, ReadStreamRequest, Plain,
           Get, Call, ++, Millis, Micros
  <2>2. g \in {"count", "start_version", "store_id", "stream_id"}
    BY DEF StreamsReads, StreamsStubs, Unary, Streamed, ReadStreamRequest, Plain,
           Call, ++
  <2> QED
    BY <1>3, <2>1, <2>2, ArgumentIs
<1> QED
  BY <1>4 DEF Sends, Stubs

LEMMA StreamsByKeySend ==
  ASSUME NEW s, NEW a, NamedArgs(a), NEW f \in DOMAIN StreamsByKey(s, a)
  PROVE  Sends("streams", f, s, a, StreamsByKey(s, a))
<1> DEFINE c == StreamsByKey(s, a)[f]
           V(x) == IF x = "store_id" THEN s ELSE IF x = "match" THEN tagMatchToProto(a.match) ELSE Named(x)
           Carry(F) == /\ DOMAIN StreamsStubs[c.stub].request = F
                       /\ c.request = [x \in F |-> V(x)]
<1>1. \A x : x \notin Millis \cup Micros => Named(x) = <<x>>
  BY NamedIs
<1>2. /\ a.batch = <<"batch_size">>
      /\ a.key = <<"key">>
      /\ a.limit = <<"limit">>
      /\ a.offset = <<"offset">>
      /\ a.streamID = <<"stream_id">>
      /\ a.tags = <<"tags">>
      /\ a.types = <<"event_types">>
      /\ a.value = <<"value">>
  BY DEF NamedArgs
<1>3. ASSUME f \in {"Version", "Delete"}
      PROVE  Carry({"store_id", "stream_id"})
  <2>1. c.stub \in {"GetStreamVersion", "DeleteStream"}
    BY <1>3, CallFields DEF StreamsByKey
  <2>2. DOMAIN StreamsStubs[c.stub].request = {"store_id", "stream_id"}
    BY <2>1 DEF StreamsStubs, Unary, Streamed, Plain, ++,
      DeleteStreamRequest, GetStreamVersionRequest
  <2>3. c.request = [x \in {"store_id", "stream_id"} |-> V(x)]
    BY <1>1, <1>2, <1>3 DEF StreamsByKey, Call, Millis, Micros
  <2> QED
    BY <2>2, <2>3
<1>4. ASSUME f = "List"
      PROVE  Carry({"store_id"})
  <2>1. c.stub = "ListStreams"
    BY <1>4, CallFields DEF StreamsByKey
  <2>2. DOMAIN StreamsStubs[c.stub].request = {"store_id"}
    BY <2>1 DEF StreamsStubs, Unary, Streamed, Plain, ++,
      ListStreamsRequest
  <2>3. c.request = [x \in {"store_id"} |-> V(x)]
    BY <1>1, <1>2, <1>4 DEF StreamsByKey, Call, Millis, Micros
  <2> QED
    BY <2>2, <2>3
<1>5. ASSUME f = "ReadByEventTypes"
      PROVE  Carry({"batch_size", "event_types", "store_id"})
  <2>1. c.stub = "ReadByEventTypes"
    BY <1>5, CallFields DEF StreamsByKey
  <2>2. DOMAIN StreamsStubs[c.stub].request = {"batch_size", "event_types", "store_id"}
    BY <2>1 DEF StreamsStubs, Unary, Streamed, Plain, ++,
      ReadByEventTypesRequest
  <2>3. c.request = [x \in {"batch_size", "event_types", "store_id"} |-> V(x)]
    BY <1>1, <1>2, <1>5 DEF StreamsByKey, Call, Millis, Micros
  <2> QED
    BY <2>2, <2>3
<1>6. ASSUME f = "ReadByTags"
      PROVE  Carry({"batch_size", "match", "store_id", "tags"})
  <2>1. c.stub = "ReadByTags"
    BY <1>6, CallFields DEF StreamsByKey
  <2>2. DOMAIN StreamsStubs[c.stub].request = {"batch_size", "match", "store_id", "tags"}
    BY <2>1 DEF StreamsStubs, Unary, Streamed, Plain, ++,
      ReadByTagsRequest
  <2>3. c.request = [x \in {"batch_size", "match", "store_id", "tags"} |-> V(x)]
    BY <1>1, <1>2, <1>6 DEF StreamsByKey, Call, Millis, Micros
  <2> QED
    BY <2>2, <2>3
<1>7. ASSUME f = "ReadByMetadata"
      PROVE  Carry({"batch_size", "key", "store_id", "value"})
  <2>1. c.stub = "ReadByMetadata"
    BY <1>7, CallFields DEF StreamsByKey
  <2>2. DOMAIN StreamsStubs[c.stub].request = {"batch_size", "key", "store_id", "value"}
    BY <2>1 DEF StreamsStubs, Unary, Streamed, Plain, ++,
      ReadByMetadataRequest
  <2>3. c.request = [x \in {"batch_size", "key", "store_id", "value"} |-> V(x)]
    BY <1>1, <1>2, <1>7 DEF StreamsByKey, Call, Millis, Micros
  <2> QED
    BY <2>2, <2>3
<1>8. ASSUME f = "ReadAllGlobal"
      PROVE  Carry({"limit", "offset", "store_id"})
  <2>1. c.stub = "ReadAllGlobal"
    BY <1>8, CallFields DEF StreamsByKey
  <2>2. DOMAIN StreamsStubs[c.stub].request = {"limit", "offset", "store_id"}
    BY <2>1 DEF StreamsStubs, Unary, Streamed, Plain, ++,
      ReadAllGlobalRequest
  <2>3. c.request = [x \in {"limit", "offset", "store_id"} |-> V(x)]
    BY <1>1, <1>2, <1>8 DEF StreamsByKey, Call, Millis, Micros
  <2> QED
    BY <2>2, <2>3
<1>9. f \in {"Version", "List", "Delete", "ReadByEventTypes", "ReadByTags",
           "ReadByMetadata", "ReadAllGlobal"} /\ f \notin DOMAIN LineageKey
  BY DEF StreamsByKey, LineageKey
<1>10. ASSUME NEW F \in SUBSET {"batch_size", "event_types", "key", "limit", "match", "offset",
           "store_id", "stream_id", "tags", "value"}, Carry(F), NEW g \in F
      PROVE  Get(c.request, g) = Argument("streams", f, s, a, g)
  <2>1. Get(c.request, g) = V(g)
    BY <1>10 DEF Get
  <2> HIDE DEF c
  <2> QED
    BY <2>1, <1>9, <1>10, ArgumentIs
<1>11. ASSUME NEW F \in SUBSET {"batch_size", "event_types", "key", "limit", "match", "offset",
           "store_id", "stream_id", "tags", "value"}, Carry(F)
      PROVE  Sends("streams", f, s, a, StreamsByKey(s, a))
  BY <1>10, <1>11 DEF Sends, Stubs
<1> HIDE DEF c, V, Carry
<1> QED
  BY <1>3, <1>4, <1>5, <1>6, <1>7, <1>8, <1>9, <1>11

LEMMA StreamsAppendSend ==
  ASSUME NEW s, NEW a, NamedArgs(a), NEW f
  PROVE  Sends("streams", f, s, a, [Append |-> StreamsAppend(s, a)]) \/ f # "Append"
<1> DEFINE c == StreamsAppend(s, a)
<1>1. \A x : x \notin Millis \cup Micros => Named(x) = <<x>>
  BY NamedIs
<1>2. a.streamID = <<"stream_id">> /\ a.expected = <<"expected_version">>
  BY DEF NamedArgs
<1>3. ASSUME f = "Append", NEW g \in DOMAIN StreamsStubs[c.stub].request
      PROVE  Get(c.request, g) = Argument("streams", f, s, a, g)
  <2>1. Get(c.request, g) = IF g = "store_id" THEN s
                            ELSE IF g = "events" THEN Each(ProposedToProto, a.events)
                            ELSE Named(g)
    BY <1>1, <1>2
       DEF StreamsAppend, StreamsStubs, Unary, AppendEventsRequest, Plain, Get, Call,
           ++, Millis, Micros
  <2>2. g \in {"store_id", "stream_id", "expected_version", "events"}
    BY DEF StreamsAppend, StreamsStubs, Unary, AppendEventsRequest, Plain, Call, ++
  <2> QED
    BY <1>3, <2>1, <2>2, ArgumentIs
<1> QED
  BY <1>3 DEF Sends, Stubs

LEMMA StreamsLineageSend ==
  ASSUME NEW s, NEW a, NamedArgs(a), NEW f \in DOMAIN StreamsLineage(s, a)
  PROVE  Sends("streams", f, s, a, StreamsLineage(s, a))
<1> DEFINE c == StreamsLineage(s, a)[f]
<1>1. \A x : x \notin Millis \cup Micros => Named(x) = <<x>>
  BY NamedIs
<1>2. a.id = <<"value">> /\ a.batch = <<"batch_size">>
  BY DEF NamedArgs
<1>3. f \in DOMAIN LineageKey
  BY DEF StreamsLineage, LineageKey
<1>4. c.stub = "ReadByMetadata"
  BY CallFields DEF StreamsLineage
<1>5. c.request = [store_id |-> s, key |-> <<LineageKey[f]>>, value |-> a.id,
                   batch_size |-> a.batch]
  BY CallFields DEF StreamsLineage, LineageKey
<1>6. DOMAIN StreamsStubs[c.stub].request = {"store_id", "key", "value", "batch_size"}
  BY <1>4 DEF StreamsStubs, Unary, ReadByMetadataRequest, Plain
<1> HIDE DEF c
<1>7. ASSUME NEW g \in {"store_id", "key", "value", "batch_size"}
      PROVE  Get(c.request, g) = Argument("streams", f, s, a, g)
  <2>1. Get(c.request, g) = IF g = "store_id" THEN s
                            ELSE IF g = "key" THEN <<LineageKey[f]>> ELSE Named(g)
    BY <1>1, <1>2, <1>5 DEF Get, Millis, Micros
  <2> QED
    BY <1>3, <2>1, ArgumentIs
<1> QED
  BY <1>6, <1>7 DEF Sends, Stubs, c

LEMMA StreamsSend ==
  ASSUME NEW s, NEW a, NamedArgs(a), NEW f \in DOMAIN StreamsCalls(s, a)
  PROVE  Sends("streams", f, s, a, StreamsCalls(s, a))
<1>1. ASSUME f = "Append"
      PROVE  StreamsCalls(s, a)[f] = [Append |-> StreamsAppend(s, a)][f]
  BY <1>1 DEF StreamsCalls, ++
<1>2. ASSUME f \in DOMAIN StreamsReads(s, a)
      PROVE  StreamsCalls(s, a)[f] = StreamsReads(s, a)[f]
  BY <1>2 DEF StreamsCalls, StreamsReads, ++
<1>3. ASSUME f \in DOMAIN StreamsByKey(s, a)
      PROVE  StreamsCalls(s, a)[f] = StreamsByKey(s, a)[f]
  <2>1. f # "Append" /\ f \notin DOMAIN StreamsReads(s, a)
    BY <1>3 DEF StreamsReads, StreamsByKey
  <2> QED
    BY <1>3, <2>1 DEF StreamsCalls, ++
<1>4. ASSUME f \in DOMAIN StreamsLineage(s, a)
      PROVE  StreamsCalls(s, a)[f] = StreamsLineage(s, a)[f]
  <2>1. f # "Append" /\ f \notin DOMAIN StreamsReads(s, a)
           /\ f \notin DOMAIN StreamsByKey(s, a)
    BY <1>4 DEF StreamsReads, StreamsByKey, StreamsLineage
  <2> QED
    BY <1>4, <2>1 DEF StreamsCalls, ++
<1>5. \/ f = "Append" \/ f \in DOMAIN StreamsReads(s, a)
      \/ f \in DOMAIN StreamsByKey(s, a) \/ f \in DOMAIN StreamsLineage(s, a)
  BY DEF StreamsCalls, ++
<1> QED
  BY <1>1, <1>2, <1>3, <1>4, <1>5, StreamsAppendSend, StreamsReadsSend,
     StreamsByKeySend, StreamsLineageSend DEF Sends

LEMMA AdminSend ==
  ASSUME NEW s, NEW a, NamedArgs(a), NEW f \in DOMAIN AdminCalls(s, a)
  PROVE  Sends("admin", f, s, a, AdminCalls(s, a))
<1>1. ASSUME f \in DOMAIN ScavengeCalls(s, a)
      PROVE  AdminCalls(s, a)[f] = ScavengeCalls(s, a)[f]
  BY <1>1 DEF AdminCalls, ++
<1>2. ASSUME f \in DOMAIN StatsCalls(s, a)
      PROVE  AdminCalls(s, a)[f] = StatsCalls(s, a)[f]
  <2>1. f \notin DOMAIN ScavengeCalls(s, a)
    BY <1>2 DEF ScavengeCalls, StatsCalls
  <2> QED
    BY <1>2, <2>1 DEF AdminCalls, ++
<1>3. ASSUME f \in DOMAIN LinkCalls(s, a)
      PROVE  AdminCalls(s, a)[f] = LinkCalls(s, a)[f]
  <2>1. f \notin DOMAIN ScavengeCalls(s, a) /\ f \notin DOMAIN StatsCalls(s, a)
    BY <1>3 DEF ScavengeCalls, StatsCalls, LinkCalls
  <2> QED
    BY <1>3, <2>1 DEF AdminCalls, ++
<1>4. ASSUME f \in DOMAIN CatalogueCalls
      PROVE  AdminCalls(s, a)[f] = CatalogueCalls[f]
  <2>1. /\ f \notin DOMAIN ScavengeCalls(s, a) /\ f \notin DOMAIN StatsCalls(s, a)
        /\ f \notin DOMAIN LinkCalls(s, a)
    BY <1>4 DEF ScavengeCalls, StatsCalls, LinkCalls, CatalogueCalls
  <2> QED
    BY <1>4, <2>1 DEF AdminCalls, ++
<1>5. \/ f \in DOMAIN ScavengeCalls(s, a) \/ f \in DOMAIN StatsCalls(s, a)
      \/ f \in DOMAIN LinkCalls(s, a) \/ f \in DOMAIN CatalogueCalls
  BY DEF AdminCalls, ++
<1> QED
  BY <1>1, <1>2, <1>3, <1>4, <1>5, ScavengeSend, StatsSend, LinkSend, CatalogueSend
     DEF Sends

\* The request of every function carries its arguments, field by field.
LEMMA CallsSend ==
  ASSUME NEW s, NEW a, NEW p \in Packages, NEW f \in DOMAIN Calls(s, a)[p],
         NamedArgs(a),
         a.cutoff = IF p = "dcb" THEN <<"seq_cutoff">> ELSE <<"timestamp">>
  PROVE  Sends(p, f, s, a, Calls(s, a)[p])
<1>1. CASE p = "streams"
  BY <1>1, StreamsSend DEF Calls
<1>2. CASE p = "subscriptions"
  BY <1>2, SubscriptionsSend DEF Calls
<1>3. CASE p = "snapshots"
  BY <1>3, SnapshotsSend DEF Calls
<1>4. CASE p = "stores"
  BY <1>4, StoresSend DEF Calls
<1>5. CASE p = "temporal"
  BY <1>5, TemporalSend DEF Calls
<1>6. CASE p = "schema"
  BY <1>6, SchemaSend DEF Calls
<1>7. CASE p = "dcb"
  BY <1>7, DcbSend DEF Calls
<1>8. CASE p = "admin"
  BY <1>8, AdminSend DEF Calls
<1>9. CASE p = "health"
  BY <1>9, HealthSend DEF Calls
<1> QED
  BY <1>1, <1>2, <1>3, <1>4, <1>5, <1>6, <1>7, <1>8, <1>9 DEF Packages
------------------------------------------------------------------------------
\* Filters: each node goes out under the name of its kind, so a filter of any
\* shape selects on the server exactly the events its constructors promise.
LEMMA KindOnto ==
  ASSUME NEW go \in DOMAIN Kind
  PROVE  /\ go = "matchAny" <=> Kind[go] = "match_any"
         /\ go = "matchAll" <=> Kind[go] = "match_all"
         /\ go = "eventTypeMatch" <=> Kind[go] = "event_type_match"
         /\ go = "conjunction" <=> Kind[go] = "conjunction"
         /\ go = "disjunction" <=> Kind[go] = "disjunction"
         /\ Kind[go] \in TagFilter
  BY DEF Kind, TagFilter

LEMMA NodesArrive ==
  ASSUME NEW f
  PROVE  LET w == FilterToProto(f) IN
         /\ DOMAIN w = DOMAIN f
         /\ \A i \in DOMAIN f :
              /\ w[i].kind = Kind[f[i].go] /\ w[i].tags = f[i].tags
              /\ w[i].event_type = f[i].eventType /\ w[i].filters = f[i].subs
  BY DEF FilterToProto, Each

LEMMA FilterArrives ==
  ASSUME NEW f, \A i \in DOMAIN f : f[i].go \in DOMAIN Kind, NEW e
  PROVE  Selects(FilterToProto(f), e) = Means(f, e)
<1> DEFINE w == FilterToProto(f)
           Node(m, i) ==
    \/ f[i].go = "matchAny" /\ f[i].tags \cap e.tags # {}
    \/ f[i].go = "matchAll" /\ f[i].tags \subseteq e.tags
    \/ f[i].go = "eventTypeMatch" /\ e.type = f[i].eventType
    \/ f[i].go = "conjunction" /\ \A k \in DOMAIN f[i].subs : m[f[i].subs[k]]
    \/ f[i].go = "disjunction" /\ \E k \in DOMAIN f[i].subs : m[f[i].subs[k]]
           Wire(m, i) ==
    \/ w[i].kind = "match_any" /\ w[i].tags \cap e.tags # {}
    \/ w[i].kind = "match_all" /\ w[i].tags \subseteq e.tags
    \/ w[i].kind = "event_type_match" /\ e.type = w[i].event_type
    \/ /\ w[i].kind = "conjunction"
       /\ \A k \in DOMAIN w[i].filters : m[w[i].filters[k]]
    \/ /\ w[i].kind = "disjunction"
       /\ \E k \in DOMAIN w[i].filters : m[w[i].filters[k]]
<1>1. \A m : \A i \in DOMAIN f : Node(m, i) = Wire(m, i)
  <2>1. DOMAIN w = DOMAIN f /\ \A i \in DOMAIN f :
              /\ w[i].kind = Kind[f[i].go] /\ w[i].tags = f[i].tags
              /\ w[i].event_type = f[i].eventType /\ w[i].filters = f[i].subs
    BY NodesArrive
  <2>2. \A m : \A i \in DOMAIN f : Node(m, i) <=> Wire(m, i)
    <3> HIDE DEF w
    <3> QED
      BY <2>1, KindOnto
  <2>3. \A m, i : Node(m, i) \in BOOLEAN /\ Wire(m, i) \in BOOLEAN
    OBVIOUS
  <2> HIDE DEF Node, Wire
  <2> QED
    BY <2>2, <2>3
<1>2. \A m : [i \in DOMAIN f |-> Node(m, i)] = [i \in DOMAIN w |-> Wire(m, i)]
  <2>1. DOMAIN w = DOMAIN f
    BY NodesArrive
  <2> HIDE DEF w, Node, Wire
  <2> QED BY <1>1, <2>1
<1>3. (CHOOSE m : m = [i \in DOMAIN f |-> Node(m, i)]) = (CHOOSE m : m = [i \in DOMAIN w |-> Wire(m, i)])
  <2> HIDE DEF w, Node, Wire
  <2> QED BY <1>2, Zenon
<1> QED
  BY <1>3 DEF Means, Selects

\* The only messages nested in a request are the events of the two appends and of
\* Upcast.
Nests(T, E) ==
  \A g \in DOMAIN T : T[g].len > 0 => g = "events" /\ T[g].of = E

LEMMA RequestNests ==
  ASSUME NEW p \in Packages, NEW m \in DOMAIN Stubs(p)
  PROVE  Nests(Stubs(p)[m].request,
               IF p = "schema" THEN RecordedEvent ELSE ProposedEvent)
<1>1. ASSUME p = "streams"
      PROVE  Nests(Stubs(p)[m].request, ProposedEvent)
  <2>1. Stubs(p)[m].request
          \in {AppendEventsRequest, DeleteStreamRequest, GetStreamVersionRequest,
         ListStreamsRequest, ReadAllGlobalRequest, ReadByEventTypesRequest,
         ReadByMetadataRequest, ReadByTagsRequest, ReadStreamRequest}
    BY <1>1 DEF Stubs, StreamsStubs, Unary, Streamed
  <2>2. \A T \in {AppendEventsRequest, DeleteStreamRequest, GetStreamVersionRequest,
         ListStreamsRequest, ReadAllGlobalRequest, ReadByEventTypesRequest,
         ReadByMetadataRequest, ReadByTagsRequest, ReadStreamRequest} : Nests(T, ProposedEvent)
    BY DEF Nests, AppendEventsRequest, DeleteStreamRequest, GetStreamVersionRequest,
         ListStreamsRequest, ReadAllGlobalRequest, ReadByEventTypesRequest,
         ReadByMetadataRequest, ReadByTagsRequest, ReadStreamRequest, Plain,
         Scalar, Many, Enum, ++
  <2> QED
    BY <2>1, <2>2
<1>2. ASSUME p = "subscriptions"
      PROVE  Nests(Stubs(p)[m].request, ProposedEvent)
  <2>1. Stubs(p)[m].request
          \in {AckEventRequest, CreateSubscriptionRequest, GetSubscriptionLagRequest,
         GetSubscriptionRequest, ListSubscriptionsRequest,
         RemoveSubscriptionRequest, SubscribeRequest}
    BY <1>2 DEF Stubs, SubscriptionsStubs, Unary, Streamed
  <2>2. \A T \in {AckEventRequest, CreateSubscriptionRequest, GetSubscriptionLagRequest,
         GetSubscriptionRequest, ListSubscriptionsRequest,
         RemoveSubscriptionRequest, SubscribeRequest} : Nests(T, ProposedEvent)
    BY DEF Nests, AckEventRequest, CreateSubscriptionRequest, GetSubscriptionLagRequest,
         GetSubscriptionRequest, ListSubscriptionsRequest,
         RemoveSubscriptionRequest, SubscribeRequest, Plain, Scalar, Many, Enum, ++
  <2> QED
    BY <2>1, <2>2
<1>3. ASSUME p = "snapshots"
      PROVE  Nests(Stubs(p)[m].request, ProposedEvent)
  <2>1. Stubs(p)[m].request
          \in {DeleteSnapshotRequest, ListAllSnapshotsRequest, ListSnapshotsRequest,
         ReadSnapshotRequest, RecordSnapshotRequest}
    BY <1>3 DEF Stubs, SnapshotsStubs, Unary
  <2>2. \A T \in {DeleteSnapshotRequest, ListAllSnapshotsRequest, ListSnapshotsRequest,
         ReadSnapshotRequest, RecordSnapshotRequest} : Nests(T, ProposedEvent)
    BY DEF Nests, DeleteSnapshotRequest, ListAllSnapshotsRequest, ListSnapshotsRequest,
         ReadSnapshotRequest, RecordSnapshotRequest, Plain, Scalar, Many, Enum, ++
  <2> QED
    BY <2>1, <2>2
<1>4. ASSUME p = "stores"
      PROVE  Nests(Stubs(p)[m].request, ProposedEvent)
  <2>1. Stubs(p)[m].request
          \in {GetStoreRequest, ListStoresRequest, WatchStoresRequest}
    BY <1>4 DEF Stubs, StoresStubs, Unary, Streamed
  <2>2. \A T \in {GetStoreRequest, ListStoresRequest, WatchStoresRequest} : Nests(T, ProposedEvent)
    BY DEF Nests, GetStoreRequest, ListStoresRequest, WatchStoresRequest, Plain, Scalar,
         Many, Enum, ++
  <2> QED
    BY <2>1, <2>2
<1>5. ASSUME p = "temporal"
      PROVE  Nests(Stubs(p)[m].request, ProposedEvent)
  <2>1. Stubs(p)[m].request
          \in {ReadRangeRequest, ReadUntilRequest, VersionAtRequest}
    BY <1>5 DEF Stubs, TemporalStubs, Unary
  <2>2. \A T \in {ReadRangeRequest, ReadUntilRequest, VersionAtRequest} : Nests(T, ProposedEvent)
    BY DEF Nests, ReadRangeRequest, ReadUntilRequest, VersionAtRequest, Plain, Scalar, Many,
         Enum, ++
  <2> QED
    BY <2>1, <2>2
<1>6. ASSUME p = "schema"
      PROVE  Nests(Stubs(p)[m].request, RecordedEvent)
  <2>1. Stubs(p)[m].request
          \in {GetSchemaRequest, GetSchemaVersionRequest, ListSchemasRequest,
         RegisterSchemaRequest, UnregisterSchemaRequest, UpcastEventsRequest}
    BY <1>6 DEF Stubs, SchemaStubs, Unary
  <2>2. \A T \in {GetSchemaRequest, GetSchemaVersionRequest, ListSchemasRequest,
         RegisterSchemaRequest, UnregisterSchemaRequest, UpcastEventsRequest} : Nests(T, RecordedEvent)
    BY DEF Nests, GetSchemaRequest, GetSchemaVersionRequest, ListSchemasRequest,
         RegisterSchemaRequest, UnregisterSchemaRequest, UpcastEventsRequest,
         Plain, Scalar, Many, Enum, ++
  <2> QED
    BY <2>1, <2>2
<1>7. ASSUME p = "dcb"
      PROVE  Nests(Stubs(p)[m].request, ProposedEvent)
  <2>1. Stubs(p)[m].request
          \in {AppendIfNoTagMatchesRequest, CccReadByPayloadHashRequest,
         CccReadByPayloadRequest, ReadDcbContextRequest}
    BY <1>7 DEF Stubs, DcbStubs, Unary
  <2>2. \A T \in {AppendIfNoTagMatchesRequest, CccReadByPayloadHashRequest,
         CccReadByPayloadRequest, ReadDcbContextRequest} : Nests(T, ProposedEvent)
    BY DEF Nests, AppendIfNoTagMatchesRequest, CccReadByPayloadHashRequest,
         CccReadByPayloadRequest, ReadDcbContextRequest, Plain, Scalar, Many, Enum,
         ++
  <2> QED
    BY <2>1, <2>2
<1>8. ASSUME p = "admin"
      PROVE  Nests(Stubs(p)[m].request, ProposedEvent)
  <2>1. Stubs(p)[m].request
          \in {CreateLinkRequest, DeleteLinkRequest, EventTypeSummaryRequest,
         GetCatalogueStatusRequest, GetLinkRequest, ListLinksRequest,
         ReloadCatalogueRequest, ScavengeMatchingRequest, ScavengeRequest,
         StartLinkRequest, StopLinkRequest, StoreStatsRequest, StreamInfoRequest}
    BY <1>8 DEF Stubs, AdminStubs, Unary
  <2>2. \A T \in {CreateLinkRequest, DeleteLinkRequest, EventTypeSummaryRequest,
         GetCatalogueStatusRequest, GetLinkRequest, ListLinksRequest,
         ReloadCatalogueRequest, ScavengeMatchingRequest, ScavengeRequest,
         StartLinkRequest, StopLinkRequest, StoreStatsRequest, StreamInfoRequest} : Nests(T, ProposedEvent)
    BY DEF Nests, CreateLinkRequest, DeleteLinkRequest, EventTypeSummaryRequest,
         GetCatalogueStatusRequest, GetLinkRequest, ListLinksRequest,
         ReloadCatalogueRequest, ScavengeMatchingRequest, ScavengeRequest,
         StartLinkRequest, StopLinkRequest, StoreStatsRequest, StreamInfoRequest,
         Plain, Scalar, Many, Enum, ++
  <2> QED
    BY <2>1, <2>2
<1>9. ASSUME p = "health"
      PROVE  Nests(Stubs(p)[m].request, ProposedEvent)
  <2>1. Stubs(p)[m].request
          \in {ClusterCheckRequest, GetServerInfoRequest, HealthCheckRequest,
         HealthRequest, MemoryLevelRequest, MemoryStatsRequest}
    BY <1>9 DEF Stubs, HealthStubs, Unary
  <2>2. \A T \in {ClusterCheckRequest, GetServerInfoRequest, HealthCheckRequest,
         HealthRequest, MemoryLevelRequest, MemoryStatsRequest} : Nests(T, ProposedEvent)
    BY DEF Nests, ClusterCheckRequest, GetServerInfoRequest, HealthCheckRequest,
         HealthRequest, MemoryLevelRequest, MemoryStatsRequest, Plain, Scalar,
         Many, Enum, ++
  <2> QED
    BY <2>1, <2>2
<1> QED
  BY <1>1, <1>2, <1>3, <1>4, <1>5, <1>6, <1>7, <1>8, <1>9 DEF Packages

LEMMA FilterKinds ==
  ASSUME NEW n \in Nat
  PROVE  \A i \in DOMAIN Pick(Filters, n) : Pick(Filters, n)[i].go \in DOMAIN Kind
<1>1. \A k \in 1..7 : \A i \in DOMAIN Filters[k] : Filters[k][i].go \in DOMAIN Kind
  BY DEF Filters, Over, AnyOf, AllOf, OfType, Leaf, Kind
<1>2. Len(Filters) = 7
  BY DEF Filters
<1> QED
  BY <1>1, <1>2 DEF Pick
------------------------------------------------------------------------------
\* What an argument becomes on the wire is what the field is for.
LEMMA ArgumentCarries ==
  ASSUME NEW p, NEW f, NEW s, NEW n \in Nat, NEW g
  PROVE  Carries([package |-> p, function |-> f, store |-> s, variant |-> n], g,
                 Argument(p, f, <<"store_id", s>>, Args(p, n), g))
<1> DEFINE a == Args(p, n)
           c == [package |-> p, function |-> f, store |-> s, variant |-> n]
           w == Argument(p, f, <<"store_id", s>>, a, g)
           lineage == g = "key" /\ f \in DOMAIN LineageKey
<1> SUFFICES Carries(c, g, w)
  OBVIOUS
<1>1. c.package = p /\ c.function = f /\ c.store = s /\ c.variant = n
  OBVIOUS
<1>2. ASSUME g = "store_id"
      PROVE  w = IF p = "stores" THEN <<"store_id">> ELSE <<"store_id", s>>
  <2>1. "store_id" \notin Millis \cup Micros
    BY DEF Millis, Micros
  <2> QED
    BY <1>2, <2>1, NamedIs, ArgumentIs
<1>3. ASSUME g = "type"
      PROVE  typeFromProto(w) = a.spec.Type
  <2>1. a.spec.Type = Pick(Types, n)
    BY ArgValues
  <2> QED
    BY <1>3, <2>1, ArgumentIs, TypeRoundTrip
<1>4. ASSUME g = "match"
      PROVE  w = <<"TAG_MATCH_ALL">> <=> a.match = <<"all">>
  <2>1. a.match = Pick(<<<<"any">>, <<"all">>>>, n)
    BY ArgValues
  <2> QED
    BY <1>4, <2>1, ArgumentIs, MatchArrives
<1>5. ASSUME g = "tag_filter"
      PROVE  \A e \in Recorded : Selects(w, e) <=> Means(a.filter, e)
  <2>1. a.filter = Pick(Filters, n)
    BY ArgValues
  <2>2. \A i \in DOMAIN a.filter : a.filter[i].go \in DOMAIN Kind
    BY <2>1, FilterKinds
  <2>3. w = FilterToProto(a.filter)
    BY <1>5, ArgumentIs
  <2> HIDE DEF a, w
  <2> QED
    BY <2>2, <2>3, FilterArrives
<1>6. ASSUME g = "events"
      PROVE  EventsNamed(w)
  <2>1. a.events = ProposedEvents /\ a.recorded = RecordedEvents
    BY ArgValues
  <2>2. w = IF p = "schema" THEN Each(toProto, RecordedEvents)
            ELSE Each(ProposedToProto, ProposedEvents)
    BY <1>6, <2>1, ArgumentIs
  <2> HIDE DEF w
  <2> QED
    BY <2>2, ProposedArrive, RecordedArrive
<1>7. ASSUME lineage
      PROVE  w = <<LineageKey[f]>>
  BY <1>7, ArgumentIs
<1>8. ASSUME g \notin {"store_id", "type", "match", "tag_filter", "events"}, ~lineage
      PROVE  w = <<g>> \o Unit(g)
  BY <1>8, ArgumentIs DEF Named
<1> HIDE DEF w, a, lineage
<1>9. /\ g = "store_id" => w = IF p = "stores" THEN <<"store_id">>
                               ELSE <<"store_id", s>>
      /\ g = "type" => typeFromProto(w) = a.spec.Type
      /\ g = "match" => (w = <<"TAG_MATCH_ALL">> <=> a.match = <<"all">>)
      /\ g = "tag_filter" =>
           \A e \in Recorded : Selects(w, e) <=> Means(a.filter, e)
      /\ g = "events" => EventsNamed(w)
      /\ lineage => w = <<LineageKey[f]>>
      /\ \/ g \in {"store_id", "type", "match", "tag_filter", "events"} \/ lineage
         \/ w = <<g>> \o Unit(g)
  BY <1>2, <1>3, <1>4, <1>5, <1>6, <1>7, <1>8
<1>10. Args(c.package, c.variant) = a
  BY <1>1 DEF a
<1>11. lineage <=> g = "key" /\ c.function \in DOMAIN LineageKey
  BY <1>1 DEF lineage
<1> HIDE DEF c
<1>12. g = "events" => \A i \in DOMAIN w : \A h \in DOMAIN w[i] :
                         w[i][h] = <<g, ToString(i), h>> \o Unit(h)
  BY <1>9 DEF EventsNamed
<1> QED
  BY <1>1, <1>9, <1>10, <1>11, <1>12 DEF Carries
------------------------------------------------------------------------------
\* The call on the wire is one a function makes, and its frame is the one that its
\* stub sends.
Sending ==
  Sent =>
    LET p == op.package
        call == Calls(<<"store_id", op.store>>, Args(p, op.variant))[p][op.function]
        stub == Stubs(p)[call.stub]
    IN
    /\ op = [package |-> p, function |-> op.function, store |-> op.store,
             variant |-> op.variant]
    /\ p \in Packages /\ op.variant \in Variants
    /\ op.function \in DOMAIN Calls(<<"store_id", op.store>>, Args(p, op.variant))[p]
    /\ frame = [path |-> <<ServiceOf(p).service, call.stub>>,
                stream |-> stub.stream,
                request |-> [g \in DOMAIN stub.request |-> Get(call.request, g)]]

\* An answer is what the handler at the frame's path answers.
Answered ==
  answer \notin {None, Status} =>
    /\ Sent
    /\ \E shown \in BOOLEAN :
         answer = Answer(frame.path, Get(frame.request, "store_id"), op.variant, shown)

\* What is printed is what the function and the command make of the answer.
Converted ==
  /\ ~ Sent => answer = None
  /\ answer = None => printed = None
  /\ Shows => /\ answer \notin {None, Status}
              /\ printed = [objects |-> Printed(op.package, op.function,
                                         Results(answer)[op.package][op.function])]

IInv == Sending /\ Answered /\ Converted

LEMMA InitHolds == Init => IInv
  BY DEF Init, IInv, Sending, Answered, Converted, Sent, Shows

LEMMA Distinct ==
  /\ None # Status
  /\ \A x, y, z : [path |-> x, stream |-> y, request |-> z] # None
  BY DEF None, Status

LEMMA StepHolds == IInv /\ [Next]_vars => IInv'
<1> SUFFICES ASSUME IInv, [Next]_vars PROVE IInv'
  OBVIOUS
<1>1. ASSUME NEW p \in Packages, NEW s \in Stores, NEW n \in Variants,
             NEW f \in DOMAIN Calls(Zero, Args(p, n))[p], Invoke(p, f, s, n)
      PROVE  IInv'
  <2> DEFINE call == Calls(<<"store_id", s>>, Args(p, n))[p][f]
             stub == Stubs(p)[call.stub]
             sent == [path |-> <<ServiceOf(p).service, call.stub>>,
                      stream |-> stub.stream,
                      request |-> [g \in DOMAIN stub.request |-> Get(call.request, g)]]
  <2>1. /\ op' = [package |-> p, function |-> f, store |-> s, variant |-> n]
        /\ frame' = sent
        /\ answer' = answer /\ printed' = printed
    BY <1>1 DEF Invoke
  <2>2. f \in DOMAIN Calls(<<"store_id", s>>, Args(p, n))[p]
    BY SameFunctions
  <2>3. op'.package = p /\ op'.function = f /\ op'.store = s /\ op'.variant = n
    BY <2>1
  <2>4. Sending'
    BY <2>1, <2>2, <2>3 DEF Sending
  <2>5. ~ Sent
    BY <1>1 DEF Invoke, IInv, Sending, Packages, Idle
  <2>6. answer' = None /\ printed' = None
    BY <2>1, <2>5 DEF IInv, Converted
  <2> HIDE DEF call, stub, sent
  <2> QED
    BY <2>4, <2>6 DEF IInv, Answered, Converted, Shows
<1>2. ASSUME NEW shown \in BOOLEAN, Serve(shown)
      PROVE  IInv'
  <2>1. Sent /\ UNCHANGED <<op, frame, printed>> /\ answer = None
    BY <1>2 DEF Serve, Sent
  <2>2. Sending'
    BY <2>1 DEF IInv, Sending, Sent
  <2>3. answer' = Answer(frame'.path, Get(frame'.request, "store_id"), op'.variant, shown)
    BY <1>2, <2>1 DEF Serve
  <2>4. Sent'
    BY <2>1 DEF Sent
  <2>5. printed' = None
    BY <2>1 DEF IInv, Converted
  <2> QED
    BY <2>2, <2>3, <2>4, <2>5 DEF IInv, Answered, Converted, Shows
<1>3. ASSUME Refuse
      PROVE  IInv'
  <2>1. Sent /\ UNCHANGED <<op, frame, printed>> /\ answer = None /\ answer' = Status
    BY <1>3 DEF Refuse, Sent
  <2>2. Sending'
    BY <2>1 DEF IInv, Sending, Sent
  <2>3. printed' = None /\ Sent'
    BY <2>1 DEF IInv, Converted, Sent
  <2> QED
    BY <2>1, <2>2, <2>3 DEF IInv, Answered, Converted, Shows
<1>4. ASSUME Return
      PROVE  IInv'
  <2>1. /\ UNCHANGED <<op, frame, answer>> /\ answer # None
        /\ printed' = IF answer = Status THEN Status
                      ELSE [objects |-> Printed(op.package, op.function,
                                         Results(answer)[op.package][op.function])]
    BY <1>4 DEF Return
  <2>2. Sending' /\ Answered'
    BY <2>1 DEF IInv, Sending, Answered, Sent
  <2>3. Converted'
    BY <2>1 DEF IInv, Converted, Shows, Sent
  <2> QED
    BY <2>2, <2>3 DEF IInv
<1>5. ASSUME Finish
      PROVE  IInv'
  BY <1>5 DEF Finish, IInv, Sending, Answered, Converted, Sent, Shows
<1>6. ASSUME UNCHANGED vars
      PROVE  IInv'
  BY <1>6 DEF vars, IInv, Sending, Answered, Converted, Sent, Shows
<1> QED
  BY <1>1, <1>2, <1>3, <1>4, <1>5, <1>6 DEF Next

LEMMA Holds == Spec => []IInv
  BY InitHolds, StepHolds, PTL DEF Spec
------------------------------------------------------------------------------
\* What a call in flight is made of.
LEMMA InFlight ==
  ASSUME IInv, Sent
  PROVE  LET p == op.package
             a == Args(p, op.variant)
             calls == Calls(<<"store_id", op.store>>, a)[p]
             stub == Stubs(p)[Method]
         IN /\ p \in Packages /\ op.variant \in Variants
            /\ op.function \in DOMAIN calls
            /\ Method = calls[op.function].stub
            /\ frame.path = <<ServiceOf(p).service, Method>>
            /\ frame.stream = stub.stream
            /\ DOMAIN frame.request = DOMAIN stub.request
            /\ \A g \in DOMAIN stub.request : frame.request[g] =
                 Argument(p, op.function, <<"store_id", op.store>>, a, g)
<1> DEFINE p == op.package
           a == Args(p, op.variant)
           s == <<"store_id", op.store>>
           calls == Calls(s, a)[p]
           call == calls[op.function]
<1>1. /\ p \in Packages /\ op.variant \in Variants
      /\ op.function \in DOMAIN calls
      /\ frame = [path |-> <<ServiceOf(p).service, call.stub>>,
                  stream |-> Stubs(p)[call.stub].stream,
                  request |-> [g \in DOMAIN Stubs(p)[call.stub].request |->
                                 Get(call.request, g)]]
  BY DEF IInv, Sending
<1>2. Method = call.stub
  BY <1>1 DEF Method
<1>3. Sends(p, op.function, s, a, calls)
  <2>1. NamedArgs(a)
    BY ArgsNamed
  <2>2. a.cutoff = IF p = "dcb" THEN <<"seq_cutoff">> ELSE <<"timestamp">>
    BY ArgValues
  <2> HIDE DEF a
  <2> QED
    BY <1>1, <2>1, <2>2, CallsSend
<1> HIDE DEF call, a, calls
<1>4. \A g \in DOMAIN Stubs(p)[Method].request :
        frame.request[g] = Get(call.request, g)
  BY <1>1, <1>2
<1>5. \A g \in DOMAIN Stubs(p)[Method].request :
        Get(call.request, g) = Argument(p, op.function, s, a, g)
  BY <1>2, <1>3 DEF Sends, call
<1> QED
  BY <1>1, <1>2, <1>4, <1>5 DEF call, a, calls

LEMMA InFlightReaches ==
  ASSUME IInv, Sent
  PROVE  Reaches(op.package, op.function, Method)
  BY InFlight, CallsReach

\* A function whose doc comment says that it only reads never makes the server run
\* a method that writes: for any stores, whatever a call's arguments.
THEOREM NoHiddenWrites == Spec => []ReadersDoNotWrite
<1>1. IInv => ReadersDoNotWrite
  BY InFlightReaches DEF ReadersDoNotWrite, Reaches
<1> QED
  BY <1>1, Holds, PTL

LEMMA InFlightCarries ==
  ASSUME IInv, Sent, NEW g \in DOMAIN frame.request
  PROVE  Carries(op, g, frame.request[g])
<1> DEFINE p == op.package
           w == Argument(p, op.function, <<"store_id", op.store>>,
                         Args(p, op.variant), g)
<1>1. op = [package |-> p, function |-> op.function, store |-> op.store,
            variant |-> op.variant]
  BY DEF IInv, Sending
<1>2. frame.request[g] = w
  BY InFlight
<1>3. op.variant \in Nat
  BY InFlight, VariantsAssumption
<1>4. Carries([package |-> p, function |-> op.function, store |-> op.store,
               variant |-> op.variant], g, w)
  BY <1>3, ArgumentCarries
<1> HIDE DEF w
<1> QED
  BY <1>1, <1>2, <1>4

\* Every argument of a call reaches the server in the field that is its meaning, in
\* that field's unit, under the client's own store; and a filter selects there what
\* its constructors promise.
THEOREM ArgumentsReachServer == Spec => []ArgumentsArrive
<1>1. IInv => ArgumentsArrive
  BY InFlightCarries DEF ArgumentsArrive
<1> QED
  BY <1>1, Holds, PTL

LEMMA EventFields ==
  /\ \A i \in DOMAIN Each(ProposedToProto, ProposedEvents) :
       DOMAIN Each(ProposedToProto, ProposedEvents)[i] = DOMAIN ProposedEvent
  /\ \A i \in DOMAIN Each(toProto, RecordedEvents) :
       DOMAIN Each(toProto, RecordedEvents)[i] = DOMAIN RecordedEvent
<1>1. \A x : DOMAIN ProposedToProto(x) = DOMAIN ProposedEvent
  BY DEF ProposedToProto, ProposedEvent, Plain
<1>2. \A x : DOMAIN toProto(x) = DOMAIN RecordedEvent
  BY DEF toProto, RecordedEvent, Plain
<1> QED
  BY <1>1, <1>2 DEF Each

\* A message that a server builds as type T has the shape of T.
LEMMA MessageFits ==
  ASSUME NEW T, NEW tag, NEW n, NEW shown
  PROVE  Fits(Message(T, tag, n, shown), T)
<1> DEFINE msg == Message(T, tag, n, shown)
<1>1. DOMAIN msg = DOMAIN T
  BY DEF Message
<1>2. ASSUME NEW f \in DOMAIN T, NEW i \in DOMAIN msg[f], T[f].len > 0
      PROVE  DOMAIN msg[f][i] = DOMAIN T[f].of
  <2> DEFINE part(j) == Flat(T[f].of, tag \o <<f, ToString(j)>>, n)
  <2>1. msg[f] = IF Shown(T[f], n, shown) THEN [j \in 1..T[f].len |-> part(j)] ELSE <<>>
    BY <1>2 DEF Message
  <2>2. \A j : DOMAIN part(j) = DOMAIN T[f].of
    BY DEF Flat
  <2> HIDE DEF part, msg
  <2> QED
    BY <1>2, <2>1, <2>2
<1> QED
  BY <1>1, <1>2 DEF Fits

LEMMA InFlightAgrees ==
  ASSUME IInv, Sent
  PROVE  /\ Registered(frame.path)
         /\ (Method \in ServiceOf(op.package).methods <=> frame.stream = "unary")
         /\ frame.stream \in {"unary", Method}
         /\ Stub.request = HandlerAt(frame.path).request
         /\ Stub.response = Response
<1> DEFINE p == op.package
           d == ServiceOf(p)
<1>1. p \in Packages /\ frame.path = <<d.service, Method>>
         /\ frame.stream = Stubs(p)[Method].stream
  BY InFlight
<1>2. Agree(d, Stubs(p), Handlers[d.service])
  BY <1>1, TablesAgree
<1>3. Method \in Names(d)
  BY InFlightReaches DEF Reaches
<1>4. HandlerAt(frame.path) = Handlers[d.service][Method]
  BY <1>1 DEF HandlerAt
<1>5. frame.path[1] = d.service /\ frame.path[2] = Method
  BY <1>1
<1> HIDE DEF d
<1>6. Registered(frame.path)
  BY <1>1, <1>3, <1>5 DEF Registered, Names, d
<1> QED
  BY <1>1, <1>2, <1>3, <1>4, <1>6 DEF Agree, Stub, Response, d

\* Stub, handler and ServiceDesc agree on every method that is called, as a stream or
\* not; the requests that the packages fill by hand and the answers have the types
\* of the method.
THEOREM TypeCorrect == Spec => []TypeOK
<1>1. ASSUME IInv, Sent
      PROVE  /\ Registered(frame.path)
             /\ (Method \in ServiceOf(op.package).methods <=> frame.stream = "unary")
             /\ frame.stream \in {"unary", Method}
             /\ Stub.request = HandlerAt(frame.path).request
             /\ Stub.response = Response
  BY <1>1, InFlightAgrees
<1>2. ASSUME IInv, Sent
      PROVE  Fits(frame.request, Stub.request)
  <2> DEFINE p == op.package
             T == Stubs(p)[Method].request
             w(g) == Argument(p, op.function, <<"store_id", op.store>>,
                              Args(p, op.variant), g)
  <2>1. DOMAIN frame.request = DOMAIN T /\ \A g \in DOMAIN T : frame.request[g] = w(g)
    BY <1>2, InFlight
  <2>2. p \in Packages /\ Method \in DOMAIN Stubs(p)
    BY <1>2, InFlight, InFlightReaches, TablesAgree DEF Reaches, Agree
  <2>3. Nests(T, IF p = "schema" THEN RecordedEvent ELSE ProposedEvent)
    BY <2>2, RequestNests
  <2>4. ASSUME NEW g \in DOMAIN T, T[g].len > 0
        PROVE  \A i \in DOMAIN w(g) : DOMAIN w(g)[i] = DOMAIN T[g].of
    <3>1. g = "events"
             /\ T[g].of = IF p = "schema" THEN RecordedEvent ELSE ProposedEvent
      BY <2>3, <2>4 DEF Nests
    <3>2. w(g) = IF p = "schema" THEN Each(toProto, RecordedEvents)
                 ELSE Each(ProposedToProto, ProposedEvents)
      BY <3>1, ArgumentIs, ArgValues
    <3> HIDE DEF w, T
    <3> QED
      BY <3>1, <3>2, EventFields
  <2> HIDE DEF w, T
  <2>5. Fits(frame.request, T)
    BY <2>1, <2>4 DEF Fits
  <2> QED
    BY <2>5 DEF T, Stub
<1>3. ASSUME IInv, Sent, "tag_filter" \in DOMAIN frame.request
      PROVE  \A i \in DOMAIN frame.request.tag_filter :
               frame.request.tag_filter[i].kind \in TagFilter
  <2> DEFINE f == Pick(Filters, op.variant)
  <2>1. frame.request.tag_filter = FilterToProto(f)
    BY <1>3, InFlight, ArgumentIs, ArgValues
  <2>2. \A i \in DOMAIN f : f[i].go \in DOMAIN Kind
    BY <1>3, InFlight, VariantsAssumption, FilterKinds
  <2> HIDE DEF f
  <2> QED
    BY <2>1, <2>2, NodesArrive, KindOnto
<1>4. ASSUME IInv, answer \notin {None, Status}
      PROVE  Fits(answer, Response)
  BY <1>4, MessageFits DEF IInv, Answered, Answer, Response
<1>5. IInv => TypeOK
  BY <1>1, <1>2, <1>3, <1>4 DEF TypeOK
<1> QED
  BY <1>5, Holds, PTL
------------------------------------------------------------------------------
\* Answers.  A datum is marked so that its unit can be taken off it.
Taken(f, m) == IF f \in Millis THEN UnixMilli(Get(m, f))
               ELSE IF f \in Micros THEN UnixMicro(Get(m, f))
               ELSE IF f \in Texts THEN ParseRFC3339(Get(m, f)) ELSE Get(m, f)
Marked(m, T, n) ==
  /\ DOMAIN m = DOMAIN T
  /\ \A f \in Scalars(T) : IF T[f].enum = <<>> THEN Taken(f, m) = Instant(f, m[f])
                           ELSE m[f] = Number(T[f].enum, n)

LEMMA UnitTaken ==
  ASSUME NEW S, NEW tag \in Seq(S), NEW f, NEW n
  PROVE  LET w == tag \o <<f>> \o Suffix(f, n) IN
         Instant(f, w) = IF f \in Millis THEN UnixMilli(w)
                         ELSE IF f \in Micros THEN UnixMicro(w)
                         ELSE IF f \in Texts THEN ParseRFC3339(w) ELSE w
<1> DEFINE v == tag \o <<f>>
           R == S \cup {f, "ms", "us"}
<1>1. v \in Seq(R) /\ Len(v) > 0
  OBVIOUS
<1>8. ASSUME NEW unit, NEW w, w = v \o <<unit>>
      PROVE  w[Len(w)] = unit /\ w # <<>>
  <2>1. v \in Seq(S \cup {f, unit}) /\ <<unit>> \in Seq(S \cup {f, unit}) /\ Len(v) > 0
    OBVIOUS
  <2> HIDE DEF v
  <2>2. Len(w) = Len(v) + 1 /\ w[Len(w)] = unit
    BY <1>8, <2>1
  <2> QED
    BY <1>8, <2>1, <2>2
<1>2. ASSUME NEW unit, NEW w, w = v \o <<unit>>
      PROVE  In(unit, w) = SubSeq(w, 1, Len(w) - 1)
  BY <1>2, <1>8 DEF In, Zero
<1>3. <<"ms">> # <<>> /\ <<"us">> # <<>>
  OBVIOUS
<1> HIDE DEF v
<1>0. Texts \cap (Millis \cup Micros) = {}
  BY DEF Texts, Millis, Micros
<1>4. CASE f \in Millis
  <2> SUFFICES Instant(f, v \o <<"ms">>) = UnixMilli(v \o <<"ms">>)
    BY <1>0, <1>4 DEF Suffix, Unit, v
  <2> QED
    BY <1>0, <1>2, <1>3, <1>4 DEF Instant, UnixMilli, Unit
<1>5. CASE f \in Micros \ Millis
  <2> SUFFICES Instant(f, v \o <<"us">>) = UnixMicro(v \o <<"us">>)
    BY <1>0, <1>5 DEF Suffix, Unit, v
  <2> QED
    BY <1>0, <1>2, <1>3, <1>5 DEF Instant, UnixMicro, Unit
<1>6. CASE f \in Texts
  <2>1. PICK unit \in {"rfc3339", "no instant"} : Suffix(f, n) = <<unit>>
    BY <1>6 DEF Suffix
  <2> DEFINE w == v \o <<unit>>
  <2>2. w[Len(w)] = unit /\ w # <<>>
    BY <1>8
  <2> HIDE DEF w
  <2>3. Instant(f, w) = ParseRFC3339(w)
    BY <1>6, <2>1, <2>2 DEF Instant, ParseRFC3339, Zero
  <2> QED
    BY <1>0, <1>6, <2>1, <2>3 DEF v, w
<1>7. CASE f \notin Millis \cup Micros \cup Texts
  BY <1>7 DEF Instant, Suffix, Unit
<1> QED
  BY <1>4, <1>5, <1>6, <1>7 DEF v

LEMMA FlatMarked ==
  ASSUME NEW S, NEW tag \in Seq(S), NEW T, NEW n
  PROVE  Marked(Flat(T, tag, n), T, n)
<1> DEFINE m == Flat(T, tag, n)
<1>1. DOMAIN m = DOMAIN T
  BY DEF Flat
<1>2. ASSUME NEW f \in DOMAIN T, T[f].enum = <<>>
      PROVE  Taken(f, m) = Instant(f, m[f])
  <2>1. m[f] = tag \o <<f>> \o Suffix(f, n)
    BY <1>2 DEF Flat
  <2>2. Get(m, f) = m[f]
    BY <1>1 DEF Get
  <2> HIDE DEF m
  <2> QED
    BY <2>1, <2>2, UnitTaken DEF Taken
<1>3. ASSUME NEW f \in DOMAIN T, T[f].enum # <<>>
      PROVE  m[f] = Number(T[f].enum, n)
  BY <1>3 DEF Flat
<1> HIDE DEF m
<1> SUFFICES Marked(m, T, n)
  BY DEF m
<1> QED
  BY <1>1, <1>2, <1>3 DEF Marked, Scalars

LEMMA MessageMarked ==
  ASSUME NEW S, NEW tag \in Seq(S), NEW T, NEW n, NEW shown
  PROVE  Marked(Message(T, tag, n, shown), T, n)
<1> DEFINE m == Message(T, tag, n, shown)
           flat == Flat(T, tag, n)
<1>1. DOMAIN m = DOMAIN T /\ DOMAIN flat = DOMAIN T
  BY DEF Message, Flat
<1>2. \A f \in Scalars(T) : m[f] = flat[f]
  BY DEF Message, Scalars
<1>3. Marked(flat, T, n)
  BY FlatMarked
<1>4. \A f \in Scalars(T) : f \in DOMAIN T /\ Taken(f, m) = Taken(f, flat)
  <2> HIDE DEF m, flat
  <2> QED
    BY <1>1, <1>2 DEF Taken, Get, Scalars
<1> SUFFICES Marked(m, T, n)
  OBVIOUS
<1> HIDE DEF m, flat
<1> QED
  BY <1>1, <1>2, <1>3, <1>4 DEF Marked

\* The messages nested in field f of an answer.
NestedMarked(m, T, f, n) ==
  /\ m[f] = <<>> \/ DOMAIN m[f] = 1..T[f].len
  /\ m[f] = [i \in DOMAIN m[f] |-> m[f][i]]
  /\ \A i \in DOMAIN m[f] : Marked(m[f][i], T[f].of, n)
LEMMA MessageNested ==
  ASSUME NEW S, NEW tag \in Seq(S), NEW T, NEW n, NEW shown, NEW f \in DOMAIN T,
         T[f].len > 0
  PROVE  NestedMarked(Message(T, tag, n, shown), T, f, n)
<1> DEFINE m == Message(T, tag, n, shown)
           at(i) == tag \o <<f, ToString(i)>>
<1>1. m[f] = IF Shown(T[f], n, shown) THEN [i \in 1..T[f].len |-> Flat(T[f].of, at(i), n)]
             ELSE <<>>
  BY DEF Message
<1>2. \A i : Marked(Flat(T[f].of, at(i), n), T[f].of, n)
  <2> TAKE i
  <2>1. at(i) \in Seq(S \cup {f, ToString(i)})
    OBVIOUS
  <2> HIDE DEF at
  <2> QED
    BY <2>1, FlatMarked
<1>3. m[f] = <<>> \/ m[f] = [i \in 1..T[f].len |-> Flat(T[f].of, at(i), n)]
  BY <1>1
<1> HIDE DEF m, at
<1>4. m[f] = <<>> \/ DOMAIN m[f] = 1..T[f].len
  BY <1>3
<1>5. m[f] = [i \in DOMAIN m[f] |-> m[f][i]]
  BY <1>3
<1>6. \A i \in DOMAIN m[f] : Marked(m[f][i], T[f].of, n)
  <2>1. CASE m[f] = <<>>
    BY <2>1
  <2>2. CASE m[f] = [i \in 1..T[f].len |-> Flat(T[f].of, at(i), n)]
    <3>1. \A i \in DOMAIN m[f] : m[f][i] = Flat(T[f].of, at(i), n)
      BY <2>2, Zenon
    <3> QED
      BY <1>2, <3>1
  <2> QED
    BY <1>3, <2>1, <2>2
<1> QED
  BY <1>4, <1>5, <1>6 DEF NestedMarked, m
------------------------------------------------------------------------------
\* An object prints a message: every field under its name, with the unit taken off.
Reads(o, m, T) == Faithful(o, Part(m, T)) /\ Honest(o, Part(m, T))

LEMMA PartFields ==
  ASSUME NEW m, NEW T
  PROVE  /\ DOMAIN Part(m, T) = Scalars(T)
         /\ \A f \in Scalars(T) : Part(m, T)[f].data = m[f] /\ Part(m, T)[f].kind = T[f]
  BY DEF Part

NoVerdict(T) ==
  \A k \in {"status", "level", "change"} \cap Scalars(T) : T[k].enum = <<>>

LEMMA PlainReads ==
  ASSUME NEW m, NEW T, NEW n, Marked(m, T, n), NEW o,
         DOMAIN o = Scalars(T), NoVerdict(T),
         \A k \in Scalars(T) : T[k].enum = <<>> => o[k] = Taken(k, m)
  PROVE  Reads(o, m, T)
<1> DEFINE part == Part(m, T)
<1>1. \A k \in DOMAIN o : WireName(k, part) = k
  BY PartFields DEF WireName
<1>2. DOMAIN part = Scalars(T)
  BY PartFields
<1>3. \A f \in Scalars(T) : part[f].data = m[f] /\ part[f].kind = T[f]
  BY PartFields
<1> HIDE DEF part
<1>4. Faithful(o, part)
  BY <1>1, <1>2, <1>3 DEF Faithful, Marked
<1>5. Honest(o, part)
  BY <1>1, <1>2, <1>3 DEF Honest, NoVerdict
<1> QED
  BY <1>4, <1>5 DEF Reads, part

Renames == {<<"epoch", "epoch_us">>, <<"registered_at", "registered_at_us">>,
            <<"name", "subscription_name">>}
LEMMA RenamedReads ==
  ASSUME NEW m, NEW T, NEW n, Marked(m, T, n), NEW o, NEW k, NEW f, <<k, f>> \in Renames,
         k \notin Scalars(T), f \in Scalars(T), T[f].enum = <<>>,
         DOMAIN o = (Scalars(T) \ {f}) \cup {k}, NoVerdict(T), o[k] = Taken(f, m),
         \A g \in Scalars(T) \ {f} : T[g].enum = <<>> => o[g] = Taken(g, m)
  PROVE  Reads(o, m, T)
<1> DEFINE part == Part(m, T)
<1>1. \A g \in Scalars(T) : WireName(g, part) = g
  BY PartFields DEF WireName
<1>2. DOMAIN part = Scalars(T)
  BY PartFields
<1>3. \A g \in Scalars(T) : part[g].data = m[g] /\ part[g].kind = T[g]
  BY PartFields
<1> HIDE DEF part
<1>4. WireName(k, part) = f /\ k \notin {"status", "level", "change"}
  BY <1>2 DEF WireName, Renames
<1>5. Faithful(o, part)
  BY <1>1, <1>2, <1>3, <1>4 DEF Faithful, Marked
<1>6. Honest(o, part)
  BY <1>1, <1>2, <1>3, <1>4 DEF Honest, NoVerdict
<1> QED
  BY <1>5, <1>6 DEF Reads, part
\* The fields of a message type that has only plain ones, and of one that also
\* has an enum.
LEMMA PlainFields ==
  ASSUME NEW F, NEW T, T = Plain(F)
  PROVE  /\ DOMAIN T = F /\ Scalars(T) = F
         /\ \A f \in F : T[f].enum = <<>> /\ T[f].len = 0
         /\ NoVerdict(T)
  BY DEF Plain, Scalars, Scalar, NoVerdict

LEMMA EnumFields ==
  ASSUME NEW F, NEW e, e \notin F, NEW names, names # <<>>, NEW T,
         DOMAIN T = F \cup {e}, \A f \in F : T[f] = Scalar, T[e] = Enum(names)
  PROVE  /\ Scalars(T) = F \cup {e}
         /\ \A f \in F : T[f].enum = <<>>
         /\ T[e].enum = names
         /\ e \notin {"status", "level", "change"} => NoVerdict(T)
<1>1. Scalar.enum = <<>> /\ Scalar.len = 0 /\ Enum(names).enum = names /\ Enum(names).len = 0
  BY DEF Scalar, Enum
<1> QED
  BY <1>1 DEF Scalars, NoVerdict

LEMMA EventsRead ==
  ASSUME NEW m, NEW n, Marked(m, RecordedEvent, n)
  PROVE  Reads(Event(recordedFromProto(m)), m, RecordedEvent)
<1> DEFINE o == Event(recordedFromProto(m))
           T == RecordedEvent
           F == {"event_id", "event_type", "stream_id", "version", "data",
                  "metadata", "tags", "timestamp", "epoch_us",
                  "data_content_type", "metadata_content_type",
                  "prev_event_hash"}
<1>1. T = Plain(F)
  BY DEF RecordedEvent
<1>3. Scalars(T) = F /\ NoVerdict(T) /\ \A f \in F : T[f].enum = <<>>
  BY <1>1, PlainFields
<1>4. DOMAIN o = ((F) \ {"epoch_us"}) \cup {"epoch"}
  BY DEF Event, recordedFromProto
<1>5. \A g \in F \ {"epoch_us"} : o[g] = Taken(g, m)
  BY DEF Event, recordedFromProto, Taken, Texts, Millis, Micros
<1>6. o["epoch"] = Taken("epoch_us", m)
  BY DEF Event, recordedFromProto, Taken, Texts, Millis, Micros
<1>7. "epoch" \notin F /\ "epoch_us" \in F /\ <<"epoch", "epoch_us">> \in Renames
  BY DEF Renames
<1>8. Marked(m, T, n)
  OBVIOUS
<1> SUFFICES Reads(o, m, T)
  OBVIOUS
<1> HIDE DEF o, T, F
<1> QED
  BY <1>3, <1>4, <1>5, <1>6, <1>7, <1>8, RenamedReads

LEMMA SubscriptionsRead ==
  ASSUME NEW m, NEW n, Marked(m, SubscriptionInfo, n)
  PROVE  Reads(SubInfo(infoFromProto(m)), m, SubscriptionInfo)
<1> DEFINE o == SubInfo(infoFromProto(m))
           T == SubscriptionInfo
           F == {"id", "selector", "subscription_name", "created_at", "pool_size",
                  "checkpoint"}
<1>1. DOMAIN T = F \cup {"type"} /\ (\A f \in F : T[f] = Scalar) /\ T["type"] = Enum(SubscriptionType)
  BY DEF SubscriptionInfo, Plain, ++
<1>2. SubscriptionType # <<>>
  BY DEF SubscriptionType
<1>3. /\ Scalars(T) = F \cup {"type"} /\ NoVerdict(T)
      /\ T["type"].enum # <<>> /\ \A f \in F : T[f].enum = <<>>
  <2> HIDE DEF T, F
  <2>1. "type" \notin F
    BY DEF F
  <2> QED
    BY <1>1, <1>2, <2>1, EnumFields
<1>4. DOMAIN o = ((F \cup {"type"}) \ {"subscription_name"}) \cup {"name"}
  BY DEF SubInfo, infoFromProto
<1>5. \A g \in F \ {"subscription_name"} : o[g] = Taken(g, m)
  BY DEF SubInfo, infoFromProto, Taken, Texts, Millis, Micros
<1>6. o["name"] = Taken("subscription_name", m)
  BY DEF SubInfo, infoFromProto, Taken, Texts, Millis, Micros
<1>7. "name" \notin F \cup {"type"} /\ "subscription_name" \in F /\ <<"name", "subscription_name">> \in Renames
  BY DEF Renames
<1>8. Marked(m, T, n)
  OBVIOUS
<1> SUFFICES Reads(o, m, T)
  OBVIOUS
<1> HIDE DEF o, T, F
<1> QED
  BY <1>3, <1>4, <1>5, <1>6, <1>7, <1>8, RenamedReads

LEMMA InstancesRead ==
  ASSUME NEW m, NEW n, Marked(m, StoreInstance, n)
  PROVE  Reads(Instance(instanceFromProto(m)), m, StoreInstance)
<1> DEFINE o == Instance(instanceFromProto(m))
           T == StoreInstance
           F == {"store_id", "node", "data_dir", "timeout_ms", "registered_at_us"}
<1>1. DOMAIN T = F \cup {"mode"} /\ (\A f \in F : T[f] = Scalar) /\ T["mode"] = Enum(StoreMode)
  BY DEF StoreInstance, Plain, ++
<1>2. StoreMode # <<>>
  BY DEF StoreMode
<1>3. /\ Scalars(T) = F \cup {"mode"} /\ NoVerdict(T)
      /\ T["mode"].enum # <<>> /\ \A f \in F : T[f].enum = <<>>
  <2> HIDE DEF T, F
  <2>1. "mode" \notin F
    BY DEF F
  <2> QED
    BY <1>1, <1>2, <2>1, EnumFields
<1>4. DOMAIN o = ((F \cup {"mode"}) \ {"registered_at_us"}) \cup {"registered_at"}
  BY DEF Instance, instanceFromProto
<1>5. \A g \in F \ {"registered_at_us"} : o[g] = Taken(g, m)
  BY DEF Instance, instanceFromProto, Taken, Texts, Millis, Micros
<1>6. o["registered_at"] = Taken("registered_at_us", m)
  BY DEF Instance, instanceFromProto, Taken, Texts, Millis, Micros
<1>7. "registered_at" \notin F \cup {"mode"} /\ "registered_at_us" \in F /\ <<"registered_at", "registered_at_us">> \in Renames
  BY DEF Renames
<1>8. Marked(m, T, n)
  OBVIOUS
<1> SUFFICES Reads(o, m, T)
  OBVIOUS
<1> HIDE DEF o, T, F
<1> QED
  BY <1>3, <1>4, <1>5, <1>6, <1>7, <1>8, RenamedReads

LEMMA RecordsRead ==
  ASSUME NEW m, NEW n, Marked(m, SnapshotRecord, n)
  PROVE  Reads(Snapshot(recordFromProto(m)), m, SnapshotRecord)
<1> DEFINE o == Snapshot(recordFromProto(m))
           T == SnapshotRecord
           F == {"stream_id", "version", "data", "metadata", "timestamp",
                  "anchor_hash"}
<1>1. T = Plain(F)
  BY DEF SnapshotRecord
<1>3. Scalars(T) = F /\ NoVerdict(T) /\ \A f \in F : T[f].enum = <<>>
  BY <1>1, PlainFields
<1>4. DOMAIN o = F
  BY DEF Snapshot, recordFromProto
<1>5. \A g \in F : o[g] = Taken(g, m)
  BY DEF Snapshot, recordFromProto, Taken, Texts, Millis, Micros
<1>8. Marked(m, T, n)
  OBVIOUS
<1> SUFFICES Reads(o, m, T)
  OBVIOUS
<1> HIDE DEF o, T, F
<1> QED
  BY <1>3, <1>4, <1>5, <1>8, PlainReads

LEMMA SchemasRead ==
  ASSUME NEW m, NEW n, Marked(m, GetSchemaResponse, n)
  PROVE  Reads(SchemaDef(definitionFromProto(m)), m, GetSchemaResponse)
<1> DEFINE o == SchemaDef(definitionFromProto(m))
           T == GetSchemaResponse
           F == {"event_type", "schema", "version"}
<1>1. T = Plain(F)
  BY DEF GetSchemaResponse
<1>3. Scalars(T) = F /\ NoVerdict(T) /\ \A f \in F : T[f].enum = <<>>
  BY <1>1, PlainFields
<1>4. DOMAIN o = F
  BY DEF SchemaDef, definitionFromProto
<1>5. \A g \in F : o[g] = Taken(g, m)
  BY DEF SchemaDef, definitionFromProto, Taken, Texts, Millis, Micros
<1>8. Marked(m, T, n)
  OBVIOUS
<1> SUFFICES Reads(o, m, T)
  OBVIOUS
<1> HIDE DEF o, T, F
<1> QED
  BY <1>3, <1>4, <1>5, <1>8, PlainReads

LEMMA ScavengesRead ==
  ASSUME NEW m, NEW n, Marked(m, ScavengeResponse, n)
  PROVE  Reads(ScavengeResult(scavengeResultFromProto(m)), m, ScavengeResponse)
<1> DEFINE o == ScavengeResult(scavengeResultFromProto(m))
           T == ScavengeResponse
           F == {"events_removed", "events_remaining", "space_reclaimed_bytes",
                  "details"}
<1>1. T = Plain(F)
  BY DEF ScavengeResponse
<1>3. Scalars(T) = F /\ NoVerdict(T) /\ \A f \in F : T[f].enum = <<>>
  BY <1>1, PlainFields
<1>4. DOMAIN o = F
  BY DEF ScavengeResult, scavengeResultFromProto
<1>5. \A g \in F : o[g] = Taken(g, m)
  BY DEF ScavengeResult, scavengeResultFromProto, Taken, Texts, Millis, Micros
<1>8. Marked(m, T, n)
  OBVIOUS
<1> SUFFICES Reads(o, m, T)
  OBVIOUS
<1> HIDE DEF o, T, F
<1> QED
  BY <1>3, <1>4, <1>5, <1>8, PlainReads

LEMMA ClustersRead ==
  ASSUME NEW m, NEW n, Marked(m, CatalogueClusterStatus, n)
  PROVE  Reads(Cluster(catalogueClusterInfoFromProto(m)), m, CatalogueClusterStatus)
<1> DEFINE o == Cluster(catalogueClusterInfoFromProto(m))
           T == CatalogueClusterStatus
           F == {"cluster_id", "members", "store_count", "status", "last_refresh",
                  "last_error"}
<1>1. T = Plain(F)
  BY DEF CatalogueClusterStatus
<1>3. Scalars(T) = F /\ NoVerdict(T) /\ \A f \in F : T[f].enum = <<>>
  BY <1>1, PlainFields
<1>4. DOMAIN o = F
  BY DEF Cluster, catalogueClusterInfoFromProto
<1>5. \A g \in F : o[g] = Taken(g, m)
  BY DEF Cluster, catalogueClusterInfoFromProto, Taken, Texts, Millis, Micros
<1>8. Marked(m, T, n)
  OBVIOUS
<1> SUFFICES Reads(o, m, T)
  OBVIOUS
<1> HIDE DEF o, T, F
<1> QED
  BY <1>3, <1>4, <1>5, <1>8, PlainReads

LEMMA CountsRead ==
  ASSUME NEW m, NEW n, Marked(m, EventTypeSummaryEntry, n)
  PROVE  Reads(EventTypeCount([EventType |-> Get(m, "event_type"),
                               Count |-> Get(m, "count")]), m, EventTypeSummaryEntry)
<1> DEFINE o == EventTypeCount([EventType |-> Get(m, "event_type"),
                               Count |-> Get(m, "count")])
           T == EventTypeSummaryEntry
           F == {"event_type", "count"}
<1>1. T = Plain(F)
  BY DEF EventTypeSummaryEntry
<1>3. Scalars(T) = F /\ NoVerdict(T) /\ \A f \in F : T[f].enum = <<>>
  BY <1>1, PlainFields
<1>4. DOMAIN o = F
  BY DEF EventTypeCount
<1>5. \A g \in F : o[g] = Taken(g, m)
  BY DEF EventTypeCount, Taken, Texts, Millis, Micros
<1>8. Marked(m, T, n)
  OBVIOUS
<1> SUFFICES Reads(o, m, T)
  OBVIOUS
<1> HIDE DEF o, T, F
<1> QED
  BY <1>3, <1>4, <1>5, <1>8, PlainReads

LEMMA LinksRead ==
  ASSUME NEW m, NEW n, Marked(m, LinkInfo, n)
  PROVE  Reads(LinkSpec([Name |-> Get(m, "name"), Source |-> Get(m, "source"),
                         Target |-> Get(m, "target"), Options |-> Get(m, "options")]), m, LinkInfo)
<1> DEFINE o == LinkSpec([Name |-> Get(m, "name"), Source |-> Get(m, "source"),
                         Target |-> Get(m, "target"), Options |-> Get(m, "options")])
           T == LinkInfo
           F == {"name", "source", "target", "options"}
<1>1. T = Plain(F)
  BY DEF LinkInfo
<1>3. Scalars(T) = F /\ NoVerdict(T) /\ \A f \in F : T[f].enum = <<>>
  BY <1>1, PlainFields
<1>4. DOMAIN o = F
  BY DEF LinkSpec
<1>5. \A g \in F : o[g] = Taken(g, m)
  BY DEF LinkSpec, Taken, Texts, Millis, Micros
<1>8. Marked(m, T, n)
  OBVIOUS
<1> SUFFICES Reads(o, m, T)
  OBVIOUS
<1> HIDE DEF o, T, F
<1> QED
  BY <1>3, <1>4, <1>5, <1>8, PlainReads

------------------------------------------------------------------------------
\* What a client knows of an answer of type T: its own data are marked, and so are
\* those of the messages nested in it; of a oneof, only one member is set.
Answers(r, T, n) ==
  /\ Marked(r, T, n)
  /\ \A f \in DOMAIN T : T[f].len > 0 =>
       /\ NestedMarked(r, T, f, n)
       /\ T[f].enum # <<>> /\ r[f] # <<>> => T[f].enum = <<n>>

LEMMA MessageAnswers ==
  ASSUME NEW S, NEW tag \in Seq(S), NEW T, NEW n, NEW shown
  PROVE  Answers(Message(T, tag, n, shown), T, n)
<1> DEFINE m == Message(T, tag, n, shown)
<1>1. Marked(m, T, n)
  BY MessageMarked
<1>2. ASSUME NEW f \in DOMAIN T, T[f].len > 0
      PROVE  /\ NestedMarked(m, T, f, n)
             /\ T[f].enum # <<>> /\ m[f] # <<>> => T[f].enum = <<n>>
  <2>1. NestedMarked(m, T, f, n)
    BY <1>2, MessageNested
  <2>2. ~ Shown(T[f], n, shown) => m[f] = <<>>
    BY <1>2 DEF Message
  <2> QED
    BY <2>1, <2>2 DEF Shown
<1> SUFFICES Answers(m, T, n)
  OBVIOUS
<1> HIDE DEF m
<1> QED
  BY <1>1, <1>2 DEF Answers

\* The objects printed for an answer: one for the answer and each nested message, and
\* blank ones for what it does not hold.
Blank(o) == \A k \in DOMAIN o : o[k] \in {Zero, Epoch1970, <<"unspecified">>}
Renders(objects, r, T) ==
  LET parts == Parts(r, T) IN
  /\ Len(objects) >= Len(parts)
  /\ \A i \in DOMAIN objects :
       IF i \in DOMAIN parts THEN Faithful(objects[i], parts[i]) ELSE Blank(objects[i])
  /\ \A i \in DOMAIN parts \cap DOMAIN objects : Honest(objects[i], parts[i])

Nested(r, T) == {f \in DOMAIN T : T[f].len > 0 /\ r[f] # <<>>}

PartsIn(r, T, f) == [i \in DOMAIN r[f] |-> Part(r[f][i], T[f].of)]

LEMMA OneRenders ==
  ASSUME NEW r, NEW T, Scalars(T) # {}, \A f \in DOMAIN T : T[f].len = 0,
         NEW objects, DOMAIN objects = 1..1, Reads(objects[1], r, T)
  PROVE  Renders(objects, r, T)
<1>1. {f \in DOMAIN T : T[f].len > 0 /\ r[f] # <<>>} = {}
  OBVIOUS
<1>2. Parts(r, T) = <<Part(r, T)>> \o <<>>
  BY <1>1, Zenon DEF Parts
<1>3. Parts(r, T) = <<Part(r, T)>>
  BY <1>2
<1>4. Len(objects) = 1 /\ Len(Parts(r, T)) = 1
  BY <1>3
<1> QED
  BY <1>3, <1>4 DEF Renders, Reads

LEMMA NoneRenders ==
  ASSUME NEW r, NEW T, DOMAIN T = {}
  PROVE  Renders(<<>>, r, T)
<1>1. {f \in DOMAIN T : T[f].len > 0 /\ r[f] # <<>>} = {} /\ Scalars(T) = {}
  BY DEF Scalars
<1>2. Parts(r, T) = <<>> \o <<>>
  BY <1>1, Zenon DEF Parts
<1>3. Parts(r, T) = <<>>
  BY <1>2
<1> QED
  BY <1>3 DEF Renders

LEMMA NestedParts ==
  ASSUME NEW r, NEW T, NEW f, Nested(r, T) = {f}
  PROVE  Parts(r, T) = (IF Scalars(T) = {} THEN <<>> ELSE <<Part(r, T)>>)
                       \o PartsIn(r, T, f)
<1>1. (CHOOSE g \in {f} : TRUE) = f
  OBVIOUS
<1>2. {f} # {}
  OBVIOUS
<1> DEFINE own == IF Scalars(T) = {} THEN <<>> ELSE <<Part(r, T)>>
           rest(N) == IF N = {} THEN <<>>
                      ELSE LET g == CHOOSE g \in N : TRUE
                           IN [i \in DOMAIN r[g] |-> Part(r[g][i], T[g].of)]
<1>3. Parts(r, T) = own \o rest(Nested(r, T))
  BY Zenon DEF Parts, Nested
<1>4. rest({f}) = PartsIn(r, T, f)
  BY <1>1, <1>2, Zenon DEF PartsIn
<1> HIDE DEF own, rest
<1>5. Parts(r, T) = own \o rest({f})
  BY <1>3, Zenon
<1> QED
  BY <1>4, <1>5, Zenon DEF own

LEMMA UnsetParts ==
  ASSUME NEW r, NEW T, \A g \in DOMAIN T : T[g].len > 0 => r[g] = <<>>
  PROVE  Parts(r, T) = (IF Scalars(T) = {} THEN <<>> ELSE <<Part(r, T)>>)
<1>1. {g \in DOMAIN T : T[g].len > 0 /\ r[g] # <<>>} = {}
  OBVIOUS
<1>2. Parts(r, T) = (IF Scalars(T) = {} THEN <<>> ELSE <<Part(r, T)>>) \o <<>>
  BY <1>1, Zenon DEF Parts
<1>3. <<>> \o <<>> = <<>> /\ <<Part(r, T)>> \o <<>> = <<Part(r, T)>>
  OBVIOUS
<1> QED
  BY <1>2, <1>3

LEMMA ListRenders ==
  ASSUME NEW r, NEW T, NEW n, Answers(r, T, n), NEW f, DOMAIN T = {f}, T[f].len = 2,
         NEW objects, DOMAIN objects = DOMAIN r[f],
         \A i \in DOMAIN objects : Reads(objects[i], r[f][i], T[f].of)
  PROVE  Renders(objects, r, T)
<1>1. Scalars(T) = {}
  BY DEF Scalars
<1>2. r[f] = <<>> \/ DOMAIN r[f] = 1..2
  BY DEF Answers, NestedMarked
<1>3. CASE r[f] = <<>>
  <2>1. Parts(r, T) = <<>>
    BY <1>1, <1>3, UnsetParts
  <2>2. DOMAIN objects = {}
    BY <1>3
  <2>3. Len(objects) = 0
    BY <1>3
  <2> QED
    BY <2>1, <2>2, <2>3 DEF Renders
<1>4. CASE r[f] # <<>>
  <2> DEFINE parts == [i \in 1..2 |-> Part(r[f][i], T[f].of)]
  <2>1. Nested(r, T) = {f}
    BY <1>4 DEF Nested
  <2>2. Parts(r, T) = <<>> \o parts
    <3>1. Parts(r, T) = (IF Scalars(T) = {} THEN <<>> ELSE <<Part(r, T)>>)
                        \o PartsIn(r, T, f)
      BY <2>1, NestedParts
    <3>2. PartsIn(r, T, f) = parts
      BY <1>2, <1>4, Zenon DEF PartsIn
    <3> HIDE DEF parts
    <3> QED
      BY <1>1, <3>1, <3>2
  <2>3. parts \in Seq({Part(r[f][1], T[f].of), Part(r[f][2], T[f].of)}) /\ Len(parts) = 2
    OBVIOUS
  <2>4. Parts(r, T) = parts
    BY <2>2, <2>3
  <2>5. DOMAIN objects = 1..2 /\ Len(objects) = 2
    BY <1>2, <1>4
  <2>6. \A i \in 1..2 : parts[i] = Part(r[f][i], T[f].of)
    OBVIOUS
  <2>7. DOMAIN parts = 1..2
    OBVIOUS
  <2> HIDE DEF parts
  <2>8. \A i \in 1..2 : Faithful(objects[i], parts[i]) /\ Honest(objects[i], parts[i])
    BY <2>5, <2>6 DEF Reads
  <2>9. Len(Parts(r, T)) = 2 /\ DOMAIN Parts(r, T) = 1..2
    BY <2>3, <2>4, <2>7, Zenon
  <2>10. Len(objects) >= Len(Parts(r, T))
    BY <2>5, <2>9
  <2> QED
    BY <2>4, <2>5, <2>8, <2>9, <2>10 DEF Renders
<1> QED
  BY <1>3, <1>4

\* The answer's own data and one nested field, set or not.
LEMMA OwnRenders ==
  ASSUME NEW r, NEW T, NEW n, Answers(r, T, n), NEW f \in DOMAIN T, NEW k \in {1, 2},
         T[f].len = k, Scalars(T) = DOMAIN T \ {f}, Scalars(T) # {},
         NEW objects, DOMAIN objects = 1..Len(objects), Len(objects) \in Nat,
         Len(objects) > 0, Reads(objects[1], r, T),
         r[f] # <<>> => Len(objects) = k + 1,
         \A i \in DOMAIN r[f] : Reads(objects[i + 1], r[f][i], T[f].of),
         r[f] = <<>> => \A i \in DOMAIN objects \ {1} : Blank(objects[i])
  PROVE  Renders(objects, r, T)
<1>1. r[f] = <<>> \/ DOMAIN r[f] = 1..k
  <2>1. NestedMarked(r, T, f, n)
    BY DEF Answers
  <2> QED
    BY <2>1 DEF NestedMarked
<1>2. \A g \in DOMAIN T : T[g].len > 0 => g = f
  BY DEF Scalars
<1>3. CASE r[f] = <<>>
  <2>1. Parts(r, T) = <<Part(r, T)>>
    BY <1>2, <1>3, UnsetParts
  <2> QED
    BY <1>3, <2>1 DEF Renders, Reads
<1>4. CASE r[f] # <<>>
  <2> DEFINE nested == [i \in 1..k |-> Part(r[f][i], T[f].of)]
  <2>1. Nested(r, T) = {f}
    <3>1. T[f].len > 0
      OBVIOUS
    <3> QED
      BY <1>2, <1>4, <3>1 DEF Nested
  <2>2. Parts(r, T) = <<Part(r, T)>> \o nested
    <3>1. Parts(r, T) = (IF Scalars(T) = {} THEN <<>> ELSE <<Part(r, T)>>)
                        \o PartsIn(r, T, f)
      BY <2>1, NestedParts
    <3>2. PartsIn(r, T, f) = nested
      BY <1>1, <1>4, Zenon DEF PartsIn
    <3> HIDE DEF nested
    <3> QED
      BY <3>1, <3>2
  <2>3. nested \in Seq({Part(r[f][i], T[f].of) : i \in 1..k}) /\ Len(nested) = k
    OBVIOUS
  <2>4. \A i \in 1..k : nested[i] = Part(r[f][i], T[f].of)
    OBVIOUS
  <2> HIDE DEF nested
  <2>5. /\ Len(Parts(r, T)) = k + 1 /\ DOMAIN Parts(r, T) = 1..(k + 1)
        /\ Parts(r, T)[1] = Part(r, T)
        /\ \A i \in 1..k : Parts(r, T)[i + 1] = nested[i]
    BY <2>2, <2>3, SMTT(30)
  <2>6. \A i \in 2..(k + 1) : i - 1 \in 1..k /\ (i - 1) + 1 = i
    OBVIOUS
  <2>7. \A i \in 2..(k + 1) : Reads(objects[i], r[f][i - 1], T[f].of)
    BY <1>1, <1>4, <2>6
  <2>8. \A i \in 2..(k + 1) : Parts(r, T)[i] = Part(r[f][i - 1], T[f].of)
    BY <2>4, <2>5, <2>6
  <2>9. \A i \in 1..(k + 1) : i = 1 \/ i \in 2..(k + 1)
    OBVIOUS
  <2>10. \A i \in 1..(k + 1) :
           Faithful(objects[i], Parts(r, T)[i]) /\ Honest(objects[i], Parts(r, T)[i])
    BY <2>5, <2>7, <2>8, <2>9 DEF Reads
  <2> QED
    BY <1>4, <2>5, <2>10 DEF Renders
<1> QED
  BY <1>3, <1>4
------------------------------------------------------------------------------
\* Verdicts: what the enum's conversion makes of a number is no better than the
\* value behind it.
LEMMA NumberOf ==
  ASSUME NEW names, NEW n \in Nat, Len(names) \in Nat
  PROVE  \/ Number(names, n) = <<"unknown">>
         \/ \E i \in 1..Len(names) : Number(names, n) = <<names[i]>>
<1>1. n < Len(names) => n + 1 \in 1..Len(names)
  OBVIOUS
<1> QED
  BY <1>1 DEF Number

LEMMA HealthHonest ==
  ASSUME NEW n \in Nat, NEW w, w = Number(HealthStatus, n)
  PROVE  Severity(statusFromProto(w)[1]) >= Severity(w[1])
<1>1. Len(HealthStatus) = 3
  BY DEF HealthStatus
<1>2. w \in {<<HealthStatus[1]>>, <<HealthStatus[2]>>, <<HealthStatus[3]>>, <<"unknown">>}
  BY <1>1, NumberOf
<1>3. w \in {<<"HEALTH_STATUS_HEALTHY">>, <<"HEALTH_STATUS_DEGRADED">>,
             <<"HEALTH_STATUS_UNHEALTHY">>, <<"unknown">>}
  BY <1>2 DEF HealthStatus
<1> QED
  BY <1>3 DEF statusFromProto, Severity

LEMMA ClusterHonest ==
  ASSUME NEW n \in Nat, NEW w, w = Number(ClusterStatus, n)
  PROVE  Severity(clusterStatusFromProto(w)[1]) >= Severity(w[1])
<1>1. Len(ClusterStatus) = 4
  BY DEF ClusterStatus
<1>2. w \in {<<ClusterStatus[1]>>, <<ClusterStatus[2]>>, <<ClusterStatus[3]>>,
             <<ClusterStatus[4]>>, <<"unknown">>}
  BY <1>1, NumberOf
<1>3. w \in {<<"CLUSTER_STATUS_HEALTHY">>, <<"CLUSTER_STATUS_DEGRADED">>,
             <<"CLUSTER_STATUS_SPLIT_BRAIN">>, <<"CLUSTER_STATUS_NO_QUORUM">>,
             <<"unknown">>}
  BY <1>2 DEF ClusterStatus
<1> QED
  BY <1>3 DEF clusterStatusFromProto, Severity

LEMMA LevelHonest ==
  ASSUME NEW n \in Nat, NEW w, w = Number(MemoryLevel, n), w # <<"unknown">>
  PROVE  Severity(memoryLevelFromProto(w)[1]) >= Severity(w[1])
<1>1. Len(MemoryLevel) = 4
  BY DEF MemoryLevel
<1>2. w \in {<<MemoryLevel[1]>>, <<MemoryLevel[2]>>, <<MemoryLevel[3]>>,
             <<MemoryLevel[4]>>}
  BY <1>1, NumberOf
<1>3. w \in {<<"MEMORY_LEVEL_LOW">>, <<"MEMORY_LEVEL_NORMAL">>,
             <<"MEMORY_LEVEL_HIGH">>, <<"MEMORY_LEVEL_CRITICAL">>}
  BY <1>2 DEF MemoryLevel
<1> QED
  BY <1>3 DEF memoryLevelFromProto, Severity

LEMMA ChangeHonest ==
  ASSUME NEW n \in Nat, NEW w, w = Number(StoreEventType, n), w # <<"unknown">>
  PROVE  Severity(eventTypeFromProto(w)[1]) >= Severity(w[1])
<1>1. Len(StoreEventType) = 3
  BY DEF StoreEventType
<1>2. w \in {<<StoreEventType[1]>>, <<StoreEventType[2]>>, <<StoreEventType[3]>>}
  BY <1>1, NumberOf
<1>3. w \in {<<"STORE_EVENT_TYPE_UNSPECIFIED">>, <<"STORE_EVENT_TYPE_ANNOUNCED">>,
             <<"STORE_EVENT_TYPE_RETIRED">>}
  BY <1>2 DEF StoreEventType
<1> QED
  BY <1>3 DEF eventTypeFromProto, Severity

\* An object with a verdict v reads well if the verdict is no better than the wire's.
LEMMA VerdictReads ==
  ASSUME NEW m, NEW T, NEW n, Marked(m, T, n), NEW o, NEW v \in {"status", "level"},
         DOMAIN o = Scalars(T), v \in Scalars(T), T[v].enum # <<>>,
         \A k \in Scalars(T) \ {v} : T[k].enum = <<>> /\ o[k] = Taken(k, m),
         m[v] # <<"unknown">> \/ v = "status" =>
           Severity(o[v][1]) >= Severity(m[v][1])
  PROVE  Reads(o, m, T)
<1> DEFINE part == Part(m, T)
<1>1. \A k \in DOMAIN o : WireName(k, part) = k
  BY PartFields DEF WireName
<1>2. DOMAIN part = Scalars(T)
  BY PartFields
<1>3. \A f \in Scalars(T) : part[f].data = m[f] /\ part[f].kind = T[f]
  BY PartFields
<1> HIDE DEF part
<1>4. Faithful(o, part)
  <2>1. {WireName(k, part) : k \in DOMAIN o} = DOMAIN part
    BY <1>1, <1>2
  <2>2. \A k \in DOMAIN o : part[k].kind.enum = <<>> => o[k] = Instant(k, part[k].data)
    BY <1>3 DEF Marked
  <2> QED
    BY <1>1, <2>1, <2>2 DEF Faithful
<1>5. Honest(o, part)
  BY <1>1, <1>2, <1>3 DEF Honest
<1> QED
  BY <1>4, <1>5 DEF Reads, part

LEMMA ChecksRead ==
  ASSUME NEW m, NEW n \in Nat, Marked(m, HealthCheckResponse, n)
  PROVE  Reads(CheckResult([Status |-> statusFromProto(Get(m, "status")),
                            Details |-> Get(m, "details")]), m, HealthCheckResponse)
<1> DEFINE o == CheckResult([Status |-> statusFromProto(Get(m, "status")),
                             Details |-> Get(m, "details")])
           T == HealthCheckResponse
<1>1. DOMAIN T = {"details", "status"} /\ T["details"] = Scalar /\ T["status"] = Enum(HealthStatus)
  BY DEF HealthCheckResponse, Plain, ++
<1>2. Scalar.enum = <<>> /\ Scalar.len = 0 /\ Enum(HealthStatus).enum = HealthStatus
        /\ Enum(HealthStatus).len = 0 /\ HealthStatus # <<>>
  BY DEF Scalar, Enum, HealthStatus
<1>3. Marked(m, T, n)
  OBVIOUS
<1>4. DOMAIN o = {"details", "status"} /\ o["status"] = statusFromProto(Get(m, "status"))
        /\ o["details"] = Taken("details", m)
  BY DEF CheckResult, Taken, Texts, Millis, Micros
<1> SUFFICES Reads(o, m, T)
  OBVIOUS
<1> HIDE DEF o, T
<1>5. Scalars(T) = {"details", "status"}
  BY <1>1, <1>2 DEF Scalars
<1>6. Get(m, "status") = m["status"] /\ m["status"] = Number(HealthStatus, n)
  BY <1>1, <1>2, <1>3, <1>5 DEF Marked, Get
<1> QED
  BY <1>1, <1>2, <1>3, <1>4, <1>5, <1>6, HealthHonest, VerdictReads

LEMMA ClusterChecksRead ==
  ASSUME NEW m, NEW n \in Nat, Marked(m, ClusterCheckResponse, n)
  PROVE  Reads(CheckResult([Status |-> clusterStatusFromProto(Get(m, "status")),
                            Details |-> Get(m, "details")]), m, ClusterCheckResponse)
<1> DEFINE o == CheckResult([Status |-> clusterStatusFromProto(Get(m, "status")),
                             Details |-> Get(m, "details")])
           T == ClusterCheckResponse
<1>1. DOMAIN T = {"details", "status"} /\ T["details"] = Scalar /\ T["status"] = Enum(ClusterStatus)
  BY DEF ClusterCheckResponse, Plain, ++
<1>2. Scalar.enum = <<>> /\ Scalar.len = 0 /\ Enum(ClusterStatus).enum = ClusterStatus
        /\ Enum(ClusterStatus).len = 0 /\ ClusterStatus # <<>>
  BY DEF Scalar, Enum, ClusterStatus
<1>3. Marked(m, T, n)
  OBVIOUS
<1>4. DOMAIN o = {"details", "status"} /\ o["status"] = clusterStatusFromProto(Get(m, "status"))
        /\ o["details"] = Taken("details", m)
  BY DEF CheckResult, Taken, Texts, Millis, Micros
<1> SUFFICES Reads(o, m, T)
  OBVIOUS
<1> HIDE DEF o, T
<1>5. Scalars(T) = {"details", "status"}
  BY <1>1, <1>2 DEF Scalars
<1>6. Get(m, "status") = m["status"] /\ m["status"] = Number(ClusterStatus, n)
  BY <1>1, <1>2, <1>3, <1>5 DEF Marked, Get
<1> QED
  BY <1>1, <1>2, <1>3, <1>4, <1>5, <1>6, ClusterHonest, VerdictReads

LEMMA HealthReads ==
  ASSUME NEW m, NEW n \in Nat, Marked(m, HealthResponse, n)
  PROVE  Reads(HealthResult(HealthResults(m)["Health"][1]), m, HealthResponse)
<1> DEFINE o == HealthResult(HealthResults(m)["Health"][1])
           T == HealthResponse
           F == {"stores", "total_workers", "node", "timestamp"}
<1>1. DOMAIN T = F \cup {"status"} /\ (\A f \in F : T[f] = Scalar)
        /\ T["status"] = Enum(HealthStatus)
  BY DEF HealthResponse, Plain, ++
<1>2. Scalar.enum = <<>> /\ Scalar.len = 0 /\ Enum(HealthStatus).enum = HealthStatus
        /\ Enum(HealthStatus).len = 0 /\ HealthStatus # <<>>
  BY DEF Scalar, Enum, HealthStatus
<1>3. Marked(m, T, n)
  OBVIOUS
<1>4. DOMAIN o = F \cup {"status"} /\ o["status"] = statusFromProto(Get(m, "status"))
  BY DEF HealthResult, HealthResults
<1>5. \A k \in F : o[k] = Taken(k, m)
  BY DEF HealthResult, HealthResults, Taken, Texts, Millis, Micros
<1>6. "status" \notin F
  OBVIOUS
<1> SUFFICES Reads(o, m, T)
  OBVIOUS
<1> HIDE DEF o, T, F
<1>7. Scalars(T) = F \cup {"status"}
  BY <1>1, <1>2 DEF Scalars
<1>8. Get(m, "status") = m["status"] /\ m["status"] = Number(HealthStatus, n)
  BY <1>1, <1>2, <1>3, <1>7 DEF Marked, Get
<1> QED
  BY <1>1, <1>2, <1>3, <1>4, <1>5, <1>6, <1>7, <1>8, HealthHonest, VerdictReads

LEMMA LevelReads ==
  ASSUME NEW m, NEW n \in Nat, Marked(m, MemoryLevelResponse, n)
  PROVE  Reads([level |-> memoryLevelFromProto(Get(m, "level"))], m, MemoryLevelResponse)
<1> DEFINE o == [level |-> memoryLevelFromProto(Get(m, "level"))]
           T == MemoryLevelResponse
<1>1. DOMAIN T = {"level"} /\ T["level"] = Enum(MemoryLevel)
  BY DEF MemoryLevelResponse
<1>2. Enum(MemoryLevel).enum = MemoryLevel /\ Enum(MemoryLevel).len = 0 /\ MemoryLevel # <<>>
  BY DEF Scalar, Enum, MemoryLevel
<1>3. Marked(m, T, n)
  OBVIOUS
<1>4. DOMAIN o = {"level"} /\ o["level"] = memoryLevelFromProto(Get(m, "level"))
  OBVIOUS
<1> SUFFICES Reads(o, m, T)
  OBVIOUS
<1> HIDE DEF o, T
<1>5. Scalars(T) = {"level"}
  BY <1>1, <1>2 DEF Scalars
<1>6. Get(m, "level") = m["level"] /\ m["level"] = Number(MemoryLevel, n)
  BY <1>1, <1>2, <1>3, <1>5 DEF Marked, Get
<1> QED
  BY <1>1, <1>2, <1>3, <1>4, <1>5, <1>6, LevelHonest, VerdictReads

LEMMA ChangeReads ==
  ASSUME NEW m, NEW n \in Nat, Marked(m, StoreEvent, n)
  PROVE  Reads(StoreChange([Type |-> eventTypeFromProto(Get(m, "type")),
                            At |-> UnixMicro(Get(m, "event_at_us"))]), m, StoreEvent)
<1> DEFINE o == StoreChange([Type |-> eventTypeFromProto(Get(m, "type")),
                             At |-> UnixMicro(Get(m, "event_at_us"))])
           T == StoreEvent
           part == Part(m, T)
<1>1. /\ DOMAIN T = {"event_at_us", "type", "instance"}
      /\ T["event_at_us"] = Scalar /\ T["type"] = Enum(StoreEventType)
      /\ T["instance"] = One(StoreInstance)
  BY DEF StoreEvent, Plain, ++
<1>2. /\ Scalar.enum = <<>> /\ Scalar.len = 0 /\ Enum(StoreEventType).enum = StoreEventType
      /\ Enum(StoreEventType).len = 0 /\ StoreEventType # <<>> /\ One(StoreInstance).len = 1
  BY DEF Scalar, Enum, StoreEventType, One
<1>3. Marked(m, T, n)
  OBVIOUS
<1>4. /\ DOMAIN o = {"change", "at"} /\ o["change"] = eventTypeFromProto(Get(m, "type"))
      /\ o["at"] = Taken("event_at_us", m)
  BY DEF StoreChange, Taken, Texts, Millis, Micros
<1> SUFFICES Reads(o, m, T)
  OBVIOUS
<1> HIDE DEF o, T
<1>5. Scalars(T) = {"event_at_us", "type"}
  BY <1>1, <1>2 DEF Scalars
<1>6. Get(m, "type") = m["type"] /\ m["type"] = Number(StoreEventType, n)
  BY <1>1, <1>2, <1>3, <1>5 DEF Marked, Get
<1>7. DOMAIN part = {"event_at_us", "type"}
  BY <1>5, PartFields
<1>8. \A f \in Scalars(T) : part[f].data = m[f] /\ part[f].kind = T[f]
  BY PartFields
<1> HIDE DEF part
<1>9. WireName("change", part) = "type" /\ WireName("at", part) = "event_at_us"
  BY <1>7 DEF WireName
<1>10. Faithful(o, part)
  BY <1>1, <1>2, <1>3, <1>4, <1>5, <1>7, <1>8, <1>9 DEF Faithful, Marked
<1>11. Honest(o, part)
  BY <1>4, <1>5, <1>6, <1>8, <1>9, ChangeHonest DEF Honest
<1> QED
  BY <1>10, <1>11 DEF Reads, part
------------------------------------------------------------------------------
\* What is printed for an answer, by the shape of its type.
Single(T) == Scalars(T) # {} /\ \A f \in DOMAIN T : T[f].len = 0

LEMMA PlainRenders ==
  ASSUME NEW F, F # {}, NEW T, T = Plain(F), NEW r, NEW n, Answers(r, T, n),
         NEW objects, DOMAIN objects = 1..1, DOMAIN objects[1] = F,
         \A k \in F : objects[1][k] = Taken(k, r)
  PROVE  Renders(objects, r, T)
<1>1. DOMAIN T = F /\ Scalars(T) = F /\ NoVerdict(T) /\ \A f \in F : T[f].len = 0
  BY PlainFields
<1>2. Reads(objects[1], r, T)
  BY <1>1, PlainReads DEF Answers
<1> QED
  BY <1>1, <1>2, OneRenders

LEMMA Singles ==
  /\ Single(RecordedEvent)
  /\ Single(SnapshotRecord)
  /\ Single(GetSchemaResponse)
  /\ Single(ScavengeResponse)
  /\ Single(LinkInfo)
  /\ Single(SubscriptionInfo)
  /\ Single(HealthCheckResponse)
  /\ Single(HealthResponse)
  /\ Single(ClusterCheckResponse)
  /\ Single(MemoryLevelResponse)
<1>1. Single(RecordedEvent)
  BY PlainFields DEF RecordedEvent, Single
<1>2. Single(SnapshotRecord)
  BY PlainFields DEF SnapshotRecord, Single
<1>3. Single(GetSchemaResponse)
  BY PlainFields DEF GetSchemaResponse, Single
<1>4. Single(ScavengeResponse)
  BY PlainFields DEF ScavengeResponse, Single
<1>5. Single(LinkInfo)
  BY PlainFields DEF LinkInfo, Single
<1>6. Single(SubscriptionInfo)
  <2>1. /\ "id" \in DOMAIN SubscriptionInfo
        /\ \A f \in DOMAIN SubscriptionInfo : SubscriptionInfo[f].len = 0
    BY DEF SubscriptionInfo, Plain, Scalar, Enum, ++
  <2> QED
    BY <2>1 DEF Single, Scalars
<1>7. Single(HealthCheckResponse)
  <2>1. /\ "details" \in DOMAIN HealthCheckResponse
        /\ \A f \in DOMAIN HealthCheckResponse : HealthCheckResponse[f].len = 0
    BY DEF HealthCheckResponse, Plain, Scalar, Enum, ++
  <2> QED
    BY <2>1 DEF Single, Scalars
<1>8. Single(HealthResponse)
  <2>1. /\ "stores" \in DOMAIN HealthResponse
        /\ \A f \in DOMAIN HealthResponse : HealthResponse[f].len = 0
    BY DEF HealthResponse, Plain, Scalar, Enum, ++
  <2> QED
    BY <2>1 DEF Single, Scalars
<1>9. Single(ClusterCheckResponse)
  <2>1. /\ "details" \in DOMAIN ClusterCheckResponse
        /\ \A f \in DOMAIN ClusterCheckResponse : ClusterCheckResponse[f].len = 0
    BY DEF ClusterCheckResponse, Plain, Scalar, Enum, ++
  <2> QED
    BY <2>1 DEF Single, Scalars
<1>10. Single(MemoryLevelResponse)
  <2>1. /\ "level" \in DOMAIN MemoryLevelResponse
        /\ \A f \in DOMAIN MemoryLevelResponse : MemoryLevelResponse[f].len = 0
    BY DEF MemoryLevelResponse, Plain, Scalar, Enum, ++
  <2> QED
    BY <2>1 DEF Single, Scalars
<1> QED
  BY <1>1, <1>2, <1>3, <1>4, <1>5, <1>6, <1>7, <1>8, <1>9, <1>10

LEMMA EventListRenders ==
  ASSUME NEW T, T = [events |-> Many(RecordedEvent)], NEW r, NEW n, Answers(r, T, n),
         NEW objects, DOMAIN objects = DOMAIN Get(r, "events"),
         \A i \in DOMAIN objects : LET m == Get(r, "events")[i] IN
           objects[i] = Event(recordedFromProto(m))
  PROVE  Renders(objects, r, T)
<1>1. DOMAIN T = {"events"} /\ T["events"].len = 2 /\ T["events"].of = RecordedEvent
  BY DEF Many
<1>2. NestedMarked(r, T, "events", n) /\ DOMAIN r = DOMAIN T
  BY <1>1 DEF Answers, Marked
<1>3. Get(r, "events") = r["events"]
  BY <1>1, <1>2 DEF Get
<1>4. \A i \in DOMAIN objects : Marked(r["events"][i], RecordedEvent, n)
  BY <1>1, <1>2, <1>3 DEF NestedMarked
<1>5. \A i \in DOMAIN objects : Reads(objects[i], r["events"][i], RecordedEvent)
  BY <1>3, <1>4, EventsRead
<1> QED
  BY <1>1, <1>3, <1>5, ListRenders

LEMMA SubscriptionListRenders ==
  ASSUME NEW T, T = [subscriptions |-> Many(SubscriptionInfo)], NEW r, NEW n, Answers(r, T, n),
         NEW objects, DOMAIN objects = DOMAIN Get(r, "subscriptions"),
         \A i \in DOMAIN objects : LET m == Get(r, "subscriptions")[i] IN
           objects[i] = SubInfo(infoFromProto(m))
  PROVE  Renders(objects, r, T)
<1>1. DOMAIN T = {"subscriptions"} /\ T["subscriptions"].len = 2 /\ T["subscriptions"].of = SubscriptionInfo
  BY DEF Many
<1>2. NestedMarked(r, T, "subscriptions", n) /\ DOMAIN r = DOMAIN T
  BY <1>1 DEF Answers, Marked
<1>3. Get(r, "subscriptions") = r["subscriptions"]
  BY <1>1, <1>2 DEF Get
<1>4. \A i \in DOMAIN objects : Marked(r["subscriptions"][i], SubscriptionInfo, n)
  BY <1>1, <1>2, <1>3 DEF NestedMarked
<1>5. \A i \in DOMAIN objects : Reads(objects[i], r["subscriptions"][i], SubscriptionInfo)
  BY <1>3, <1>4, SubscriptionsRead
<1> QED
  BY <1>1, <1>3, <1>5, ListRenders

LEMMA RecordListRenders ==
  ASSUME NEW T, T = [snapshots |-> Many(SnapshotRecord)], NEW r, NEW n, Answers(r, T, n),
         NEW objects, DOMAIN objects = DOMAIN Get(r, "snapshots"),
         \A i \in DOMAIN objects : LET m == Get(r, "snapshots")[i] IN
           objects[i] = Snapshot(recordFromProto(m))
  PROVE  Renders(objects, r, T)
<1>1. DOMAIN T = {"snapshots"} /\ T["snapshots"].len = 2 /\ T["snapshots"].of = SnapshotRecord
  BY DEF Many
<1>2. NestedMarked(r, T, "snapshots", n) /\ DOMAIN r = DOMAIN T
  BY <1>1 DEF Answers, Marked
<1>3. Get(r, "snapshots") = r["snapshots"]
  BY <1>1, <1>2 DEF Get
<1>4. \A i \in DOMAIN objects : Marked(r["snapshots"][i], SnapshotRecord, n)
  BY <1>1, <1>2, <1>3 DEF NestedMarked
<1>5. \A i \in DOMAIN objects : Reads(objects[i], r["snapshots"][i], SnapshotRecord)
  BY <1>3, <1>4, RecordsRead
<1> QED
  BY <1>1, <1>3, <1>5, ListRenders

LEMMA InstanceListRenders ==
  ASSUME NEW T, T = [instances |-> Many(StoreInstance)], NEW r, NEW n, Answers(r, T, n),
         NEW objects, DOMAIN objects = DOMAIN Get(r, "instances"),
         \A i \in DOMAIN objects : LET m == Get(r, "instances")[i] IN
           objects[i] = Instance(instanceFromProto(m))
  PROVE  Renders(objects, r, T)
<1>1. DOMAIN T = {"instances"} /\ T["instances"].len = 2 /\ T["instances"].of = StoreInstance
  BY DEF Many
<1>2. NestedMarked(r, T, "instances", n) /\ DOMAIN r = DOMAIN T
  BY <1>1 DEF Answers, Marked
<1>3. Get(r, "instances") = r["instances"]
  BY <1>1, <1>2 DEF Get
<1>4. \A i \in DOMAIN objects : Marked(r["instances"][i], StoreInstance, n)
  BY <1>1, <1>2, <1>3 DEF NestedMarked
<1>5. \A i \in DOMAIN objects : Reads(objects[i], r["instances"][i], StoreInstance)
  BY <1>3, <1>4, InstancesRead
<1> QED
  BY <1>1, <1>3, <1>5, ListRenders

LEMMA SchemaListRenders ==
  ASSUME NEW T, T = [schemas |-> Many(GetSchemaResponse)], NEW r, NEW n, Answers(r, T, n),
         NEW objects, DOMAIN objects = DOMAIN Get(r, "schemas"),
         \A i \in DOMAIN objects : LET m == Get(r, "schemas")[i] IN
           objects[i] = SchemaDef(definitionFromProto(m))
  PROVE  Renders(objects, r, T)
<1>1. DOMAIN T = {"schemas"} /\ T["schemas"].len = 2 /\ T["schemas"].of = GetSchemaResponse
  BY DEF Many
<1>2. NestedMarked(r, T, "schemas", n) /\ DOMAIN r = DOMAIN T
  BY <1>1 DEF Answers, Marked
<1>3. Get(r, "schemas") = r["schemas"]
  BY <1>1, <1>2 DEF Get
<1>4. \A i \in DOMAIN objects : Marked(r["schemas"][i], GetSchemaResponse, n)
  BY <1>1, <1>2, <1>3 DEF NestedMarked
<1>5. \A i \in DOMAIN objects : Reads(objects[i], r["schemas"][i], GetSchemaResponse)
  BY <1>3, <1>4, SchemasRead
<1> QED
  BY <1>1, <1>3, <1>5, ListRenders

LEMMA CountListRenders ==
  ASSUME NEW T, T = [entries |-> Many(EventTypeSummaryEntry)], NEW r, NEW n, Answers(r, T, n),
         NEW objects, DOMAIN objects = DOMAIN Get(r, "entries"),
         \A i \in DOMAIN objects : LET m == Get(r, "entries")[i] IN
           objects[i] = EventTypeCount([EventType |-> Get(m, "event_type"),
                                Count |-> Get(m, "count")])
  PROVE  Renders(objects, r, T)
<1>1. DOMAIN T = {"entries"} /\ T["entries"].len = 2 /\ T["entries"].of = EventTypeSummaryEntry
  BY DEF Many
<1>2. NestedMarked(r, T, "entries", n) /\ DOMAIN r = DOMAIN T
  BY <1>1 DEF Answers, Marked
<1>3. Get(r, "entries") = r["entries"]
  BY <1>1, <1>2 DEF Get
<1>4. \A i \in DOMAIN objects : Marked(r["entries"][i], EventTypeSummaryEntry, n)
  BY <1>1, <1>2, <1>3 DEF NestedMarked
<1>5. \A i \in DOMAIN objects : Reads(objects[i], r["entries"][i], EventTypeSummaryEntry)
  BY <1>3, <1>4, CountsRead
<1> QED
  BY <1>1, <1>3, <1>5, ListRenders

LEMMA ScavengeListRenders ==
  ASSUME NEW T, T = [results |-> Many(ScavengeResponse)], NEW r, NEW n, Answers(r, T, n),
         NEW objects, DOMAIN objects = DOMAIN Get(r, "results"),
         \A i \in DOMAIN objects : LET m == Get(r, "results")[i] IN
           objects[i] = ScavengeResult(scavengeResultFromProto(m))
  PROVE  Renders(objects, r, T)
<1>1. DOMAIN T = {"results"} /\ T["results"].len = 2 /\ T["results"].of = ScavengeResponse
  BY DEF Many
<1>2. NestedMarked(r, T, "results", n) /\ DOMAIN r = DOMAIN T
  BY <1>1 DEF Answers, Marked
<1>3. Get(r, "results") = r["results"]
  BY <1>1, <1>2 DEF Get
<1>4. \A i \in DOMAIN objects : Marked(r["results"][i], ScavengeResponse, n)
  BY <1>1, <1>2, <1>3 DEF NestedMarked
<1>5. \A i \in DOMAIN objects : Reads(objects[i], r["results"][i], ScavengeResponse)
  BY <1>3, <1>4, ScavengesRead
<1> QED
  BY <1>1, <1>3, <1>5, ListRenders

LEMMA LinkListRenders ==
  ASSUME NEW T, T = [links |-> Many(LinkInfo)], NEW r, NEW n, Answers(r, T, n),
         NEW objects, DOMAIN objects = DOMAIN Get(r, "links"),
         \A i \in DOMAIN objects : LET m == Get(r, "links")[i] IN
           objects[i] = LinkSpec([Name |-> Get(m, "name"), Source |-> Get(m, "source"),
                          Target |-> Get(m, "target"), Options |-> Get(m, "options")])
  PROVE  Renders(objects, r, T)
<1>1. DOMAIN T = {"links"} /\ T["links"].len = 2 /\ T["links"].of = LinkInfo
  BY DEF Many
<1>2. NestedMarked(r, T, "links", n) /\ DOMAIN r = DOMAIN T
  BY <1>1 DEF Answers, Marked
<1>3. Get(r, "links") = r["links"]
  BY <1>1, <1>2 DEF Get
<1>4. \A i \in DOMAIN objects : Marked(r["links"][i], LinkInfo, n)
  BY <1>1, <1>2, <1>3 DEF NestedMarked
<1>5. \A i \in DOMAIN objects : Reads(objects[i], r["links"][i], LinkInfo)
  BY <1>3, <1>4, LinksRead
<1> QED
  BY <1>1, <1>3, <1>5, ListRenders

------------------------------------------------------------------------------
\* The tables that are sums of others.
LEMMA StreamsTables ==
  ASSUME NEW s, NEW a, NEW f \in DOMAIN StreamsCalls(s, a)
  PROVE  /\ f \in {"Append", "Read", "ReadBackward", "Watch", "Version", "List", "Delete",
                   "ReadByEventTypes", "ReadByTags", "ReadByMetadata", "ReadAllGlobal",
                   "ReadEffects", "ReadCorrelated", "ReadConversation"}
         /\ f = "Append" => StreamsCalls(s, a)[f] = StreamsAppend(s, a)
         /\ f \in {"Read", "ReadBackward", "Watch"} =>
              StreamsCalls(s, a)[f] = StreamsReads(s, a)[f]
         /\ f \in {"Version", "List", "Delete", "ReadByEventTypes", "ReadByTags",
                   "ReadByMetadata", "ReadAllGlobal"} =>
              StreamsCalls(s, a)[f] = StreamsByKey(s, a)[f]
         /\ f \in {"ReadEffects", "ReadCorrelated", "ReadConversation"} =>
              StreamsCalls(s, a)[f] = StreamsLineage(s, a)[f]
<1> DEFINE one == [Append |-> StreamsAppend(s, a)]
           two == one ++ StreamsReads(s, a)
           three == two ++ StreamsByKey(s, a)
<1>1. StreamsCalls(s, a) = three ++ StreamsLineage(s, a)
  BY DEF StreamsCalls
<1>2. /\ DOMAIN one = {"Append"} /\ one["Append"] = StreamsAppend(s, a)
      /\ DOMAIN StreamsReads(s, a) = {"Read", "ReadBackward", "Watch"}
      /\ DOMAIN StreamsByKey(s, a) = {"Version", "List", "Delete", "ReadByEventTypes",
           "ReadByTags", "ReadByMetadata", "ReadAllGlobal"}
      /\ DOMAIN StreamsLineage(s, a) = {"ReadEffects", "ReadCorrelated", "ReadConversation"}
  BY DEF StreamsReads, StreamsByKey, StreamsLineage
<1> HIDE DEF one
<1>3. /\ DOMAIN two = DOMAIN one \cup DOMAIN StreamsReads(s, a)
      /\ f \in DOMAIN one => two[f] = one[f]
      /\ f \in DOMAIN StreamsReads(s, a) \ DOMAIN one => two[f] = StreamsReads(s, a)[f]
  BY DEF ++
<1> HIDE DEF two
<1>4. /\ DOMAIN three = DOMAIN two \cup DOMAIN StreamsByKey(s, a)
      /\ f \in DOMAIN two => three[f] = two[f]
      /\ f \in DOMAIN StreamsByKey(s, a) \ DOMAIN two => three[f] = StreamsByKey(s, a)[f]
  BY DEF ++
<1> HIDE DEF three
<1>5. /\ DOMAIN StreamsCalls(s, a) = DOMAIN three \cup DOMAIN StreamsLineage(s, a)
      /\ f \in DOMAIN three => StreamsCalls(s, a)[f] = three[f]
      /\ f \in DOMAIN StreamsLineage(s, a) \ DOMAIN three =>
           StreamsCalls(s, a)[f] = StreamsLineage(s, a)[f]
  BY <1>1 DEF ++
<1> QED
  BY <1>2, <1>3, <1>4, <1>5

LEMMA AdminTables ==
  ASSUME NEW s, NEW a, NEW f \in DOMAIN AdminCalls(s, a)
  PROVE  /\ f \in {"Scavenge", "ScavengeDryRun", "ScavengeMatching", "StoreStats",
                   "StreamInfo", "EventTypeSummary", "CreateLink", "DeleteLink", "GetLink",
                   "ListLinks", "StartLink", "StopLink", "LinkInfo", "ReloadCatalogue",
                   "GetCatalogueStatus"}
         /\ f \in {"Scavenge", "ScavengeDryRun", "ScavengeMatching"} =>
              AdminCalls(s, a)[f] = ScavengeCalls(s, a)[f]
         /\ f \in {"StoreStats", "StreamInfo", "EventTypeSummary"} =>
              AdminCalls(s, a)[f] = StatsCalls(s, a)[f]
         /\ f \in {"CreateLink", "DeleteLink", "GetLink", "ListLinks", "StartLink",
                   "StopLink", "LinkInfo"} => AdminCalls(s, a)[f] = LinkCalls(s, a)[f]
         /\ f \in {"ReloadCatalogue", "GetCatalogueStatus"} =>
              AdminCalls(s, a)[f] = CatalogueCalls[f]
<1> DEFINE two == ScavengeCalls(s, a) ++ StatsCalls(s, a)
           three == two ++ LinkCalls(s, a)
<1>1. AdminCalls(s, a) = three ++ CatalogueCalls
  BY DEF AdminCalls
<1>2. /\ DOMAIN ScavengeCalls(s, a) = {"Scavenge", "ScavengeDryRun", "ScavengeMatching"}
      /\ DOMAIN StatsCalls(s, a) = {"StoreStats", "StreamInfo", "EventTypeSummary"}
      /\ DOMAIN LinkCalls(s, a) = {"CreateLink", "DeleteLink", "GetLink", "ListLinks",
           "StartLink", "StopLink", "LinkInfo"}
      /\ DOMAIN CatalogueCalls = {"ReloadCatalogue", "GetCatalogueStatus"}
  BY DEF ScavengeCalls, StatsCalls, LinkCalls, CatalogueCalls
<1>3. /\ DOMAIN two = DOMAIN ScavengeCalls(s, a) \cup DOMAIN StatsCalls(s, a)
      /\ f \in DOMAIN ScavengeCalls(s, a) => two[f] = ScavengeCalls(s, a)[f]
      /\ f \in DOMAIN StatsCalls(s, a) \ DOMAIN ScavengeCalls(s, a) =>
           two[f] = StatsCalls(s, a)[f]
  BY DEF ++
<1> HIDE DEF two
<1>4. /\ DOMAIN three = DOMAIN two \cup DOMAIN LinkCalls(s, a)
      /\ f \in DOMAIN two => three[f] = two[f]
      /\ f \in DOMAIN LinkCalls(s, a) \ DOMAIN two => three[f] = LinkCalls(s, a)[f]
  BY DEF ++
<1> HIDE DEF three
<1>5. /\ DOMAIN AdminCalls(s, a) = DOMAIN three \cup DOMAIN CatalogueCalls
      /\ f \in DOMAIN three => AdminCalls(s, a)[f] = three[f]
      /\ f \in DOMAIN CatalogueCalls \ DOMAIN three =>
           AdminCalls(s, a)[f] = CatalogueCalls[f]
  BY <1>1 DEF ++
<1> QED
  BY <1>2, <1>3, <1>4, <1>5

LEMMA AdminAnswers ==
  ASSUME NEW r, NEW f
  PROVE  /\ f \in {"StoreStats", "StreamInfo", "EventTypeSummary", "Scavenge",
                   "ScavengeDryRun", "ScavengeMatching"} =>
              AdminResults(r)[f] = StatsResults(r)[f]
         /\ f \in {"GetLink", "ListLinks", "LinkInfo"} =>
              AdminResults(r)[f] = LinkResults(r)[f]
         /\ f \in {"ReloadCatalogue", "GetCatalogueStatus"} =>
              AdminResults(r)[f] = CatalogueResults(r)[f]
<1> DEFINE two == StatsResults(r) ++ LinkResults(r)
<1>1. AdminResults(r) = two ++ CatalogueResults(r)
  BY DEF AdminResults
<1>2. /\ DOMAIN StatsResults(r) = {"StoreStats", "StreamInfo", "EventTypeSummary",
           "Scavenge", "ScavengeDryRun", "ScavengeMatching"}
      /\ DOMAIN LinkResults(r) = {"GetLink", "ListLinks", "LinkInfo", "CreateLink",
           "DeleteLink", "StartLink", "StopLink"}
      /\ DOMAIN CatalogueResults(r) = {"ReloadCatalogue", "GetCatalogueStatus"}
  BY DEF StatsResults, LinkResults, CatalogueResults, ++
<1>3. /\ DOMAIN two = DOMAIN StatsResults(r) \cup DOMAIN LinkResults(r)
      /\ f \in DOMAIN StatsResults(r) => two[f] = StatsResults(r)[f]
      /\ f \in DOMAIN LinkResults(r) \ DOMAIN StatsResults(r) => two[f] = LinkResults(r)[f]
  BY DEF ++
<1> HIDE DEF two
<1>4. /\ f \in DOMAIN two => AdminResults(r)[f] = two[f]
      /\ f \in DOMAIN CatalogueResults(r) \ DOMAIN two =>
           AdminResults(r)[f] = CatalogueResults(r)[f]
  BY <1>1 DEF ++
<1> QED
  BY <1>2, <1>3, <1>4

\* What is printed of a message that is not set.
LEMMA Unset ==
  /\ \A f : Get(Zero, f) = Zero
  /\ \A f : UnixMilli(Get(Zero, f)) = Epoch1970 /\ UnixMicro(Get(Zero, f)) = Epoch1970
<1>1. \A f : Get(Zero, f) = Zero
  BY DEF Get, Zero
<1> QED
  BY <1>1 DEF UnixMilli, UnixMicro, In

LEMMA BlankEvent == Blank(Event(recordedFromProto(Zero)))
<1> DEFINE e == recordedFromProto(Zero)
<1>1. /\ e.EventID = Zero /\ e.EventType = Zero /\ e.StreamID = Zero /\ e.Version = Zero
      /\ e.Data = Zero /\ e.Metadata = Zero /\ e.Tags = Zero
      /\ e.Timestamp = Epoch1970 /\ e.Epoch = Epoch1970
      /\ e.DataContentType = Zero /\ e.MetadataContentType = Zero
      /\ e.PrevEventHash = Zero
  BY Unset DEF recordedFromProto
<1> HIDE DEF e
<1>2. Blank(Event(e))
  BY <1>1 DEF Blank, Event
<1> QED
  BY <1>2 DEF e

LEMMA BlankInstance == Blank(Instance(instanceFromProto(Zero)))
<1> DEFINE i == instanceFromProto(Zero)
<1>1. modeFromProto(Zero) = <<"unspecified">>
  BY DEF modeFromProto, Zero
<1>2. /\ i.StoreID = Zero /\ i.Node = Zero /\ i.Mode = <<"unspecified">>
      /\ i.DataDir = Zero /\ i.Timeout = Epoch1970 /\ i.RegisteredAt = Epoch1970
  BY <1>1, Unset DEF instanceFromProto
<1> HIDE DEF i
<1>3. Blank(Instance(i))
  BY <1>2 DEF Blank, Instance
<1> QED
  BY <1>3 DEF i

\* A nested message of an answer is marked; one that is not set is zero.
LEMMA OnlyMarked ==
  ASSUME NEW r, NEW T, NEW n, Answers(r, T, n), NEW f \in DOMAIN T, T[f].len = 1
  PROVE  /\ r[f] # <<>> => /\ DOMAIN r[f] = 1..1 /\ Only(Get(r, f)) = r[f][1]
                           /\ Marked(Only(Get(r, f)), T[f].of, n)
         /\ r[f] = <<>> => Only(Get(r, f)) = Zero
<1>1. NestedMarked(r, T, f, n) /\ Get(r, f) = r[f]
  BY DEF Answers, Marked, Get
<1>2. r[f] = <<>> \/ DOMAIN r[f] = 1..1
  BY <1>1 DEF NestedMarked
<1> QED
  BY <1>1, <1>2 DEF NestedMarked, Only, Zero

LEMMA Prepended ==
  ASSUME NEW R, NEW s \in Seq(R), NEW x, Len(s) = 2
  PROVE  /\ DOMAIN (<<x>> \o s) = 1..3 /\ Len(<<x>> \o s) = 3
         /\ (<<x>> \o s)[1] = x
         /\ \A i \in 1..2 : (<<x>> \o s)[i + 1] = s[i]
  OBVIOUS

\* A sequence made one for one of the elements of another.
OneForOne(objects, s) == objects = [i \in DOMAIN s |-> objects[i]]

\* An answer of one plain field and the events or clusters nested in it.
LEMMA SumRenders ==
  ASSUME NEW E, NEW F, NEW f, f \notin F, F # {}, NEW T,
         DOMAIN T = F \cup {f}, \A k \in F : T[k] = Scalar, T[f] = Many(E),
         NoVerdict(T), NEW r, NEW n, Answers(r, T, n),
         NEW own, DOMAIN own = F, \A k \in F : own[k] = Taken(k, r),
         NEW nested, OneForOne(nested, Get(r, f)),
         \A i \in DOMAIN nested : Marked(Get(r, f)[i], E, n) =>
                                  Reads(nested[i], Get(r, f)[i], E)
  PROVE  Renders(<<own>> \o nested, r, T)
<1>1. /\ Scalar.len = 0 /\ Scalar.enum = <<>> /\ Many(E).len = 2 /\ Many(E).of = E
  BY DEF Scalar, Many
<1>2. Scalars(T) = F
  BY <1>1 DEF Scalars
<1>3. NestedMarked(r, T, f, n) /\ DOMAIN r = DOMAIN T
  BY <1>1 DEF Answers, Marked
<1>4. Get(r, f) = r[f]
  BY <1>3 DEF Get
<1>5. r[f] = <<>> \/ DOMAIN r[f] = 1..2
  BY <1>1, <1>3 DEF NestedMarked
<1>11. DOMAIN nested = DOMAIN Get(r, f)
  BY DEF OneForOne
<1>12. f \in DOMAIN T /\ Scalars(T) = DOMAIN T \ {f} /\ T[f].len = 2
  BY <1>1, <1>2
<1>6. \A i \in DOMAIN r[f] : Marked(r[f][i], E, n)
  BY <1>1, <1>3 DEF NestedMarked
<1>7. \A i \in DOMAIN r[f] : Reads(nested[i], r[f][i], E)
  BY <1>4, <1>6, <1>11
<1>8. Reads(own, r, T)
  BY <1>2, PlainReads DEF Answers
<1>9. CASE r[f] = <<>>
  <2>1. nested = <<>>
    BY <1>4, <1>9 DEF OneForOne
  <2>2. <<own>> \o nested = <<own>>
    BY <2>1
  <2> DEFINE objects == <<own>>
  <2>3. DOMAIN objects = 1..Len(objects) /\ Len(objects) = 1 /\ objects[1] = own
    OBVIOUS
  <2> HIDE DEF objects
  <2>4. DOMAIN r[f] = {} /\ DOMAIN objects \ {1} = {}
    BY <1>9, <2>3
  <2>5. Renders(objects, r, T)
    BY <1>2, <1>8, <1>9, <1>12, <2>3, <2>4, OwnRenders
  <2> QED
    BY <2>2, <2>5 DEF objects
<1>10. CASE DOMAIN r[f] = 1..2
  <2> DEFINE objects == <<own>> \o nested
  <2>1. nested = [i \in 1..2 |-> nested[i]]
    BY <1>4, <1>10 DEF OneForOne
  <2>2. nested \in Seq({nested[1], nested[2]}) /\ Len(nested) = 2
    BY <2>1
  <2>3. /\ DOMAIN objects = 1..Len(objects) /\ Len(objects) = 3 /\ objects[1] = own
        /\ \A i \in 1..2 : objects[i + 1] = nested[i]
    <3>1. DOMAIN objects = 1..3 /\ Len(objects) = 3 /\ objects[1] = own
      BY <2>2, Prepended
    <3>2. \A i \in 1..2 : objects[i + 1] = nested[i]
      BY <2>2, Prepended
    <3> QED
      BY <3>1, <3>2
  <2> HIDE DEF objects
  <2>4. r[f] # <<>>
    BY <1>10
  <2>5. \A i \in DOMAIN r[f] : Reads(objects[i + 1], r[f][i], E)
    BY <1>7, <1>10, <2>3
  <2>6. Renders(objects, r, T)
    BY <1>1, <1>2, <1>8, <1>12, <2>3, <2>4, <2>5, OwnRenders
  <2> QED
    BY <2>6 DEF objects
<1> QED
  BY <1>5, <1>9, <1>10

\* A list of messages is a sequence, set or not.
Listed(s) == s = <<>> \/ s = [i \in 1..2 |-> s[i]]

LEMMA ListedOf ==
  ASSUME NEW r, NEW T, NEW n, Answers(r, T, n), NEW f \in DOMAIN T, T[f].len = 2
  PROVE  Listed(Get(r, f))
<1>1. NestedMarked(r, T, f, n) /\ Get(r, f) = r[f]
  BY DEF Answers, Marked, Get
<1>2. r[f] = <<>> \/ DOMAIN r[f] = 1..2
  BY <1>1 DEF NestedMarked
<1>3. r[f] = [i \in DOMAIN r[f] |-> r[f][i]]
  BY <1>1 DEF NestedMarked
<1>4. DOMAIN r[f] = 1..2 => r[f] = [i \in 1..2 |-> r[f][i]]
  BY <1>3
<1> QED
  BY <1>1, <1>2, <1>4 DEF Listed

LEMMA HeadTail ==
  ASSUME NEW x, NEW s, Listed(s)
  PROVE  (<<x>> \o s)[1] = x /\ Tail(<<x>> \o s) = s
<1>1. CASE s = <<>>
  BY <1>1
<1>2. CASE s = [i \in 1..2 |-> s[i]]
  <2> DEFINE R == {x, s[1], s[2]}
           t == <<x>> \o s
  <2>1. s \in Seq(R) /\ <<x>> \in Seq(R) /\ Len(s) = 2
    BY <1>2
  <2> HIDE DEF R
  <2>2. /\ t \in Seq(R) /\ Len(t) = 3 /\ t[1] = x
        /\ \A i \in 1..2 : t[i + 1] = s[i]
    <3>1. t \in Seq(R)
      BY <2>1, ConcatProperties
    <3>2. Len(t) = 3 /\ t[1] = x /\ \A i \in 1..2 : t[i + 1] = s[i]
      BY <2>1, Prepended
    <3> QED
      BY <3>1, <3>2
  <2> HIDE DEF t
  <2>3. /\ Tail(t) \in Seq(R) /\ Len(Tail(t)) = 2
        /\ \A i \in 1..2 : Tail(t)[i] = t[i + 1]
    <3>1. t # <<>>
      BY <2>2, EmptySeq
    <3> QED
      BY <2>2, <3>1, HeadTailProperties, SMTT(30)
  <2>4. Tail(t) = s
    BY <2>1, <2>2, <2>3, SeqEqual
  <2> QED
    BY <2>2, <2>4 DEF t
<1> QED
  BY <1>1, <1>2 DEF Listed

LEMMA VariantRenders ==
  ASSUME NEW r, NEW T, NEW f, Nested(r, T) = {f}, Scalars(T) = {}, DOMAIN r[f] = 1..1,
         NEW objects, DOMAIN objects = 1..1, Reads(objects[1], r[f][1], T[f].of)
  PROVE  Renders(objects, r, T)
<1> DEFINE parts == [i \in 1..1 |-> Part(r[f][i], T[f].of)]
<1>1. Parts(r, T) = (IF Scalars(T) = {} THEN <<>> ELSE <<Part(r, T)>>) \o PartsIn(r, T, f)
  BY NestedParts
<1>2. PartsIn(r, T, f) = parts
  BY Zenon DEF PartsIn
<1>3. parts \in Seq({Part(r[f][1], T[f].of)}) /\ Len(parts) = 1
  OBVIOUS
<1>4. parts[1] = Part(r[f][1], T[f].of)
  OBVIOUS
<1> HIDE DEF parts
<1>5. Parts(r, T) = parts
  BY <1>1, <1>2, <1>3
<1>6. Len(objects) = 1 /\ DOMAIN parts = 1..1
  BY <1>3
<1>7. Faithful(objects[1], parts[1]) /\ Honest(objects[1], parts[1])
  BY <1>4 DEF Reads
<1>8. DOMAIN parts \cap DOMAIN objects = 1..1 /\ Len(objects) >= Len(parts)
  BY <1>3, <1>6
<1> QED
  BY <1>5, <1>6, <1>7, <1>8 DEF Renders


LEMMA StreamsRender ==
  ASSUME NEW s, NEW a, NEW f \in DOMAIN StreamsCalls(s, a), NEW T,
         T = StreamsStubs[StreamsCalls(s, a)[f].stub].response,
         NEW r, NEW n \in Nat, Answers(r, T, n)
  PROVE  Renders(Printed("streams", f, StreamsResults(r)[f]), r, T)
<1> DEFINE objects == Printed("streams", f, StreamsResults(r)[f])
<1> SUFFICES Renders(objects, r, T)
  OBVIOUS
<1>1. ASSUME f = "Append"
      PROVE  Renders(objects, r, T)
  <2>7. StreamsCalls(s, a)[f] = StreamsAppend(s, a)
    BY <1>1, StreamsTables
  <2>1. T = AppendEventsResponse
    BY <1>1, <2>7, CallFields
       DEF StreamsAppend, StreamsStubs, Unary, Streamed
  <2> DEFINE F == {"version", "position", "count"}
  <2>2. StreamsResults(r)[f] = <<[Version |-> Get(r, "version"), Position |-> Get(r,
            "position"), Count |-> Get(r, "count")]>>
    BY <1>1 DEF StreamsResults, ++
  <2>3. /\ DOMAIN objects = 1..1 /\ DOMAIN objects[1] = F
        /\ objects[1].version = Get(r, "version")
        /\ objects[1].position = Get(r, "position")
        /\ objects[1].count = Get(r, "count")
    BY <1>1, <2>2 DEF Printed, PrintStreams, Each, Value
  <2> HIDE DEF objects
  <2>5. \A k \in F : objects[1][k] = Taken(k, r)
    BY <2>3 DEF Taken, Texts, Millis, Micros
  <2>4. T = Plain(F) /\ F # {}
    BY <2>1 DEF AppendEventsResponse
  <2> HIDE DEF F
  <2> QED
    BY <2>3, <2>4, <2>5, PlainRenders
<1>2. ASSUME f \in {"Read", "ReadBackward", "ReadByEventTypes", "ReadByTags",
               "ReadByMetadata", "ReadAllGlobal", "ReadEffects",
               "ReadCorrelated", "ReadConversation"}
      PROVE  Renders(objects, r, T)
  <2>7. \/ /\ f \in {"Read", "ReadBackward"}
           /\ StreamsCalls(s, a)[f] = StreamsReads(s, a)[f]
        \/ /\ f \in {"ReadByEventTypes", "ReadByTags", "ReadByMetadata", "ReadAllGlobal"}
           /\ StreamsCalls(s, a)[f] = StreamsByKey(s, a)[f]
        \/ /\ f \in {"ReadEffects", "ReadCorrelated", "ReadConversation"}
           /\ StreamsCalls(s, a)[f] = StreamsLineage(s, a)[f]
    BY <1>2, StreamsTables
  <2>1. T = ReadStreamResponse
    BY <1>2, <2>7, CallFields
       DEF StreamsReads, StreamsByKey, StreamsLineage, StreamsStubs, Unary, Streamed
  <2>2. /\ DOMAIN objects = DOMAIN Get(r, "events")
        /\ \A i \in DOMAIN objects : LET m == Get(r, "events")[i] IN
             objects[i] = Event(recordedFromProto(m))
    BY <1>2 DEF Printed, PrintStreams, StreamsResults, ++, Each, Events
  <2>3. T = [events |-> Many(RecordedEvent)]
    BY <2>1 DEF ReadStreamResponse
  <2> HIDE DEF objects
  <2> QED
    BY <2>2, <2>3, EventListRenders
<1>3. ASSUME f = "Watch"
      PROVE  Renders(objects, r, T)
  <2>7. StreamsCalls(s, a)[f] = StreamsReads(s, a)[f]
    BY <1>3, StreamsTables
  <2>1. T = RecordedEvent
    BY <1>3, <2>7, CallFields
       DEF StreamsReads, StreamsStubs, Unary, Streamed
  <2>6. StreamsResults(r)[f] = <<recordedFromProto(r)>>
    BY <1>3 DEF StreamsResults, ++
  <2>2. DOMAIN objects = 1..1
    BY <1>3, <2>6 DEF Printed, PrintStreams, Each
  <2>3. objects[1] = Event(recordedFromProto(r))
    BY <1>3, <2>6 DEF Printed, PrintStreams, Each
  <2>4. Marked(r, T, n)
    BY DEF Answers
  <2>5. Reads(objects[1], r, T)
    BY <2>1, <2>3, <2>4, EventsRead
  <2> HIDE DEF objects
  <2> QED
    BY <2>1, <2>2, <2>5, Singles, OneRenders DEF Single
<1>4. ASSUME f = "Version"
      PROVE  Renders(objects, r, T)
  <2>7. StreamsCalls(s, a)[f] = StreamsByKey(s, a)[f]
    BY <1>4, StreamsTables
  <2>1. T = GetStreamVersionResponse
    BY <1>4, <2>7, CallFields
       DEF StreamsByKey, StreamsStubs, Unary, Streamed
  <2> DEFINE F == {"version"}
  <2>2. StreamsResults(r)[f] = Value(Get(r, "version"))
    BY <1>4 DEF StreamsResults, ++, Value
  <2>3. /\ DOMAIN objects = 1..1 /\ DOMAIN objects[1] = F
        /\ objects[1].version = Get(r, "version")
    BY <1>4, <2>2 DEF Printed, PrintStreams, Each, Value
  <2> HIDE DEF objects
  <2>5. \A k \in F : objects[1][k] = Taken(k, r)
    BY <2>3 DEF Taken, Texts, Millis, Micros
  <2>4. T = Plain(F) /\ F # {}
    BY <2>1 DEF GetStreamVersionResponse
  <2> HIDE DEF F
  <2> QED
    BY <2>3, <2>4, <2>5, PlainRenders
<1>5. ASSUME f = "List"
      PROVE  Renders(objects, r, T)
  <2>7. StreamsCalls(s, a)[f] = StreamsByKey(s, a)[f]
    BY <1>5, StreamsTables
  <2>1. T = ListStreamsResponse
    BY <1>5, <2>7, CallFields
       DEF StreamsByKey, StreamsStubs, Unary, Streamed
  <2> DEFINE F == {"stream_ids"}
  <2>2. StreamsResults(r)[f] = Value(Get(r, "stream_ids"))
    BY <1>5 DEF StreamsResults, ++, Value
  <2>3. /\ DOMAIN objects = 1..1 /\ DOMAIN objects[1] = F
        /\ objects[1].stream_ids = Get(r, "stream_ids")
    BY <1>5, <2>2 DEF Printed, PrintStreams, Each, Value
  <2> HIDE DEF objects
  <2>5. \A k \in F : objects[1][k] = Taken(k, r)
    BY <2>3 DEF Taken, Texts, Millis, Micros
  <2>4. T = Plain(F) /\ F # {}
    BY <2>1 DEF ListStreamsResponse
  <2> HIDE DEF F
  <2> QED
    BY <2>3, <2>4, <2>5, PlainRenders
<1>6. ASSUME f = "Delete"
      PROVE  Renders(objects, r, T)
  <2>7. StreamsCalls(s, a)[f] = StreamsByKey(s, a)[f]
    BY <1>6, StreamsTables
  <2>1. T = DeleteStreamResponse
    BY <1>6, <2>7, CallFields
       DEF StreamsByKey, StreamsStubs, Unary, Streamed
  <2>2. objects = <<>>
    BY <1>6 DEF Printed, PrintStreams, StreamsResults, ++, Each, Nothing
  <2>3. DOMAIN T = {}
    BY <2>1 DEF DeleteStreamResponse, Plain
  <2> QED
    BY <2>2, <2>3, NoneRenders
<1>7. f \in {"Append", "Read", "ReadBackward", "ReadByEventTypes", "ReadByTags",
            "ReadByMetadata", "ReadAllGlobal", "ReadEffects",
            "ReadCorrelated", "ReadConversation", "Watch", "Version",
            "List", "Delete"}
  BY StreamsTables
<1> QED
  BY <1>1, <1>2, <1>3, <1>4, <1>5, <1>6, <1>7

LEMMA SnapshotsRender ==
  ASSUME NEW s, NEW a, NEW f \in DOMAIN SnapshotsCalls(s, a), NEW T,
         T = SnapshotsStubs[SnapshotsCalls(s, a)[f].stub].response,
         NEW r, NEW n \in Nat, Answers(r, T, n)
  PROVE  Renders(Printed("snapshots", f, SnapshotsResults(r)[f]), r, T)
<1> DEFINE objects == Printed("snapshots", f, SnapshotsResults(r)[f])
<1> SUFFICES Renders(objects, r, T)
  OBVIOUS
<1>1. ASSUME f = "Save"
      PROVE  Renders(objects, r, T)
  <2>8. SnapshotsCalls(s, a)[f].stub = "RecordSnapshot"
    BY <1>1, CallFields DEF SnapshotsCalls
  <2>1. T = RecordSnapshotResponse
    BY <2>8 DEF SnapshotsStubs, Unary
  <2>2. objects = <<>>
    BY <1>1 DEF Printed, SnapshotsResults, Each, Nothing
  <2>3. DOMAIN T = {}
    BY <2>1 DEF RecordSnapshotResponse, Plain
  <2> QED
    BY <2>2, <2>3, NoneRenders
<1>2. ASSUME f = "Delete"
      PROVE  Renders(objects, r, T)
  <2>8. SnapshotsCalls(s, a)[f].stub = "DeleteSnapshot"
    BY <1>2, CallFields DEF SnapshotsCalls
  <2>1. T = DeleteSnapshotResponse
    BY <2>8 DEF SnapshotsStubs, Unary
  <2>2. objects = <<>>
    BY <1>2 DEF Printed, SnapshotsResults, Each, Nothing
  <2>3. DOMAIN T = {}
    BY <2>1 DEF DeleteSnapshotResponse, Plain
  <2> QED
    BY <2>2, <2>3, NoneRenders
<1>3. ASSUME f = "At"
      PROVE  Renders(objects, r, T)
  <2>8. SnapshotsCalls(s, a)[f].stub = "ReadSnapshot"
    BY <1>3, CallFields DEF SnapshotsCalls
  <2>1. T = SnapshotRecord
    BY <2>8 DEF SnapshotsStubs, Unary
  <2>2. DOMAIN objects = 1..1
    BY <1>3 DEF Printed, SnapshotsResults, Each, Value
  <2>3. objects[1] = Snapshot(recordFromProto(r))
    BY <1>3 DEF Printed, SnapshotsResults, Each, Value
  <2>4. Marked(r, T, n)
    BY DEF Answers
  <2>5. Reads(objects[1], r, T)
    BY <2>1, <2>3, <2>4, RecordsRead
  <2> HIDE DEF objects
  <2> QED
    BY <2>1, <2>2, <2>5, Singles, OneRenders DEF Single
<1>4. ASSUME f \in {"List", "ListAll"}
      PROVE  Renders(objects, r, T)
  <2>8. SnapshotsCalls(s, a)[f].stub \in {"ListSnapshots", "ListAllSnapshots"}
    <3>1. /\ SnapshotsCalls(s, a)["List"].stub = "ListSnapshots"
          /\ SnapshotsCalls(s, a)["ListAll"].stub = "ListAllSnapshots"
      BY CallFields DEF SnapshotsCalls
    <3> QED
      BY <1>4, <3>1
  <2>1. T = ListSnapshotsResponse
    BY <2>8 DEF SnapshotsStubs, Unary
  <2>2. /\ DOMAIN objects = DOMAIN Get(r, "snapshots")
        /\ \A i \in DOMAIN objects : LET m == Get(r, "snapshots")[i] IN
             objects[i] = Snapshot(recordFromProto(m))
    BY <1>4 DEF Printed, SnapshotsResults, Each
  <2>3. T = [snapshots |-> Many(SnapshotRecord)]
    BY <2>1 DEF ListSnapshotsResponse
  <2> HIDE DEF objects
  <2> QED
    BY <2>2, <2>3, RecordListRenders
<1> QED
  BY <1>1, <1>2, <1>3, <1>4
     DEF SnapshotsCalls

LEMMA TemporalRender ==
  ASSUME NEW s, NEW a, NEW f \in DOMAIN TemporalCalls(s, a), NEW T,
         T = TemporalStubs[TemporalCalls(s, a)[f].stub].response,
         NEW r, NEW n \in Nat, Answers(r, T, n)
  PROVE  Renders(Printed("temporal", f, TemporalResults(r)[f]), r, T)
<1> DEFINE objects == Printed("temporal", f, TemporalResults(r)[f])
<1> SUFFICES Renders(objects, r, T)
  OBVIOUS
<1>1. ASSUME f = "Until"
      PROVE  Renders(objects, r, T)
  <2>1. T = ReadUntilResponse
    BY <1>1, CallFields DEF TemporalCalls, TemporalStubs, Unary
  <2>2. /\ DOMAIN objects = DOMAIN Get(r, "events")
        /\ \A i \in DOMAIN objects : LET m == Get(r, "events")[i] IN
             objects[i] = Event(recordedFromProto(m))
    BY <1>1 DEF Printed, TemporalResults, Each, Events
  <2>3. T = [events |-> Many(RecordedEvent)]
    BY <2>1 DEF ReadUntilResponse
  <2> HIDE DEF objects
  <2> QED
    BY <2>2, <2>3, EventListRenders
<1>2. ASSUME f = "Range"
      PROVE  Renders(objects, r, T)
  <2>1. T = ReadRangeResponse
    BY <1>2, CallFields DEF TemporalCalls, TemporalStubs, Unary
  <2>2. /\ DOMAIN objects = DOMAIN Get(r, "events")
        /\ \A i \in DOMAIN objects : LET m == Get(r, "events")[i] IN
             objects[i] = Event(recordedFromProto(m))
    BY <1>2 DEF Printed, TemporalResults, Each, Events
  <2>3. T = [events |-> Many(RecordedEvent)]
    BY <2>1 DEF ReadRangeResponse
  <2> HIDE DEF objects
  <2> QED
    BY <2>2, <2>3, EventListRenders
<1>3. ASSUME f = "VersionAt"
      PROVE  Renders(objects, r, T)
  <2>1. T = VersionAtResponse
    BY <1>3, CallFields DEF TemporalCalls, TemporalStubs, Unary
  <2> DEFINE F == {"version"}
  <2>2. TemporalResults(r)[f] = Value(Get(r, "version"))
    BY <1>3 DEF TemporalResults, Value
  <2>3. /\ DOMAIN objects = 1..1 /\ DOMAIN objects[1] = F
        /\ objects[1].version = Get(r, "version")
    BY <1>3, <2>2 DEF Printed, Each, Value
  <2> HIDE DEF objects
  <2>5. \A k \in F : objects[1][k] = Taken(k, r)
    BY <2>3 DEF Taken, Texts, Millis, Micros
  <2>4. T = Plain(F) /\ F # {}
    BY <2>1 DEF VersionAtResponse
  <2> HIDE DEF F
  <2> QED
    BY <2>3, <2>4, <2>5, PlainRenders
<1> QED
  BY <1>1, <1>2, <1>3
     DEF TemporalCalls

LEMMA SchemaRender ==
  ASSUME NEW s, NEW a, NEW f \in DOMAIN SchemaCalls(s, a), NEW T,
         T = SchemaStubs[SchemaCalls(s, a)[f].stub].response,
         NEW r, NEW n \in Nat, Answers(r, T, n)
  PROVE  Renders(Printed("schema", f, SchemaResults(r)[f]), r, T)
<1> DEFINE objects == Printed("schema", f, SchemaResults(r)[f])
<1> SUFFICES Renders(objects, r, T)
  OBVIOUS
<1>1. ASSUME f = "Register"
      PROVE  Renders(objects, r, T)
  <2>1. T = RegisterSchemaResponse
    BY <1>1, CallFields DEF SchemaCalls, SchemaStubs, Unary
  <2>2. objects = <<>>
    BY <1>1 DEF Printed, PrintSchema, SchemaResults, Each, Nothing
  <2>3. DOMAIN T = {}
    BY <2>1 DEF RegisterSchemaResponse, Plain
  <2> QED
    BY <2>2, <2>3, NoneRenders
<1>2. ASSUME f = "Unregister"
      PROVE  Renders(objects, r, T)
  <2>1. T = UnregisterSchemaResponse
    BY <1>2, CallFields DEF SchemaCalls, SchemaStubs, Unary
  <2>2. objects = <<>>
    BY <1>2 DEF Printed, PrintSchema, SchemaResults, Each, Nothing
  <2>3. DOMAIN T = {}
    BY <2>1 DEF UnregisterSchemaResponse, Plain
  <2> QED
    BY <2>2, <2>3, NoneRenders
<1>3. ASSUME f = "Get"
      PROVE  Renders(objects, r, T)
  <2>1. T = GetSchemaResponse
    BY <1>3, CallFields DEF SchemaCalls, SchemaStubs, Unary
  <2>2. DOMAIN objects = 1..1
    BY <1>3 DEF Printed, PrintSchema, SchemaResults, Each, Value
  <2>3. objects[1] = SchemaDef(definitionFromProto(r))
    BY <1>3 DEF Printed, PrintSchema, SchemaResults, Each, Value
  <2>4. Marked(r, T, n)
    BY DEF Answers
  <2>5. Reads(objects[1], r, T)
    BY <2>1, <2>3, <2>4, SchemasRead
  <2> HIDE DEF objects
  <2> QED
    BY <2>1, <2>2, <2>5, Singles, OneRenders DEF Single
<1>4. ASSUME f = "List"
      PROVE  Renders(objects, r, T)
  <2>1. T = ListSchemasResponse
    BY <1>4, CallFields DEF SchemaCalls, SchemaStubs, Unary
  <2>2. /\ DOMAIN objects = DOMAIN Get(r, "schemas")
        /\ \A i \in DOMAIN objects : LET m == Get(r, "schemas")[i] IN
             objects[i] = SchemaDef(definitionFromProto(m))
    BY <1>4 DEF Printed, PrintSchema, SchemaResults, Each
  <2>3. T = [schemas |-> Many(GetSchemaResponse)]
    BY <2>1 DEF ListSchemasResponse
  <2> HIDE DEF objects
  <2> QED
    BY <2>2, <2>3, SchemaListRenders
<1>5. ASSUME f = "Version"
      PROVE  Renders(objects, r, T)
  <2>1. T = GetSchemaVersionResponse
    BY <1>5, CallFields DEF SchemaCalls, SchemaStubs, Unary
  <2> DEFINE F == {"version"}
  <2>2. SchemaResults(r)[f] = Value(Get(r, "version"))
    BY <1>5 DEF SchemaResults, Value
  <2>3. /\ DOMAIN objects = 1..1 /\ DOMAIN objects[1] = F
        /\ objects[1].version = Get(r, "version")
    BY <1>5, <2>2 DEF Printed, PrintSchema, Each, Value
  <2> HIDE DEF objects
  <2>5. \A k \in F : objects[1][k] = Taken(k, r)
    BY <2>3 DEF Taken, Texts, Millis, Micros
  <2>4. T = Plain(F) /\ F # {}
    BY <2>1 DEF GetSchemaVersionResponse
  <2> HIDE DEF F
  <2> QED
    BY <2>3, <2>4, <2>5, PlainRenders
<1>6. ASSUME f = "Upcast"
      PROVE  Renders(objects, r, T)
  <2>1. T = UpcastEventsResponse
    BY <1>6, CallFields DEF SchemaCalls, SchemaStubs, Unary
  <2>2. /\ DOMAIN objects = DOMAIN Get(r, "events")
        /\ \A i \in DOMAIN objects : LET m == Get(r, "events")[i] IN
             objects[i] = Event(recordedFromProto(m))
    BY <1>6 DEF Printed, PrintSchema, SchemaResults, Each, Events
  <2>3. T = [events |-> Many(RecordedEvent)]
    BY <2>1 DEF UpcastEventsResponse
  <2> HIDE DEF objects
  <2> QED
    BY <2>2, <2>3, EventListRenders
<1> QED
  BY <1>1, <1>2, <1>3, <1>4, <1>5, <1>6
     DEF SchemaCalls

LEMMA SubscriptionsRender ==
  ASSUME NEW s, NEW a, NEW f \in DOMAIN SubscriptionsCalls(s, a), NEW T,
         T = SubscriptionsStubs[SubscriptionsCalls(s, a)[f].stub].response,
         NEW r, NEW n \in Nat, Answers(r, T, n)
  PROVE  Renders(Printed("subscriptions", f, SubscriptionsResults(r)[f]), r, T)
<1> DEFINE objects == Printed("subscriptions", f, SubscriptionsResults(r)[f])
<1> SUFFICES Renders(objects, r, T)
  OBVIOUS
<1>1. ASSUME f = "Create"
      PROVE  Renders(objects, r, T)
  <2>8. SubscriptionsCalls(s, a)[f].stub = "CreateSubscription"
    BY <1>1, CallFields DEF SubscriptionsCalls
  <2>1. T = CreateSubscriptionResponse
    BY <2>8 DEF SubscriptionsStubs, Unary, Streamed
  <2> DEFINE F == {"subscription_id"}
  <2>2. SubscriptionsResults(r)[f] = Value(Get(r, "subscription_id"))
    BY <1>1 DEF SubscriptionsResults, Value
  <2>3. /\ DOMAIN objects = 1..1 /\ DOMAIN objects[1] = F
        /\ objects[1].subscription_id = Get(r, "subscription_id")
    BY <1>1, <2>2 DEF Printed, PrintSubscriptions, Each, Value
  <2> HIDE DEF objects
  <2>5. \A k \in F : objects[1][k] = Taken(k, r)
    BY <2>3 DEF Taken, Texts, Millis, Micros
  <2>4. T = Plain(F) /\ F # {}
    BY <2>1 DEF CreateSubscriptionResponse
  <2> HIDE DEF F
  <2> QED
    BY <2>3, <2>4, <2>5, PlainRenders
<1>2. ASSUME f = "Remove"
      PROVE  Renders(objects, r, T)
  <2>8. SubscriptionsCalls(s, a)[f].stub = "RemoveSubscription"
    BY <1>2, CallFields DEF SubscriptionsCalls
  <2>1. T = RemoveSubscriptionResponse
    BY <2>8 DEF SubscriptionsStubs, Unary, Streamed
  <2>2. objects = <<>>
    BY <1>2 DEF Printed, PrintSubscriptions, SubscriptionsResults, Each, Nothing
  <2>3. DOMAIN T = {}
    BY <2>1 DEF RemoveSubscriptionResponse, Plain
  <2> QED
    BY <2>2, <2>3, NoneRenders
<1>3. ASSUME f = "Ack"
      PROVE  Renders(objects, r, T)
  <2>8. SubscriptionsCalls(s, a)[f].stub = "AckEvent"
    BY <1>3, CallFields DEF SubscriptionsCalls
  <2>1. T = AckEventResponse
    BY <2>8 DEF SubscriptionsStubs, Unary, Streamed
  <2>2. objects = <<>>
    BY <1>3 DEF Printed, PrintSubscriptions, SubscriptionsResults, Each, Nothing
  <2>3. DOMAIN T = {}
    BY <2>1 DEF AckEventResponse, Plain
  <2> QED
    BY <2>2, <2>3, NoneRenders
<1>4. ASSUME f = "Subscribe"
      PROVE  Renders(objects, r, T)
  <2>13. SubscriptionsCalls(s, a)[f].stub = "Subscribe"
    BY <1>4, CallFields DEF SubscriptionsCalls
  <2>1. T = SubscriptionEvent
    BY <2>13 DEF SubscriptionsStubs, Unary, Streamed
  <2> DEFINE sent == Only(Get(r, "event"))
             m == r["event"][1]
  <2>2. SubscriptionsResults(r)[f] = <<[Checkpoint |-> Get(r, "checkpoint")],
                                       recordedFromProto(sent)>>
    BY <1>4 DEF SubscriptionsResults
  <2>3. /\ DOMAIN objects = 1..2 /\ Len(objects) = 2
        /\ objects[1] = Delivery([Checkpoint |-> Get(r, "checkpoint")])
        /\ objects[2] = Event(recordedFromProto(sent))
    BY <1>4, <2>2 DEF Printed, PrintSubscriptions
  <2>4. /\ T["event"] = One(RecordedEvent) /\ "event" \in DOMAIN T
        /\ Scalars(T) = DOMAIN T \ {"event"} /\ Scalars(T) # {}
    BY <2>1 DEF SubscriptionEvent, Plain, Scalar, One, Scalars, ++
  <2>5. T["event"].len = 1 /\ T["event"].of = RecordedEvent
    BY <2>4 DEF One
  <2>6. /\ r["event"] # <<>> => DOMAIN r["event"] = 1..1 /\ sent = m /\ Marked(m, RecordedEvent, n)
        /\ r["event"] = <<>> => sent = Zero
    BY <2>4, <2>5, OnlyMarked
  <2> HIDE DEF objects, sent, m
  <2>7. Reads(objects[1], r, T)
    <3>1. Scalars(T) = {"checkpoint"} /\ NoVerdict(T)
      BY <2>1 DEF SubscriptionEvent, Plain, Scalar, One, Scalars, NoVerdict, ++
    <3>2. DOMAIN objects[1] = {"checkpoint"} /\ objects[1]["checkpoint"] = Taken("checkpoint", r)
      BY <2>3 DEF Delivery, Taken, Texts, Millis, Micros
    <3>3. Marked(r, T, n)
      BY DEF Answers
    <3>4. \A k \in Scalars(T) : objects[1][k] = Taken(k, r)
      BY <3>1, <3>2
    <3> QED
      BY <3>1, <3>2, <3>3, <3>4, PlainReads
  <2>8. r["event"] # <<>> => Reads(objects[2], m, RecordedEvent)
    BY <2>3, <2>6, EventsRead
  <2>9. r["event"] = <<>> => Blank(objects[2])
    BY <2>3, <2>6, BlankEvent
  <2>10. \A i \in DOMAIN r["event"] : Reads(objects[i + 1], r["event"][i], T["event"].of)
    BY <2>5, <2>6, <2>8 DEF m
  <2>11. r["event"] = <<>> => \A i \in DOMAIN objects \ {1} : Blank(objects[i])
    BY <2>3, <2>9
  <2>12. /\ DOMAIN objects = 1..Len(objects) /\ Len(objects) \in Nat /\ Len(objects) > 0
         /\ r["event"] # <<>> => Len(objects) = 1 + 1
    BY <2>3
  <2> QED
    BY <2>4, <2>5, <2>7, <2>10, <2>11, <2>12, OwnRenders
<1>5. ASSUME f = "List"
      PROVE  Renders(objects, r, T)
  <2>8. SubscriptionsCalls(s, a)[f].stub = "ListSubscriptions"
    BY <1>5, CallFields DEF SubscriptionsCalls
  <2>1. T = ListSubscriptionsResponse
    BY <2>8 DEF SubscriptionsStubs, Unary, Streamed
  <2>2. /\ DOMAIN objects = DOMAIN Get(r, "subscriptions")
        /\ \A i \in DOMAIN objects : LET m == Get(r, "subscriptions")[i] IN
             objects[i] = SubInfo(infoFromProto(m))
    BY <1>5 DEF Printed, PrintSubscriptions, SubscriptionsResults, Each
  <2>3. T = [subscriptions |-> Many(SubscriptionInfo)]
    BY <2>1 DEF ListSubscriptionsResponse
  <2> HIDE DEF objects
  <2> QED
    BY <2>2, <2>3, SubscriptionListRenders
<1>6. ASSUME f = "Get"
      PROVE  Renders(objects, r, T)
  <2>8. SubscriptionsCalls(s, a)[f].stub = "GetSubscription"
    BY <1>6, CallFields DEF SubscriptionsCalls
  <2>1. T = SubscriptionInfo
    BY <2>8 DEF SubscriptionsStubs, Unary, Streamed
  <2>2. DOMAIN objects = 1..1
    BY <1>6 DEF Printed, PrintSubscriptions, SubscriptionsResults, Each, Value
  <2>3. objects[1] = SubInfo(infoFromProto(r))
    BY <1>6 DEF Printed, PrintSubscriptions, SubscriptionsResults, Each, Value
  <2>4. Marked(r, T, n)
    BY DEF Answers
  <2>5. Reads(objects[1], r, T)
    BY <2>1, <2>3, <2>4, SubscriptionsRead
  <2> HIDE DEF objects
  <2> QED
    BY <2>1, <2>2, <2>5, Singles, OneRenders DEF Single
<1>7. ASSUME f = "Lag"
      PROVE  Renders(objects, r, T)
  <2>8. SubscriptionsCalls(s, a)[f].stub = "GetSubscriptionLag"
    BY <1>7, CallFields DEF SubscriptionsCalls
  <2>1. T = GetSubscriptionLagResponse
    BY <2>8 DEF SubscriptionsStubs, Unary, Streamed
  <2> DEFINE F == {"lag", "current_checkpoint", "latest_version"}
  <2>2. SubscriptionsResults(r)[f] = <<[Lag |-> Get(r, "lag"), CurrentCheckpoint |->
            Get(r, "current_checkpoint"), LatestVersion |-> Get(r,
            "latest_version")]>>
    BY <1>7 DEF SubscriptionsResults
  <2>3. /\ DOMAIN objects = 1..1 /\ DOMAIN objects[1] = F
        /\ objects[1].lag = Get(r, "lag")
        /\ objects[1].current_checkpoint = Get(r, "current_checkpoint")
        /\ objects[1].latest_version = Get(r, "latest_version")
    BY <1>7, <2>2 DEF Printed, PrintSubscriptions, Each, Value, Lag
  <2> HIDE DEF objects
  <2>5. \A k \in F : objects[1][k] = Taken(k, r)
    BY <2>3 DEF Taken, Texts, Millis, Micros
  <2>4. T = Plain(F) /\ F # {}
    BY <2>1 DEF GetSubscriptionLagResponse
  <2> HIDE DEF F
  <2> QED
    BY <2>3, <2>4, <2>5, PlainRenders
<1> QED
  BY <1>1, <1>2, <1>3, <1>4, <1>5, <1>6, <1>7
     DEF SubscriptionsCalls

LEMMA StoresRender ==
  ASSUME NEW a, NEW f \in DOMAIN StoresCalls(a), NEW T,
         T = StoresStubs[StoresCalls(a)[f].stub].response,
         NEW r, NEW n \in Nat, Answers(r, T, n)
  PROVE  Renders(Printed("stores", f, StoresResults(r)[f]), r, T)
<1> DEFINE objects == Printed("stores", f, StoresResults(r)[f])
<1> SUFFICES Renders(objects, r, T)
  OBVIOUS
<1>1. ASSUME f = "List"
      PROVE  Renders(objects, r, T)
  <2>1. T = ListStoresResponse
    BY <1>1, CallFields DEF StoresCalls, StoresStubs, Unary, Streamed
  <2>2. /\ DOMAIN objects = DOMAIN Get(r, "instances")
        /\ \A i \in DOMAIN objects : LET m == Get(r, "instances")[i] IN
             objects[i] = Instance(instanceFromProto(m))
    BY <1>1 DEF Printed, PrintStores, StoresResults, Each
  <2>3. T = [instances |-> Many(StoreInstance)]
    BY <2>1 DEF ListStoresResponse
  <2> HIDE DEF objects
  <2> QED
    BY <2>2, <2>3, InstanceListRenders
<1>2. ASSUME f = "Get"
      PROVE  Renders(objects, r, T)
  <2>1. T = GetStoreResponse
    BY <1>2, CallFields DEF StoresCalls, StoresStubs, Unary, Streamed
  <2>2. /\ DOMAIN objects = DOMAIN Get(r, "instances")
        /\ \A i \in DOMAIN objects : LET m == Get(r, "instances")[i] IN
             objects[i] = Instance(instanceFromProto(m))
    BY <1>2 DEF Printed, PrintStores, StoresResults, Each
  <2>3. T = [instances |-> Many(StoreInstance)]
    BY <2>1 DEF GetStoreResponse
  <2> HIDE DEF objects
  <2> QED
    BY <2>2, <2>3, InstanceListRenders
<1>3. ASSUME f = "Watch"
      PROVE  Renders(objects, r, T)
  <2>1. T = StoreEvent
    BY <1>3, CallFields DEF StoresCalls, StoresStubs, Unary, Streamed
  <2> DEFINE sent == Only(Get(r, "instance"))
             m == r["instance"][1]
  <2>2. StoresResults(r)[f] = <<[Type |-> eventTypeFromProto(Get(r, "type")),
                                At |-> UnixMicro(Get(r, "event_at_us"))],
                               instanceFromProto(sent)>>
    BY <1>3 DEF StoresResults
  <2>3. /\ DOMAIN objects = 1..2 /\ Len(objects) = 2
        /\ objects[1] = StoreChange([Type |-> eventTypeFromProto(Get(r, "type")),
                                      At |-> UnixMicro(Get(r, "event_at_us"))])
        /\ objects[2] = Instance(instanceFromProto(sent))
    BY <1>3, <2>2 DEF Printed, PrintStores
  <2>4. /\ T["instance"] = One(StoreInstance) /\ "instance" \in DOMAIN T
        /\ Scalars(T) = DOMAIN T \ {"instance"} /\ Scalars(T) # {}
    BY <2>1 DEF StoreEvent, Plain, Scalar, Enum, One, Scalars, ++
  <2>5. T["instance"].len = 1 /\ T["instance"].of = StoreInstance
    BY <2>4 DEF One
  <2>6. /\ r["instance"] # <<>> => DOMAIN r["instance"] = 1..1 /\ sent = m /\ Marked(m, StoreInstance, n)
        /\ r["instance"] = <<>> => sent = Zero
    BY <2>4, <2>5, OnlyMarked
  <2> HIDE DEF objects, sent, m
  <2>7. Reads(objects[1], r, T)
    <3>1. Marked(r, StoreEvent, n)
      BY <2>1 DEF Answers
    <3> QED
      BY <2>1, <2>3, <3>1, ChangeReads
  <2>8. r["instance"] # <<>> => Reads(objects[2], m, StoreInstance)
    BY <2>3, <2>6, InstancesRead
  <2>9. r["instance"] = <<>> => Blank(objects[2])
    BY <2>3, <2>6, BlankInstance
  <2>10. \A i \in DOMAIN r["instance"] : Reads(objects[i + 1], r["instance"][i], T["instance"].of)
    BY <2>5, <2>6, <2>8 DEF m
  <2>11. r["instance"] = <<>> => \A i \in DOMAIN objects \ {1} : Blank(objects[i])
    BY <2>3, <2>9
  <2>12. /\ DOMAIN objects = 1..Len(objects) /\ Len(objects) \in Nat /\ Len(objects) > 0
         /\ r["instance"] # <<>> => Len(objects) = 1 + 1
    BY <2>3
  <2> QED
    BY <2>4, <2>5, <2>7, <2>10, <2>11, <2>12, OwnRenders
<1> QED
  BY <1>1, <1>2, <1>3
     DEF StoresCalls

LEMMA DcbRender ==
  ASSUME NEW s, NEW a, NEW f \in DOMAIN DcbCalls(s, a), NEW T,
         T = DcbStubs[DcbCalls(s, a)[f].stub].response,
         NEW r, NEW n \in Nat, Answers(r, T, n)
  PROVE  Renders(Printed("dcb", f, DcbResults(r)[f]), r, T)
<1> DEFINE objects == Printed("dcb", f, DcbResults(r)[f])
<1> SUFFICES Renders(objects, r, T)
  OBVIOUS
<1>1. ASSUME f = "Append"
      PROVE  Renders(objects, r, T)
  <2>1. T = AppendIfNoTagMatchesResponse
    BY <1>1, CallFields DEF DcbCalls, DcbStubs, Unary
  <2> DEFINE c == Get(r, "committed")
             d == Get(r, "conflict")
  <2>2. /\ DOMAIN T = {"committed", "conflict"}
        /\ T["committed"] = Variant(0, Committed) /\ T["conflict"] = Variant(1, Conflict)
    BY <2>1 DEF AppendIfNoTagMatchesResponse
  <2>3. /\ T["committed"].len = 1 /\ T["committed"].of = Committed
        /\ T["conflict"].len = 1 /\ T["conflict"].of = Conflict
        /\ T["committed"].enum = <<0>> /\ T["conflict"].enum = <<1>>
    BY <2>2 DEF Variant
  <2>4. c = r["committed"] /\ d = r["conflict"]
    BY <2>2 DEF Answers, Marked, Get
  <2>5. /\ c # <<>> => DOMAIN c = 1..1 /\ Only(c) = c[1] /\ Marked(c[1], Committed, n)
        /\ d # <<>> => DOMAIN d = 1..1 /\ Only(d) = d[1] /\ Marked(d[1], Conflict, n)
    <3>1. \A g \in DOMAIN T : T[g].len = 1 /\ r[g] # <<>> =>
            /\ DOMAIN r[g] = 1..1 /\ Only(Get(r, g)) = r[g][1]
            /\ Marked(r[g][1], T[g].of, n)
      <4>1. TAKE g \in DOMAIN T
      <4>2. HAVE T[g].len = 1 /\ r[g] # <<>>
      <4>3. /\ DOMAIN r[g] = 1..1 /\ Only(Get(r, g)) = r[g][1]
            /\ Marked(Only(Get(r, g)), T[g].of, n)
        BY <4>2, OnlyMarked
      <4> QED
        BY <4>3
    <3>2. "committed" \in DOMAIN T /\ "conflict" \in DOMAIN T
      BY <2>2
    <3>3. c = Get(r, "committed") /\ d = Get(r, "conflict")
      OBVIOUS
    <3> HIDE DEF c, d
    <3> QED
      BY <2>3, <2>4, <3>1, <3>2, <3>3
  <2>6. c = <<>> \/ d = <<>>
    <3>1. /\ T["committed"].enum # <<>> /\ r["committed"] # <<>> => T["committed"].enum = <<n>>
          /\ T["conflict"].enum # <<>> /\ r["conflict"] # <<>> => T["conflict"].enum = <<n>>
      BY <2>2, <2>3 DEF Answers
    <3>2. <<0>> # <<>> /\ <<1>> # <<>> /\ (<<0>> = <<n>> => n = 0) /\ (<<1>> = <<n>> => n = 1)
      OBVIOUS
    <3> HIDE DEF c, d
    <3> QED
      BY <2>3, <2>4, <3>1, <3>2
  <2>7. DcbResults(r)[f] = IF c # <<>> THEN <<[LastSeq |-> Get(Only(c), "last_seq")]>>
                           ELSE IF d # <<>> THEN <<[MaxSeq |-> Get(Only(d), "max_seq")]>>
                           ELSE <<>>
    BY <1>1 DEF DcbResults, Nothing
  <2> HIDE DEF c, d
  <2>8. /\ c # <<>> => /\ DOMAIN objects = 1..1
                       /\ objects[1] = [last_seq |-> Get(c[1], "last_seq")]
        /\ d # <<>> => /\ DOMAIN objects = 1..1
                       /\ objects[1] = [max_seq |-> Get(d[1], "max_seq")]
        /\ c = <<>> /\ d = <<>> => DOMAIN objects = {}
    BY <1>1, <2>5, <2>6, <2>7 DEF Printed, PrintDcb
  <2>9. c # <<>> => Reads(objects[1], c[1], Committed)
    <3>1. Scalars(Committed) = {"last_seq"} /\ NoVerdict(Committed)
      BY PlainFields DEF Committed
    <3>2. \A m : Get(m, "last_seq") = Taken("last_seq", m)
      BY DEF Taken, Texts, Millis, Micros
    <3> HIDE DEF objects
    <3>3. c # <<>> => /\ Marked(c[1], Committed, n)
                     /\ DOMAIN objects[1] = Scalars(Committed)
                     /\ objects[1]["last_seq"] = Taken("last_seq", c[1])
      BY <2>5, <2>8, <3>1, <3>2
    <3>4. c # <<>> => \A k \in Scalars(Committed) : objects[1][k] = Taken(k, c[1])
      BY <3>1, <3>3
    <3> QED
      BY <3>1, <3>3, <3>4, PlainReads
  <2>10. d # <<>> => Reads(objects[1], d[1], Conflict)
    <3>1. Scalars(Conflict) = {"max_seq"} /\ NoVerdict(Conflict)
      BY PlainFields DEF Conflict
    <3>2. \A m : Get(m, "max_seq") = Taken("max_seq", m)
      BY DEF Taken, Texts, Millis, Micros
    <3> HIDE DEF objects
    <3>3. d # <<>> => /\ Marked(d[1], Conflict, n)
                     /\ DOMAIN objects[1] = Scalars(Conflict)
                     /\ objects[1]["max_seq"] = Taken("max_seq", d[1])
      BY <2>5, <2>8, <3>1, <3>2
    <3>4. d # <<>> => \A k \in Scalars(Conflict) : objects[1][k] = Taken(k, d[1])
      BY <3>1, <3>3
    <3> QED
      BY <3>1, <3>3, <3>4, PlainReads
  <2> HIDE DEF objects
  <2>11. /\ c # <<>> => Nested(r, T) = {"committed"}
         /\ d # <<>> => Nested(r, T) = {"conflict"}
         /\ Scalars(T) = {}
    BY <2>2, <2>3, <2>4, <2>6 DEF Nested, Scalars
  <2>12. CASE c # <<>>
    BY <2>3, <2>4, <2>5, <2>8, <2>9, <2>11, <2>12, VariantRenders
  <2>13. CASE d # <<>>
    BY <2>3, <2>4, <2>5, <2>8, <2>10, <2>11, <2>13, VariantRenders
  <2>14. CASE c = <<>> /\ d = <<>>
    <3>1. Parts(r, T) = <<>>
      BY <2>2, <2>4, <2>11, <2>14, UnsetParts
    <3>2. Len(objects) = 0
      BY <2>8, <2>14
    <3> QED
      BY <2>8, <2>14, <3>1, <3>2 DEF Renders
  <2> QED
    BY <2>12, <2>13, <2>14
<1>2. ASSUME f = "Read"
      PROVE  Renders(objects, r, T)
  <2>1. T = ReadDcbContextResponse
    BY <1>2, CallFields DEF DcbCalls, DcbStubs, Unary
  <2> DEFINE own == [max_seq |-> Get(r, "max_seq")]
             seen == Events(r)
             nested == Each(Event, seen)
  <2>2. DcbResults(r)[f] = <<[MaxSeq |-> Get(r, "max_seq")]>> \o seen
    BY <1>2 DEF DcbResults
  <2>3. /\ DOMAIN T = {"max_seq"} \cup {"events"} /\ T["max_seq"] = Scalar
        /\ T["events"] = Many(RecordedEvent) /\ NoVerdict(T)
    BY <2>1 DEF ReadDcbContextResponse, Plain, Many, NoVerdict, Scalars, ++
  <2>4. Listed(seen) /\ DOMAIN seen = DOMAIN Get(r, "events")
    <3>1. /\ T["events"].len = 2 /\ "events" \in DOMAIN T
      BY <2>3 DEF Many
    <3>2. Listed(Get(r, "events"))
      BY <3>1, ListedOf
    <3> QED
      BY <3>2 DEF Events, Each, Listed
  <2>5. objects = <<own>> \o nested
    <3> HIDE DEF seen
    <3>1. objects = <<[max_seq |-> DcbResults(r)[f][1].MaxSeq]>>
                    \o Each(Event, Tail(DcbResults(r)[f]))
      BY <1>2 DEF Printed, PrintDcb
    <3>2. DcbResults(r)[f][1] = [MaxSeq |-> Get(r, "max_seq")] /\ Tail(DcbResults(r)[f]) = seen
      BY <2>2, <2>4, HeadTail
    <3>3. [max_seq |-> DcbResults(r)[f][1].MaxSeq] = own
      BY <3>2
    <3> HIDE DEF objects, own
    <3> QED
      BY <3>1, <3>2, <3>3
  <2>6. /\ OneForOne(nested, Get(r, "events"))
        /\ \A i \in DOMAIN nested : nested[i] = Event(recordedFromProto(Get(r, "events")[i]))
    BY <2>4 DEF Events, Each, OneForOne
  <2>7. \A i \in DOMAIN nested : Marked(Get(r, "events")[i], RecordedEvent, n) =>
                                Reads(nested[i], Get(r, "events")[i], RecordedEvent)
    BY <2>6, EventsRead
  <2>8. DOMAIN own = {"max_seq"} /\ \A k \in {"max_seq"} : own[k] = Taken(k, r)
    BY DEF Taken, Texts, Millis, Micros
  <2> HIDE DEF objects, nested, own, seen
  <2> QED
    BY <2>3, <2>5, <2>6, <2>7, <2>8, SumRenders
<1>3. ASSUME f = "CccReadByPayload"
      PROVE  Renders(objects, r, T)
  <2>1. T = CccReadByPayloadResponse
    BY <1>3, CallFields DEF DcbCalls, DcbStubs, Unary
  <2>2. /\ DOMAIN objects = DOMAIN Get(r, "events")
        /\ \A i \in DOMAIN objects : LET m == Get(r, "events")[i] IN
             objects[i] = Event(recordedFromProto(m))
    BY <1>3 DEF Printed, PrintDcb, DcbResults, Each, Events
  <2>3. T = [events |-> Many(RecordedEvent)]
    BY <2>1 DEF CccReadByPayloadResponse
  <2> HIDE DEF objects
  <2> QED
    BY <2>2, <2>3, EventListRenders
<1>4. ASSUME f = "CccReadByPayloadHash"
      PROVE  Renders(objects, r, T)
  <2>1. T = CccReadByPayloadHashResponse
    BY <1>4, CallFields DEF DcbCalls, DcbStubs, Unary
  <2>2. /\ DOMAIN objects = DOMAIN Get(r, "events")
        /\ \A i \in DOMAIN objects : LET m == Get(r, "events")[i] IN
             objects[i] = Event(recordedFromProto(m))
    BY <1>4 DEF Printed, PrintDcb, DcbResults, Each, Events
  <2>3. T = [events |-> Many(RecordedEvent)]
    BY <2>1 DEF CccReadByPayloadHashResponse
  <2> HIDE DEF objects
  <2> QED
    BY <2>2, <2>3, EventListRenders
<1> QED
  BY <1>1, <1>2, <1>3, <1>4
     DEF DcbCalls

LEMMA AdminRender ==
  ASSUME NEW s, NEW a, NEW f \in DOMAIN AdminCalls(s, a), NEW T,
         T = AdminStubs[AdminCalls(s, a)[f].stub].response,
         NEW r, NEW n \in Nat, Answers(r, T, n)
  PROVE  Renders(Printed("admin", f, AdminResults(r)[f]), r, T)
<1> DEFINE objects == Printed("admin", f, AdminResults(r)[f])
<1> SUFFICES Renders(objects, r, T)
  OBVIOUS
<1>1. ASSUME f = "StoreStats"
      PROVE  Renders(objects, r, T)
  <2>7. AdminCalls(s, a)[f] = StatsCalls(s, a)[f]
    BY <1>1, AdminTables
  <2>1. T = StoreStatsResponse
    BY <1>1, <2>7, CallFields
       DEF StatsCalls, AdminStubs, Unary
  <2> DEFINE F == {"total_streams", "total_events", "total_subscriptions",
                  "total_snapshots", "details"}
  <2>2. AdminResults(r)[f] = <<[TotalStreams |-> Get(r, "total_streams"),
            TotalEvents |-> Get(r, "total_events"), TotalSubscriptions |-> Get(r,
            "total_subscriptions"), TotalSnapshots |-> Get(r, "total_snapshots"),
            Details |-> Get(r, "details")]>>
    BY <1>1, AdminAnswers DEF StatsResults
  <2>3. /\ DOMAIN objects = 1..1 /\ DOMAIN objects[1] = F
        /\ objects[1].total_streams = Get(r, "total_streams")
        /\ objects[1].total_events = Get(r, "total_events")
        /\ objects[1].total_subscriptions = Get(r, "total_subscriptions")
        /\ objects[1].total_snapshots = Get(r, "total_snapshots")
        /\ objects[1].details = Get(r, "details")
    BY <1>1, <2>2 DEF Printed, PrintAdmin, Each, Value, StoreStats
  <2> HIDE DEF objects
  <2>5. \A k \in F : objects[1][k] = Taken(k, r)
    BY <2>3 DEF Taken, Texts, Millis, Micros
  <2>4. T = Plain(F) /\ F # {}
    BY <2>1 DEF StoreStatsResponse
  <2> HIDE DEF F
  <2> QED
    BY <2>3, <2>4, <2>5, PlainRenders
<1>2. ASSUME f = "StreamInfo"
      PROVE  Renders(objects, r, T)
  <2>7. AdminCalls(s, a)[f] = StatsCalls(s, a)[f]
    BY <1>2, AdminTables
  <2>1. T = StreamInfoResponse
    BY <1>2, <2>7, CallFields
       DEF StatsCalls, AdminStubs, Unary
  <2> DEFINE F == {"stream_id", "version", "event_count", "created_at",
                  "last_event_at", "event_types"}
  <2>2. AdminResults(r)[f] = <<[StreamID |-> Get(r, "stream_id"), Version |-> Get(r,
            "version"), EventCount |-> Get(r, "event_count"), CreatedAt |->
            UnixMilli(Get(r, "created_at")), LastEventAt |-> UnixMilli(Get(r,
            "last_event_at")), EventTypes |-> Get(r, "event_types")]>>
    BY <1>2, AdminAnswers DEF StatsResults
  <2>3. /\ DOMAIN objects = 1..1 /\ DOMAIN objects[1] = F
        /\ objects[1].stream_id = Get(r, "stream_id")
        /\ objects[1].version = Get(r, "version")
        /\ objects[1].event_count = Get(r, "event_count")
        /\ objects[1].created_at = UnixMilli(Get(r, "created_at"))
        /\ objects[1].last_event_at = UnixMilli(Get(r, "last_event_at"))
        /\ objects[1].event_types = Get(r, "event_types")
    BY <1>2, <2>2 DEF Printed, PrintAdmin, Each, Value, StreamInfo
  <2> HIDE DEF objects
  <2>5. \A k \in F : objects[1][k] = Taken(k, r)
    BY <2>3 DEF Taken, Texts, Millis, Micros
  <2>4. T = Plain(F) /\ F # {}
    BY <2>1 DEF StreamInfoResponse
  <2> HIDE DEF F
  <2> QED
    BY <2>3, <2>4, <2>5, PlainRenders
<1>3. ASSUME f = "EventTypeSummary"
      PROVE  Renders(objects, r, T)
  <2>7. AdminCalls(s, a)[f] = StatsCalls(s, a)[f]
    BY <1>3, AdminTables
  <2>1. T = EventTypeSummaryResponse
    BY <1>3, <2>7, CallFields
       DEF StatsCalls, AdminStubs, Unary
  <2>6. AdminResults(r)[f] = StatsResults(r)[f]
    BY <1>3, AdminAnswers
  <2>2. /\ DOMAIN objects = DOMAIN Get(r, "entries")
        /\ \A i \in DOMAIN objects : LET m == Get(r, "entries")[i] IN
             objects[i] = EventTypeCount([EventType |-> Get(m, "event_type"),
                                  Count |-> Get(m, "count")])
    BY <1>3, <2>6
       DEF StatsResults, Printed, PrintAdmin, Each
  <2>3. T = [entries |-> Many(EventTypeSummaryEntry)]
    BY <2>1 DEF EventTypeSummaryResponse
  <2> HIDE DEF objects
  <2> QED
    BY <2>2, <2>3, CountListRenders
<1>4. ASSUME f \in {"Scavenge", "ScavengeDryRun"}
      PROVE  Renders(objects, r, T)
  <2>7. AdminCalls(s, a)[f] = ScavengeCalls(s, a)[f]
    BY <1>4, AdminTables
  <2>8. AdminCalls(s, a)[f].stub \in {"Scavenge", "ScavengeDryRun"}
    BY <1>4, <2>7, CallFields DEF ScavengeCalls
  <2>1. T = ScavengeResponse
    BY <2>8 DEF AdminStubs, Unary
  <2>9. AdminResults(r)[f] = StatsResults(r)[f]
    BY <1>4, AdminAnswers
  <2>10. /\ StatsResults(r)["Scavenge"] = <<scavengeResultFromProto(r)>>
         /\ StatsResults(r)["ScavengeDryRun"] = <<scavengeResultFromProto(r)>>
    BY DEF StatsResults
  <2>6. AdminResults(r)[f] = <<scavengeResultFromProto(r)>>
    BY <1>4, <2>9, <2>10
  <2>2. DOMAIN objects = 1..1
    BY <1>4, <2>6 DEF Printed, PrintAdmin, Each
  <2>3. objects[1] = ScavengeResult(scavengeResultFromProto(r))
    BY <1>4, <2>6 DEF Printed, PrintAdmin, Each
  <2>4. Marked(r, T, n)
    BY DEF Answers
  <2>5. Reads(objects[1], r, T)
    BY <2>1, <2>3, <2>4, ScavengesRead
  <2> HIDE DEF objects
  <2> QED
    BY <2>1, <2>2, <2>5, Singles, OneRenders DEF Single
<1>5. ASSUME f = "ScavengeMatching"
      PROVE  Renders(objects, r, T)
  <2>7. AdminCalls(s, a)[f] = ScavengeCalls(s, a)[f]
    BY <1>5, AdminTables
  <2>1. T = ScavengeMatchingResponse
    BY <1>5, <2>7, CallFields
       DEF ScavengeCalls, AdminStubs, Unary
  <2>6. AdminResults(r)[f] = StatsResults(r)[f]
    BY <1>5, AdminAnswers
  <2>2. /\ DOMAIN objects = DOMAIN Get(r, "results")
        /\ \A i \in DOMAIN objects : LET m == Get(r, "results")[i] IN
             objects[i] = ScavengeResult(scavengeResultFromProto(m))
    BY <1>5, <2>6
       DEF StatsResults, Printed, PrintAdmin, Each
  <2>3. T = [results |-> Many(ScavengeResponse)]
    BY <2>1 DEF ScavengeMatchingResponse
  <2> HIDE DEF objects
  <2> QED
    BY <2>2, <2>3, ScavengeListRenders
<1>6. ASSUME f = "CreateLink"
      PROVE  Renders(objects, r, T)
  <2>7. AdminCalls(s, a)[f] = LinkCalls(s, a)[f]
    BY <1>6, AdminTables
  <2>1. T = CreateLinkResponse
    BY <1>6, <2>7, CallFields
       DEF LinkCalls, AdminStubs, Unary
  <2>2. objects = <<>>
    BY <1>6 DEF Printed, PrintAdmin, Nothing
  <2>3. DOMAIN T = {}
    BY <2>1 DEF CreateLinkResponse, Plain
  <2> QED
    BY <2>2, <2>3, NoneRenders
<1>7. ASSUME f = "DeleteLink"
      PROVE  Renders(objects, r, T)
  <2>7. AdminCalls(s, a)[f] = LinkCalls(s, a)[f]
    BY <1>7, AdminTables
  <2>1. T = DeleteLinkResponse
    BY <1>7, <2>7, CallFields
       DEF LinkCalls, AdminStubs, Unary
  <2>2. objects = <<>>
    BY <1>7 DEF Printed, PrintAdmin, Nothing
  <2>3. DOMAIN T = {}
    BY <2>1 DEF DeleteLinkResponse, Plain
  <2> QED
    BY <2>2, <2>3, NoneRenders
<1>8. ASSUME f = "StartLink"
      PROVE  Renders(objects, r, T)
  <2>7. AdminCalls(s, a)[f] = LinkCalls(s, a)[f]
    BY <1>8, AdminTables
  <2>1. T = StartLinkResponse
    BY <1>8, <2>7, CallFields
       DEF LinkCalls, AdminStubs, Unary
  <2>2. objects = <<>>
    BY <1>8 DEF Printed, PrintAdmin, Nothing
  <2>3. DOMAIN T = {}
    BY <2>1 DEF StartLinkResponse, Plain
  <2> QED
    BY <2>2, <2>3, NoneRenders
<1>9. ASSUME f = "StopLink"
      PROVE  Renders(objects, r, T)
  <2>7. AdminCalls(s, a)[f] = LinkCalls(s, a)[f]
    BY <1>9, AdminTables
  <2>1. T = StopLinkResponse
    BY <1>9, <2>7, CallFields
       DEF LinkCalls, AdminStubs, Unary
  <2>2. objects = <<>>
    BY <1>9 DEF Printed, PrintAdmin, Nothing
  <2>3. DOMAIN T = {}
    BY <2>1 DEF StopLinkResponse, Plain
  <2> QED
    BY <2>2, <2>3, NoneRenders
<1>10. ASSUME f = "GetLink"
      PROVE  Renders(objects, r, T)
  <2>7. AdminCalls(s, a)[f] = LinkCalls(s, a)[f]
    BY <1>10, AdminTables
  <2>1. T = LinkInfo
    BY <1>10, <2>7, CallFields
       DEF LinkCalls, AdminStubs, Unary
  <2>9. AdminResults(r)[f] = LinkResults(r)[f]
    BY <1>10, AdminAnswers
  <2>6. AdminResults(r)[f] = <<[Name |-> Get(r, "name"), Source |-> Get(r, "source"),
              Target |-> Get(r, "target"), Options |-> Get(r, "options")]>>
    BY <1>10, <2>9 DEF LinkResults, ++
  <2>2. DOMAIN objects = 1..1
    BY <1>10, <2>6 DEF Printed, PrintAdmin, Each
  <2>3. objects[1] = LinkSpec([Name |-> Get(r, "name"), Source |-> Get(r, "source"),
                                  Target |-> Get(r, "target"), Options |-> Get(r, "options")])
    BY <1>10, <2>6 DEF Printed, PrintAdmin, Each
  <2>4. Marked(r, T, n)
    BY DEF Answers
  <2>5. Reads(objects[1], r, T)
    BY <2>1, <2>3, <2>4, LinksRead
  <2> HIDE DEF objects
  <2> QED
    BY <2>1, <2>2, <2>5, Singles, OneRenders DEF Single
<1>11. ASSUME f = "ListLinks"
      PROVE  Renders(objects, r, T)
  <2>7. AdminCalls(s, a)[f] = LinkCalls(s, a)[f]
    BY <1>11, AdminTables
  <2>1. T = ListLinksResponse
    BY <1>11, <2>7, CallFields
       DEF LinkCalls, AdminStubs, Unary
  <2>6. AdminResults(r)[f] = LinkResults(r)[f]
    BY <1>11, AdminAnswers
  <2>2. /\ DOMAIN objects = DOMAIN Get(r, "links")
        /\ \A i \in DOMAIN objects : LET m == Get(r, "links")[i] IN
             objects[i] = LinkSpec([Name |-> Get(m, "name"), Source |-> Get(m, "source"),
                            Target |-> Get(m, "target"), Options |-> Get(m, "options")])
    BY <1>11, <2>6
       DEF LinkResults, ++, Printed, PrintAdmin, Each
  <2>3. T = [links |-> Many(LinkInfo)]
    BY <2>1 DEF ListLinksResponse
  <2> HIDE DEF objects
  <2> QED
    BY <2>2, <2>3, LinkListRenders
<1>12. ASSUME f = "LinkInfo"
      PROVE  Renders(objects, r, T)
  <2>7. AdminCalls(s, a)[f] = LinkCalls(s, a)[f]
    BY <1>12, AdminTables
  <2>1. T = LinkRuntimeInfo
    BY <1>12, <2>7, CallFields
       DEF LinkCalls, AdminStubs, Unary
  <2> DEFINE F == {"name", "status", "events_processed", "details"}
  <2>2. AdminResults(r)[f] = <<[Name |-> Get(r, "name"), Status |-> Get(r,
            "status"), EventsProcessed |-> Get(r, "events_processed"), Details |->
            Get(r, "details")]>>
    BY <1>12, AdminAnswers DEF LinkResults, ++
  <2>3. /\ DOMAIN objects = 1..1 /\ DOMAIN objects[1] = F
        /\ objects[1].name = Get(r, "name")
        /\ objects[1].status = Get(r, "status")
        /\ objects[1].events_processed = Get(r, "events_processed")
        /\ objects[1].details = Get(r, "details")
    BY <1>12, <2>2 DEF Printed, PrintAdmin, Each, Value, LinkRuntime
  <2> HIDE DEF objects
  <2>5. \A k \in F : objects[1][k] = Taken(k, r)
    BY <2>3 DEF Taken, Texts, Millis, Micros
  <2>4. T = Plain(F) /\ F # {}
    BY <2>1 DEF LinkRuntimeInfo
  <2> HIDE DEF F
  <2> QED
    BY <2>3, <2>4, <2>5, PlainRenders
<1>13. ASSUME f = "ReloadCatalogue"
      PROVE  Renders(objects, r, T)
  <2>7. AdminCalls(s, a)[f] = CatalogueCalls[f]
    BY <1>13, AdminTables
  <2>1. T = ReloadCatalogueResponse
    BY <1>13, <2>7, CallFields
       DEF CatalogueCalls, AdminStubs, Unary
  <2> DEFINE F == {"added", "removed", "restarted", "error"}
  <2>2. AdminResults(r)[f] = <<[Added |-> Get(r, "added"), Removed |-> Get(r,
            "removed"), Restarted |-> Get(r, "restarted"), Error |-> Get(r,
            "error")]>>
    BY <1>13, AdminAnswers DEF CatalogueResults
  <2>3. /\ DOMAIN objects = 1..1 /\ DOMAIN objects[1] = F
        /\ objects[1].added = Get(r, "added")
        /\ objects[1].removed = Get(r, "removed")
        /\ objects[1].restarted = Get(r, "restarted")
        /\ objects[1].error = Get(r, "error")
    BY <1>13, <2>2 DEF Printed, PrintAdmin, Each, Value, CatalogueReload
  <2> HIDE DEF objects
  <2>5. \A k \in F : objects[1][k] = Taken(k, r)
    BY <2>3 DEF Taken, Texts, Millis, Micros
  <2>4. T = Plain(F) /\ F # {}
    BY <2>1 DEF ReloadCatalogueResponse
  <2> HIDE DEF F
  <2> QED
    BY <2>3, <2>4, <2>5, PlainRenders
<1>14. ASSUME f = "GetCatalogueStatus"
      PROVE  Renders(objects, r, T)
  <2>7. AdminCalls(s, a)[f] = CatalogueCalls[f]
    BY <1>14, AdminTables
  <2>1. T = GetCatalogueStatusResponse
    BY <1>14, <2>7, CallFields
       DEF CatalogueCalls, AdminStubs, Unary
  <2> DEFINE own == [catalogue_size |-> Get(r, "catalogue_size"),
                     gateway_uptime_ms |-> Get(r, "gateway_uptime_ms")]
             F == {"catalogue_size", "gateway_uptime_ms"}
             seen == Each(catalogueClusterInfoFromProto, Get(r, "clusters"))
             nested == Each(Cluster, seen)
  <2>6. AdminResults(r)[f] = CatalogueResults(r)[f]
    BY <1>14, AdminAnswers
  <2>2. AdminResults(r)[f] = <<[CatalogueSize |-> Get(r, "catalogue_size"),
                                GatewayUptimeMs |-> Get(r, "gateway_uptime_ms")]>> \o seen
    BY <1>14, <2>6 DEF CatalogueResults
  <2>3. /\ DOMAIN T = F \cup {"clusters"} /\ (\A k \in F : T[k] = Scalar)
        /\ T["clusters"] = Many(CatalogueClusterStatus) /\ NoVerdict(T)
    BY <2>1 DEF GetCatalogueStatusResponse, Plain, Many, NoVerdict, Scalars, ++
  <2>4. Listed(seen) /\ DOMAIN seen = DOMAIN Get(r, "clusters")
    <3>1. /\ T["clusters"].len = 2 /\ "clusters" \in DOMAIN T
      BY <2>3 DEF Many
    <3>2. Listed(Get(r, "clusters"))
      BY <3>1, ListedOf
    <3> QED
      BY <3>2 DEF Each, Listed
  <2>5. objects = <<own>> \o nested
    <3> HIDE DEF seen
    <3>1. objects = <<CatalogueStatus(AdminResults(r)[f][1])>>
                    \o Each(Cluster, Tail(AdminResults(r)[f]))
      BY <1>14 DEF Printed, PrintAdmin
    <3>2. /\ AdminResults(r)[f][1] = [CatalogueSize |-> Get(r, "catalogue_size"),
                                      GatewayUptimeMs |-> Get(r, "gateway_uptime_ms")]
          /\ Tail(AdminResults(r)[f]) = seen
      BY <2>2, <2>4, HeadTail
    <3>3. CatalogueStatus(AdminResults(r)[f][1]) = own
      BY <3>2 DEF CatalogueStatus
    <3> HIDE DEF objects
    <3> QED
      BY <3>1, <3>2, <3>3
  <2>10. /\ OneForOne(nested, Get(r, "clusters"))
        /\ \A i \in DOMAIN nested :
             nested[i] = Cluster(catalogueClusterInfoFromProto(Get(r, "clusters")[i]))
    BY <2>4 DEF Each, OneForOne
  <2>8. \A i \in DOMAIN nested : Marked(Get(r, "clusters")[i], CatalogueClusterStatus, n) =>
                                Reads(nested[i], Get(r, "clusters")[i], CatalogueClusterStatus)
    BY <2>10, ClustersRead
  <2>9. DOMAIN own = F /\ F # {} /\ "clusters" \notin F /\ \A k \in F : own[k] = Taken(k, r)
    BY DEF Taken, Texts, Millis, Micros
  <2> HIDE DEF objects, nested, own, seen, F
  <2> QED
    BY <2>3, <2>5, <2>8, <2>9, <2>10, SumRenders
<1>15. f \in {"StoreStats", "StreamInfo", "EventTypeSummary", "Scavenge",
            "ScavengeDryRun", "ScavengeMatching", "CreateLink",
            "DeleteLink", "StartLink", "StopLink", "GetLink", "ListLinks",
            "LinkInfo", "ReloadCatalogue", "GetCatalogueStatus"}
  BY AdminTables
<1> QED
  BY <1>1, <1>2, <1>3, <1>4, <1>5, <1>6, <1>7, <1>8, <1>9, <1>10, <1>11, <1>12, <1>13, <1>14, <1>15

LEMMA HealthRender ==
  ASSUME NEW s, NEW f \in DOMAIN HealthCalls(s), NEW T,
         T = HealthStubs[HealthCalls(s)[f].stub].response,
         NEW r, NEW n \in Nat, Answers(r, T, n)
  PROVE  Renders(Printed("health", f, HealthResults(r)[f]), r, T)
<1> DEFINE objects == Printed("health", f, HealthResults(r)[f])
<1> SUFFICES Renders(objects, r, T)
  OBVIOUS
<1>1. ASSUME f = "Check"
      PROVE  Renders(objects, r, T)
  <2>1. T = HealthCheckResponse
    BY <1>1, CallFields DEF HealthCalls, HealthStubs, Unary
  <2>6. HealthResults(r)[f] = <<[Status |-> statusFromProto(Get(r, "status")),
                               Details |-> Get(r, "details")]>>
    BY <1>1 DEF HealthResults, Value
  <2>2. DOMAIN objects = 1..1
    BY <1>1, <2>6 DEF Printed, PrintHealth, Each, Value
  <2>3. objects[1] = CheckResult([Status |-> statusFromProto(Get(r, "status")),
                                       Details |-> Get(r, "details")])
    BY <1>1, <2>6 DEF Printed, PrintHealth, Each, Value
  <2>4. Marked(r, T, n)
    BY DEF Answers
  <2>5. Reads(objects[1], r, T)
    BY <2>1, <2>3, <2>4, ChecksRead
  <2> HIDE DEF objects
  <2> QED
    BY <2>1, <2>2, <2>5, Singles, OneRenders DEF Single
<1>2. ASSUME f = "Health"
      PROVE  Renders(objects, r, T)
  <2>1. T = HealthResponse
    BY <1>2, CallFields DEF HealthCalls, HealthStubs, Unary
  <2>6. HealthResults(r)[f] = <<HealthResults(r)["Health"][1]>>
    BY <1>2 DEF HealthResults, Value
  <2>2. DOMAIN objects = 1..1
    BY <1>2, <2>6 DEF Printed, PrintHealth, Each, Value
  <2>3. objects[1] = HealthResult(HealthResults(r)["Health"][1])
    BY <1>2, <2>6 DEF Printed, PrintHealth, Each, Value
  <2>4. Marked(r, T, n)
    BY DEF Answers
  <2>5. Reads(objects[1], r, T)
    BY <2>1, <2>3, <2>4, HealthReads
  <2> HIDE DEF objects
  <2> QED
    BY <2>1, <2>2, <2>5, Singles, OneRenders DEF Single
<1>3. ASSUME f \in {"ClusterConsistency", "MembershipConsensus", "RaftLogConsistency"}
      PROVE  Renders(objects, r, T)
  <2>1. T = ClusterCheckResponse
    BY <1>3, CallFields DEF HealthCalls, HealthStubs, Unary
  <2>6. HealthResults(r)[f] = <<[Status |-> clusterStatusFromProto(Get(r, "status")),
                               Details |-> Get(r, "details")]>>
    BY <1>3 DEF HealthResults, Value
  <2>2. DOMAIN objects = 1..1
    BY <1>3, <2>6 DEF Printed, PrintHealth, Each, Value
  <2>3. objects[1] = CheckResult([Status |-> clusterStatusFromProto(Get(r, "status")),
                                       Details |-> Get(r, "details")])
    BY <1>3, <2>6 DEF Printed, PrintHealth, Each, Value
  <2>4. Marked(r, T, n)
    BY DEF Answers
  <2>5. Reads(objects[1], r, T)
    BY <2>1, <2>3, <2>4, ClusterChecksRead
  <2> HIDE DEF objects
  <2> QED
    BY <2>1, <2>2, <2>5, Singles, OneRenders DEF Single
<1>4. ASSUME f = "MemoryLevel"
      PROVE  Renders(objects, r, T)
  <2>1. T = MemoryLevelResponse
    BY <1>4, CallFields DEF HealthCalls, HealthStubs, Unary
  <2>6. HealthResults(r)[f] = Value(memoryLevelFromProto(Get(r, "level")))
    BY <1>4 DEF HealthResults, Value
  <2>2. DOMAIN objects = 1..1
    BY <1>4, <2>6 DEF Printed, PrintHealth, Each, Value
  <2>3. objects[1] = [level |-> memoryLevelFromProto(Get(r, "level"))]
    BY <1>4, <2>6 DEF Printed, PrintHealth, Each, Value
  <2>4. Marked(r, T, n)
    BY DEF Answers
  <2>5. Reads(objects[1], r, T)
    BY <2>1, <2>3, <2>4, LevelReads
  <2> HIDE DEF objects
  <2> QED
    BY <2>1, <2>2, <2>5, Singles, OneRenders DEF Single
<1>5. ASSUME f = "MemoryStats"
      PROVE  Renders(objects, r, T)
  <2>1. T = MemoryStatsResponse
    BY <1>5, CallFields DEF HealthCalls, HealthStubs, Unary
  <2> DEFINE F == {"used_bytes", "total_bytes", "usage_percent", "breakdown"}
  <2>2. HealthResults(r)[f] = <<[UsedBytes |-> Get(r, "used_bytes"), TotalBytes |->
            Get(r, "total_bytes"), UsagePercent |-> Get(r, "usage_percent"),
            Breakdown |-> Get(r, "breakdown")]>>
    BY <1>5 DEF HealthResults
  <2>3. /\ DOMAIN objects = 1..1 /\ DOMAIN objects[1] = F
        /\ objects[1].used_bytes = Get(r, "used_bytes")
        /\ objects[1].total_bytes = Get(r, "total_bytes")
        /\ objects[1].usage_percent = Get(r, "usage_percent")
        /\ objects[1].breakdown = Get(r, "breakdown")
    BY <1>5, <2>2 DEF Printed, PrintHealth, Each, Value, MemoryStats
  <2> HIDE DEF objects
  <2>5. \A k \in F : objects[1][k] = Taken(k, r)
    BY <2>3 DEF Taken, Texts, Millis, Micros
  <2>4. T = Plain(F) /\ F # {}
    BY <2>1 DEF MemoryStatsResponse
  <2> HIDE DEF F
  <2> QED
    BY <2>3, <2>4, <2>5, PlainRenders
<1>6. ASSUME f = "ServerInfo"
      PROVE  Renders(objects, r, T)
  <2>1. T = ServerInfoResponse
    BY <1>6, CallFields DEF HealthCalls, HealthStubs, Unary
  <2> DEFINE F == {"reckon_db_version", "reckon_gateway_version", "integrity_algo",
                  "integrity_enabled", "hmac_key_id",
                  "api_compatibility_version"}
  <2>2. HealthResults(r)[f] = <<[ReckonDbVersion |-> Get(r, "reckon_db_version"),
            ReckonGatewayVersion |-> Get(r, "reckon_gateway_version"),
            APICompatibilityVersion |-> Get(r, "api_compatibility_version"),
            IntegrityEnabled |-> Get(r, "integrity_enabled"), IntegrityAlgo |->
            Get(r, "integrity_algo"), HmacKeyId |-> Get(r, "hmac_key_id")]>>
    BY <1>6 DEF HealthResults
  <2>3. /\ DOMAIN objects = 1..1 /\ DOMAIN objects[1] = F
        /\ objects[1].reckon_db_version = Get(r, "reckon_db_version")
        /\ objects[1].reckon_gateway_version = Get(r, "reckon_gateway_version")
        /\ objects[1].integrity_algo = Get(r, "integrity_algo")
        /\ objects[1].integrity_enabled = Get(r, "integrity_enabled")
        /\ objects[1].hmac_key_id = Get(r, "hmac_key_id")
        /\ objects[1].api_compatibility_version = Get(r, "api_compatibility_version")
    BY <1>6, <2>2 DEF Printed, PrintHealth, Each, Value, ServerInfo
  <2> HIDE DEF objects
  <2>5. \A k \in F : objects[1][k] = Taken(k, r)
    BY <2>3 DEF Taken, Texts, Millis, Micros
  <2>4. T = Plain(F) /\ F # {}
    BY <2>1 DEF ServerInfoResponse
  <2> HIDE DEF F
  <2> QED
    BY <2>3, <2>4, <2>5, PlainRenders
<1> QED
  BY <1>1, <1>2, <1>3, <1>4, <1>5, <1>6
     DEF HealthCalls

------------------------------------------------------------------------------
\* Whatever a function is, what its command prints of an answer renders the answer.
LEMMA CallsRender ==
  ASSUME NEW s, NEW a, NEW p \in Packages, NEW f \in DOMAIN Calls(s, a)[p], NEW T,
         T = Stubs(p)[Calls(s, a)[p][f].stub].response,
         NEW r, NEW n \in Nat, Answers(r, T, n)
  PROVE  Renders(Printed(p, f, Results(r)[p][f]), r, T)
<1>1. CASE p = "streams"
  <2>1. /\ Calls(s, a)[p] = StreamsCalls(s, a) /\ Stubs(p) = StreamsStubs
        /\ Results(r)[p] = StreamsResults(r)
    BY <1>1 DEF Calls, Stubs, Results
  <2> QED
    BY <1>1, <2>1, StreamsRender
<1>2. CASE p = "subscriptions"
  <2>1. /\ Calls(s, a)[p] = SubscriptionsCalls(s, a) /\ Stubs(p) = SubscriptionsStubs
        /\ Results(r)[p] = SubscriptionsResults(r)
    BY <1>2 DEF Calls, Stubs, Results
  <2> QED
    BY <1>2, <2>1, SubscriptionsRender
<1>3. CASE p = "snapshots"
  <2>1. /\ Calls(s, a)[p] = SnapshotsCalls(s, a) /\ Stubs(p) = SnapshotsStubs
        /\ Results(r)[p] = SnapshotsResults(r)
    BY <1>3 DEF Calls, Stubs, Results
  <2> QED
    BY <1>3, <2>1, SnapshotsRender
<1>4. CASE p = "stores"
  <2>1. /\ Calls(s, a)[p] = StoresCalls(a) /\ Stubs(p) = StoresStubs
        /\ Results(r)[p] = StoresResults(r)
    BY <1>4 DEF Calls, Stubs, Results
  <2> QED
    BY <1>4, <2>1, StoresRender
<1>5. CASE p = "temporal"
  <2>1. /\ Calls(s, a)[p] = TemporalCalls(s, a) /\ Stubs(p) = TemporalStubs
        /\ Results(r)[p] = TemporalResults(r)
    BY <1>5 DEF Calls, Stubs, Results
  <2> QED
    BY <1>5, <2>1, TemporalRender
<1>6. CASE p = "schema"
  <2>1. /\ Calls(s, a)[p] = SchemaCalls(s, a) /\ Stubs(p) = SchemaStubs
        /\ Results(r)[p] = SchemaResults(r)
    BY <1>6 DEF Calls, Stubs, Results
  <2> QED
    BY <1>6, <2>1, SchemaRender
<1>7. CASE p = "dcb"
  <2>1. /\ Calls(s, a)[p] = DcbCalls(s, a) /\ Stubs(p) = DcbStubs
        /\ Results(r)[p] = DcbResults(r)
    BY <1>7 DEF Calls, Stubs, Results
  <2> QED
    BY <1>7, <2>1, DcbRender
<1>8. CASE p = "admin"
  <2>1. /\ Calls(s, a)[p] = AdminCalls(s, a) /\ Stubs(p) = AdminStubs
        /\ Results(r)[p] = AdminResults(r)
    BY <1>8 DEF Calls, Stubs, Results
  <2> QED
    BY <1>8, <2>1, AdminRender
<1>9. CASE p = "health"
  <2>1. /\ Calls(s, a)[p] = HealthCalls(s) /\ Stubs(p) = HealthStubs
        /\ Results(r)[p] = HealthResults(r)
    BY <1>9 DEF Calls, Stubs, Results
  <2> QED
    BY <1>9, <2>1, HealthRender
<1> QED
  BY <1>1, <1>2, <1>3, <1>4, <1>5, <1>6, <1>7, <1>8, <1>9 DEF Packages

\* The store that an answer is marked with is the one the client is bound to.
LEMMA OwnStore ==
  ASSUME IInv, Sent
  PROVE  LET marked == Get(frame.request, "store_id") IN
         /\ "store_id" \in DOMAIN frame.request /\ op.package # "stores" =>
              marked = <<"store_id", op.store>>
         /\ marked \in Seq({"store_id", op.store})
<1> DEFINE marked == Get(frame.request, "store_id")
<1>1. /\ <<>> \in Seq({"store_id", op.store}) /\ <<"store_id">> \in Seq({"store_id", op.store})
      /\ <<"store_id", op.store>> \in Seq({"store_id", op.store})
  OBVIOUS
<1>2. ASSUME "store_id" \in DOMAIN frame.request
      PROVE  marked = IF op.package = "stores" THEN <<"store_id">>
                      ELSE <<"store_id", op.store>>
  <2>1. Carries(op, "store_id", frame.request["store_id"])
    BY <1>2, InFlightCarries
  <2>2. marked = frame.request["store_id"]
    BY <1>2 DEF Get
  <2> QED
    BY <2>1, <2>2 DEF Carries
<1>3. "store_id" \notin DOMAIN frame.request => marked = <<>>
  BY DEF Get, Zero
<1> HIDE DEF marked
<1>4. marked \in {<<>>, <<"store_id">>, <<"store_id", op.store>>}
  BY <1>2, <1>3
<1>5. marked \in Seq({"store_id", op.store})
  BY <1>1, <1>4
<1> QED
  BY <1>2, <1>5 DEF marked

\* What is shown of an answer renders it, and the answer is the server's.
LEMMA ShownRenders ==
  ASSUME IInv, Shows
  PROVE  /\ \E shown \in BOOLEAN : answer = Answer(frame.path,
              IF "store_id" \in DOMAIN frame.request /\ op.package # "stores"
              THEN <<"store_id", op.store>> ELSE Get(frame.request, "store_id"),
              op.variant, shown)
         /\ Renders(printed.objects, answer, Response)
<1> DEFINE marked == Get(frame.request, "store_id")
           own == IF "store_id" \in DOMAIN frame.request /\ op.package # "stores"
                  THEN <<"store_id", op.store>> ELSE marked
           calls == Calls(<<"store_id", op.store>>, Args(op.package, op.variant))
           results == Results(answer)[op.package][op.function]
<1>1. /\ answer \notin {None, Status}
      /\ printed = [objects |-> Printed(op.package, op.function, results)]
  BY DEF IInv, Converted
<1>2. Sent /\ \E shown \in BOOLEAN : answer = Answer(frame.path, marked, op.variant, shown)
  BY <1>1 DEF IInv, Answered
<1>3. marked = own /\ marked \in Seq({"store_id", op.store})
  BY <1>2, OwnStore
<1>4. /\ op.package \in Packages /\ op.variant \in Nat
      /\ op.function \in DOMAIN calls[op.package]
      /\ Method = calls[op.package][op.function].stub
  BY <1>2, InFlight, VariantsAssumption
<1>5. Response = Stubs(op.package)[calls[op.package][op.function].stub].response
  BY <1>2, <1>4, InFlightAgrees DEF Stub
<1>6. Answers(answer, Response, op.variant)
  <2>1. PICK shown \in BOOLEAN : answer = Answer(frame.path, marked, op.variant, shown)
    BY <1>2
  <2> DEFINE tag == marked \o <<frame.path[2]>>
  <2>2. tag \in Seq({"store_id", op.store, frame.path[2]})
    <3> HIDE DEF marked
    <3> QED
      BY <1>3
  <2>3. answer = Message(Response, tag, op.variant, shown)
    BY <2>1 DEF Answer, Response
  <2> HIDE DEF tag
  <2> QED
    BY <2>2, <2>3, MessageAnswers
<1> HIDE DEF calls, results
<1>7. Renders(Printed(op.package, op.function, results), answer, Response)
  BY <1>4, <1>5, <1>6, CallsRender DEF calls, results
<1>8. printed.objects = Printed(op.package, op.function, results)
  BY <1>1
<1> HIDE DEF marked
<1>9. \E shown \in BOOLEAN : answer = Answer(frame.path, own, op.variant, shown)
  BY <1>2, <1>3
<1> QED
  BY <1>7, <1>8, <1>9 DEF marked

\* What is printed under a name is what the server sent under it, in the right unit
\* and for the client's own store, for every function of every package; what is not
\* set is printed as zero.
THEOREM PrintsWhatWasSent == Spec => []PrintedAsSent
<1>1. IInv => PrintedAsSent
  BY ShownRenders DEF PrintedAsSent, Renders, Blank
<1> QED
  BY <1>1, Holds, PTL

\* No verdict is printed better than the server gave it.
THEOREM VerdictsHonest == Spec => []VerdictHonest
<1>1. IInv => VerdictHonest
  BY ShownRenders DEF VerdictHonest, Renders
<1> QED
  BY <1>1, Holds, PTL
=============================================================================
