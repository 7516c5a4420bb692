# A verification of reckon-go

reckon-go is a Go client of the reckon gateway, an event store behind gRPC: an
SDK (one package per service) and `reckon`, a command line that plugins drive
through NDJSON on its stdin and stdout. The server is not in the repository.
What can go wrong here is therefore at the edges: between a goroutine and a
caller that share two channels, between a request and a reply that may be lost,
between a checkpoint and a process that is killed, between a decision and the
events it rests on, and between an exit status and what really happened.

Paths below are relative to the repository (`src/`). "DESIGN" is
`plans/DESIGN_RECKON_CLI.md`.

## 1. Inventory

| Component | Source | State | Operations | What is hard | What makes it correct |
|---|---|---|---|---|---|
| streams watch, subscribe, stores watch | `streams/streams.go:223`, `subscriptions/subscriptions.go:246`, `stores/stores.go:157` | one goroutine; an unbuffered value channel; a one-slot error channel; the caller's context; the gRPC stream | open, receive, hand over, report, close both | select between a slow or absent caller and a done context; two closes in an order; three ways to end that look alike | values in order without gaps; nil only after all values; at most one value lost, only on cancel; the goroutine never leaks past a cancel |
| streams append and read | `streams/streams.go:171-368`, `streams/lineage.go` | none | Append at a version, a sentinel or whatever number --expect was given, Read, ReadBackward, ReadBy*, Version, List, Delete, WithLineage | retries after a lost reply; pages read while others append; a stream deleted and begun again; sentinels that are also numbers | a batch at the version read was decided on exactly what precedes it, and is written once; results and conflicts are true |
| dcb | `dcb/dcb.go`, `dcb/ccc.go` | none; the caller keeps a cutoff | Read, Append, Committed, Conflict; payload reads; a filter algebra | stale decisions; cutoffs from elsewhere than a Read; lost replies; a truncated Read | each appended event was decided on all the matching events before it |
| subscriptions | `subscriptions/subscriptions.go` | none; the server keeps a checkpoint per subscription | Create, Remove, List, Get, Lag, Ack, Subscribe | acks lost, late, or of a process already dead | the checkpoint never passes what was handled |
| snapshots | `snapshots/snapshots.go` | none | Save, At, Latest (a loop over one List), Delete, List, ListAll | snapshots saved late or deleted while a loader chooses, reads and saves; an empty record that looks like version 0 | the state loaded is what replaying the stream gives |
| stores, temporal, schema, admin, health | the packages of those names | none | one call each, with conversions; stores.Watch as above | enums unknown to one side; milliseconds and microseconds; a dry run beside the real one | arguments arrive, answers are shown under their name and in their unit, no verdict is embellished |
| client facade | `client.go`, `*_facade.go` | one `grpc.ClientConn` | Connect, Close, a constructor per service | Connect does not connect | no call before the first use |
| `reckon`, the run of a command | `cmd/reckon/main.go`, `route.go`, `output.go`, `input.go`, `cmd_*.go` | flags; context with signals; deadline; stdin, stdout, stderr | route, check, read stdin, dial, one call or one stream, write | a deadline or signal while the request is out; a full stdout; stdin that never ends | the exit status tells what became of the call, and the outputs agree with it |
| `reckon subs consume` | `cmd/reckon/cmd_subs.go:179`, `stream.go` | the pump, the acker goroutine, the frames on stdout, the lines on stdin | frames; acks in the modes auto, none, stdin; graceful close | three goroutines and a plugin; kill and restart against a checkpoint; frames whose write fails, unnoticed, or never returns | frames in order, honest terminal frame, at most one delivery acked and never framed per kill in mode auto, none skipped in mode stdin |
| encode, events on stdin | `cmd/reckon/encode`, `cmd/reckon/input.go` | none | SDK values to JSON maps, and events back | a payload printed in two forms; a pipe cut in the middle | `streams append` sends what `streams read` has read, all of it or nothing |
| genproto | `genproto` | generated | messages with getters; stubs, handlers and ServiceDesc of nine services | three tables that must agree | each stub reaches the handler of its messages |
| examples, probes, e2e, scripts | `examples`, `cmd/*probe`, `e2e`, `scripts` | - | programs that use the SDK | - | - |

How they interact: a command routes to a handler, which dials and uses one
service client; the clients share the connection and are otherwise stateless.
The streaming clients start a goroutine that reads the gRPC stream and writes
into the two channels; `pump` ranges over the first and then reads the second,
and writes frames. In `subs consume` the frame function (auto) or a second
goroutine (stdin) also calls Ack on the same connection, and the end of stdin
cancels the context all of them share.

## 2. The modules

| Module | Models | Proofs |
|---|---|---|
| `FifoHandoff` | the promise of the channel pair, without goroutines or channels | - |
| `StreamBridge` | the goroutine, its channels, the gRPC stream and the caller; refines `FifoHandoff` | `StreamBridge_proofs` |
| `SubsConsume` | `subs consume`: instantiates `StreamBridge` and adds pump, acks, stdin, plugin, kills and restarts | `SubsConsume_proofs`, on top of `StreamBridge_proofs` |
| `EventLog` | what optimistic concurrency promises: reading a stream and appending at the version read are one step | - |
| `StreamAppend` (`MCStreamAppend`) | several applications that read, ask for the version, append, send again and start over; refines `EventLog` | `StreamAppend_proofs` |
| `DecisionLoop` (`MCDecisionLoop`) | the decision loop of the dcb package, its client calls and the conditional append of the server | `DecisionLoop_proofs` |
| `Snapshots` | loading an aggregate from its latest snapshot and the events after it, saving, deleting | `Snapshots_proofs` |
| `Command`, `CommandTable` (`MCCommand`) | one run of any command; the table of the commands and their shapes | `Command_proofs` |
| `Payload` | `streams read` piped into `streams append`, through encode, a filter and input.go | `Payload_proofs` |
| `Messages`, `Services` | genproto: the messages; the stubs, handlers and descriptors | `Sdk_proofs` |
| `SdkCalls`, `Encode`, `Sdk` | every function of the nine packages: the request it builds and the values it makes of the answer; the JSON printed for them; a call from end to end | `Sdk_proofs` |

A definition whose comment begins with "Mutant" is a plausible slip in the
definition that follows it. It is used by no specification: it shows that a
property notices the slip.

### StreamBridge

Values are named by their position in the order the server sends them. `wire`
is what gRPC holds (at most `Window`, its flow control), `hand` the value in the
goroutine's `select`, `err` its local error, `errBuf` the slot of the error
channel. One action per thing the goroutine can do: `OpenOk`/`OpenFail`,
`RecvMsg`/`RecvEof`/`RecvErr`, `HandOver` (the rendezvous of the unbuffered
channel, in which both sides move) or `SendAborted` (the other arm of the
select), `Report`, and the two deferred closes in the order Go runs them, last
in first out. The caller ranges, may cancel and leave the loop at once
(`Abandon`, as `examples/subscriptions-demo` does), and then reads the error
channel. When the context is done and a caller is ready, either arm may run, as
Go's select may choose either. Subscribe and stores.Watch have the same
goroutine line for line; the map names streams.Watch.

### SubsConsume

A session is one start of the process. The server opens it behind the stored
checkpoint `base`; the i-th value of the session is event `base + i`. `phase` is
where the pump is; in mode auto `Take` receives a delivery and starts its Ack
(`phase = "ack"`), and only `Emit` writes the frame: that is the order of
`cmd_subs.go:228-232`. An ack is a member of `acks` from `SendAck` on; it may be
applied or lost at any time, also after the process that sent it was killed
(`Crash`) and another was started (`Restart`).

Frames are written by `Ready`, `Emit` and `Finish` (`PumpWrites`). Such a step
stands for the return of the write, which may never come: a write to a full pipe
waits, whatever the context says. `pump` drops the error of a write, so in the
modes auto and none, where stdout may be a file, a frame may be `lost`: its write
failed, or it was joined to the piece of a line that an earlier failure left. In
mode stdin stdout is the plugin's pipe, where the only failure is the SIGPIPE of
a plugin that is gone, which is a `Crash`. `frames` is what the process tried to
write, `lost` the places of those that did not come out, `tried` the events
framed by any process so far.

In mode stdin the plugin handles the frames in order, writes lines and may close
stdin. A line is the number it acks (0 if the JSON has no `ack`), one that is no
JSON, which is skipped, or one longer than the 64 KB of bufio.Scanner. `Scan` and
`StdinAck` are the acker's loop; `AckerEnds` leaves it at the end of stdin or at
a line too long, and cancels the stream with whatever is then unread.

### DecisionLoop

A worker reads the events its filter matches (`saw`, and `cutoff`, their highest
seq, -1 for none), decides (it refuses when its tags have reached `Limit`), and
appends with the cutoff. A request stays in `net` until the server takes it or
it is lost; the worker may give up waiting at any time and run the loop again,
and its old request may still be executed. The server's test, `Stale`, is the
one the package doc states: some matching event has a seq above the cutoff.
`OnConflict` and `AfterCommit` select among the ways the docs allow to go on:
"reread" and "stop"/"same" are the documented loop, "useMaxSeq" and "overlap"
are what the doc comments of `Conflict` and `Committed` add to it. Filters are
MatchAny over sets of tags.

### StreamAppend and EventLog

A writer is an application with one batch to write and a plan: "exact" reads
the stream page by page (`ReadPage`) and appends at the version of the last event
read, "version" asks `Client.Version` first, the others pass a sentinel or, for
"number", whatever was typed behind --expect (`ParseExpected`, the names and
numbers of `streams.go:42` and `input.go:17`). `ids` says
whether the application gives its events ids of its own, by which it recognises
them when it reads again (`Found`), or lets the gateway generate them.
`SendAppend` puts a request on the `net`, where it can be lost or wait; after
`GiveUp` the writer may send the same request again (`Resend`) or look anew
(`StartOver`), and its old request may still be executed. `Execute` and `Reject`
are the gateway, which is external: it admits what the doc of ExpectedVersion
says it admits, and of a negative number that no doc names (`Unnamed`) it may
make what it likes (`MayAdmit`). `Delete` empties the stream and begins another `life`; versions
do not tell the lives apart, which is why the properties speak of one life.
`EventLog` is the same stream with one step, `Write`: whatever was decided on in
this life after a read was decided on exactly what it is appended to.

### Snapshots

A loader calls Latest (`SendList`, `AnswerList`, `Choose`; the server answers at
one moment, the reply is used later), starts behind the record it got
(`StartAfter`), reads pages until one is short, and may save the state it
reached. Records arrive late (`net`), are lost, replace the one of the same
version and are pruned; events are appended; the stream is deleted and starts
again. The state of an aggregate is the sequence of the events applied, so that
a missing or doubled event shows. Loaders in `Verifying` compare the record's
anchor hash with the stream (`CheckAnchor`) and each event's PrevEventHash with
the event before it (`Continues`); the package offers both and forces neither.

### Command and CommandTable

`CommandTable` has one row for each command of `route.go` (two for `subs
consume`, with and without the stdin mode): whether it needs a store, what it
checks before it dials, whether it has a subcommand looked at after the dial
(`admin links`), whether it reads stdin, whether it streams. `Command` runs one
of them. A command line is the command and the set of mistakes in it; the steps
follow `run`, the checks of a handler, `io.ReadAll`, `dial`, `rpcCtx`, the call,
and `writeJSON` or `pump`. `request` is the request at the server and outlives
the process; `reply` is what came back. A kill covers SIGKILL and the SIGPIPE of
a closed stdout. Assumed of the gateway: the four statuses NotFound,
InvalidArgument, FailedPrecondition and AlreadyExists are refusals, that is, it
gives them only to requests it did not execute; every other status may come
before or after the execution. gRPC's transparent retries resend only what the
server has not seen and are not modelled. What pump writes frame by frame is in
`SubsConsume`; here a stream is its ready frame, the verdict it reads
(`ReadVerdict`) and the last frame that calls for (`StreamEnds`). The acks on stdin
are read by a goroutine of which only the end is modelled (`AckerEnds`, stdin is
then "left"): that end cancels the stream, not the end of stdin, which the acker
may reach late or, kept by an Ack, never.

### Messages, Services, SdkCalls, Encode, Sdk

`Messages` has one definition per message of genproto, a function from its
fields to their kinds; an enum keeps its values and a time its unit. `Services`
has what protoc wrote three times per service: stubs, handlers, ServiceDesc.
`SdkCalls` has one table per package: for each function the stub it calls with
the request it builds, and the structs it makes of the answer, with the enum
conversions spelled out. `Encode` has the JSON object of each struct. `Sdk` runs
one call: build the request, find the handler under the stub's path, answer any
message of its type, convert, print. Every datum in a request or answer carries
the name of where it came from, so a field dropped, doubled, swapped or read in
the wrong unit shows; the number behind the enums runs over the known values and
one that no enum knows; the one time that travels as a text may also be a text
that names none. A filter of the dcb package is a tree in Go; here it is the
sequence of its nodes, the root first, each naming its parts by their places
further on, on the SDK's side and on the wire alike. A stub and a handler are
looked up under their package and service. The server is external. A Client
value never changes after New, so one call at a time stands for any number of
them.

### Payload

The events of a stream differ in their payload, one of the cases that
`addBytes` and `resolveInputBytes` tell apart: empty, JSON null, a quoted
string, an object with and without white space, a text, bytes that are no
UTF-8. The reader prints each with --bytes auto or base64; the filter on the
pipe (external) passes it on as an array or in lines and may set the decoded
form; the writer may be killed between two objects or within one;
`ReadProposedEvents` parses all of its input. The conversions are modelled by
what they do to these cases; the Go statement at `input.go:110`, which leaves the
order of a read and a call open, is taken in the order the gc compiler gives it.

## 3. The runs

| Run | Checks | Bounds, and why they are enough |
|---|---|---|
| `bridge` | order, completeness, truth of the verdict, at most one loss, no blocking on the error slot; refinement of `FifoHandoff`; a cancel ends the goroutine; a caller that drains learns the end | window 2, 4 values: values on the wire, in the hand and delivered at once, with flow control at its limit; what follows does not depend on the count (and is proved for any) |
| `consume` | the frames, honest terminals, losses per kill, checkpoint behind what was handled; on a stdout that is read, a signal ends the process, also with an Ack never answered, and closing stdin ends it when besides Acks return | 2 events, 2 starts, window 1, 1 line, all three modes: an ack of the first start overtaken by the second; an event redelivered; any frame lost; a line behind the one in an Ack, also one too long (the safety part is proved for any) |
| `consume_acked_emitted` | finding | one mode, one start |
| `append` | each exact append decided on what precedes it, a concrete version written once, results and conflicts true, refinement of `EventLog` | 2 writers over the six kinds of plan, the numbers 0 and -5, batches of 1 and 2, page 2, 2 sends and one new start each, one deletion: a retry overtaken by its own first request, a page boundary inside a batch, an append across a deletion (all of it is proved for any) |
| `decision` | each decision fresh, no tag above its limit, each conflict paid for by a new matching event | 2 workers, 2 tags, limit 2, batch 2, 3 appends each: overlapping and disjoint filters, a read cut by its batch, a lost reply whose request is executed after the retry; workers and tags are symmetric |
| `decision_use_max_seq`, `decision_overlap` | findings | as above, with limit 1 for the first |
| `snapshots` | Latest is the highest snapshot of one moment; the state loaded is that of a replay | 2 loaders, one of which verifies, page 1, 2 events, 2 saves, one pruned, one deletion, one load done again: a save that lands in the next life, a record pruned between List and use, pages on both sides of an append (proved for any) |
| `command` | the exit status tells the effect, the outputs agree; on a stdout that is read, a run ends once its input has, a stream once it is cancelled | the whole table; at most 2 mistakes on a line: the second one shows that the first decides |
| `command_signal` | finding | no mistakes |
| `payload` | the pipe is faithful | 2 events of all payloads and content types, both modes, both layouts, each edit: events do not influence each other but for where the input is cut (proved for any number of events) |
| `sdk` | the tables agree; arguments arrive; answers are printed under their name, in their unit and for their store; verdicts are not embellished; readers do not write | every function, 2 stores, each known enum number and an unknown one, texts with and without a time, nested messages set or not: a call keeps nothing for the next (tables, arguments and readers are proved for any stores and numbers) |

Deadlock is checked except for `Command`, whose runs end; the other modules
have a stuttering step for the state in which the bounds are used up. Every
property is broken by at least one mutant.

`TypeOK` says more than types where the values allow it: cutoffs and checkpoints
lie within the log (`DecisionLoop`, `SubsConsume`), expectations are the named
numbers, versions or what was typed (`StreamAppend`), no empty record is stored (`Snapshots`), and
in `Sdk` each message on the wire is of the type its receiver decodes.

**Fairness.** Weak fairness of the goroutine, of the pump and the acker, and of
the steps of a command, but for the steps that wait for a write to stdout: the
Go scheduler runs what is ready, and gRPC's Recv and unary calls return once
their context is done. `Command` also assumes that its deadline expires in the
end. The server, the network, the plugin, the caller, the reader of stdout and
whoever sends signals owe nothing. Where a property needs more, it says so as a
hypothesis:

- `CallerDrains` in `DrainingCallerFinishes`: the caller keeps reading.
- `StdoutRead` in `SignalStops`, `CloseStops`, `RunEnds` and `SignalEnds`: a write
  to stdout returns. It is needed, since a write to a full pipe does not look at
  the context: a plugin that stops reading holds the process in its write, and
  neither a caught signal nor a closed stdin frees it.
- `AcksReturn` in `CloseStops`: Ack runs without a deadline, so a server that
  never answers keeps the acker from seeing the end of stdin. `RunEnds` counts
  such a stream as cancelled only when the acker has come to its end.

`StreamAppend`, `DecisionLoop` and `Snapshots` are loops of an application on a
network that owes it nothing: they have safety properties only, and
`ConflictMeansProgress` states as one what makes the decision loop lock-free.

## 4. What is proved

For every value of the constants, checked by TLAPS. Each invariant, action
property and refinement of the runs `bridge`, `consume`, `append`, `decision`,
`snapshots`, `payload` and `sdk`, and the safety of `command`, have their
theorem:

- `StreamBridge_proofs`: `TypeCorrect`, `InOrder`, `NilIsComplete`,
  `VerdictIsTrue`, `OneLoss`, `NoWaitForVerdict`; and `BridgeKeepsPromise`, the
  refinement of `FifoHandoff`. The invariants are not inductive: they speak of
  what the caller has, and a step of the goroutine moves a value from the wire
  to its hand. `IInv` adds what the wire and the hand hold (`WireInOrder`,
  `HandInOrder`: together with `delivered` they are a prefix of what was sent)
  and where an error came from and is kept (`ErrTruthful`, `ErrKept`: local
  variable, slot, verdict, in exactly one).
- `SubsConsume_proofs`: `TypeCorrect`, `StdoutInOrder`, `LastFrameIsTrue`,
  `NothingSkipped`, `OneLossPerCrash`. The bridge is not proved
  again: the module instantiates `StreamBridge_proofs`, shows that each step of
  the process is a step of the bridge, leaves it alone or, at a restart, begins
  it anew (`BridgeStep`), and so has its invariant in every session.
  `FramedInOrder` ties the frames to what the bridge has delivered, less the
  event in the pump's hands. On top of it, `FramedTried` keeps `tried` in step
  with the frames over restarts; `HandledFirst` follows an ack in mode stdin from
  the plugin over the lines of stdin and the acks under way to the checkpoint,
  all of them handled with everything before; `LostInHand` counts, in mode auto,
  what was acked or may be and no process ever framed, the event in hand apart:
  only a kill adds to it, and only that event. A frame whose write failed counts
  as tried: the code cannot do better, as no one looks at the error.
- `StreamAppend_proofs`: `TypeCorrect`, `DecisionsFresh`, `NothingTwice`,
  `ResultsTrue`, `ConflictsTrue`, and `ImplementsLog`, the refinement of
  `EventLog`. The invariant has three layers. `Knowledge`: what a writer and a
  request say they saw is what the stream was up to the version they expect
  (`SeenByRead`, `WritersKnow`, `RequestsKnow`), so that a request the gateway
  admits saw all there is. `Order`: the requests of a writer are numbered, the
  same request sent again expects the same version, and what has been executed
  has moved the stream past it (`Rounds`, `Concord`, `ExpectsVersion`,
  `Overtaken`), so that the second copy cannot be admitted. `Sent`, `Asked`,
  `Refused`, `Answered`: what a reply under way says of the stream.
- `DecisionLoop_proofs`: `TypeCorrect`, `Fresh`, `Limited`, for any number of
  workers, tags and appends, any limit and any batch size, in the documented loop
  (`Documented`). `IInv` adds what a worker and a request know (`WorkersKnow`,
  `RequestsKnow`): `saw` holds every matching event up to the cutoff, so the
  cutoff never claims more than was seen. The heart is `NotStaleSawAll`: a
  request that is not stale when the server takes it was decided on everything
  that matches now. `TagLimit` then follows by counting. `LockFree` proves
  `ConflictMeansProgress` for a batch at least as large as the limit, with
  `Paid`: a worker that is to append has seen as many matching events as it was
  told of conflicts, and a conflict means that there is one more. A smaller
  batch may conflict forever.
- `Command_proofs`: `TypeCorrect`, `ExitIsHonest`, `OutputsAgree`, for any table
  of handlers. `IInv` adds what each phase has written and sent (`Phases`) and
  what a reply says of its request (`RepliesKnow`), so that a status that
  reaches the exit code is still true when the server acts later.

- `Snapshots_proofs`: `TypeCorrect`, `LatestWasLatest` (`LatestAtOneMoment`) and
  `LoadsReplay` (`Rehydrated`). The loop of Latest is `Best`, a recursive
  function over the places of the list. What it returns for a list of any
  length (`LoopExists`, `BestIsHighest`) is shown by taking the first place at
  which the claim would fail: the library's induction theorems take an operator
  as a parameter, which the provers cannot instantiate. `IInv` says what the
  loader knows while it waits and reads: what was listed and chosen was stored
  at that moment (`LatestRecalled`); every record, stored or under way, holds
  the state a replay gives (`SnapsUsable`, `RecordsUsable`); the state in the
  loader's hands is that of a replay up to its position for as long as the
  stream it began on lives (`Begun`, `AtItsPlace`, `ReadAll`), and for a loader
  that verifies, each event is linked to the one before (`Linked`).
- `Payload_proofs`: `Faithful` (`PipeFaithful`), for any number of events. `IInv`
  says that what is on the pipe is what was read, printed and edited, up to where
  it is cut (`PipeIsPrefix`), and that what was sent is the whole input parsed
  (`SentIsParsed`); `RoundTrip` is the case analysis over the payloads and
  modes.
- `Sdk_proofs`: `TypeCorrect`, `ArgumentsReachServer` (`ArgumentsArrive`),
  `NoHiddenWrites` (`ReadersDoNotWrite`), `PrintsWhatWasSent` (`PrintedAsSent`),
  `VerdictsHonest` (`VerdictHonest`). `TablesAgree` compares the three tables
  of each service, `CallsReach` the stub of each function with a handler of its
  messages. `CallsSend` goes through the functions of the packages and follows
  each argument into the request; `FilterArrives` shows for a filter of any
  size and shape that the nodes on the wire select what the constructors
  promise, by showing that both recursive readings of the node sequence have
  the same body. `IInv` says of a call under way that its frame is the request
  the call built (`Sending`) and that an answer is one of the type the stub
  decodes (`Answered`), and that what is shown is what the function and the
  command make of it (`Converted`). An answer is then known by its marks: each
  datum gives back its instant once its unit is taken off, and of a oneof only
  one member is set (`Answers`). The converters are shown one by one to read a
  marked message faithfully and no better than its verdict (`EventsRead` to
  `ChangeReads`); each function of each package to print one such object for
  the answer and for every message nested in it, and blanks for those that are
  not set (`Renders`, `StreamsRender` to `HealthRender`).

The assumptions are those on the constants, stated where the constants are
declared and evaluated by the runs.

Only model-checked: the liveness properties (`CancelStopsRoutine`,
`DrainingCallerFinishes`, `SignalStops`, `CloseStops`, `RunEnds`, with their
fairness). Their proofs need ENABLED, which the provers do not support.

## 5. Findings

- `subs consume --ack-mode auto` acks before it writes the frame; DESIGN 5.2 says
  after. A kill in between loses a delivery (`LostPerCrash` bounds it to one).
  A failed write loses one too, and of these there is no bound; see below.
- The doc of `Conflict` allows a retry at `MaxSeq` without a Read, and the doc of
  `Committed` a follow-up at `LastSeq` with an overlapping filter: both let a
  decision through that did not see every matching event.
- A command that reads its payload from stdin ignores SIGINT and SIGTERM until
  stdin ends, since io.ReadAll takes no context and the signals are caught.

Seen while modelling, without a run:

- The error channel of Watch and Subscribe yields, and closes, before the value
  channel closes; the doc comments say after. Harmless for a caller that drains
  first, as pump does.
- The ready frame is written before the stream is open; DESIGN 5 says it means
  "stream established".
- A refused connection is `unavailable`, exit 4; DESIGN 6.1 says `unreachable`,
  exit 6. Connect is lazy, so the dial cannot fail that way.
- Mode auto is not "at-most-once" (DESIGN 5.2): an Ack that is lost and a restart
  redeliver.
- A status Canceled that the server sends on its own is reported as `client_eof`,
  exit 0.
- pump discards the errors of its writes. On a full disk, mode auto goes on acking
  deliveries that are shown nowhere; if there is room again, an eof frame may
  follow with deliveries missing before it, and the piece of a line that a failed
  write left spoils the frame behind it; the exit status is 0 also without a
  terminal frame. `TerminalHonest` and `LostPerCrash` therefore speak of frames
  tried, and `OutputDiscipline` of streams on a disk with room.
- A plugin that stops reading holds the process in a write; SIGINT and SIGTERM are
  caught, and nothing but a kill then ends it.
- A line of more than 64 KB on stdin ends the acker and with it the stream, with
  lines unread and as `client_eof`, without an error. A JSON line without an
  `ack` field sends an Ack of 0.
- `--expect` takes any number, also -3 or -5, to which no doc gives a meaning.
- An Append at a version read before the stream was deleted and begun again may be
  accepted on a decision about the old one; `FreshDecision` and `EventLog` speak
  of one life of the stream.
- A `last_refresh` of the catalogue that is no RFC 3339 time becomes the zero time,
  printed as null, without an error.
- Snapshots.Latest makes one call where its doc speaks of two, and its empty
  Record has Version 0: only its StreamID tells it from a snapshot behind the
  first event.
- WithLineage writes into the caller's map, though its doc says that it returns a
  copy: two events proposed from one map share the lineage written last.
- An unknown memory level reads as normal, while an unknown cluster status reads
  as unhealthy.
- stores.List followed by Watch without its snapshot, as a program may do, misses
  what happens between the two calls.
- When a filter edits the decoded form of an event and leaves the base64 form,
  `streams append` sends the old payload without a word.

## 6. Not modelled

- The bytes of JSON, base64 and protobuf, reflection and registration in the
  generated code, TLS and its options beyond their errors.
- What the server does: which events a filter other than MatchAny selects, what
  the ends of a temporal interval include, scavenge, links and the catalogue,
  and what it makes of an Ack under a selector that is no stream.
- `flagsThenArgs`, which reorders the words of a command line, and `WithLineage`:
  pure functions on one goroutine, whose cases a unit test covers.
- Examples, probes, the end-to-end test and scripts: how the demos use the
  channel pair is the caller of `StreamBridge`.
