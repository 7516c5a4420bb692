----------------------------- MODULE StreamAppend -----------------------------
(***************************************************************************)
(* Appends to one stream under optimistic concurrency: the calls Read,     *)
(* Version, Append and Delete of package streams, the expected versions of *)
(* `streams append --expect`, and applications that use them.              *)
(*                                                                         *)
(* Every application wants one batch of events written.  What it expects   *)
(* of the stream is its plan:                                              *)
(*   "exact"      reads the stream, decides, appends at the version read;  *)
(*   "version"    asks for the version and appends at it;                  *)
(*   "no-stream", "any", "exists"  append with the sentinel of that name;  *)
(*   "number"     appends at the number it was given, which may be any.    *)
(* Requests and replies travel, and are lost or late.  An application that *)
(* gave up waiting may send the same request again, or start over; one     *)
(* that gives its events ids of its own finds them when it reads again.    *)
(* The gateway (external) executes a call in one step.                     *)
(***************************************************************************)
EXTENDS Integers, Sequences, FiniteSets

CONSTANTS
  Writers,   \* applications, one operation each
  Plans,     \* what the writers may plan, a subset of PlanType
  Page,      \* the count passed to Read
  MaxSends,  \* bound of the model: appends sent by one writer
  MaxRounds, \* bound of the model: how often a writer starts over
  MaxLives   \* bound of the model: how often the stream is deleted

Kinds == {"exact", "version", "no-stream", "any", "exists", "number"}
\* ids: whether the caller sets ProposedEvent.EventID; size: events in the batch;
\* number: what is given to --expect, if that is a number
PlanType ==
  [kind : Kinds, ids : {"given", "generated"}, size : Nat \ {0}, number : Int]

ASSUME PlansAssumption == Plans \subseteq PlanType
ASSUME BoundsAssumption == Page \in Nat \ {0} /\ {MaxSends, MaxRounds, MaxLives} \subseteq Nat

NoStream == -1
AnyVersion == -2
StreamExists == -4
\* AppendResult{}, which Append returns with an error.
NoResult == [version |-> 0, count |-> 0, life |-> 0]

VARIABLES
  stream,    \* the events; the version of stream[i] is i - 1
  life,      \* how often the stream has been deleted
  net,       \* requests and replies under way
  plan,      \* per writer: what it wants
  st,        \* per writer: where it is
  round,     \* per writer: how often it has started over
  sends,     \* per writer: appends sent so far
  seen,      \* per writer: ids of the events read in this round
  seenLife,  \* history, per writer: life of the stream when the round looked at it
  expected,  \* per writer: the ExpectedVersion of this round
  result     \* per writer: the AppendResult, with the life it is about

server == <<stream, life>>
looking == <<round, seen, seenLife, expected>>
vars == <<server, net, plan, st, sends, looking, result>>

States == {"look", "failed", "ready", "wait", "unknown", "conflict", "found", "done"}
Ids == [by : Writers, round : Nat, send : Nat, nr : Nat \ {0}]
Expectations ==
  {NoStream, AnyVersion, StreamExists} \cup Nat \cup {p.number : p \in Plans}
Requests == [type : {"append"}, by : Writers, round : Nat, send : Nat,
             expected : Expectations, saw : Seq(Ids), sawLife : Nat]
Results == [version : Nat, count : Nat, life : Nat]
Replies == [type : {"ok"}, by : Writers, send : Nat, result : Results]
           \cup [type : {"conflict"}, by : Writers, send : Nat]
Entries == [id : Ids, exact : BOOLEAN, saw : Seq(Ids), sawLife : Nat]

TypeOK ==
  /\ stream \in Seq(Entries) /\ life \in Nat
  /\ net \subseteq Requests \cup Replies
  /\ plan \in [Writers -> Plans]
  /\ st \in [Writers -> States]
  /\ round \in [Writers -> Nat] /\ sends \in [Writers -> Nat]
  /\ seen \in [Writers -> Seq(Ids)] /\ seenLife \in [Writers -> Nat]
  /\ expected \in [Writers -> Expectations]
  /\ result \in [Writers -> Results]

\* The version of a stream of n events: that of its last event, -1 if it has none.
VersionOf(n) == n - 1

\* Mutant: -3, which the named constants leave out.
ParseExpectedCounting(p) ==
  CASE p.kind = "any" -> AnyVersion
    [] p.kind = "exists" -> -3
    [] p.kind = "number" -> p.number
    [] OTHER -> NoStream

\* parseExpected, for a plan that needs no look at the stream: a number is taken
\* as it is.  The other plans start with the version of an empty stream.
ParseExpected(p) ==
  CASE p.kind = "any" -> AnyVersion
    [] p.kind = "exists" -> StreamExists
    [] p.kind = "number" -> p.number
    [] OTHER -> NoStream

Looks(w) == plan[w].kind \in {"exact", "version"}

Init ==
  /\ stream = <<>> /\ life = 0 /\ net = {}
  /\ plan \in [Writers -> Plans]
  /\ st = [w \in Writers |-> IF Looks(w) THEN "look" ELSE "ready"]
  /\ round = [w \in Writers |-> 0] /\ sends = [w \in Writers |-> 0]
  /\ seen = [w \in Writers |-> <<>>] /\ seenLife = [w \in Writers |-> 0]
  /\ expected = [w \in Writers |-> ParseExpected(plan[w])]
  /\ result = [w \in Writers |-> NoResult]

Goto(w, s) == st' = [st EXCEPT ![w] = s]
-----------------------------------------------------------------------------
(* Looking at the stream.                                                  *)

\* What the gateway returns to Read: up to count events from a start version on.
ReadForward(start, count) ==
  LET end == IF start + count < Len(stream) THEN start + count ELSE Len(stream)
  IN [i \in 1..(end - start) |-> stream[start + i].id]

\* Mutant: one page is taken for the stream, the version is asked for separately.
ReadPageThenVersion(w) ==
  /\ st[w] = "look" /\ plan[w].kind = "exact"
  /\ seen' = [seen EXCEPT ![w] = ReadForward(0, Page)]
  /\ seenLife' = [seenLife EXCEPT ![w] = life]
  /\ expected' = [expected EXCEPT ![w] = VersionOf(Len(stream))]
  /\ Goto(w, "ready")
  /\ UNCHANGED <<server, net, plan, round, sends, result>>

\* Mutant: the number of events read for the version of the last one.
ReadPageCounting(w) ==
  /\ st[w] = "look" /\ plan[w].kind = "exact"
  /\ seen' = [seen EXCEPT ![w] = ReadForward(0, Len(stream))]
  /\ seenLife' = [seenLife EXCEPT ![w] = life]
  /\ expected' = [expected EXCEPT ![w] = Len(stream)]
  /\ Goto(w, "ready")
  /\ UNCHANGED <<server, net, plan, round, sends, result>>

\* One page more.  A full page is followed by another; the version of the last
\* event read is the one to append at.
ReadPage(w) ==
  /\ st[w] = "look" /\ plan[w].kind = "exact"
  /\ LET start == Len(seen[w])
         page == IF start <= Len(stream) THEN ReadForward(start, Page) ELSE <<>>
     IN /\ seen' = [seen EXCEPT ![w] = @ \o page]
        /\ seenLife' = [seenLife EXCEPT ![w] = IF start = 0 THEN life ELSE @]
        /\ IF Len(page) = Page
           THEN UNCHANGED <<st, expected>>
           ELSE /\ Goto(w, "ready")
                /\ expected' = [expected EXCEPT ![w] = VersionOf(start + Len(page))]
  /\ UNCHANGED <<server, net, plan, round, sends, result>>

\* Version answers -1 for a stream without events, which is NoStream.
AskVersion(w) ==
  /\ st[w] = "look" /\ plan[w].kind = "version"
  /\ expected' = [expected EXCEPT ![w] = VersionOf(Len(stream))]
  /\ seenLife' = [seenLife EXCEPT ![w] = life]
  /\ Goto(w, "ready")
  /\ UNCHANGED <<server, net, plan, round, sends, seen, result>>

\* Read or Version returns an error.
LookFails(w) ==
  /\ st[w] = "look"
  /\ Goto(w, "failed")
  /\ UNCHANGED <<server, net, plan, sends, looking, result>>
-----------------------------------------------------------------------------
(* Appending.                                                              *)

\* The writer's own events are among those it has read, and it knows them.
Recognised(w) ==
  /\ plan[w].kind = "exact" /\ plan[w].ids = "given"
  /\ \E i \in 1..Len(seen[w]) : seen[w][i].by = w

Found(w) ==
  /\ st[w] = "ready" /\ Recognised(w)
  /\ Goto(w, "found")
  /\ UNCHANGED <<server, net, plan, sends, looking, result>>

RequestOf(w) ==
  [type |-> "append", by |-> w, round |-> round[w], send |-> sends[w],
   expected |-> expected[w], saw |-> seen[w], sawLife |-> seenLife[w]]

SendAppend(w) ==
  /\ st[w] = "ready" /\ ~Recognised(w) /\ sends[w] < MaxSends
  /\ net' = net \cup {RequestOf(w)}
  /\ sends' = [sends EXCEPT ![w] = @ + 1]
  /\ Goto(w, "wait")
  /\ UNCHANGED <<server, plan, looking, result>>

Waits(w, send) == st[w] = "wait" /\ sends[w] = send + 1

\* Mutant: any answer to an append of this operation will do.
ReceiveAnyOk(m) ==
  /\ m \in net /\ m.type = "ok" /\ st[m.by] = "wait"
  /\ net' = net \ {m}
  /\ result' = [result EXCEPT ![m.by] = [m.result EXCEPT !.version = m.result.count]]
  /\ Goto(m.by, "done")
  /\ UNCHANGED <<server, plan, sends, looking>>

\* Append returns an AppendResult.
ReceiveOk(m) ==
  /\ m \in net /\ m.type = "ok" /\ Waits(m.by, m.send)
  /\ net' = net \ {m}
  /\ result' = [result EXCEPT ![m.by] = m.result]
  /\ Goto(m.by, "done")
  /\ UNCHANGED <<server, plan, sends, looking>>

\* Append returns FailedPrecondition.
ReceiveConflict(m) ==
  /\ m \in net /\ m.type = "conflict" /\ Waits(m.by, m.send)
  /\ net' = net \ {m}
  /\ Goto(m.by, "conflict")
  /\ UNCHANGED <<server, plan, sends, looking, result>>

\* Append returns another error: nothing tells whether the batch was written.
GiveUp(w) ==
  /\ st[w] = "wait"
  /\ Goto(w, "unknown")
  /\ UNCHANGED <<server, net, plan, sends, looking, result>>

\* Mutant: the version is asked for again, the decision kept.
ResendRefreshed(w) ==
  /\ st[w] = "unknown" /\ sends[w] < MaxSends
  /\ Goto(w, "ready")
  /\ expected' = [expected EXCEPT ![w] = IF Looks(w) THEN VersionOf(Len(stream)) ELSE @]
  /\ UNCHANGED <<server, net, plan, sends, round, seen, seenLife, result>>

\* The same append once more.
Resend(w) ==
  /\ st[w] = "unknown" /\ sends[w] < MaxSends
  /\ Goto(w, "ready")
  /\ UNCHANGED <<server, net, plan, sends, looking, result>>

\* A new look at the stream, and a new decision.
StartOver(w) ==
  /\ st[w] \in {"failed", "unknown", "conflict"} /\ sends[w] < MaxSends /\ Looks(w)
  /\ round[w] < MaxRounds
  /\ round' = [round EXCEPT ![w] = @ + 1]
  /\ seen' = [seen EXCEPT ![w] = <<>>]
  /\ Goto(w, "look")
  /\ UNCHANGED <<server, net, plan, sends, seenLife, expected, result>>
-----------------------------------------------------------------------------
(* The gateway and the network.                                            *)

Admits(e) ==
  LET version == VersionOf(Len(stream))
  IN \/ e = AnyVersion
     \/ e = StreamExists /\ version >= 0
     \/ e = version

\* A number that is neither a version nor a sentinel of package streams: nothing
\* there says what it means to the gateway, which may write the batch or refuse it.
Unnamed(e) == e < NoStream /\ e \notin {AnyVersion, StreamExists}

MayAdmit(e) == Admits(e) \/ Unnamed(e)

Batch(r) ==
  [i \in 1..plan[r.by].size |->
     [id |-> [by |-> r.by, round |-> r.round, send |-> r.send, nr |-> i],
      exact |-> plan[r.by].kind = "exact", saw |-> r.saw, sawLife |-> r.sawLife]]

Execute(r) ==
  /\ r \in net /\ r.type = "append" /\ MayAdmit(r.expected)
  /\ stream' = stream \o Batch(r)
  /\ net' = (net \ {r}) \cup
       {[type |-> "ok", by |-> r.by, send |-> r.send,
         result |-> [version |-> VersionOf(Len(stream) + plan[r.by].size),
                     count |-> plan[r.by].size, life |-> life]]}
  /\ UNCHANGED <<life, plan, st, sends, looking, result>>

Reject(r) ==
  /\ r \in net /\ r.type = "append" /\ ~Admits(r.expected)
  /\ net' = (net \ {r}) \cup {[type |-> "conflict", by |-> r.by, send |-> r.send]}
  /\ UNCHANGED <<server, plan, st, sends, looking, result>>

Lose(m) ==
  /\ m \in net
  /\ net' = net \ {m}
  /\ UNCHANGED <<server, plan, st, sends, looking, result>>

\* Client.Delete, of some application.
Delete ==
  /\ life < MaxLives /\ stream # <<>>
  /\ stream' = <<>> /\ life' = life + 1
  /\ UNCHANGED <<net, plan, st, sends, looking, result>>

\* Nothing left to do within the bounds.
AllStopped ==
  /\ net = {}
  /\ \A w \in Writers :
       \/ st[w] \in {"done", "found", "conflict"}
       \/ st[w] \in {"failed", "ready", "unknown"} /\ (sends[w] = MaxSends \/ round[w] = MaxRounds)
  /\ UNCHANGED vars

Next ==
  \/ \E w \in Writers :
       \/ ReadPage(w) \/ AskVersion(w) \/ LookFails(w) \/ Found(w)
       \/ SendAppend(w) \/ GiveUp(w) \/ Resend(w) \/ StartOver(w)
  \/ \E m \in net :
       ReceiveOk(m) \/ ReceiveConflict(m) \/ Execute(m) \/ Reject(m) \/ Lose(m)
  \/ Delete
  \/ AllStopped

Spec == Init /\ [][Next]_vars
-----------------------------------------------------------------------------
\* A batch appended at the version read was decided on exactly the events that
\* precede it, unless the stream was deleted in between: no lost update,
\* whatever is lost, late, sent again or paged through.
FreshDecision ==
  \A i \in 1..Len(stream) :
    LET e == stream[i]
    IN e.exact /\ e.sawLife = life =>
         /\ Len(e.saw) = i - e.id.nr
         /\ \A j \in 1..Len(e.saw) : e.saw[j] = stream[j].id

SameOperation(a, b) == a.by = b.by /\ a.nr = b.nr

\* A plan that expects a version, or that there is no stream.
Versioned(p) ==
  \/ p.kind \in {"exact", "version", "no-stream"}
  \/ p.kind = "number" /\ p.number >= NoStream

\* With a concrete expected version a batch is written once, however often it is
\* sent; a writer with ids of its own, once even if it starts over (in one life).
WrittenOnce ==
  \A i, j \in 1..Len(stream) :
    LET a == stream[i]
        b == stream[j]
        p == plan[a.id.by]
    IN /\ SameOperation(a.id, b.id)
       /\ \/ Versioned(p) /\ a.id.round = b.id.round
          \/ p.kind = "exact" /\ p.ids = "given" /\ a.sawLife = life /\ b.sawLife = life
       => i = j

\* An AppendResult says where the batch is: Version is its last event, and Count
\* events back it begins.
ResultTruthful ==
  \A w \in Writers :
    result[w].count > 0 /\ result[w].life = life =>
      /\ result[w].version < Len(stream)
      /\ \A k \in 1..result[w].count :
           LET i == result[w].version - result[w].count + 1 + k
           IN i > 0 /\ stream[i].id.by = w /\ stream[i].id.nr = k
                    /\ stream[i].id.send + 1 = sends[w]

\* A conflict has a cause: the append it answers was not executed and never will
\* be, and what the writer expects is not what the stream has been ever since.
ConflictTruthful ==
  \A w \in Writers : st[w] = "conflict" =>
    /\ \A i \in 1..Len(stream) : stream[i].id.by = w => stream[i].id.send + 1 # sends[w]
    /\ \A m \in net : m.type = "append" /\ m.by = w => m.send + 1 # sends[w]
    /\ Looks(w) /\ seenLife[w] = life => expected[w] < VersionOf(Len(stream))

Log == INSTANCE EventLog WITH IdOf <- LAMBDA e : e.id

\* Reading and appending at the version read are one atomic step on the stream.
AtomicAppends == Log!Spec
=============================================================================
