---------------------------- MODULE DecisionLoop ----------------------------
(***************************************************************************)
(* The decision loop of package dcb: workers read the events that match a  *)
(* tag filter, decide on what they read, and append on condition that no   *)
(* matching event has been written behind their cutoff.                    *)
(*                                                                         *)
(* The server (external) executes an append in one step.  Requests and     *)
(* replies travel: each can be lost, a reply can come too late, and a      *)
(* request whose sender has given up can still be executed.  A worker      *)
(* whose Append or Read failed may run the loop again from the start.      *)
(*                                                                         *)
(* The decision is an allocation: a worker writes its event, whose tags    *)
(* its filter covers, only if it has seen fewer than Limit matching events *)
(* (Limit = 1 is uniqueness).  Filters are MatchAny, as sets of tags.      *)
(***************************************************************************)
EXTENDS Integers, Sequences, FiniteSets

CONSTANTS
  Workers, Tags,
  Limit,        \* how many matching events the decision admits
  BatchSize,    \* the batchSize passed to Read
  OnConflict,   \* "reread" (package doc) or "useMaxSeq" (doc of Conflict)
  AfterCommit,  \* "stop", or perhaps append again at LastSeq, with the "same"
                \* or an "overlap" filter
  MaxSends      \* bound of the model: appends sent by one worker

ASSUME LimitAssumption == Limit \in Nat \ {0} /\ BatchSize \in Nat \ {0}
ASSUME SendsAssumption == MaxSends \in Nat
ASSUME PolicyAssumption ==
  /\ OnConflict \in {"reread", "useMaxSeq"}
  /\ AfterCommit \in {"stop", "same", "overlap"}

SeqCutoffSawNothing == -1

VARIABLES
  log,       \* the server's events; the seq of log[i] is i - 1
  net,       \* append requests under way
  filter,    \* per worker: the tags of its MatchAny filter
  tags,      \* per worker: the tags of the event it wants to write
  st,        \* per worker: where it is in the loop
  saw,       \* per worker: the seqs its decision rests on
  cutoff,    \* per worker: the cutoff it will pass to Append
  sends,     \* per worker: how many appends it has sent
  conflicts  \* history, per worker: how many conflicts it was told of

loopVars == <<filter, tags, st, saw, cutoff, sends, conflicts>>
vars == <<log, net, loopVars>>

Boundaries == (SUBSET Tags) \ {{}}
States == {"read", "decide", "wait", "done", "full", "failed"}
Seqs == 0..(Len(log) - 1)
Event(seq) == log[seq + 1]
Matches(f, seq) == Event(seq).tags \cap f # {}
Matching(f) == {seq \in Seqs : Matches(f, seq)}
\* c is the highest of the seqs S, or the sentinel if there are none.
Highest(c, S) ==
  IF S = {} THEN c = SeqCutoffSawNothing ELSE c \in S /\ \A s \in S : s <= c
Cutoffs == SeqCutoffSawNothing..(Len(log) - 1)

Requests == [by : Workers, nr : Nat, filter : Boundaries, tags : Boundaries,
             cutoff : Int, saw : SUBSET Nat]
Events == [tags : Boundaries, filter : Boundaries, saw : SUBSET Nat]

TypeOK ==
  /\ log \in Seq(Events)
  /\ net \subseteq Requests
  /\ filter \in [Workers -> Boundaries]
  /\ tags \in [Workers -> Boundaries]
  /\ st \in [Workers -> States]
  /\ saw \in [Workers -> SUBSET Seqs]
  /\ cutoff \in [Workers -> Cutoffs]
  /\ sends \in [Workers -> Nat]
  /\ conflicts \in [Workers -> Nat]

Init ==
  /\ log = <<>> /\ net = {}
  /\ filter \in [Workers -> Boundaries]
  /\ tags \in [Workers -> Boundaries]
  /\ \A w \in Workers : tags[w] \subseteq filter[w]
  /\ st = [w \in Workers |-> "read"]
  /\ saw = [w \in Workers |-> {}]
  /\ cutoff = [w \in Workers |-> SeqCutoffSawNothing]
  /\ sends = [w \in Workers |-> 0]
  /\ conflicts = [w \in Workers |-> 0]

Goto(w, s) == st' = [st EXCEPT ![w] = s]
-----------------------------------------------------------------------------
\* What the server returns to Read: the first matching events in seq order,
\* all of them or as many as the batch holds.
Batch(f, s) ==
  /\ s \subseteq Matching(f)
  /\ \A a \in s, b \in Matching(f) : b < a => b \in s
  /\ Cardinality(s) <= BatchSize
  /\ s = Matching(f) \/ Cardinality(s) = BatchSize

\* Mutant: the number of events for the highest seq.
ReadCountForSeq(w) ==
  /\ st[w] = "read"
  /\ \E s \in SUBSET Matching(filter[w]) :
       /\ Batch(filter[w], s)
       /\ saw' = [saw EXCEPT ![w] = s]
       /\ cutoff' = [cutoff EXCEPT ![w] = Len(log)]
  /\ Goto(w, "decide")
  /\ UNCHANGED <<log, net, filter, tags, sends, conflicts>>

\* Mutant: the zero value stands for having seen nothing.
ReadZeroSawNothing(w) ==
  /\ st[w] = "read"
  /\ \E s \in SUBSET Matching(filter[w]), c \in Cutoffs :
       /\ Batch(filter[w], s) /\ Highest(c, s)
       /\ saw' = [saw EXCEPT ![w] = s]
       /\ cutoff' = [cutoff EXCEPT ![w] = IF s = {} THEN 0 ELSE c]
  /\ Goto(w, "decide")
  /\ UNCHANGED <<log, net, filter, tags, sends, conflicts>>

Read(w) ==
  /\ st[w] = "read"
  /\ \E s \in SUBSET Matching(filter[w]), c \in Cutoffs :
       /\ Batch(filter[w], s) /\ Highest(c, s)
       /\ saw' = [saw EXCEPT ![w] = s]
       /\ cutoff' = [cutoff EXCEPT ![w] = c]
  /\ Goto(w, "decide")
  /\ UNCHANGED <<log, net, filter, tags, sends, conflicts>>

\* The loop returns the error of Read.
ReadFails(w) ==
  /\ st[w] = "read"
  /\ Goto(w, "failed")
  /\ UNCHANGED <<log, net, filter, tags, saw, cutoff, sends, conflicts>>

Refuse(w) ==
  /\ st[w] = "decide" /\ Cardinality(saw[w]) >= Limit
  /\ Goto(w, "full")
  /\ UNCHANGED <<log, net, filter, tags, saw, cutoff, sends, conflicts>>

RequestOf(w) ==
  [by |-> w, nr |-> sends[w], filter |-> filter[w], tags |-> tags[w],
   cutoff |-> cutoff[w], saw |-> saw[w]]

\* Append: the request leaves, and the worker waits.
SendAppend(w) ==
  /\ st[w] = "decide" /\ Cardinality(saw[w]) < Limit
  /\ sends[w] < MaxSends
  /\ net' = net \cup {RequestOf(w)}
  /\ sends' = [sends EXCEPT ![w] = @ + 1]
  /\ Goto(w, "wait")
  /\ UNCHANGED <<log, filter, tags, saw, cutoff, conflicts>>
-----------------------------------------------------------------------------
(* The server.                                                             *)

Stale(r) == \E seq \in Matching(r.filter) : seq > r.cutoff

\* A reply reaches its worker only while that waits for this very request.
Awaited(r) == st[r.by] = "wait" /\ sends[r.by] = r.nr + 1

\* Append returns a Committed with the seq just written.
OnCommitted(w, lastSeq) ==
  /\ UNCHANGED <<conflicts, sends>>
  /\ \/ /\ Goto(w, "done")
        /\ UNCHANGED <<filter, tags, saw, cutoff>>
     \/ /\ AfterCommit # "stop"
        /\ Goto(w, "decide")
        /\ saw' = [saw EXCEPT ![w] = @ \cup {lastSeq}]
        /\ cutoff' = [cutoff EXCEPT ![w] = lastSeq]
        /\ IF AfterCommit = "same" THEN UNCHANGED <<filter, tags>>
           ELSE \E f \in Boundaries, t \in Boundaries :
                  /\ t \subseteq f /\ f \cap filter[w] # {}
                  /\ filter' = [filter EXCEPT ![w] = f]
                  /\ tags' = [tags EXCEPT ![w] = t]

\* Append returns a Conflict with the highest matching seq.
OnConflictReply(w, maxSeq) ==
  /\ conflicts' = [conflicts EXCEPT ![w] = @ + 1]
  /\ UNCHANGED <<filter, tags, sends, saw>>
  /\ IF OnConflict = "reread"
     THEN Goto(w, "read") /\ UNCHANGED cutoff
     ELSE Goto(w, "decide") /\ cutoff' = [cutoff EXCEPT ![w] = maxSeq]

Commit(r) ==
  /\ r \in net /\ ~Stale(r)
  /\ net' = net \ {r}
  /\ log' = Append(log, [tags |-> r.tags, filter |-> r.filter, saw |-> r.saw])
  /\ \/ Awaited(r) /\ OnCommitted(r.by, Len(log))
     \/ UNCHANGED loopVars

\* Mutant: after a conflict the append is sent again as it was.
RejectUnrefreshed(r) ==
  /\ r \in net /\ Stale(r)
  /\ net' = net \ {r}
  /\ UNCHANGED log
  /\ \/ /\ Awaited(r)
        /\ conflicts' = [conflicts EXCEPT ![r.by] = @ + 1]
        /\ Goto(r.by, "decide")
        /\ UNCHANGED <<filter, tags, sends, saw, cutoff>>
     \/ UNCHANGED loopVars

Reject(r) ==
  /\ r \in net /\ Stale(r)
  /\ net' = net \ {r}
  /\ UNCHANGED log
  /\ \/ /\ Awaited(r)
        /\ \E m \in Matching(r.filter) :
             Highest(m, Matching(r.filter)) /\ OnConflictReply(r.by, m)
     \/ UNCHANGED loopVars

LoseRequest(r) ==
  /\ r \in net
  /\ net' = net \ {r}
  /\ UNCHANGED <<log, loopVars>>

\* Append returns an error; nothing tells whether the events were written.
AppendFails(w) ==
  /\ st[w] = "wait"
  /\ Goto(w, "failed")
  /\ UNCHANGED <<log, net, filter, tags, saw, cutoff, sends, conflicts>>

\* The application runs the loop again.
RunAgain(w) ==
  /\ st[w] = "failed" /\ sends[w] < MaxSends
  /\ Goto(w, "read")
  /\ UNCHANGED <<log, net, filter, tags, saw, cutoff, sends, conflicts>>

\* Nothing left to do within the bounds.
AllStopped ==
  /\ net = {}
  /\ \A w \in Workers :
       \/ st[w] \in {"done", "full"}
       \/ st[w] \in {"decide", "failed"} /\ sends[w] = MaxSends
  /\ UNCHANGED vars

Next ==
  \/ \E w \in Workers :
       \/ Read(w) \/ ReadFails(w) \/ Refuse(w) \/ SendAppend(w)
       \/ AppendFails(w) \/ RunAgain(w)
  \/ \E r \in net : Commit(r) \/ Reject(r) \/ LoseRequest(r)
  \/ AllStopped

Spec == Init /\ [][Next]_vars
-----------------------------------------------------------------------------
\* Every event in the log was decided on all the matching events before it:
\* no lost update, no stale decision, whatever is lost, late or retried.
DecisionFresh ==
  \A seq \in Seqs :
    Event(seq).saw = {s \in Matching(Event(seq).filter) : s < seq}

\* What the decisions are for: no tag is given to more than Limit events.
TagLimit ==
  \A t \in Tags : Cardinality({seq \in Seqs : t \in Event(seq).tags}) <= Limit

\* A worker is told of a conflict at most once per matching event: each means
\* that an append got through, of another worker or a late one of its own, so the
\* loop is lock-free and its budget bounded.
ConflictMeansProgress ==
  \A w \in Workers : conflicts[w] <= Cardinality(Matching(filter[w]))
=============================================================================
