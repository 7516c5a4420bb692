------------------------ MODULE DecisionLoop_proofs ------------------------
(***************************************************************************)
(* Proofs about DecisionLoop for every number of workers, tags and events, *)
(* every limit and every batch size: in a loop that reads again after a    *)
(* conflict, and that after a commit stops or goes on with the same filter,*)
(* every decision is fresh and no tag exceeds the limit.                   *)
(*                                                                         *)
(* The inductive invariant is about knowledge: whoever is about to append, *)
(* or has an append under way, has seen every matching event up to its     *)
(* cutoff.  The log only grows, so this stays true while the request       *)
(* travels, however long; and the server's test closes the gap behind the  *)
(* cutoff.                                                                 *)
(***************************************************************************)
EXTENDS DecisionLoop, FiniteSetTheorems, TLAPS

\* s holds matching events only, and all of those up to c.
Knows(f, c, s) ==
  /\ s \subseteq Matching(f)
  /\ \A seq \in Matching(f) : seq <= c => seq \in s
  /\ c < Len(log)

\* A worker that may decide knows what it needs; one that waits still has in
\* hand what its request says.
WorkersKnow ==
  \A w \in Workers :
    /\ tags[w] \subseteq filter[w]
    /\ st[w] = "decide" => Knows(filter[w], cutoff[w], saw[w])

RequestsKnow ==
  \A r \in net :
    /\ Knows(r.filter, r.cutoff, r.saw)
    /\ r.tags \subseteq r.filter
    /\ IsFiniteSet(r.saw) /\ Cardinality(r.saw) < Limit
    /\ r.nr < sends[r.by]
    /\ Awaited(r) => /\ r.filter = filter[r.by] /\ r.tags = tags[r.by]
                     /\ r.cutoff = cutoff[r.by] /\ r.saw = saw[r.by]

LogCovered == \A seq \in Seqs : Event(seq).tags \subseteq Event(seq).filter

IInv ==
  /\ TypeOK /\ WorkersKnow /\ RequestsKnow
  /\ LogCovered /\ DecisionFresh /\ TagLimit
-----------------------------------------------------------------------------
(* The log grows by one event.                                             *)

\* An append adds one seq and leaves the events before it alone.
LEMMA AppendLog ==
  ASSUME TypeOK, NEW e \in Events, log' = Append(log, e)
  PROVE  /\ log' \in Seq(Events) /\ Len(log') = Len(log) + 1 /\ Len(log) \in Nat
         /\ Seqs' = Seqs \cup {Len(log)}
         /\ \A seq \in Seqs : log'[seq + 1] = log[seq + 1]
         /\ log'[Len(log) + 1] = e
<1>1. log' \in Seq(Events) /\ Len(log') = Len(log) + 1 /\ Len(log) \in Nat
  BY DEF TypeOK
<1>2. Seqs' = Seqs \cup {Len(log)}
  BY <1>1 DEF Seqs
<1>3. \A seq \in Seqs : log'[seq + 1] = log[seq + 1]
  BY <1>1 DEF Seqs, TypeOK
<1>4. log'[Len(log) + 1] = e
  BY <1>1 DEF TypeOK
<1> QED
  BY <1>1, <1>2, <1>3, <1>4

\* The matching events are those of before, and the new one if it matches.
LEMMA MatchingGrows ==
  ASSUME TypeOK, NEW e \in Events, log' = Append(log, e), NEW f
  PROVE  Matching(f)' = Matching(f) \cup (IF e.tags \cap f # {} THEN {Len(log)} ELSE {})
<1>1. /\ Seqs' = Seqs \cup {Len(log)}
      /\ \A seq \in Seqs : log'[seq + 1] = log[seq + 1]
      /\ log'[Len(log) + 1] = e
  BY AppendLog
<1> QED
  BY <1>1 DEF Matching, Matches, Event

\* Knowledge up to a cutoff survives every append.
LEMMA KnowsStays ==
  ASSUME TypeOK, NEW e \in Events, log' = Append(log, e),
         NEW f, NEW c \in Int, NEW s, Knows(f, c, s)
  PROVE  Knows(f, c, s)'
<1>1. Len(log') = Len(log) + 1 /\ Len(log) \in Nat
  BY AppendLog
<1>2. Matching(f)' = Matching(f) \cup (IF e.tags \cap f # {} THEN {Len(log)} ELSE {})
  BY MatchingGrows
<1> QED
  BY <1>1, <1>2 DEF Knows

\* What was seen is a finite set.
LEMMA SeqsFinite == TypeOK => \A s \in SUBSET Seqs : IsFiniteSet(s)
<1> SUFFICES ASSUME TypeOK, NEW s \in SUBSET Seqs PROVE IsFiniteSet(s)
  OBVIOUS
<1>1. 0 \in Int /\ Len(log) - 1 \in Int
  BY DEF TypeOK
<1>2. IsFiniteSet(Seqs)
  BY <1>1, FS_Interval DEF Seqs
<1> QED
  BY <1>2, FS_Subset

-----------------------------------------------------------------------------
(* A decision that was fresh when it was made is fresh when it is executed.*)

\* A request that is not stale has seen exactly the matching events.
LEMMA NotStaleSawAll ==
  ASSUME TypeOK, NEW r \in net, Knows(r.filter, r.cutoff, r.saw), ~Stale(r)
  PROVE  r.saw = Matching(r.filter)
<1>1. r.cutoff \in Int /\ \A seq \in Matching(r.filter) : seq \in Int
  BY DEF TypeOK, Requests, Matching, Seqs
<1>2. \A seq \in Matching(r.filter) : seq <= r.cutoff
  BY <1>1 DEF Stale
<1>3. r.saw \subseteq Matching(r.filter) /\ Matching(r.filter) \subseteq r.saw
  BY <1>2 DEF Knows
<1> QED
  BY <1>3

LogInv == LogCovered /\ DecisionFresh /\ TagLimit

\* While the log stays, so does all that is said of it.
LEMMA LogUnchanged == LogInv /\ UNCHANGED log => LogInv'
  BY DEF LogInv, LogCovered, DecisionFresh, TagLimit, Seqs, Event, Matching, Matches

\* Executing an append that is not stale keeps every decision in the log
\* fresh and every tag within the limit.
LEMMA CommitLog ==
  ASSUME IInv, NEW r \in net, Commit(r)
  PROVE  LogInv'
<1> DEFINE e == [tags |-> r.tags, filter |-> r.filter, saw |-> r.saw]
<1>1. /\ TypeOK /\ Knows(r.filter, r.cutoff, r.saw) /\ r.tags \subseteq r.filter
      /\ IsFiniteSet(r.saw) /\ Cardinality(r.saw) < Limit
  BY DEF IInv, RequestsKnow
<1>2. e \in Events /\ log' = Append(log, e)
  BY <1>1 DEF Commit, TypeOK, Requests, Events
<1>3. r.saw = Matching(r.filter)
  BY <1>1, NotStaleSawAll DEF Commit
<1> HIDE DEF e
<1>4. /\ Len(log') = Len(log) + 1 /\ Len(log) \in Nat
      /\ Seqs' = Seqs \cup {Len(log)}
      /\ \A seq \in Seqs : log'[seq + 1] = log[seq + 1]
      /\ log'[Len(log) + 1] = e
  BY <1>1, <1>2, AppendLog
<1>5. e.tags = r.tags /\ e.filter = r.filter /\ e.saw = Matching(r.filter)
  BY <1>3 DEF e
<1>6. \A seq \in Seqs : seq < Len(log) /\ seq \in Nat
  BY <1>4 DEF Seqs
<1>7. LogCovered'
  BY <1>1, <1>4, <1>5 DEF LogCovered, Event, IInv
<1>8. DecisionFresh'
  <2> SUFFICES ASSUME NEW seq \in Seqs'
               PROVE  (Event(seq).saw = {x \in Matching(Event(seq).filter) : x < seq})'
    BY DEF DecisionFresh
  <2>1. CASE seq \in Seqs
    <3>1. log[seq + 1].saw
            = {x \in Seqs : log[x + 1].tags \cap log[seq + 1].filter # {} /\ x < seq}
      BY <2>1 DEF IInv, DecisionFresh, Event, Matching, Matches
    <3>2. \A x \in Seqs' : x < seq => x \in Seqs
      BY <1>4, <1>6, <2>1
    <3> QED
      BY <1>4, <2>1, <3>1, <3>2 DEF Event, Matching, Matches
  <2>2. CASE seq = Len(log)
    <3>1. log'[seq + 1].saw = {x \in Seqs : log[x + 1].tags \cap e.filter # {}}
      BY <1>4, <1>5, <2>2 DEF Matching, Matches, Event
    <3>2. \A x \in Seqs' : x < seq <=> x \in Seqs
      BY <1>4, <1>6, <2>2
    <3> QED
      BY <1>4, <2>2, <3>1, <3>2 DEF Event, Matching, Matches
  <2> QED
    BY <1>4, <2>1, <2>2
<1>9. TagLimit'
  <2> SUFFICES ASSUME NEW t \in Tags
               PROVE  Cardinality({seq \in Seqs' : t \in log'[seq + 1].tags}) <= Limit
    BY DEF TagLimit, Event
  <2> DEFINE S == {seq \in Seqs : t \in log[seq + 1].tags}
             T == {seq \in Seqs' : t \in log'[seq + 1].tags}
  <2>1. CASE t \notin r.tags
    <3>1. T = S
      BY <1>4, <1>5, <2>1
    <3> QED
      BY <3>1 DEF IInv, TagLimit, Event
  <2>2. CASE t \in r.tags
    <3>1. T = S \cup {Len(log)}
      BY <1>4, <1>5, <2>2
    <3>2. S \subseteq r.saw
      BY <1>1, <1>3, <2>2 DEF Matching, Matches, Event
    <3>3. IsFiniteSet(S) /\ Cardinality(S) <= Cardinality(r.saw) /\ Cardinality(r.saw) \in Nat
      BY <1>1, <3>2, FS_Subset, FS_CardinalityType
    <3>4. Cardinality(S) \in Nat
      BY <3>3, FS_CardinalityType
    <3>5. Len(log) \notin S
      BY <1>6
    <3>6. Cardinality(S \cup {Len(log)}) = Cardinality(S) + 1
      BY <3>3, <3>5, FS_AddElement
    <3>7. Cardinality(S) + 1 <= Limit
      <4> HIDE DEF S
      <4> QED
        BY <1>1, <3>3, <3>4, LimitAssumption
    <3> QED
      BY <3>1, <3>6, <3>7
  <2> QED
    BY <2>1, <2>2
<1> QED
  BY <1>7, <1>8, <1>9 DEF LogInv
-----------------------------------------------------------------------------
(* Steps.                                                                  *)

\* The loop of the package doc: after a conflict it reads again, and a commit
\* is followed up, if at all, with the same filter.
Documented == OnConflict = "reread" /\ AfterCommit \in {"stop", "same"}

\* While the log stays, what is known stays known.
LEMMA KnowsUnchanged ==
  ASSUME UNCHANGED log, NEW f, NEW c, NEW s
  PROVE  Knows(f, c, s)' <=> Knows(f, c, s)
  BY DEF Knows, Matching, Matches, Event, Seqs

\* A step that leaves the log and the requests alone, and of the loop only the
\* place of one worker that is not sent to wait or to decide.
LEMMA StepAside ==
  ASSUME IInv, NEW w \in Workers, NEW s \in {"read", "failed", "full"}, Goto(w, s),
         UNCHANGED <<log, net, filter, tags, saw, cutoff, sends, conflicts>>
  PROVE  IInv'
<1>1. TypeOK'
  BY DEF IInv, TypeOK, Goto, States, Seqs, Cutoffs
<1>2. WorkersKnow'
  BY KnowsUnchanged DEF IInv, TypeOK, WorkersKnow, Goto
<1>3. RequestsKnow'
  BY KnowsUnchanged DEF IInv, TypeOK, RequestsKnow, Requests, Goto, Awaited
<1> QED
  BY <1>1, <1>2, <1>3, LogUnchanged DEF IInv, LogInv

\* After Read the worker knows all the matching events up to its cutoff.
LEMMA StepRead ==
  ASSUME IInv, NEW w \in Workers, Read(w)
  PROVE  IInv'
<1>1. PICK s \in SUBSET Matching(filter[w]), c \in Cutoffs :
        /\ Batch(filter[w], s) /\ Highest(c, s)
        /\ saw' = [saw EXCEPT ![w] = s]
        /\ cutoff' = [cutoff EXCEPT ![w] = c]
  BY DEF Read
<1>2. /\ Goto(w, "decide") /\ st[w] = "read"
      /\ UNCHANGED <<log, net, filter, tags, sends, conflicts>>
  BY DEF Read
<1>3. TypeOK'
  <2>1. Matching(filter[w]) \subseteq Seqs
    BY DEF Matching
  <2> QED
    BY <1>1, <1>2, <2>1 DEF IInv, TypeOK, Goto, States, Seqs, Cutoffs
<1>4. Knows(filter[w], c, s)
  <2>1. c \in Int /\ c <= Len(log) - 1 /\ Len(log) \in Nat
    BY <1>1 DEF Cutoffs, IInv, TypeOK, SeqCutoffSawNothing
  <2>2. \A seq \in Matching(filter[w]) : seq \in Nat
    BY <2>1 DEF Matching, Seqs
  <2>3. \A seq \in Matching(filter[w]) : seq <= c => seq \in s
    <3> SUFFICES ASSUME NEW seq \in Matching(filter[w]), seq <= c PROVE seq \in s
      OBVIOUS
    <3>1. CASE s = {}
      BY <1>1, <2>2, <3>1 DEF Highest, SeqCutoffSawNothing
    <3>2. CASE s # {}
      <4>1. c \in s
        BY <1>1, <3>2 DEF Highest
      <4>2. seq < c \/ seq = c
        BY <2>1, <2>2
      <4> QED
        BY <1>1, <4>1, <4>2 DEF Batch
    <3> QED
      BY <3>1, <3>2
  <2> QED
    BY <1>1, <2>1, <2>3 DEF Knows
<1>5. WorkersKnow'
  BY <1>1, <1>2, <1>4, KnowsUnchanged DEF IInv, TypeOK, WorkersKnow, Goto
<1>6. RequestsKnow'
  BY <1>1, <1>2, KnowsUnchanged DEF IInv, TypeOK, RequestsKnow, Requests, Goto, Awaited
<1> QED
  BY <1>2, <1>3, <1>5, <1>6, LogUnchanged DEF IInv, LogInv

\* A request carries what its worker knows; the requests that an earlier
\* round left behind are awaited no more.
LEMMA StepSendAppend ==
  ASSUME IInv, NEW w \in Workers, SendAppend(w)
  PROVE  IInv'
<1> DEFINE q == RequestOf(w)
<1>1. /\ st[w] = "decide" /\ Cardinality(saw[w]) < Limit
      /\ net' = net \cup {q}
      /\ sends' = [sends EXCEPT ![w] = @ + 1]
      /\ Goto(w, "wait")
      /\ UNCHANGED <<log, filter, tags, saw, cutoff, conflicts>>
  BY DEF SendAppend
<1>2. /\ filter[w] \in Boundaries /\ tags[w] \in Boundaries /\ sends[w] \in Nat
      /\ saw[w] \in SUBSET Seqs /\ cutoff[w] \in Int
  BY DEF IInv, TypeOK, Cutoffs, SeqCutoffSawNothing
<1>3. /\ q.by = w /\ q.nr = sends[w] /\ q.filter = filter[w] /\ q.tags = tags[w]
      /\ q.cutoff = cutoff[w] /\ q.saw = saw[w]
  BY DEF RequestOf
<1>4. q \in Requests
  BY <1>2 DEF RequestOf, Requests, Seqs, IInv, TypeOK
<1> HIDE DEF q
<1>5. TypeOK'
  BY <1>1, <1>2, <1>4 DEF IInv, TypeOK, Goto, States, Seqs, Cutoffs
<1>6. WorkersKnow'
  BY <1>1, KnowsUnchanged DEF IInv, TypeOK, WorkersKnow, Goto
<1>7. RequestsKnow'
  <2> SUFFICES ASSUME NEW r \in net'
               PROVE  (/\ Knows(r.filter, r.cutoff, r.saw)
                       /\ r.tags \subseteq r.filter
                       /\ IsFiniteSet(r.saw) /\ Cardinality(r.saw) < Limit
                       /\ r.nr < sends[r.by]
                       /\ Awaited(r) => /\ r.filter = filter[r.by] /\ r.tags = tags[r.by]
                                        /\ r.cutoff = cutoff[r.by] /\ r.saw = saw[r.by])'
    BY DEF RequestsKnow
  <2>1. CASE r = q
    <3>1. Knows(r.filter, r.cutoff, r.saw) /\ r.tags \subseteq r.filter
      BY <1>1, <1>3, <2>1 DEF IInv, WorkersKnow
    <3>2. IsFiniteSet(r.saw)
      BY <1>2, <1>3, <2>1, SeqsFinite DEF IInv
    <3> QED
      BY <1>1, <1>2, <1>3, <2>1, <3>1, <3>2, KnowsUnchanged DEF IInv, TypeOK
  <2>2. CASE r \in net
    <3>1. /\ Knows(r.filter, r.cutoff, r.saw)'
          /\ r.tags \subseteq r.filter
          /\ IsFiniteSet(r.saw) /\ Cardinality(r.saw) < Limit
      BY <1>1, <2>2, KnowsUnchanged DEF IInv, RequestsKnow
    <3>2. r.nr \in Nat /\ r.by \in Workers /\ r.nr < sends[r.by] /\ sends[r.by] \in Nat
      BY <2>2 DEF IInv, RequestsKnow, TypeOK, Requests
    <3>3. r.by = w => r.nr < sends'[w] /\ r.nr + 1 # sends'[w]
      BY <1>1, <1>2, <3>2 DEF IInv, TypeOK
    <3>4. r.by # w => sends'[r.by] = sends[r.by] /\ st'[r.by] = st[r.by]
      BY <1>1, <3>2 DEF IInv, TypeOK, Goto
    <3> QED
      BY <1>1, <2>2, <3>1, <3>2, <3>3, <3>4 DEF IInv, RequestsKnow, Awaited
  <2> QED
    BY <1>1, <2>1, <2>2
<1> QED
  BY <1>1, <1>5, <1>6, <1>7, LogUnchanged DEF IInv, LogInv

\* The request that is answered or lost is gone; the others stay as they were.
LEMMA StepLoseRequest ==
  ASSUME IInv, NEW r \in net, net' = net \ {r}, UNCHANGED <<log, loopVars>>
  PROVE  IInv'
<1>1. TypeOK'
  BY DEF IInv, TypeOK, loopVars, Seqs, Cutoffs
<1>2. WorkersKnow'
  BY KnowsUnchanged DEF IInv, WorkersKnow, loopVars
<1>3. RequestsKnow'
  BY KnowsUnchanged DEF IInv, RequestsKnow, loopVars, Awaited
<1> QED
  BY <1>1, <1>2, <1>3, LogUnchanged DEF IInv, LogInv

\* After a conflict a worker that reads again holds on to nothing.
LEMMA StepReject ==
  ASSUME IInv, Documented, NEW r \in net, Reject(r)
  PROVE  IInv'
<1>1. net' = net \ {r} /\ UNCHANGED log /\ r.by \in Workers
  BY DEF Reject, IInv, TypeOK, Requests
<1>2. CASE UNCHANGED loopVars
  BY <1>1, <1>2, StepLoseRequest
<1>3. ASSUME Awaited(r), NEW m \in Matching(r.filter), OnConflictReply(r.by, m)
      PROVE  IInv'
  <2>1. /\ Goto(r.by, "read")
        /\ conflicts' = [conflicts EXCEPT ![r.by] = @ + 1]
        /\ UNCHANGED <<filter, tags, sends, saw, cutoff>>
    BY <1>3 DEF OnConflictReply, Documented
  <2>2. TypeOK'
    BY <1>1, <2>1 DEF IInv, TypeOK, Goto, States, Seqs, Cutoffs
  <2>3. WorkersKnow'
    BY <1>1, <2>1, KnowsUnchanged DEF IInv, TypeOK, WorkersKnow, Goto
  <2>4. RequestsKnow'
    BY <1>1, <2>1, KnowsUnchanged DEF IInv, TypeOK, RequestsKnow, Requests, Goto, Awaited
  <2> QED
    BY <1>1, <2>2, <2>3, <2>4, LogUnchanged DEF IInv, LogInv
<1> QED
  BY <1>2, <1>3 DEF Reject

\* The event written is fresh; the worker it is reported to knows it too, and
\* the other requests know what they knew.
LEMMA StepCommit ==
  ASSUME IInv, Documented, NEW r \in net, Commit(r)
  PROVE  IInv'
<1> DEFINE e == [tags |-> r.tags, filter |-> r.filter, saw |-> r.saw]
<1>1. /\ r.by \in Workers /\ r.tags \in Boundaries /\ r.tags \subseteq r.filter
      /\ r.nr \in Nat
      /\ Knows(r.filter, r.cutoff, r.saw)
  BY DEF IInv, TypeOK, Requests, RequestsKnow
<1>2. e \in Events /\ log' = Append(log, e) /\ net' = net \ {r} /\ TypeOK
  BY <1>1 DEF Commit, IInv, TypeOK, Requests, Events
<1>3. e.tags = r.tags
  OBVIOUS
<1> HIDE DEF e
<1>4. /\ log' \in Seq(Events) /\ Len(log') = Len(log) + 1 /\ Len(log) \in Nat
      /\ Seqs' = Seqs \cup {Len(log)}
  BY <1>2, AppendLog
<1>5. Cutoffs \subseteq Cutoffs' /\ Len(log) \in Cutoffs'
  BY <1>4 DEF Cutoffs, SeqCutoffSawNothing
<1>6. \A f, s : \A c \in Int : Knows(f, c, s) => Knows(f, c, s)'
  BY <1>2, KnowsStays
<1>7. \A q \in net : q.cutoff \in Int
  BY <1>2 DEF TypeOK, Requests
<1>8. \A w \in Workers : cutoff[w] \in Int
  BY <1>2 DEF TypeOK, Cutoffs, SeqCutoffSawNothing
<1>9. LogInv'
  BY CommitLog
<1>10. CASE UNCHANGED loopVars
  <2>1. TypeOK'
    BY <1>2, <1>4, <1>5, <1>10 DEF TypeOK, loopVars
  <2>2. WorkersKnow'
    BY <1>6, <1>8, <1>10 DEF IInv, WorkersKnow, loopVars
  <2>3. RequestsKnow'
    BY <1>2, <1>6, <1>7, <1>10 DEF IInv, RequestsKnow, loopVars, Awaited
  <2> QED
    BY <1>9, <2>1, <2>2, <2>3 DEF IInv, LogInv
<1>11. CASE Awaited(r) /\ OnCommitted(r.by, Len(log))
  <2> DEFINE w == r.by
  <2>1. /\ UNCHANGED <<conflicts, sends, filter, tags>>
        /\ \/ Goto(w, "done") /\ UNCHANGED <<saw, cutoff>>
           \/ /\ Goto(w, "decide")
              /\ saw' = [saw EXCEPT ![w] = @ \cup {Len(log)}]
              /\ cutoff' = [cutoff EXCEPT ![w] = Len(log)]
    BY <1>11 DEF OnCommitted, Documented
  <2>2. TypeOK'
    <3>1. st' \in [Workers -> States]
      BY <1>2, <2>1 DEF TypeOK, Goto, States
    <3>2. saw' \in [Workers -> SUBSET Seqs']
      <4>1. saw \in [Workers -> SUBSET Seqs']
        BY <1>2, <1>4 DEF TypeOK
      <4>2. saw[w] \cup {Len(log)} \in SUBSET Seqs'
        BY <1>1, <1>2, <1>4 DEF TypeOK
      <4> QED
        BY <2>1, <4>1, <4>2
    <3>3. cutoff' \in [Workers -> Cutoffs']
      <4>1. cutoff \in [Workers -> Cutoffs']
        BY <1>2, <1>5 DEF TypeOK
      <4> QED
        BY <1>5, <2>1, <4>1
    <3>4. net' \subseteq Requests /\ log' \in Seq(Events)
      BY <1>2, <1>4 DEF TypeOK
    <3> QED
      BY <1>2, <2>1, <3>1, <3>2, <3>3, <3>4 DEF TypeOK
  <2> PICK n \in Nat : n = Len(log)
    BY <1>4
  <2>3. r.saw = Matching(r.filter) /\ r.filter = filter[w] /\ r.saw = saw[w]
    BY <1>1, <1>2, <1>11, NotStaleSawAll DEF Commit, IInv, RequestsKnow
  <2>4. Knows(r.filter, n, r.saw \cup {n})'
    <3>1. r.tags \cap r.filter # {}
      BY <1>1 DEF Boundaries
    <3>2. Matching(r.filter)' = Matching(r.filter) \cup {n}
      BY <1>2, <1>3, <3>1, MatchingGrows
    <3> QED
      BY <1>4, <2>3, <3>2 DEF Knows
  <2>5. WorkersKnow'
    <3> SUFFICES ASSUME NEW v \in Workers
                 PROVE  (/\ tags[v] \subseteq filter[v]
                         /\ st[v] = "decide" => Knows(filter[v], cutoff[v], saw[v]))'
      BY DEF WorkersKnow
    <3>1. CASE v # w
      BY <1>1, <1>2, <1>6, <1>8, <2>1, <3>1 DEF IInv, TypeOK, WorkersKnow, Goto
    <3>2. CASE v = w
      BY <1>1, <1>2, <2>1, <2>3, <2>4, <3>2 DEF IInv, TypeOK, WorkersKnow, Goto
    <3> QED
      BY <3>1, <3>2
  <2>6. RequestsKnow'
    <3>1. \A q \in net' : /\ q.by \in Workers
                          /\ Awaited(q)' => q.by # w /\ Awaited(q)
      BY <1>1, <1>2, <1>11, <2>1 DEF Awaited, TypeOK, Requests, Goto
    <3> QED
      BY <1>2, <1>6, <1>7, <2>1, <3>1 DEF IInv, RequestsKnow, TypeOK
  <2> QED
    BY <1>9, <2>2, <2>5, <2>6 DEF IInv, LogInv
<1> QED
  BY <1>10, <1>11 DEF Commit
-----------------------------------------------------------------------------
(* The invariant and what follows from it.                                 *)

\* The loop starts knowing nothing and claiming nothing.
LEMMA InitIInv == Init => IInv
<1> SUFFICES ASSUME Init PROVE IInv
  OBVIOUS
<1>1. Len(log) = 0 /\ Seqs = {}
  BY DEF Init, Seqs
<1>2. TypeOK
  BY <1>1 DEF Init, TypeOK, States, Cutoffs, SeqCutoffSawNothing
<1>3. WorkersKnow /\ RequestsKnow
  BY DEF Init, WorkersKnow, RequestsKnow
<1>4. LogCovered /\ DecisionFresh
  BY <1>1 DEF LogCovered, DecisionFresh
<1>5. TagLimit
  BY <1>1, FS_EmptySet, LimitAssumption DEF TagLimit
<1> QED
  BY <1>2, <1>3, <1>4, <1>5 DEF IInv

\* Every step of the documented loop, and of the network, keeps the invariant.
LEMMA StepIInv == Documented => (IInv /\ [Next]_vars => IInv')
<1> SUFFICES ASSUME Documented, IInv, [Next]_vars PROVE IInv'
  OBVIOUS
<1>1. ASSUME NEW w \in Workers, Read(w) PROVE IInv'
  BY <1>1, StepRead
<1>2. ASSUME NEW w \in Workers, ReadFails(w) \/ AppendFails(w) \/ RunAgain(w) \/ Refuse(w)
      PROVE IInv'
  BY <1>2, StepAside DEF ReadFails, AppendFails, RunAgain, Refuse
<1>3. ASSUME NEW w \in Workers, SendAppend(w) PROVE IInv'
  BY <1>3, StepSendAppend
<1>4. ASSUME NEW r \in net, Commit(r) PROVE IInv'
  BY <1>4, StepCommit
<1>5. ASSUME NEW r \in net, Reject(r) PROVE IInv'
  BY <1>5, StepReject
<1>6. ASSUME NEW r \in net, LoseRequest(r) PROVE IInv'
  BY <1>6, StepLoseRequest DEF LoseRequest
<1>7. CASE UNCHANGED vars
  <2>1. TypeOK'
    BY <1>7 DEF IInv, TypeOK, vars, loopVars, Seqs, Cutoffs
  <2>2. WorkersKnow' /\ RequestsKnow'
    BY <1>7, KnowsUnchanged DEF IInv, WorkersKnow, RequestsKnow, vars, loopVars, Awaited
  <2> QED
    BY <1>7, <2>1, <2>2, LogUnchanged DEF IInv, LogInv, vars
<1> QED
  BY <1>1, <1>2, <1>3, <1>4, <1>5, <1>6, <1>7 DEF Next, AllStopped

\* The invariant holds in every behaviour of the documented loop.
LEMMA Inductive == ASSUME Documented PROVE Spec => []IInv
<1>1. IInv /\ [Next]_vars => IInv'
  BY StepIInv
<1> QED
  BY <1>1, InitIInv, PTL DEF Spec

\* Cutoffs and the seqs a worker has seen stay within the log.
THEOREM TypeCorrect == ASSUME Documented PROVE Spec => []TypeOK
<1>1. IInv => TypeOK
  BY DEF IInv
<1> QED
  BY <1>1, Inductive, PTL

\* Every event the documented loop appends was decided on exactly the matching
\* events before it: for any number of workers and tags, any batch size, and
\* whatever is lost, late or run again.
THEOREM Fresh == ASSUME Documented PROVE Spec => []DecisionFresh
<1>1. IInv => DecisionFresh
  BY DEF IInv
<1> QED
  BY <1>1, Inductive, PTL

\* So no tag gets more than Limit events.
THEOREM Limited == ASSUME Documented PROVE Spec => []TagLimit
<1>1. IInv => TagLimit
  BY DEF IInv
<1> QED
  BY <1>1, Inductive, PTL
-----------------------------------------------------------------------------
(* Each conflict is paid for by a matching event.                          *)

\* A worker that is about to append has seen as many matching events as it was
\* told of conflicts, none of them above its cutoff.
Rests(w) ==
  /\ saw[w] \subseteq Matching(filter[w])
  /\ \A s \in saw[w] : s <= cutoff[w]
  /\ Cardinality(saw[w]) < Limit => conflicts[w] <= Cardinality(saw[w])

Paid(w) ==
  /\ conflicts[w] <= Cardinality(Matching(filter[w]))
  /\ st[w] \in {"decide", "wait"} => Rests(w)

\* The matching events are finitely many, and never become fewer.
LEMMA MatchingStays ==
  ASSUME TypeOK, UNCHANGED log \/ \E e \in Events : log' = Append(log, e), NEW f
  PROVE  /\ IsFiniteSet(Matching(f)) /\ Cardinality(Matching(f)) \in Nat
         /\ Matching(f) \subseteq Matching(f)'
         /\ Cardinality(Matching(f)') \in Nat
         /\ Cardinality(Matching(f)) <= Cardinality(Matching(f)')
<1>1. IsFiniteSet(Matching(f))
  <2>1. Matching(f) \subseteq Seqs
    BY DEF Matching
  <2> QED
    BY <2>1, SeqsFinite
<1>2. Matching(f) \subseteq Matching(f)' /\ IsFiniteSet(Matching(f)')
  <2>1. CASE UNCHANGED log
    <3>1. Matching(f)' = Matching(f)
      BY <2>1 DEF Matching, Matches, Event, Seqs
    <3> QED
      BY <1>1, <3>1
  <2>2. CASE \E e \in Events : log' = Append(log, e)
    <3>1. PICK e \in Events : log' = Append(log, e)
      BY <2>2
    <3>2. Matching(f)' = Matching(f) \cup (IF e.tags \cap f # {} THEN {Len(log)} ELSE {})
      BY <3>1, MatchingGrows
    <3>3. CASE e.tags \cap f # {}
      <4>1. Matching(f)' = Matching(f) \cup {Len(log)}
        BY <3>2, <3>3
      <4> QED
        BY <1>1, <4>1, FS_AddElement
    <3>4. CASE e.tags \cap f = {}
      BY <1>1, <3>2, <3>4
    <3> QED
      BY <3>3, <3>4
  <2> QED
    BY <2>1, <2>2
<1>3. Cardinality(Matching(f)) <= Cardinality(Matching(f)')
  BY <1>2, FS_Subset
<1> QED
  BY <1>1, <1>2, <1>3, FS_CardinalityType

\* A worker that goes on with its round as it was, or leaves it, is not in debt.
LEMMA PaidAside ==
  ASSUME TypeOK, NEW w \in Workers, Paid(w),
         UNCHANGED log \/ \E e \in Events : log' = Append(log, e),
         filter' = filter, conflicts'[w] = conflicts[w],
         \/ st'[w] \notin {"decide", "wait"}
         \/ st[w] \in {"decide", "wait"} /\ saw'[w] = saw[w] /\ cutoff'[w] = cutoff[w]
  PROVE  Paid(w)'
<1>1. \A f : /\ Matching(f) \subseteq Matching(f)' /\ Cardinality(Matching(f)) \in Nat
             /\ Cardinality(Matching(f)') \in Nat
             /\ Cardinality(Matching(f)) <= Cardinality(Matching(f)')
  BY MatchingStays
<1>2. conflicts[w] \in Nat
  BY DEF TypeOK
<1> QED
  BY <1>1, <1>2 DEF Paid, Rests

\* After Read a worker has seen all the matching events, or so many that it
\* will refuse.
LEMMA PaidByRead ==
  ASSUME TypeOK, BatchSize >= Limit, NEW w \in Workers, Paid(w), Read(w)
  PROVE  Paid(w)'
<1>1. PICK s \in SUBSET Matching(filter[w]), c \in Cutoffs :
        /\ Batch(filter[w], s) /\ Highest(c, s)
        /\ saw' = [saw EXCEPT ![w] = s]
        /\ cutoff' = [cutoff EXCEPT ![w] = c]
  BY DEF Read
<1>2. UNCHANGED <<log, filter, conflicts>>
  BY DEF Read
<1>3. saw'[w] = s /\ cutoff'[w] = c
  BY <1>1 DEF TypeOK
<1>4. \A f : Matching(f)' = Matching(f)
  BY <1>2 DEF Matching, Matches, Event, Seqs
<1>5. \A e \in s : e <= c
  BY <1>1 DEF Highest
<1>6. s = Matching(filter[w]) \/ Cardinality(s) = BatchSize
  BY <1>1 DEF Batch
<1>7. Cardinality(s) < Limit => conflicts[w] <= Cardinality(s)
  BY <1>6, LimitAssumption DEF Paid
<1> QED
  BY <1>1, <1>2, <1>3, <1>4, <1>5, <1>7 DEF Paid, Rests

\* A commit that is reported adds its own event to what the worker has seen.
LEMMA PaidByCommit ==
  ASSUME IInv, NEW r \in net, Commit(r), Awaited(r), OnCommitted(r.by, Len(log)), Documented,
         Paid(r.by)
  PROVE  Paid(r.by)'
<1> DEFINE w == r.by
           e == [tags |-> r.tags, filter |-> r.filter, saw |-> r.saw]
<1>1. /\ TypeOK /\ w \in Workers /\ r.tags \in Boundaries /\ r.tags \subseteq r.filter
      /\ r.filter = filter[w]
  BY DEF IInv, TypeOK, Requests, RequestsKnow
<1>2. e \in Events /\ log' = Append(log, e)
  BY <1>1 DEF Commit, TypeOK, Requests, Events
<1>3. e.tags \cap filter[w] # {}
  BY <1>1 DEF Boundaries
<1> HIDE DEF e
<1>4. filter' = filter /\ conflicts'[w] = conflicts[w] /\ st[w] = "wait"
  BY DEF OnCommitted, Documented, Awaited
<1>5. CASE Goto(w, "done")
  <2>1. st'[w] = "done"
    BY <1>1, <1>5 DEF Goto, TypeOK
  <2> QED
    BY <1>1, <1>2, <1>4, <2>1, PaidAside
<1>6. CASE /\ saw' = [saw EXCEPT ![w] = @ \cup {Len(log)}]
           /\ cutoff' = [cutoff EXCEPT ![w] = Len(log)]
  <2>1. saw'[w] = saw[w] \cup {Len(log)} /\ cutoff'[w] = Len(log)
    BY <1>1, <1>6 DEF TypeOK
  <2>2. Matching(filter[w])' = Matching(filter[w]) \cup {Len(log)}
    BY <1>1, <1>2, <1>3, <1>4, MatchingGrows
  <2>3. /\ saw[w] \subseteq Matching(filter[w]) /\ saw[w] \subseteq Seqs
        /\ Cardinality(saw[w]) < Limit => conflicts[w] <= Cardinality(saw[w])
    BY <1>1, <1>4 DEF Paid, Rests, TypeOK
  <2>4. Len(log) \in Nat /\ Len(log) \notin saw[w] /\ \A s \in saw[w] : s <= Len(log)
    BY <1>1, <2>3 DEF TypeOK, Seqs
  <2>5. /\ Cardinality(saw'[w]) = Cardinality(saw[w]) + 1
        /\ Cardinality(saw[w]) \in Nat
    <3>1. IsFiniteSet(saw[w])
      BY <1>1, <2>3, SeqsFinite
    <3> QED
      BY <2>1, <2>4, <3>1, FS_AddElement, FS_CardinalityType
  <2>6. conflicts[w] \in Nat /\ Limit \in Nat
    BY <1>1, LimitAssumption DEF TypeOK
  <2>7. Cardinality(saw'[w]) < Limit => conflicts'[w] <= Cardinality(saw'[w])
    BY <1>4, <2>3, <2>5, <2>6
  <2>8. Rests(w)'
    BY <2>1, <2>2, <2>3, <2>4, <2>7 DEF Rests
  <2>9. conflicts'[w] <= Cardinality(Matching(filter[w])')
    <3>1. /\ Cardinality(Matching(filter[w])) <= Cardinality(Matching(filter[w])')
          /\ Cardinality(Matching(filter[w])) \in Nat
          /\ Cardinality(Matching(filter[w])') \in Nat
      BY <1>1, <1>2, <1>4, MatchingStays
    <3> QED
      BY <1>4, <2>6, <3>1 DEF Paid
  <2> QED
    BY <1>4, <2>8, <2>9 DEF Paid
<1> QED
  BY <1>5, <1>6 DEF OnCommitted

\* A conflict means that a matching event is above everything the worker saw.
LEMMA PaidByReject ==
  ASSUME IInv, NEW r \in net, Stale(r), Awaited(r), Documented, UNCHANGED log,
         NEW m, OnConflictReply(r.by, m), Paid(r.by)
  PROVE  Paid(r.by)'
<1> DEFINE w == r.by
<1>1. /\ TypeOK /\ w \in Workers /\ r.filter = filter[w] /\ r.cutoff = cutoff[w]
      /\ r.saw = saw[w] /\ Cardinality(saw[w]) < Limit /\ st[w] = "wait"
  BY DEF IInv, TypeOK, Requests, RequestsKnow, Awaited
<1>2. /\ conflicts' = [conflicts EXCEPT ![w] = @ + 1] /\ filter' = filter /\ Goto(w, "read")
  BY DEF OnConflictReply, Documented
<1>3. PICK seq \in Matching(filter[w]) : seq > cutoff[w]
  BY <1>1 DEF Stale
<1>4. /\ saw[w] \subseteq Matching(filter[w]) /\ conflicts[w] <= Cardinality(saw[w])
      /\ \A s \in saw[w] : s <= cutoff[w]
  BY <1>1 DEF Paid, Rests
<1>5. /\ seq \in Int /\ cutoff[w] \in Int /\ \A s \in saw[w] : s \in Int
      /\ conflicts[w] \in Nat
  BY <1>1, <1>3, <1>4 DEF TypeOK, Matching, Seqs, Cutoffs, SeqCutoffSawNothing
<1>6. seq \notin saw[w]
  BY <1>3, <1>4, <1>5
<1>7. Cardinality(saw[w]) + 1 <= Cardinality(Matching(filter[w]))
  <2>1. IsFiniteSet(Matching(filter[w]))
    BY <1>1, MatchingStays
  <2>2. IsFiniteSet(saw[w])
    BY <1>4, <2>1, FS_Subset
  <2>3. Cardinality(saw[w] \cup {seq}) = Cardinality(saw[w]) + 1
    BY <1>6, <2>2, FS_AddElement
  <2>4. saw[w] \cup {seq} \subseteq Matching(filter[w])
    BY <1>3, <1>4
  <2> QED
    BY <2>1, <2>3, <2>4, FS_Subset
<1>8. /\ Cardinality(saw[w]) \in Nat /\ Cardinality(Matching(filter[w])) \in Nat
  <2>1. IsFiniteSet(Matching(filter[w]))
    BY <1>1, MatchingStays
  <2>2. IsFiniteSet(saw[w])
    BY <1>4, <2>1, FS_Subset
  <2> QED
    BY <2>1, <2>2, FS_CardinalityType
<1>9. conflicts'[w] = conflicts[w] + 1 /\ st'[w] = "read"
  BY <1>1, <1>2 DEF Goto, TypeOK
<1>10. \A f : Matching(f)' = Matching(f)
  BY DEF Matching, Matches, Event, Seqs
<1>11. conflicts'[w] <= Cardinality(Matching(filter[w]))
  BY <1>4, <1>5, <1>7, <1>8, <1>9
<1> QED
  BY <1>2, <1>9, <1>10, <1>11 DEF Paid

\* Every step of the documented loop leaves every worker paid.
LEMMA StepPaid ==
  ASSUME Documented, BatchSize >= Limit, IInv, \A w \in Workers : Paid(w), [Next]_vars
  PROVE  \A w \in Workers : Paid(w)'
<1> SUFFICES ASSUME NEW v \in Workers PROVE Paid(v)'
  OBVIOUS
<1>0. TypeOK /\ Paid(v)
  BY DEF IInv
<1>a. ASSUME NEW w \in Workers, NEW s \in States \ {"decide", "wait"}, Goto(w, s),
             UNCHANGED <<log, filter, saw, cutoff, conflicts>>
      PROVE  Paid(v)'
  <2>1. st'[v] = s \/ st'[v] = st[v]
    BY <1>0, <1>a DEF Goto, TypeOK
  <2> QED
    BY <1>0, <1>a, <2>1, PaidAside
<1>b. CASE UNCHANGED <<log, loopVars>>
  BY <1>0, <1>b, PaidAside DEF loopVars
<1>1. ASSUME NEW w \in Workers, Read(w) PROVE Paid(v)'
  <2>1. CASE v = w
    BY <1>0, <1>1, <2>1, PaidByRead
  <2>2. CASE v # w
    <3>1. /\ UNCHANGED <<log, filter, conflicts>>
          /\ st'[v] = st[v] /\ saw'[v] = saw[v] /\ cutoff'[v] = cutoff[v]
      BY <1>0, <1>1, <2>2 DEF Read, Goto, TypeOK
    <3> QED
      BY <1>0, <3>1, PaidAside
  <2> QED
    BY <2>1, <2>2
<1>2. ASSUME NEW w \in Workers, ReadFails(w) \/ AppendFails(w) \/ RunAgain(w) \/ Refuse(w)
      PROVE  Paid(v)'
  BY <1>2, <1>a DEF ReadFails, AppendFails, RunAgain, Refuse, States
<1>3. ASSUME NEW w \in Workers, SendAppend(w) PROVE Paid(v)'
  <2>1. /\ UNCHANGED <<log, filter, saw, cutoff, conflicts>> /\ st[w] = "decide"
        /\ st' = [st EXCEPT ![w] = "wait"]
    BY <1>3 DEF SendAppend, Goto
  <2>2. st'[v] = st[v] \/ st[v] = "decide"
    BY <1>0, <2>1 DEF TypeOK
  <2> QED
    BY <1>0, <2>1, <2>2, PaidAside
<1>4. ASSUME NEW r \in net, Commit(r) PROVE Paid(v)'
  <2>1. r.by \in Workers /\ \E e \in Events : log' = Append(log, e)
    <3>1. r \in Requests
      BY <1>0 DEF TypeOK
    <3>2. [tags |-> r.tags, filter |-> r.filter, saw |-> r.saw] \in Events
      BY <3>1 DEF Requests, Events
    <3> QED
      BY <1>4, <3>1, <3>2 DEF Commit, Requests
  <2>2. CASE UNCHANGED loopVars
    BY <1>0, <2>1, <2>2, PaidAside DEF loopVars
  <2>3. CASE Awaited(r) /\ OnCommitted(r.by, Len(log))
    <3>1. CASE v = r.by
      BY <1>0, <1>4, <2>3, <3>1, PaidByCommit
    <3>2. CASE v # r.by
      <4>1. /\ UNCHANGED <<filter, conflicts>>
            /\ st'[v] = st[v] /\ saw'[v] = saw[v] /\ cutoff'[v] = cutoff[v]
        BY <1>0, <2>1, <2>3, <3>2 DEF OnCommitted, Documented, Goto, TypeOK
      <4> QED
        BY <1>0, <2>1, <4>1, PaidAside
    <3> QED
      BY <3>1, <3>2
  <2> QED
    BY <1>4, <2>2, <2>3 DEF Commit
<1>5. ASSUME NEW r \in net, Reject(r) PROVE Paid(v)'
  <2>1. CASE UNCHANGED loopVars
    BY <1>5, <1>b, <2>1 DEF Reject
  <2>2. ASSUME Awaited(r), NEW m, OnConflictReply(r.by, m) PROVE Paid(v)'
    <3>1. CASE v = r.by
      BY <1>0, <1>5, <2>2, <3>1, PaidByReject DEF Reject
    <3>2. CASE v # r.by
      <4>1. r.by \in Workers
        BY <1>0 DEF TypeOK, Requests
      <4>2. /\ UNCHANGED <<log, filter>> /\ conflicts'[v] = conflicts[v]
            /\ st'[v] = st[v] /\ saw'[v] = saw[v] /\ cutoff'[v] = cutoff[v]
        BY <1>0, <1>5, <2>2, <3>2, <4>1 DEF Reject, OnConflictReply, Documented, Goto, TypeOK
      <4> QED
        BY <1>0, <4>2, PaidAside
    <3> QED
      BY <3>1, <3>2
  <2> QED
    BY <1>5, <2>1, <2>2 DEF Reject
<1>6. ASSUME NEW r \in net, LoseRequest(r) PROVE Paid(v)'
  BY <1>6, <1>b DEF LoseRequest
<1>7. CASE UNCHANGED vars
  BY <1>7, <1>b DEF vars
<1> QED
  BY <1>1, <1>2, <1>3, <1>4, <1>5, <1>6, <1>7 DEF Next, AllStopped

\* A worker of the documented loop whose Read holds as many events as its
\* decision needs is told of no more conflicts than there are events matching
\* its filter: whoever is sent back was overtaken by a commit.
THEOREM LockFree ==
  ASSUME Documented, BatchSize >= Limit
  PROVE  Spec => []ConflictMeansProgress
<1> DEFINE Inv == IInv /\ \A w \in Workers : Paid(w)
<1>1. Init => Inv
  <2> SUFFICES ASSUME Init PROVE Inv
    OBVIOUS
  <2>1. IInv
    BY InitIInv
  <2>2. ASSUME NEW w \in Workers PROVE Paid(w)
    <3>1. Cardinality(Matching(filter[w])) \in Nat
      <4>1. Matching(filter[w]) = {}
        BY DEF Init, Matching, Seqs
      <4> QED
        BY <4>1, FS_EmptySet
    <3>2. conflicts[w] = 0 /\ st[w] = "read"
      BY DEF Init
    <3> QED
      BY <3>1, <3>2 DEF Paid
  <2> QED
    BY <2>1, <2>2
<1>2. Inv /\ [Next]_vars => Inv'
  BY StepIInv, StepPaid
<1>3. Inv => ConflictMeansProgress
  BY DEF Paid, ConflictMeansProgress
<1> QED
  BY <1>1, <1>2, <1>3, PTL DEF Spec
=============================================================================
