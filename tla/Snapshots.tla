------------------------------ MODULE Snapshots ------------------------------
(***************************************************************************)
(* Loading an aggregate from its latest snapshot and the events after it,  *)
(* as the doc of package snapshots describes it: Latest, a fold over one   *)
(* List; Read of package streams from Record.Version + 1, page by page; a  *)
(* Save of the state reached.  Meanwhile events are appended, snapshots    *)
(* saved late and deleted, and the stream itself is deleted and starts     *)
(* again.                                                                  *)
(*                                                                         *)
(* The state of an aggregate is the sequence of events applied to it.  An  *)
(* event is its number and the life of the stream it was written in; its   *)
(* chain hash names it and all before it in that life.  A loader that      *)
(* verifies compares the AnchorHash of the snapshot with the event at its  *)
(* version, and the PrevEventHash of each later event with the event       *)
(* before; the others apply what they get.                                 *)
(***************************************************************************)
EXTENDS Integers, Sequences, FiniteSets, SequencesExt

CONSTANTS
  Loaders,   \* each loads, and may load again
  Verifying, \* the loaders that compare hashes
  Page,      \* the count passed to Read
  MaxEvents, \* bound of the model: events of one life of the stream
  MaxLives,  \* bound of the model: how often the stream is deleted
  MaxLoads,  \* bound of the model: loads that are done again
  MaxSaves,  \* bound of the model: snapshots sent
  MaxPrunes  \* bound of the model: snapshots deleted

ASSUME LoadersAssumption == Verifying \subseteq Loaders
ASSUME BoundsAssumption ==
  Page \in Nat \ {0} /\ {MaxEvents, MaxLives, MaxLoads, MaxSaves, MaxPrunes} \subseteq Nat

VARIABLES
  stream,  \* the events; the version of stream[i] is i - 1
  life,    \* how often the stream has been deleted
  snaps,   \* the snapshots of the stream
  spent,   \* saves and loads done again so far, and snapshots deleted
  net,     \* saves under way
  st,      \* per loader: where it is
  listed,  \* per loader: the answer of List
  rec,     \* per loader: what Latest returned
  state,   \* per loader: the events applied
  next,    \* per loader: the version to read from
  link,    \* per loader: the hash the next event must link to
  could,   \* history, per loader: the highest snapshots since Latest was called
  since    \* history, per loader: the stream and its life when the load began

server == <<stream, life, snaps>>
loader == <<st, listed, rec, state, next, link>>
vars == <<server, net, spent, loader, could, since>>

Event == [life : 0..MaxLives, nr : Nat]
States == {"start", "list", "choose", "check", "read", "done", "failed"}
\* The empty hash.
NoHash == [life |-> 0, nr |-> -1]
Hashes == Event \cup {NoHash}
Records == [found : BOOLEAN, version : Nat, data : Seq(Event), anchor : Hashes]
\* Record{}, told apart by its StreamID.
Empty == [found |-> FALSE, version |-> 0, data |-> <<>>, anchor |-> NoHash]

TypeOK ==
  /\ stream \in Seq(Event) /\ life \in 0..MaxLives
  /\ snaps \subseteq Records /\ Empty \notin snaps
  /\ \A r, q \in snaps : r.version = q.version => r = q
  /\ net \subseteq [by : Loaders, version : Nat, data : Seq(Event)]
  /\ st \in [Loaders -> States]
  /\ listed \in [Loaders -> Seq(Records)]
  /\ rec \in [Loaders -> Records]
  /\ state \in [Loaders -> Seq(Event)]
  /\ next \in [Loaders -> Nat] /\ link \in [Loaders -> Hashes]
  /\ spent \in [saves : 0..MaxSaves, loads : 0..MaxLoads, prunes : 0..MaxPrunes]

Init ==
  /\ stream = <<>> /\ life = 0 /\ snaps = {} /\ net = {}
  /\ st = [l \in Loaders |-> "start"]
  /\ listed = [l \in Loaders |-> <<>>]
  /\ rec = [l \in Loaders |-> Empty]
  /\ state = [l \in Loaders |-> <<>>]
  /\ next = [l \in Loaders |-> 0] /\ link = [l \in Loaders |-> NoHash]
  /\ spent = [saves |-> 0, loads |-> 0, prunes |-> 0]
  /\ could = [l \in Loaders |-> {}]
  /\ since = [l \in Loaders |-> [len |-> 0, life |-> 0]]

Goto(l, s) == st' = [st EXCEPT ![l] = s]
-----------------------------------------------------------------------------
(* Latest.                                                                 *)

Highest(set) ==
  IF set = {} THEN Empty
  ELSE CHOOSE r \in set : \A q \in set : q.version <= r.version

\* The snapshots change: history of the calls of Latest under way.
Recall(now) ==
  could' = [l \in Loaders |-> IF st[l] \in {"list", "choose"}
                               THEN could[l] \cup {Highest(now)} ELSE could[l]]

SendList(l) ==
  /\ st[l] = "start"
  /\ Goto(l, "list")
  /\ could' = [could EXCEPT ![l] = {Highest(snaps)}]
  /\ since' = [since EXCEPT ![l] = [len |-> Len(stream), life |-> life]]
  /\ UNCHANGED <<server, net, spent, listed, rec, state, next, link>>

\* The gateway answers List, in any order.
AnswerList(l) ==
  /\ st[l] = "list"
  /\ \E answer \in SetToSeqs(snaps) : listed' = [listed EXCEPT ![l] = answer]
  /\ Goto(l, "choose")
  /\ UNCHANGED <<server, net, spent, rec, state, next, link, could, since>>

\* The loop over all[1:]: best[i] is the choice among the first i records.
Best(all) ==
  LET best[i \in 1..Len(all)] ==
        IF i = 1 THEN all[1]
        ELSE IF all[i].version > best[i - 1].version THEN all[i] ELSE best[i - 1]
  IN best[Len(all)]

\* Mutant: the doc's two round trips, a List for the version and an At for the
\* record, which is empty if the snapshot is gone by then.
LatestByAt(all) ==
  IF all # <<>> /\ \E r \in snaps : r.version = Best(all).version
  THEN CHOOSE r \in snaps : r.version = Best(all).version ELSE Empty

\* The choice Latest makes among the records of its one List.
Latest(all) == IF all = <<>> THEN Empty ELSE Best(all)

\* Mutant: the empty Record has Version 0 and is not told apart.
StartAfterAny(r) == r.version + 1
\* Where the replay begins.
StartAfter(r) == IF r.found THEN r.version + 1 ELSE 0

\* Latest returns, and the loader starts from the record.  One that verifies has
\* no use for a record without an anchor.
Choose(l) ==
  /\ st[l] = "choose"
  /\ LET latest == Latest(listed[l])
         r == IF l \in Verifying /\ latest.anchor = NoHash THEN Empty ELSE latest
     IN /\ rec' = [rec EXCEPT ![l] = r]
        /\ state' = [state EXCEPT ![l] = r.data]
        /\ next' = [next EXCEPT ![l] = StartAfter(r)]
        /\ link' = [link EXCEPT ![l] = r.anchor]
        /\ Goto(l, IF l \in Verifying /\ r.found THEN "check" ELSE "read")
  /\ listed' = [listed EXCEPT ![l] = <<>>]
  /\ could' = [could EXCEPT ![l] = {}]
  /\ UNCHANGED <<server, net, spent, since>>
-----------------------------------------------------------------------------
(* Replaying the events after the snapshot.                                *)

\* A page of the stream, from a start version on.
ReadForward(start, count) ==
  SubSeq(stream, start + 1, IF start + count < Len(stream) THEN start + count
                                                           ELSE Len(stream))
PrevEventHash(e) == IF e.nr = 0 THEN NoHash ELSE [e EXCEPT !.nr = @ - 1]

\* The event at the version of the snapshot has the hash it is anchored at.
Anchored(l) == ReadForward(rec[l].version, 1) = <<rec[l].anchor>>
CheckAnchor(l) ==
  /\ st[l] = "check" /\ Anchored(l)
  /\ Goto(l, "read")
  /\ UNCHANGED <<server, net, spent, listed, rec, state, next, link, could, since>>

\* Each event of the next page links to the one before it, the first to link.
NextPage(l) == ReadForward(next[l], Page)
Continues(l) ==
  \A i \in DOMAIN NextPage(l) :
    PrevEventHash(NextPage(l)[i]) = IF i = 1 THEN link[l] ELSE NextPage(l)[i - 1]

\* One page more.  A full page is followed by another.
ReadPage(l) ==
  /\ st[l] = "read"
  /\ l \in Verifying => Continues(l)
  /\ LET page == NextPage(l)
     IN /\ state' = [state EXCEPT ![l] = @ \o page]
        /\ next' = [next EXCEPT ![l] = @ + Len(page)]
        /\ link' = [link EXCEPT ![l] = IF page = <<>> THEN @ ELSE Last(page)]
        /\ IF Len(page) = Page THEN UNCHANGED st ELSE Goto(l, "done")
  /\ UNCHANGED <<server, net, spent, listed, rec, could, since>>

\* A hash does not match: the loader replays the stream from its first event.
Mismatch(l) ==
  /\ l \in Verifying
  /\ \/ st[l] = "check" /\ ~Anchored(l)
     \/ st[l] = "read" /\ ~Continues(l)
  /\ rec' = [rec EXCEPT ![l] = Empty]
  /\ state' = [state EXCEPT ![l] = <<>>]
  /\ next' = [next EXCEPT ![l] = 0]
  /\ link' = [link EXCEPT ![l] = NoHash]
  /\ Goto(l, "read")
  /\ UNCHANGED <<server, net, spent, listed, could, since>>

\* List or Read returns an error.
LoadFails(l) ==
  /\ st[l] \in {"list", "check", "read"}
  /\ Goto(l, "failed")
  /\ UNCHANGED <<server, net, spent, listed, rec, state, next, link, could, since>>
\* The caller loads again.
LoadAgain(l) ==
  /\ st[l] \in {"done", "failed"} /\ spent.loads < MaxLoads
  /\ spent' = [spent EXCEPT !.loads = @ + 1]
  /\ Goto(l, "start")
  /\ rec' = [rec EXCEPT ![l] = Empty]
  /\ state' = [state EXCEPT ![l] = <<>>]
  /\ next' = [next EXCEPT ![l] = 0]
  /\ link' = [link EXCEPT ![l] = NoHash]
  /\ UNCHANGED <<server, net, listed, could, since>>
-----------------------------------------------------------------------------
(* Saving, and what others do.                                             *)

\* Mutant: an aggregate without events is saved too, at version -1.
SendSaveEmpty(l) ==
  /\ st[l] = "done" /\ spent.saves < MaxSaves
  /\ net' = net \cup {[by |-> l, version |-> Len(state[l]) - 1, data |-> state[l]]}
  /\ spent' = [spent EXCEPT !.saves = @ + 1]
  /\ UNCHANGED <<server, loader, could, since>>

\* Save at the version of the last event applied, perhaps again, since nothing
\* tells whether a Save that timed out was executed.
SendSave(l) ==
  /\ st[l] = "done" /\ state[l] # <<>> /\ spent.saves < MaxSaves
  /\ net' = net \cup {[by |-> l, version |-> Len(state[l]) - 1, data |-> state[l]]}
  /\ spent' = [spent EXCEPT !.saves = @ + 1]
  /\ UNCHANGED <<server, loader, could, since>>

\* The gateway records a snapshot, with the hash of the event now at its version.
Record(m) ==
  /\ m \in net
  /\ net' = net \ {m}
  /\ LET anchor == IF m.version < Len(stream) THEN stream[m.version + 1] ELSE NoHash
     IN snaps' = {r \in snaps : r.version # m.version} \cup
          {[found |-> TRUE, version |-> m.version, data |-> m.data, anchor |-> anchor]}
  /\ Recall(snaps')
  /\ UNCHANGED <<stream, life, spent, loader, since>>

LoseSave(m) ==
  /\ m \in net
  /\ net' = net \ {m}
  /\ UNCHANGED <<server, spent, loader, could, since>>

\* Delete of package snapshots, by anyone.
Prune(r) ==
  /\ r \in snaps /\ spent.prunes < MaxPrunes
  /\ snaps' = snaps \ {r} /\ spent' = [spent EXCEPT !.prunes = @ + 1]
  /\ Recall(snaps')
  /\ UNCHANGED <<stream, life, net, loader, since>>

AppendEvent ==
  /\ Len(stream) < MaxEvents
  /\ stream' = Append(stream, [life |-> life, nr |-> Len(stream)])
  /\ UNCHANGED <<life, snaps, net, spent, loader, could, since>>

\* Delete of package streams, by anyone; the snapshots stay.
DeleteStream ==
  /\ life < MaxLives /\ stream # <<>>
  /\ stream' = <<>> /\ life' = life + 1
  /\ UNCHANGED <<snaps, net, spent, loader, could, since>>

\* Nothing left to do within the bounds.
AllStopped ==
  /\ net = {} /\ \A l \in Loaders : st[l] \in {"done", "failed"}
  /\ UNCHANGED vars

Next ==
  \/ \E l \in Loaders :
       \/ SendList(l) \/ AnswerList(l) \/ Choose(l) \/ CheckAnchor(l)
       \/ ReadPage(l) \/ Mismatch(l) \/ LoadFails(l) \/ LoadAgain(l)
       \/ SendSave(l)
  \/ \E m \in net : Record(m) \/ LoseSave(m)
  \/ \E r \in snaps : Prune(r)
  \/ AppendEvent
  \/ DeleteStream
  \/ AllStopped

Spec == Init /\ [][Next]_vars
-----------------------------------------------------------------------------
\* Latest returns the highest snapshot there was at one moment of the call, and
\* the empty Record only if there was none at some moment: whatever is saved and
\* deleted meanwhile, it never names one that was never the latest.
LatestAtOneMoment ==
  \A l \in Loaders : st[l] = "choose" => Latest(listed[l]) \in could[l]

\* s is the start of one life of the stream, without a gap or a repetition.
OneLife(s) == \A i \in DOMAIN s : s[i] = [life |-> s[1].life, nr |-> i - 1]

\* What the hash of a record says of its data holds: false if a Save came so late
\* that the stream was another, or its data was wrong from the beginning.
RightlyAnchored(r) ==
  r.found => r.data = [i \in 1..(r.anchor.nr + 1) |-> [r.anchor EXCEPT !.nr = i - 1]]
OfLife(s, n) == OneLife(s) /\ \A i \in DOMAIN s : s[i].life = n

\* A loaded state is what replaying the whole stream gives, at a moment after the
\* load began: no event is missing or applied twice at the joints of snapshot and
\* pages, though events are appended and snapshots come and go.  A loader that
\* verifies gets it also across deletions of the stream, from each record that is
\* rightly anchored; the others, if neither the record is of an earlier life nor
\* the stream deleted while they read.
Rehydrated ==
  \A l \in Loaders : st[l] = "done" =>
    LET plain == OfLife(rec[l].data, since[l].life) /\ since[l].life = life
        verified == l \in Verifying /\ RightlyAnchored(rec[l])
    IN /\ plain \/ verified => OneLife(state[l])
       /\ (plain \/ verified) /\ since[l].life = life =>
            OfLife(state[l], life) /\ since[l].len <= Len(state[l])
=============================================================================
