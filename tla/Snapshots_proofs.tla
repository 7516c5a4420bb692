-------------------------- MODULE Snapshots_proofs --------------------------
(***************************************************************************)
(* Proofs about Snapshots for any number of loaders, events, snapshots and *)
(* deletions and any page size: Latest returns the highest snapshot of one *)
(* moment, and the state loaded is the one that a replay gives.            *)
(*                                                                         *)
(* The loop of Latest is a recursive function.  That it is well defined,   *)
(* and that it finds the highest version, is shown by induction over the   *)
(* length of the answer, in the form of NatSetInduction.                   *)
(***************************************************************************)
EXTENDS Snapshots, FiniteSetTheorems, SequenceTheorems, TLAPS

\* A record that a loader may start from: none, or one that is at the version of
\* the last event its data was made of.
Usable(r) == r = Empty \/ (r.found /\ r.version + 1 = Len(r.data))

\* The server: the stream is one life of events without a gap, and each snapshot
\* is at the version of its last event.
StreamInOrder == \A i \in 1..Len(stream) : stream[i] = [life |-> life, nr |-> i - 1]
SnapsUsable ==
  /\ IsFiniteSet(snaps)
  /\ \A r \in snaps : r.found /\ Usable(r)
  /\ \A m \in net : m.version + 1 = Len(m.data)
RecordsUsable ==
  \A l \in Loaders : Usable(rec[l]) /\ \A i \in 1..Len(listed[l]) : Usable(listed[l][i])

\* A call of Latest knows what was the highest.
LatestRecalled ==
  /\ could = [l \in Loaders |-> could[l]]
  /\ \A l \in Loaders : st[l] = "list" => Highest(snaps) \in could[l]

\* The life a load began in is not over, or the stream has not become shorter.
Begun ==
  /\ since \in [Loaders -> [len : Nat, life : 0..MaxLives]]
  /\ \A l \in Loaders : /\ since[l].life <= life
                        /\ since[l].life = life => since[l].len <= Len(stream)

\* The next event to read is the one behind those applied.
AtItsPlace(l) == st[l] \in {"check", "read", "done"} => next[l] = Len(state[l])
Untouched(l) ==
  st[l] = "check" => /\ l \in Verifying /\ rec[l].found
                     /\ state[l] = rec[l].data /\ link[l] = rec[l].anchor
\* A loader that compares nothing replays well what began well in this life.
Plain(l) == since[l].life = life /\ OfLife(rec[l].data, since[l].life)
PlainReplay(l) ==
  st[l] \in {"check", "read", "done"} /\ Plain(l) => OfLife(state[l], life)
\* One that verifies knows the hash of its last event, which ties it to those
\* before, and which is of this life if the load is.
Linked(l) ==
  l \in Verifying /\ st[l] \in {"read", "done"} /\ RightlyAnchored(rec[l]) =>
    /\ OneLife(state[l])
    /\ link[l] = IF state[l] = <<>> THEN NoHash ELSE state[l][Len(state[l])]
    /\ since[l].life = life => OfLife(state[l], life)
\* Whoever is done has read to the end.
ReadAll(l) == st[l] = "done" /\ since[l].life = life => since[l].len <= Len(state[l])

Replays(l) == AtItsPlace(l) /\ Untouched(l) /\ PlainReplay(l) /\ Linked(l) /\ ReadAll(l)

IInv ==
  /\ TypeOK /\ StreamInOrder /\ SnapsUsable /\ RecordsUsable
  /\ LatestRecalled /\ LatestAtOneMoment /\ Begun
  /\ \A l \in Loaders : Replays(l)
-----------------------------------------------------------------------------
(* The loop of Latest.                                                     *)

\* Induction over the natural numbers, as a fact about a set of them.
LEMMA NatSetInduction ==
  ASSUME NEW S, 0 \in S, \A n \in Nat : n \in S => n + 1 \in S
  PROVE  Nat \subseteq S
<1> DEFINE R == OpToRel(<, Nat)
           T == Nat \ S
<1>1. SUFFICES ASSUME T # {} PROVE FALSE
  OBVIOUS
<1>2. IsWellFoundedOn(R, Nat)
  BY NatLessThanWellFounded
<1>3. PICK x \in T : \A y \in T : <<y, x>> \notin R
  <2> HIDE DEF R
  <2> QED
    BY <1>1, <1>2, WFMin
<1>4. x \in Nat \ {0} /\ x - 1 \in Nat /\ x - 1 < x
  OBVIOUS
<1>5. <<x - 1, x>> \in R
  BY <1>4 DEF OpToRel
<1>6. x - 1 \in S
  BY <1>3, <1>4, <1>5
<1> QED
  BY <1>4, <1>6

\* f is what the loop computes for the first n records.
IsLoop(all, f, n) ==
  f = [i \in 1..n |-> IF i = 1 THEN all[1]
                      ELSE IF all[i].version > f[i - 1].version THEN all[i] ELSE f[i - 1]]

LEMMA LoopExists ==
  ASSUME NEW all, NEW n \in Nat
  PROVE  \E f : IsLoop(all, f, n)
<1> DEFINE S == {k \in Nat : \E f : IsLoop(all, f, k)}
<1>1. 0 \in S
  <2>1. IsLoop(all, [i \in 1..0 |-> 0], 0)
    BY DEF IsLoop
  <2> QED
    BY <2>1
<1>2. ASSUME NEW k \in Nat, k \in S PROVE k + 1 \in S
  <2>1. PICK f : IsLoop(all, f, k)
    BY <1>2
  <2> DEFINE g == [i \in 1..(k + 1) |->
                    IF i = k + 1
                    THEN IF i = 1 THEN all[1]
                         ELSE IF all[i].version > f[i - 1].version THEN all[i] ELSE f[i - 1]
                    ELSE f[i]]
  <2>2. \A i \in 1..k : g[i] = f[i]
    OBVIOUS
  <2>3. ASSUME NEW i \in 1..(k + 1)
        PROVE  g[i] = IF i = 1 THEN all[1]
                      ELSE IF all[i].version > g[i - 1].version THEN all[i] ELSE g[i - 1]
    <3>1. i # 1 => i - 1 \in 1..k /\ g[i - 1] = f[i - 1]
      OBVIOUS
    <3>2. CASE i = k + 1
      BY <3>1, <3>2
    <3>3. CASE i # k + 1
      <4>1. i \in 1..k /\ g[i] = f[i]
        BY <3>3
      <4> QED
        BY <2>1, <3>1, <4>1 DEF IsLoop
    <3> QED
      BY <3>2, <3>3
  <2>4. IsLoop(all, g, k + 1)
    BY <2>3 DEF IsLoop
  <2> QED
    BY <2>4
<1>3. n \in S
  <2> HIDE DEF S
  <2> QED
    BY <1>1, <1>2, NatSetInduction
<1> QED
  BY <1>3

\* The record the loop ends with is one of those listed, with the highest version.
LEMMA BestIsHighest ==
  ASSUME NEW S, \A r \in S : r.version \in Nat, NEW all \in Seq(S), all # <<>>
  PROVE  \E i \in 1..Len(all) :
           /\ Best(all) = all[i]
           /\ \A j \in 1..Len(all) : all[j].version <= all[i].version
<1> DEFINE best == CHOOSE f : IsLoop(all, f, Len(all))
<1>1. Len(all) \in Nat \ {0} /\ \A i \in 1..Len(all) : all[i].version \in Nat
  BY ElementOfSeq, EmptySeq, LenProperties
<1>2. IsLoop(all, best, Len(all))
  BY <1>1, LoopExists
<1>3. Best(all) = best[Len(all)]
  BY DEF Best, IsLoop
<1>4. \A k \in 1..Len(all) :
        best[k] = IF k = 1 THEN all[1]
                  ELSE IF all[k].version > best[k - 1].version THEN all[k] ELSE best[k - 1]
  <2> HIDE DEF best
  <2> QED
    BY <1>2 DEF IsLoop
<1> HIDE DEF best
<1> DEFINE Chosen(k) == \E i \in 1..k : /\ best[k] = all[i]
                                       /\ \A j \in 1..k : all[j].version <= all[i].version
           D == {k \in Nat : k \in 1..Len(all) => Chosen(k)}
<1>5. 0 \in D
  OBVIOUS
<1>6. ASSUME NEW k \in Nat, k \in D PROVE k + 1 \in D
  <2>1. SUFFICES ASSUME k + 1 \in 1..Len(all) PROVE Chosen(k + 1)
    OBVIOUS
  <2>2. CASE k = 0
    <3>1. best[1] = all[1]
      BY <1>1, <1>4
    <3> QED
      BY <1>1, <2>2, <3>1
  <2>3. CASE k # 0
    <3>1. PICK i \in 1..k : best[k] = all[i] /\ \A j \in 1..k : all[j].version <= all[i].version
      BY <1>6, <2>1, <2>3
    <3>2. best[k + 1] = IF all[k + 1].version > all[i].version THEN all[k + 1] ELSE all[i]
      BY <1>4, <2>1, <2>3, <3>1
    <3>3. /\ all[i].version \in Nat /\ all[k + 1].version \in Nat
          /\ \A j \in 1..(k + 1) : all[j].version \in Nat /\ (j \in 1..k \/ j = k + 1)
      BY <1>1, <2>1, <3>1
    <3>4. CASE all[k + 1].version > all[i].version
      <4>1. \A j \in 1..(k + 1) : all[j].version <= all[k + 1].version
        BY <3>1, <3>3, <3>4
      <4> QED
        BY <3>2, <3>4, <4>1
    <3>5. CASE ~(all[k + 1].version > all[i].version)
      <4>1. \A j \in 1..(k + 1) : all[j].version <= all[i].version
        BY <3>1, <3>3, <3>5
      <4> QED
        BY <3>2, <3>5, <4>1
    <3> QED
      BY <3>4, <3>5
  <2> QED
    BY <2>2, <2>3
<1>7. Len(all) \in D
  <2> HIDE DEF D
  <2> QED
    BY <1>1, <1>5, <1>6, NatSetInduction
<1> QED
  BY <1>1, <1>3, <1>7

\* An answer in any order is a sequence of all the snapshots.
LEMMA AnswerLists ==
  ASSUME IsFiniteSet(snaps), NEW answer \in SetToSeqs(snaps)
  PROVE  /\ answer \in Seq(snaps) /\ (answer = <<>> <=> snaps = {})
         /\ \A r \in snaps : \E i \in 1..Len(answer) : answer[i] = r
<1> DEFINE D == 1..Cardinality(snaps)
<1>1. Cardinality(snaps) \in Nat /\ (Cardinality(snaps) = 0 <=> snaps = {})
  BY FS_CardinalityType, FS_EmptySet
<1>2. answer \in [D -> snaps] /\ \A i, j \in D : i # j => answer[i] # answer[j]
  BY DEF SetToSeqs
<1>3. answer \in Seq(snaps) /\ Len(answer) = Cardinality(snaps)
  BY <1>1, <1>2, SeqDef
<1>4. answer \in Injection(D, snaps)
  BY <1>2 DEF Injection, IsInjective
<1>5. Cardinality(D) = Cardinality(snaps)
  BY <1>1, FS_Interval
<1>6. answer \in Surjection(D, snaps)
  BY <1>4, <1>5, FS_Injection
<1>7. answer = <<>> <=> Len(answer) = 0
  BY <1>3, EmptySeq
<1> QED
  BY <1>1, <1>3, <1>6, <1>7 DEF Surjection

\* From one List, Latest chooses the highest of the snapshots listed.
LEMMA LatestIsHighest ==
  ASSUME TypeOK, IsFiniteSet(snaps), NEW answer \in SetToSeqs(snaps)
  PROVE  Latest(answer) = Highest(snaps)
<1>1. /\ answer \in Seq(snaps) /\ (answer = <<>> <=> snaps = {})
      /\ \A r \in snaps : \E i \in 1..Len(answer) : answer[i] = r
  BY AnswerLists
<1>2. CASE snaps = {}
  BY <1>1, <1>2 DEF Latest, Highest
<1>3. CASE snaps # {}
  <2>1. \A r \in snaps : r.version \in Nat
    BY DEF TypeOK, Records
  <2>2. PICK i \in 1..Len(answer) :
          /\ Best(answer) = answer[i]
          /\ \A j \in 1..Len(answer) : answer[j].version <= answer[i].version
    BY <1>1, <1>3, <2>1, BestIsHighest
  <2> DEFINE r == answer[i]
             Top(q) == \A s \in snaps : s.version <= q.version
  <2>3. r \in snaps /\ Top(r)
    BY <1>1, <2>2, ElementOfSeq
  <2>4. ASSUME NEW q \in snaps, Top(q) PROVE q = r
    <3>1. q.version = r.version
      BY <2>1, <2>3, <2>4
    <3> QED
      BY <2>3, <3>1 DEF TypeOK
  <2>5. Highest(snaps) = r
    <3> HIDE DEF r
    <3> QED
      BY <1>3, <2>3, <2>4 DEF Highest
  <2> QED
    BY <1>1, <1>3, <2>2, <2>5 DEF Latest
<1> QED
  BY <1>2, <1>3

\* What Latest returns is a record that was listed, or the empty one.
LEMMA LatestListed ==
  ASSUME TypeOK, NEW l \in Loaders
  PROVE  \/ Latest(listed[l]) = Empty
         \/ \E i \in 1..Len(listed[l]) : Latest(listed[l]) = listed[l][i]
<1>1. listed[l] \in Seq(Records) /\ \A r \in Records : r.version \in Nat
  BY DEF TypeOK, Records
<1>2. listed[l] # <<>> => \E i \in 1..Len(listed[l]) : Best(listed[l]) = listed[l][i]
  BY <1>1, BestIsHighest
<1> QED
  BY <1>2 DEF Latest
-----------------------------------------------------------------------------
(* Types.                                                                  *)

\* A page is the part of the stream behind its start, if there is any.
LEMMA PageOfStream ==
  ASSUME TypeOK, NEW start \in Nat, NEW count \in Nat \ {0}, NEW page,
         page = ReadForward(start, count)
  PROVE  /\ page \in Seq(Event) /\ Len(page) \in Nat /\ Len(page) <= count
         /\ \A i \in 1..Len(page) : /\ page[i] = stream[start + i]
                                    /\ start + i \in 1..Len(stream)
         /\ Len(page) < count => start + Len(page) >= Len(stream)
<1> DEFINE end == IF start + count < Len(stream) THEN start + count ELSE Len(stream)
<1>1. /\ stream \in Seq(Event) /\ Len(stream) \in Nat
      /\ \A i \in 1..Len(stream) : stream[i] \in Event
  BY LenProperties, ElementOfSeq DEF TypeOK
<1>2. end \in Nat /\ end <= Len(stream) /\ end <= start + count
  BY <1>1
<1>3. page = SubSeq(stream, start + 1, end)
  BY DEF ReadForward
<1> HIDE DEF end
<1>4. \A i \in (start + 1)..end : stream[i] \in Event
  BY <1>1, <1>2
<1>5. /\ page \in Seq(Event)
      /\ Len(page) = IF start + 1 <= end THEN end - (start + 1) + 1 ELSE 0
      /\ \A i \in 1..(end - (start + 1) + 1) : page[i] = stream[start + 1 + i - 1]
  BY <1>2, <1>3, <1>4, SubSeqProperties
<1>6. Len(page) < count => start + Len(page) >= Len(stream)
  BY <1>1, <1>2, <1>5 DEF end
<1> QED
  BY <1>2, <1>5, <1>6

\* Record{} is a record.
LEMMA EmptyTyped ==
  /\ NoHash \in Hashes /\ Empty \in Records
  /\ Empty.data = <<>> /\ Empty.found = FALSE
  /\ Empty.version = 0 /\ Empty.anchor = NoHash
<1>1. <<>> \in Seq(Event)
  OBVIOUS
<1> QED
  BY <1>1 DEF Hashes, Empty, Records

LEMMA Bounds ==
  /\ MaxSaves \in Nat /\ MaxLoads \in Nat /\ MaxPrunes \in Nat /\ MaxLives \in Nat
  /\ Page \in Nat \ {0}
BY BoundsAssumption

\* A counter that is below its bound is counted up.
LEMMA SpentTyped ==
  ASSUME TypeOK,
         \/ spent.saves < MaxSaves /\ spent' = [spent EXCEPT !.saves = @ + 1]
         \/ spent.loads < MaxLoads /\ spent' = [spent EXCEPT !.loads = @ + 1]
         \/ spent.prunes < MaxPrunes /\ spent' = [spent EXCEPT !.prunes = @ + 1]
  PROVE  spent' \in [saves : 0..MaxSaves, loads : 0..MaxLoads, prunes : 0..MaxPrunes]
<1>1. /\ spent = [saves |-> spent.saves, loads |-> spent.loads, prunes |-> spent.prunes]
      /\ spent.saves \in 0..MaxSaves /\ spent.loads \in 0..MaxLoads
      /\ spent.prunes \in 0..MaxPrunes
  BY DEF TypeOK
<1>2. CASE spent.saves < MaxSaves /\ spent' = [spent EXCEPT !.saves = @ + 1]
  BY <1>1, <1>2, Bounds
<1>3. CASE spent.loads < MaxLoads /\ spent' = [spent EXCEPT !.loads = @ + 1]
  BY <1>1, <1>3, Bounds
<1>4. CASE spent.prunes < MaxPrunes /\ spent' = [spent EXCEPT !.prunes = @ + 1]
  BY <1>1, <1>4, Bounds
<1> QED
  BY <1>2, <1>3, <1>4

LEMMA InitTypes == Init => TypeOK
<1> SUFFICES ASSUME Init PROVE TypeOK
  OBVIOUS
<1>1. <<>> \in Seq(Event) /\ <<>> \in Seq(Records)
  OBVIOUS
<1> QED
  BY <1>1, EmptyTyped, BoundsAssumption DEF Init, TypeOK, States

\* What Choose does: it starts from a record that was listed, or from none.
LEMMA ChosenRecord ==
  ASSUME TypeOK, NEW l \in Loaders, Choose(l)
  PROVE  \E r \in Records :
           /\ r = Empty \/ \E i \in 1..Len(listed[l]) : r = listed[l][i]
           /\ rec' = [rec EXCEPT ![l] = r] /\ state' = [state EXCEPT ![l] = r.data]
           /\ next' = [next EXCEPT ![l] = StartAfter(r)] /\ StartAfter(r) \in Nat
           /\ link' = [link EXCEPT ![l] = r.anchor]
           /\ st' = [st EXCEPT ![l] = IF l \in Verifying /\ r.found THEN "check" ELSE "read"]
<1> DEFINE latest == Latest(listed[l])
           r == IF l \in Verifying /\ latest.anchor = NoHash THEN Empty ELSE latest
<1>1. r = Empty \/ \E i \in 1..Len(listed[l]) : r = listed[l][i]
  BY LatestListed
<1>2. r \in Records
  <2>1. listed[l] \in Seq(Records)
    BY DEF TypeOK
  <2> HIDE DEF r
  <2> QED
    BY <1>1, <2>1, ElementOfSeq, EmptyTyped
<1>3. /\ rec' = [rec EXCEPT ![l] = r] /\ state' = [state EXCEPT ![l] = r.data]
      /\ next' = [next EXCEPT ![l] = StartAfter(r)]
      /\ link' = [link EXCEPT ![l] = r.anchor]
      /\ st' = [st EXCEPT ![l] = IF l \in Verifying /\ r.found THEN "check" ELSE "read"]
  BY DEF Choose, Goto
<1> HIDE DEF r
<1>4. StartAfter(r) \in Nat
  BY <1>2 DEF StartAfter, Records
<1> QED
  BY <1>1, <1>2, <1>3, <1>4

\* What ReadPage does.
LEMMA PageRead ==
  ASSUME TypeOK, NEW l \in Loaders, ReadPage(l)
  PROVE  \E page \in Seq(Event) :
           /\ page = NextPage(l) /\ Len(page) \in Nat
           /\ \A i \in 1..Len(page) : /\ page[i] = stream[next[l] + i]
                                      /\ next[l] + i \in 1..Len(stream)
           /\ state' = [state EXCEPT ![l] = @ \o page]
           /\ next' = [next EXCEPT ![l] = @ + Len(page)]
           /\ link' = [link EXCEPT ![l] = IF page = <<>> THEN @ ELSE page[Len(page)]]
           /\ \/ UNCHANGED st
              \/ st' = [st EXCEPT ![l] = "done"] /\ next[l] + Len(page) >= Len(stream)
<1>1. next[l] \in Nat /\ Page \in Nat \ {0}
  BY BoundsAssumption DEF TypeOK
<1> DEFINE page == NextPage(l)
<1>2. /\ page \in Seq(Event) /\ Len(page) \in Nat /\ Len(page) <= Page
      /\ \A i \in 1..Len(page) : /\ page[i] = stream[next[l] + i]
                                 /\ next[l] + i \in 1..Len(stream)
      /\ Len(page) < Page => next[l] + Len(page) >= Len(stream)
  BY <1>1, PageOfStream DEF NextPage
<1>3. /\ state' = [state EXCEPT ![l] = @ \o page]
      /\ next' = [next EXCEPT ![l] = @ + Len(page)]
      /\ link' = [link EXCEPT ![l] = IF page = <<>> THEN @ ELSE page[Len(page)]]
      /\ IF Len(page) = Page THEN UNCHANGED st ELSE st' = [st EXCEPT ![l] = "done"]
  BY DEF ReadPage, Goto, Last
<1> HIDE DEF page
<1>4. page = NextPage(l)
  BY DEF page
<1>5. Len(page) # Page => next[l] + Len(page) >= Len(stream)
  BY <1>1, <1>2
<1> QED
  BY <1>2, <1>3, <1>4, <1>5

\* A step of a loader that saves nothing.
LEMMA LoaderTypes ==
  ASSUME TypeOK, NEW l \in Loaders,
         \/ SendList(l) \/ AnswerList(l) \/ Choose(l) \/ CheckAnchor(l)
         \/ ReadPage(l) \/ Mismatch(l) \/ LoadFails(l) \/ LoadAgain(l),
         IsFiniteSet(snaps)
  PROVE  TypeOK'
<1> USE DEF TypeOK, server, Goto, States
<1>1. CASE SendList(l)
  BY <1>1 DEF SendList
<1>2. CASE AnswerList(l)
  <2>1. PICK answer \in SetToSeqs(snaps) : listed' = [listed EXCEPT ![l] = answer]
    BY <1>2 DEF AnswerList
  <2>2. answer \in Seq(Records)
    BY AnswerLists, SeqMonotonic
  <2> QED
    BY <1>2, <2>1, <2>2 DEF AnswerList
<1>3. CASE Choose(l)
  <2>1. PICK r \in Records :
          /\ rec' = [rec EXCEPT ![l] = r] /\ state' = [state EXCEPT ![l] = r.data]
          /\ next' = [next EXCEPT ![l] = StartAfter(r)] /\ StartAfter(r) \in Nat
          /\ link' = [link EXCEPT ![l] = r.anchor]
          /\ st' = [st EXCEPT ![l] = IF l \in Verifying /\ r.found THEN "check" ELSE "read"]
    BY <1>3, ChosenRecord
  <2>2. r.data \in Seq(Event) /\ r.anchor \in Hashes /\ <<>> \in Seq(Records)
    BY DEF Records
  <2> QED
    BY <1>3, <2>1, <2>2 DEF Choose
<1>4. CASE CheckAnchor(l)
  BY <1>4 DEF CheckAnchor
<1>5. CASE ReadPage(l)
  <2>1. PICK page \in Seq(Event) :
          /\ Len(page) \in Nat
          /\ state' = [state EXCEPT ![l] = @ \o page]
          /\ next' = [next EXCEPT ![l] = @ + Len(page)]
          /\ link' = [link EXCEPT ![l] = IF page = <<>> THEN @ ELSE page[Len(page)]]
          /\ UNCHANGED st \/ st' = [st EXCEPT ![l] = "done"]
    BY <1>5, PageRead
  <2>2. state[l] \o page \in Seq(Event)
    BY ConcatProperties
  <2>3. page # <<>> => page[Len(page)] \in Hashes
    BY ElementOfSeq, EmptySeq DEF Hashes
  <2>4. state' \in [Loaders -> Seq(Event)] /\ next' \in [Loaders -> Nat]
    BY <2>1, <2>2
  <2>5. link' \in [Loaders -> Hashes]
    BY <2>1, <2>3
  <2>6. st' \in [Loaders -> States]
    BY <2>1
  <2> QED
    BY <1>5, <2>4, <2>5, <2>6 DEF ReadPage
<1>6. CASE Mismatch(l)
  BY <1>6, EmptyTyped DEF Mismatch
<1>7. CASE LoadFails(l)
  BY <1>7 DEF LoadFails
<1>8. CASE LoadAgain(l)
  <2>1. spent' \in [saves : 0..MaxSaves, loads : 0..MaxLoads, prunes : 0..MaxPrunes]
    BY <1>8, SpentTyped DEF LoadAgain
  <2>2. <<>> \in Seq(Event)
    OBVIOUS
  <2> QED
    BY <1>8, <2>1, <2>2, EmptyTyped DEF LoadAgain
<1> QED
  BY <1>1, <1>2, <1>3, <1>4, <1>5, <1>6, <1>7, <1>8

\* The record that the gateway makes of a Save.
AnchorNow(m) == IF m.version < Len(stream) THEN stream[m.version + 1] ELSE NoHash
RecordOf(m) == [found |-> TRUE, version |-> m.version, data |-> m.data,
                anchor |-> AnchorNow(m)]

LEMMA RecordOfTyped ==
  ASSUME TypeOK, NEW m \in net
  PROVE  RecordOf(m) \in Records /\ RecordOf(m) # Empty
<1>1. m.version \in Nat /\ m.data \in Seq(Event)
  BY DEF TypeOK
<1>2. AnchorNow(m) \in Hashes
  <2>1. stream \in Seq(Event) /\ Len(stream) \in Nat
    BY LenProperties DEF TypeOK
  <2>2. m.version < Len(stream) => m.version + 1 \in 1..Len(stream)
    BY <1>1, <2>1
  <2>3. m.version < Len(stream) => stream[m.version + 1] \in Event
    BY <2>1, <2>2, ElementOfSeq
  <2> QED
    BY <2>3, EmptyTyped DEF AnchorNow, Hashes
<1> QED
  BY <1>1, <1>2, EmptyTyped DEF RecordOf, Records

\* A step of anybody else, or one that saves.
LEMMA OtherTypes ==
  ASSUME TypeOK,
         \/ \E l \in Loaders : SendSave(l)
         \/ \E m \in net : Record(m) \/ LoseSave(m)
         \/ \E r \in snaps : Prune(r)
         \/ AppendEvent \/ DeleteStream \/ UNCHANGED vars
  PROVE  TypeOK'
<1> USE DEF TypeOK, loader, server
<1>1. ASSUME NEW l \in Loaders, SendSave(l) PROVE TypeOK'
  <2>1. state[l] \in Seq(Event) /\ Len(state[l]) \in Nat \ {0}
    BY <1>1, EmptySeq DEF SendSave
  <2>2. net' \subseteq [by : Loaders, version : Nat, data : Seq(Event)]
    BY <1>1, <2>1 DEF SendSave
  <2>3. spent' \in [saves : 0..MaxSaves, loads : 0..MaxLoads, prunes : 0..MaxPrunes]
    BY <1>1, SpentTyped DEF SendSave
  <2> QED
    BY <1>1, <2>2, <2>3 DEF SendSave
<1>2. ASSUME NEW m \in net, Record(m) PROVE TypeOK'
  <2>1. snaps' = {r \in snaps : r.version # m.version} \cup {RecordOf(m)}
    BY <1>2 DEF Record, RecordOf, AnchorNow
  <2>2. RecordOf(m).version = m.version
    BY DEF RecordOf
  <2>3. snaps' \subseteq Records /\ Empty \notin snaps'
    BY <2>1, RecordOfTyped
  <2>4. \A r, q \in snaps' : r.version = q.version => r = q
    BY <2>1, <2>2
  <2> QED
    BY <1>2, <2>3, <2>4 DEF Record
<1>3. ASSUME NEW m \in net, LoseSave(m) PROVE TypeOK'
  BY <1>3 DEF LoseSave
<1>4. ASSUME NEW r \in snaps, Prune(r) PROVE TypeOK'
  <2>1. spent' \in [saves : 0..MaxSaves, loads : 0..MaxLoads, prunes : 0..MaxPrunes]
    BY <1>4, SpentTyped DEF Prune
  <2> QED
    BY <1>4, <2>1 DEF Prune
<1>5. CASE AppendEvent
  <2>1. [life |-> life, nr |-> Len(stream)] \in Event
    BY LenProperties DEF Event
  <2>2. stream' \in Seq(Event)
    BY <1>5, <2>1, AppendProperties DEF AppendEvent
  <2> QED
    BY <1>5, <2>2 DEF AppendEvent
<1>6. CASE DeleteStream
  <2>1. <<>> \in Seq(Event) /\ life + 1 \in 0..MaxLives
    BY <1>6, BoundsAssumption DEF DeleteStream
  <2> QED
    BY <1>6, <2>1 DEF DeleteStream
<1>7. CASE UNCHANGED vars
  BY <1>7 DEF vars
<1> QED
  BY <1>1, <1>2, <1>3, <1>4, <1>5, <1>6, <1>7
-----------------------------------------------------------------------------
(* Replaying.                                                              *)

\* What a loader has replayed stays right while it does nothing and its life of
\* the stream goes on.
LEMMA ReplaysStay ==
  ASSUME NEW k \in Loaders, Replays(k), UNCHANGED life,
         st'[k] = st[k], rec'[k] = rec[k], state'[k] = state[k],
         next'[k] = next[k], link'[k] = link[k], since'[k] = since[k]
  PROVE  Replays(k)'
BY DEF Replays, AtItsPlace, Untouched, PlainReplay, Plain, Linked, ReadAll,
       RightlyAnchored, OneLife, OfLife

\* A deletion ends the life that every load began in.
LEMMA ReplaysSurvive ==
  ASSUME TypeOK, Begun, NEW k \in Loaders, Replays(k), DeleteStream
  PROVE  Replays(k)'
<1>1. since[k].life \in Nat /\ life \in Nat /\ since[k].life <= life /\ life' = life + 1
  BY Bounds DEF TypeOK, Begun, DeleteStream
<1>2. since'[k].life # life'
  BY <1>1 DEF DeleteStream
<1>3. /\ st'[k] = st[k] /\ rec'[k] = rec[k] /\ state'[k] = state[k]
      /\ next'[k] = next[k] /\ link'[k] = link[k]
  BY DEF DeleteStream, loader
<1> QED
  BY <1>2, <1>3 DEF Replays, AtItsPlace, Untouched, PlainReplay, Plain, Linked, ReadAll,
                    RightlyAnchored, OneLife

\* The data of a rightly anchored record is one life of events up to the anchor.
LEMMA AnchoredData ==
  ASSUME NEW r \in Records, r.found, Usable(r), RightlyAnchored(r)
  PROVE  /\ OfLife(r.data, r.anchor.life)
         /\ r.data # <<>> /\ r.data[Len(r.data)] = r.anchor
         /\ Len(r.data) = r.anchor.nr + 1
<1>1. r.data \in Seq(Event) /\ r.anchor \in Hashes /\ r.version \in Nat
  BY DEF Records
<1>2. r.anchor = [life |-> r.anchor.life, nr |-> r.anchor.nr] /\ r.anchor.nr \in Int
  BY <1>1 DEF Hashes, Event, NoHash
<1>3. Len(r.data) \in Nat \ {0}
  <2>1. r # Empty
    BY EmptyTyped
  <2> QED
    BY <1>1, <2>1 DEF Usable
<1>4. r.data = [i \in 1..(r.anchor.nr + 1) |-> [r.anchor EXCEPT !.nr = i - 1]]
  BY DEF RightlyAnchored
<1>5. DOMAIN r.data = 1..Len(r.data) /\ DOMAIN r.data = 1..(r.anchor.nr + 1)
  BY <1>1, <1>4, LenProperties
<1>6. Len(r.data) = r.anchor.nr + 1
  BY <1>2, <1>3, <1>5
<1>7. \A i \in DOMAIN r.data : r.data[i] = [life |-> r.anchor.life, nr |-> i - 1]
  BY <1>2, <1>4
<1>8. 1 \in DOMAIN r.data /\ Len(r.data) \in DOMAIN r.data
  BY <1>3, <1>5
<1>9. r.data[1] = [life |-> r.anchor.life, nr |-> 1 - 1]
  BY <1>7, <1>8
<1>10. OfLife(r.data, r.anchor.life)
  <2>1. r.data[1].life = r.anchor.life
    BY <1>9
  <2>2. ASSUME NEW i \in DOMAIN r.data PROVE r.data[i].life = r.anchor.life
    <3>1. r.data[i] = [life |-> r.anchor.life, nr |-> i - 1]
      BY <1>7
    <3> QED
      BY <3>1
  <2> QED
    BY <1>7, <2>1, <2>2 DEF OfLife, OneLife
<1>11. r.data[Len(r.data)] = [life |-> r.anchor.life, nr |-> Len(r.data) - 1]
  BY <1>7, <1>8
<1>12. r.data[Len(r.data)] = r.anchor
  BY <1>2, <1>6, <1>11
<1> QED
  BY <1>3, <1>6, <1>8, <1>10, <1>12, EmptySeq

LEMMA EmptyOneLife == OneLife(<<>>) /\ \A n : OfLife(<<>>, n)
BY DEF OneLife, OfLife

\* A loader begins with a record that is usable.
LEMMA ChooseReplays ==
  ASSUME TypeOK, RecordsUsable, Begun, NEW l \in Loaders, Choose(l)
  PROVE  Replays(l)' /\ Usable(rec'[l])
<1>1. PICK r \in Records :
        /\ r = Empty \/ \E i \in 1..Len(listed[l]) : r = listed[l][i]
        /\ rec' = [rec EXCEPT ![l] = r] /\ state' = [state EXCEPT ![l] = r.data]
        /\ next' = [next EXCEPT ![l] = StartAfter(r)] /\ StartAfter(r) \in Nat
        /\ link' = [link EXCEPT ![l] = r.anchor]
        /\ st' = [st EXCEPT ![l] = IF l \in Verifying /\ r.found THEN "check" ELSE "read"]
  BY ChosenRecord
<1>2. Usable(r)
  <2>1. Usable(Empty)
    BY DEF Usable
  <2>2. \A i \in 1..Len(listed[l]) : Usable(listed[l][i])
    BY DEF RecordsUsable
  <2> QED
    BY <1>1, <2>1, <2>2
<1>3. /\ rec'[l] = r /\ state'[l] = r.data /\ next'[l] = StartAfter(r)
      /\ link'[l] = r.anchor
      /\ st'[l] = IF l \in Verifying /\ r.found THEN "check" ELSE "read"
  BY <1>1 DEF TypeOK
<1>4. StartAfter(r) = Len(r.data)
  <2>1. Len(<<>>) = 0
    OBVIOUS
  <2> QED
    BY <1>2, <2>1, EmptyTyped DEF StartAfter, Usable
<1>5. AtItsPlace(l)' /\ Untouched(l)'
  BY <1>3, <1>4 DEF AtItsPlace, Untouched
<1>6. PlainReplay(l)'
  BY <1>3 DEF PlainReplay, Plain, Choose, server
<1>7. Linked(l)'
  <2>1. SUFFICES ASSUME l \in Verifying, st'[l] = "read" PROVE Linked(l)'
    BY <1>3 DEF Linked
  <2>2. r = Empty
    BY <1>2, <1>3, <2>1 DEF Usable
  <2> QED
    BY <1>3, <2>2, EmptyTyped, EmptyOneLife DEF Linked
<1>8. ReadAll(l)'
  BY <1>3 DEF ReadAll
<1> QED
  BY <1>2, <1>3, <1>5, <1>6, <1>7, <1>8 DEF Replays

\* The event at the version of the snapshot is in the stream now: the record is of
\* this life.
LEMMA CheckReplays ==
  ASSUME TypeOK, StreamInOrder, RecordsUsable, Begun, NEW l \in Loaders, Replays(l),
         CheckAnchor(l)
  PROVE  Replays(l)'
<1>1. /\ st[l] = "check" /\ st'[l] = "read"
      /\ rec' = rec /\ state' = state /\ next' = next /\ link' = link
      /\ since' = since /\ life' = life
  BY DEF CheckAnchor, TypeOK, Goto, server
<1>2. /\ l \in Verifying /\ rec[l].found /\ rec[l] \in Records /\ Usable(rec[l])
      /\ state[l] = rec[l].data /\ link[l] = rec[l].anchor
  BY <1>1 DEF Replays, Untouched, RecordsUsable, TypeOK
<1>3. rec[l].anchor.life = life
  <2>1. ReadForward(rec[l].version, 1) = <<rec[l].anchor>> /\ rec[l].version \in Nat
    BY <1>2 DEF CheckAnchor, Anchored, Records
  <2>2. Len(<<rec[l].anchor>>) = 1 /\ <<rec[l].anchor>>[1] = rec[l].anchor
    OBVIOUS
  <2>3. /\ rec[l].anchor = stream[rec[l].version + 1]
        /\ rec[l].version + 1 \in 1..Len(stream)
    <3>1. ASSUME NEW v \in Nat, NEW page, page = ReadForward(v, 1)
          PROVE  \A i \in 1..Len(page) : page[i] = stream[v + i] /\ v + i \in 1..Len(stream)
      <4>1. 1 \in Nat \ {0}
        OBVIOUS
      <4> QED
        BY <3>1, <4>1, PageOfStream
    <3>2. \A i \in 1..Len(<<rec[l].anchor>>) :
            /\ <<rec[l].anchor>>[i] = stream[rec[l].version + i]
            /\ rec[l].version + i \in 1..Len(stream)
      BY <2>1, <3>1
    <3>3. 1 \in 1..Len(<<rec[l].anchor>>)
      BY <2>2
    <3> QED
      BY <2>2, <3>2, <3>3
  <2>4. rec[l].anchor = [life |-> life, nr |-> (rec[l].version + 1) - 1]
    BY <2>3 DEF StreamInOrder
  <2> QED
    BY <2>4
<1>4. Linked(l)'
  <2>1. SUFFICES ASSUME RightlyAnchored(rec[l])
                 PROVE  /\ OneLife(state[l])
                        /\ link[l] = IF state[l] = <<>> THEN NoHash
                                     ELSE state[l][Len(state[l])]
                        /\ OfLife(state[l], life)
    BY <1>1 DEF Linked, RightlyAnchored, OneLife, OfLife
  <2> QED
    BY <1>2, <1>3, <2>1, AnchoredData DEF OfLife
<1>5. AtItsPlace(l)' /\ Untouched(l)' /\ PlainReplay(l)' /\ ReadAll(l)'
  BY <1>1 DEF Replays, AtItsPlace, Untouched, PlainReplay, Plain, ReadAll, OfLife, OneLife
<1> QED
  BY <1>4, <1>5 DEF Replays

\* A page read at the end of a state that is of the same life.
LEMMA Joined ==
  ASSUME NEW s \in Seq(Event), NEW page \in Seq(Event), NEW n, OneLife(s),
         \A i \in 1..Len(page) : page[i] = [life |-> n, nr |-> (Len(s) + i) - 1],
         s # <<>> /\ page # <<>> => s[1].life = n
  PROVE  /\ OneLife(s \o page)
         /\ OfLife(s, n) => OfLife(s \o page, n)
         /\ page # <<>> => OfLife(s \o page, n)
<1> DEFINE t == s \o page
<1>1. /\ Len(s) \in Nat /\ Len(page) \in Nat
      /\ DOMAIN s = 1..Len(s) /\ DOMAIN t = 1..(Len(s) + Len(page))
      /\ s # <<>> <=> Len(s) # 0
      /\ page # <<>> <=> Len(page) # 0
      /\ \A i \in 1..(Len(s) + Len(page)) : t[i] = IF i <= Len(s) THEN s[i] ELSE page[i - Len(s)]
  BY ConcatProperties, LenProperties, EmptySeq
<1>2. \A i \in 1..Len(s) : t[i] = [life |-> s[1].life, nr |-> i - 1]
  BY <1>1 DEF OneLife
<1>3. ASSUME NEW i \in (Len(s) + 1)..(Len(s) + Len(page)) PROVE t[i] = [life |-> n, nr |-> i - 1]
  <2>1. i - Len(s) \in 1..Len(page) /\ t[i] = page[i - Len(s)]
    BY <1>1
  <2>2. page[i - Len(s)] = [life |-> n, nr |-> (Len(s) + (i - Len(s))) - 1]
    BY <2>1
  <2>3. Len(s) + (i - Len(s)) = i
    BY <1>1
  <2> QED
    BY <2>1, <2>2, <2>3
<1> HIDE DEF t
<1>4. CASE page = <<>>
  <2>1. \A i \in DOMAIN t : t[i] = s[i] /\ i \in 1..Len(s)
    BY <1>1, <1>4 DEF t
  <2>2. DOMAIN t = DOMAIN s
    BY <1>1, <1>4
  <2>3. \A i \in DOMAIN t : t[i] = [life |-> t[1].life, nr |-> i - 1]
    <3>1. DOMAIN t # {} => 1 \in DOMAIN t
      BY <1>1
    <3> QED
      BY <1>2, <2>1, <3>1
  <2> QED
    BY <1>4, <2>1, <2>2, <2>3 DEF OneLife, OfLife, t
<1>5. CASE page # <<>>
  <2>1. \A i \in DOMAIN t : t[i] = [life |-> n, nr |-> i - 1]
    <3>1. \A i \in 1..Len(s) : t[i] = [life |-> n, nr |-> i - 1]
      <4>1. ASSUME NEW i \in 1..Len(s) PROVE s[1].life = n
        <5>1. s # <<>>
          BY <1>1
        <5> QED
          BY <1>5, <5>1
      <4> QED
        BY <1>2, <4>1
    <3>2. \A i \in DOMAIN t : i \in 1..Len(s) \/ i \in (Len(s) + 1)..(Len(s) + Len(page))
      BY <1>1
    <3> QED
      BY <1>3, <3>1, <3>2
  <2>2. \A i \in DOMAIN t : t[i].life = n
    <3>1. ASSUME NEW i \in DOMAIN t PROVE t[i].life = n
      <4>1. t[i] = [life |-> n, nr |-> i - 1]
        BY <2>1
      <4> QED
        BY <4>1
    <3> QED
      BY <3>1
  <2>3. 1 \in DOMAIN t
    BY <1>1, <1>5
  <2>4. OfLife(t, n)
    BY <2>1, <2>2, <2>3 DEF OneLife, OfLife
  <2> QED
    BY <1>5, <2>4 DEF OfLife, t
<1> QED
  BY <1>4, <1>5

\* The first event of a page links to the last one applied: it is of the same life.
LEMMA LinkedLife ==
  ASSUME TypeOK, NEW l \in Loaders, Continues(l), NEW page, page = NextPage(l),
         page \in Seq(Event), page # <<>>, state[l] # <<>>,
         page[1] = [life |-> life, nr |-> Len(state[l])],
         OneLife(state[l]), link[l] = state[l][Len(state[l])]
  PROVE  state[l][1].life = life
<1>1. /\ Len(state[l]) \in Nat \ {0} /\ DOMAIN state[l] = 1..Len(state[l])
      /\ 1 \in DOMAIN page
  BY EmptySeq, LenProperties DEF TypeOK
<1>2. link[l] = [life |-> state[l][1].life, nr |-> Len(state[l]) - 1]
  BY <1>1 DEF OneLife
<1>3. PrevEventHash(page[1]) = link[l]
  BY <1>1 DEF Continues
<1>4. PrevEventHash(page[1]) = [life |-> life, nr |-> Len(state[l]) - 1]
  <2>1. page[1].nr # 0
    BY <1>1
  <2>2. PrevEventHash(page[1]) = [page[1] EXCEPT !.nr = @ - 1]
    BY <2>1 DEF PrevEventHash
  <2> QED
    BY <2>2
<1> QED
  BY <1>2, <1>3, <1>4

LEMMA PageReplays ==
  ASSUME TypeOK, StreamInOrder, Begun, NEW l \in Loaders, Replays(l), ReadPage(l)
  PROVE  Replays(l)'
<1>1. PICK page \in Seq(Event) :
        /\ page = NextPage(l) /\ Len(page) \in Nat
        /\ \A i \in 1..Len(page) : /\ page[i] = stream[next[l] + i]
                                   /\ next[l] + i \in 1..Len(stream)
        /\ state' = [state EXCEPT ![l] = @ \o page]
        /\ next' = [next EXCEPT ![l] = @ + Len(page)]
        /\ link' = [link EXCEPT ![l] = IF page = <<>> THEN @ ELSE page[Len(page)]]
        /\ \/ UNCHANGED st
           \/ st' = [st EXCEPT ![l] = "done"] /\ next[l] + Len(page) >= Len(stream)
  BY PageRead
<1> DEFINE s == state[l]
           t == s \o page
<1>2. /\ state'[l] = t /\ next'[l] = next[l] + Len(page)
      /\ link'[l] = IF page = <<>> THEN link[l] ELSE page[Len(page)]
      /\ st'[l] \in {"read", "done"}
      /\ st'[l] = "done" => next[l] + Len(page) >= Len(stream)
      /\ rec' = rec /\ since' = since /\ life' = life
  BY <1>1 DEF TypeOK, ReadPage, server
<1>3. /\ st[l] = "read" /\ next[l] = Len(s) /\ s \in Seq(Event) /\ Len(s) \in Nat
      /\ Len(t) = Len(s) + Len(page)
  BY ConcatProperties DEF ReadPage, Replays, AtItsPlace, TypeOK
<1>4. ASSUME NEW i \in 1..Len(page) PROVE page[i] = [life |-> life, nr |-> (Len(s) + i) - 1]
  BY <1>1, <1>3 DEF StreamInOrder
<1>5. AtItsPlace(l)' /\ Untouched(l)'
  BY <1>2, <1>3 DEF AtItsPlace, Untouched
<1>6. PlainReplay(l)'
  <2>1. SUFFICES ASSUME Plain(l) PROVE OfLife(t, life)
    BY <1>2 DEF PlainReplay, Plain, OfLife, OneLife
  <2>2. OfLife(s, life)
    BY <1>3, <2>1 DEF Replays, PlainReplay
  <2>3. OneLife(s) /\ (s # <<>> => s[1].life = life)
    BY <1>3, <2>2, EmptySeq, LenProperties DEF OfLife
  <2> QED
    BY <1>3, <1>4, <2>2, <2>3, Joined
<1>7. Linked(l)'
  <2>1. SUFFICES ASSUME l \in Verifying, RightlyAnchored(rec[l])
                 PROVE  /\ OneLife(t)
                        /\ link'[l] = IF t = <<>> THEN NoHash ELSE t[Len(t)]
                        /\ since[l].life = life => OfLife(t, life)
    BY <1>2 DEF Linked, RightlyAnchored, OfLife, OneLife
  <2>2. /\ OneLife(s) /\ link[l] = IF s = <<>> THEN NoHash ELSE s[Len(s)]
        /\ since[l].life = life => OfLife(s, life)
    BY <1>3, <2>1 DEF Replays, Linked
  <2>3. s # <<>> /\ page # <<>> => s[1].life = life
    <3>1. SUFFICES ASSUME s # <<>>, page # <<>> PROVE s[1].life = life
      OBVIOUS
    <3>2. 1 \in 1..Len(page)
      BY <1>1, <3>1, EmptySeq
    <3>3. page[1] = [life |-> life, nr |-> Len(s)]
      BY <1>3, <1>4, <3>2
    <3>4. Continues(l)
      BY <2>1 DEF ReadPage
    <3> QED
      BY <1>1, <2>2, <3>1, <3>3, <3>4, LinkedLife
  <2>4. /\ OneLife(t) /\ (OfLife(s, life) => OfLife(t, life))
        /\ page # <<>> => OfLife(t, life)
    <3>1. OneLife(s) /\ s \in Seq(Event)
      BY <1>3, <2>2
    <3> HIDE DEF s
    <3> QED
      BY <1>4, <2>3, <3>1, Joined
  <2>5. link'[l] = IF t = <<>> THEN NoHash ELSE t[Len(t)]
    <3>1. CASE page = <<>>
      <4>1. t = s
        BY <1>3, <3>1, ConcatEmptySeq
      <4> QED
        BY <1>2, <2>2, <3>1, <4>1
    <3>2. CASE page # <<>>
      <4>1. Len(page) \in Nat \ {0}
        BY <1>1, <3>2, EmptySeq
      <4>2. t \in Seq(Event) /\ t # <<>>
        BY <1>3, <4>1, ConcatProperties
      <4>3. t[Len(t)] = page[Len(page)]
        <5>1. Len(t) \in 1..(Len(s) + Len(page)) /\ ~(Len(t) <= Len(s)) /\ Len(t) - Len(s) = Len(page)
          BY <1>3, <4>1
        <5> QED
          BY <1>3, <5>1, ConcatProperties
      <4> QED
        BY <1>2, <3>2, <4>2, <4>3
    <3> QED
      BY <3>1, <3>2
  <2> QED
    BY <2>2, <2>4, <2>5
<1>8. ReadAll(l)'
  <2>1. SUFFICES ASSUME st'[l] = "done", since[l].life = life
                 PROVE  since[l].len <= Len(t)
    BY <1>2 DEF ReadAll
  <2>2. since[l].len <= Len(stream) /\ since[l].len \in Nat /\ Len(stream) \in Nat
    BY <2>1, LenProperties DEF Begun, TypeOK
  <2> QED
    BY <1>1, <1>2, <1>3, <2>1, <2>2
<1> QED
  BY <1>5, <1>6, <1>7, <1>8 DEF Replays

\* Started over from nothing.
LEMMA RestartReplays ==
  ASSUME TypeOK, NEW l \in Loaders, Mismatch(l) \/ LoadAgain(l)
  PROVE  Replays(l)' /\ Usable(rec'[l])
<1>1. /\ rec'[l] = Empty /\ state'[l] = <<>> /\ next'[l] = 0 /\ link'[l] = NoHash
      /\ st'[l] \in {"start", "read"}
  BY DEF Mismatch, LoadAgain, Goto, TypeOK
<1>2. Len(<<>>) = 0
  OBVIOUS
<1> QED
  BY <1>1, <1>2, EmptyTyped, EmptyOneLife
     DEF Replays, AtItsPlace, Untouched, PlainReplay, Linked, ReadAll, Usable

\* Before it has chosen, and when it has failed, a loader has replayed nothing.
LEMMA IdleReplays ==
  ASSUME TypeOK, NEW l \in Loaders, st'[l] \in {"list", "choose", "failed"}
  PROVE  Replays(l)'
BY DEF Replays, AtItsPlace, Untouched, PlainReplay, Linked, ReadAll
-----------------------------------------------------------------------------
(* The invariant.                                                          *)

LEMMA InitIInv == Init => IInv
<1> SUFFICES ASSUME Init PROVE IInv
  OBVIOUS
<1>1. TypeOK
  BY InitTypes
<1>2. Len(<<>>) = 0
  OBVIOUS
<1>3. StreamInOrder /\ SnapsUsable /\ RecordsUsable
  BY <1>2, FS_EmptySet DEF Init, StreamInOrder, SnapsUsable, RecordsUsable, Usable
<1>4. LatestRecalled /\ LatestAtOneMoment
  BY DEF Init, LatestRecalled, LatestAtOneMoment
<1>5. Begun
  BY <1>2, Bounds DEF Init, Begun
<1>6. \A l \in Loaders : Replays(l)
  BY DEF Init, Replays, AtItsPlace, Untouched, PlainReplay, Linked, ReadAll
<1> QED
  BY <1>1, <1>3, <1>4, <1>5, <1>6 DEF IInv

\* A loader's step leaves alone what the server has and what other loaders do.
LEMMA LoaderFrame ==
  ASSUME IInv, NEW l \in Loaders,
         \/ SendList(l) \/ AnswerList(l) \/ Choose(l) \/ CheckAnchor(l)
         \/ ReadPage(l) \/ Mismatch(l) \/ LoadFails(l) \/ LoadAgain(l)
  PROVE  /\ TypeOK' /\ StreamInOrder' /\ SnapsUsable'
         /\ UNCHANGED <<stream, life, snaps>>
         /\ \A k \in Loaders \ {l} :
              /\ st'[k] = st[k] /\ listed'[k] = listed[k] /\ rec'[k] = rec[k]
              /\ could'[k] = could[k] /\ since'[k] = since[k]
              /\ Replays(k)'
<1> USE DEF IInv
<1>1. TypeOK'
  BY LoaderTypes DEF SnapsUsable
<1>2. UNCHANGED <<stream, life, snaps, net>>
  BY DEF SendList, AnswerList, Choose, CheckAnchor, ReadPage, Mismatch, LoadFails,
         LoadAgain, server
<1>3. StreamInOrder' /\ SnapsUsable'
  BY <1>2 DEF StreamInOrder, SnapsUsable, Usable
<1>4. ASSUME NEW k \in Loaders \ {l}
      PROVE  /\ st'[k] = st[k] /\ listed'[k] = listed[k] /\ rec'[k] = rec[k]
             /\ could'[k] = could[k] /\ since'[k] = since[k]
             /\ state'[k] = state[k] /\ next'[k] = next[k] /\ link'[k] = link[k]
  BY DEF SendList, AnswerList, Choose, CheckAnchor, ReadPage, Mismatch, LoadFails,
         LoadAgain, Goto, TypeOK, LatestRecalled, Begun
<1>5. ASSUME NEW k \in Loaders \ {l} PROVE Replays(k)'
  BY <1>2, <1>4, ReplaysStay
<1> QED
  BY <1>1, <1>2, <1>3, <1>4, <1>5

LEMMA SendListKeeps == ASSUME IInv, NEW l \in Loaders, SendList(l) PROVE IInv'
<1> USE DEF IInv
<1>1. /\ TypeOK' /\ StreamInOrder' /\ SnapsUsable'
      /\ \A k \in Loaders \ {l} : Replays(k)'
  BY LoaderFrame
<1>2. RecordsUsable'
  BY DEF SendList, RecordsUsable, Usable
<1>3. LatestRecalled' /\ LatestAtOneMoment'
  <2>1. st' = [st EXCEPT ![l] = "list"] /\ could' = [could EXCEPT ![l] = {Highest(snaps)}]
    BY DEF SendList, Goto
  <2>2. snaps' = snaps /\ listed' = listed
    BY DEF SendList, server
  <2> QED
    BY <2>1, <2>2 DEF LatestRecalled, LatestAtOneMoment, TypeOK
<1>4. Begun'
  <2>1. Len(stream) \in Nat /\ life \in 0..MaxLives
    BY LenProperties DEF TypeOK
  <2>2. since' = [since EXCEPT ![l] = [len |-> Len(stream), life |-> life]]
    BY DEF SendList
  <2>3. stream' = stream /\ life' = life
    BY DEF SendList, server
  <2> QED
    BY <2>1, <2>2, <2>3 DEF Begun
<1>5. Replays(l)'
  BY IdleReplays DEF SendList, Goto, TypeOK
<1> QED
  BY <1>1, <1>2, <1>3, <1>4, <1>5

\* The answer is what there was at the moment it was given.
LEMMA AnswerListKeeps == ASSUME IInv, NEW l \in Loaders, AnswerList(l) PROVE IInv'
<1> USE DEF IInv
<1>1. /\ TypeOK' /\ StreamInOrder' /\ SnapsUsable'
      /\ \A k \in Loaders \ {l} : Replays(k)'
  BY LoaderFrame
<1>2. PICK answer \in SetToSeqs(snaps) : listed' = [listed EXCEPT ![l] = answer]
  BY DEF AnswerList
<1>3. RecordsUsable'
  <2>1. answer \in Seq(snaps)
    BY AnswerLists DEF SnapsUsable
  <2>2. \A i \in 1..Len(answer) : Usable(answer[i])
    BY <2>1, ElementOfSeq DEF SnapsUsable
  <2>3. rec' = rec /\ listed'[l] = answer /\ \A k \in Loaders \ {l} : listed'[k] = listed[k]
    BY <1>2 DEF AnswerList, TypeOK
  <2>4. ASSUME NEW k \in Loaders
        PROVE  Usable(rec'[k]) /\ \A i \in 1..Len(listed'[k]) : Usable(listed'[k][i])
    BY <2>2, <2>3 DEF RecordsUsable
  <2> QED
    BY <2>4 DEF RecordsUsable
<1>4. LatestRecalled' /\ LatestAtOneMoment'
  <2>1. Latest(answer) \in could[l]
    BY LatestIsHighest DEF SnapsUsable, LatestRecalled, AnswerList
  <2>2. st' = [st EXCEPT ![l] = "choose"] /\ could' = could /\ snaps' = snaps
    BY DEF AnswerList, Goto, server
  <2> QED
    BY <1>2, <2>1, <2>2 DEF LatestRecalled, LatestAtOneMoment, TypeOK
<1>5. Begun'
  BY DEF AnswerList, server, Begun
<1>6. Replays(l)'
  BY IdleReplays DEF AnswerList, Goto, TypeOK
<1> QED
  BY <1>1, <1>3, <1>4, <1>5, <1>6

LEMMA ChooseKeeps == ASSUME IInv, NEW l \in Loaders, Choose(l) PROVE IInv'
<1> USE DEF IInv
<1>1. /\ TypeOK' /\ StreamInOrder' /\ SnapsUsable'
      /\ \A k \in Loaders \ {l} : Replays(k)' /\ st'[k] = st[k] /\ rec'[k] = rec[k]
  BY LoaderFrame
<1>2. Replays(l)' /\ Usable(rec'[l])
  BY ChooseReplays
<1>3. listed' = [listed EXCEPT ![l] = <<>>] /\ could' = [could EXCEPT ![l] = {}]
  BY DEF Choose
<1>4. RecordsUsable'
  <2>1. Len(<<>>) = 0
    OBVIOUS
  <2> QED
    BY <1>1, <1>2, <1>3, <2>1 DEF RecordsUsable, TypeOK
<1>5. st'[l] \in {"check", "read"}
  BY ChosenRecord DEF TypeOK
<1>6. LatestRecalled' /\ LatestAtOneMoment'
  BY <1>1, <1>3, <1>5 DEF LatestRecalled, LatestAtOneMoment, TypeOK, Choose, server
<1>7. Begun'
  BY DEF Choose, server, Begun
<1> QED
  BY <1>1, <1>2, <1>4, <1>6, <1>7

LEMMA ReplayKeeps ==
  ASSUME IInv, NEW l \in Loaders,
         CheckAnchor(l) \/ ReadPage(l) \/ Mismatch(l) \/ LoadFails(l) \/ LoadAgain(l)
  PROVE  IInv'
<1> USE DEF IInv
<1>1. /\ TypeOK' /\ StreamInOrder' /\ SnapsUsable'
      /\ UNCHANGED <<stream, life, snaps>>
      /\ \A k \in Loaders \ {l} : Replays(k)' /\ st'[k] = st[k] /\ rec'[k] = rec[k]
  BY LoaderFrame
<1>2. listed' = listed /\ could' = could /\ since' = since
  BY DEF CheckAnchor, ReadPage, Mismatch, LoadFails, LoadAgain
<1>3. st'[l] \notin {"list", "choose"}
  BY DEF CheckAnchor, ReadPage, Mismatch, LoadFails, LoadAgain, Goto, TypeOK
<1>4. LatestRecalled' /\ LatestAtOneMoment'
  BY <1>1, <1>2, <1>3 DEF LatestRecalled, LatestAtOneMoment
<1>5. Begun'
  BY <1>1, <1>2 DEF Begun
<1>6. Replays(l)' /\ Usable(rec'[l])
  <2>1. CASE CheckAnchor(l)
    BY <2>1, CheckReplays DEF RecordsUsable, CheckAnchor
  <2>2. CASE ReadPage(l)
    BY <2>2, PageReplays DEF RecordsUsable, ReadPage
  <2>3. CASE Mismatch(l) \/ LoadAgain(l)
    BY <2>3, RestartReplays
  <2>4. CASE LoadFails(l)
    BY <2>4, IdleReplays DEF RecordsUsable, LoadFails, Goto, TypeOK
  <2> QED
    BY <2>1, <2>2, <2>3, <2>4
<1>7. RecordsUsable'
  BY <1>1, <1>2, <1>6 DEF RecordsUsable
<1> QED
  BY <1>1, <1>4, <1>5, <1>6, <1>7

\* The snapshots change while calls of Latest are under way.
LEMMA RecallKeeps ==
  ASSUME IInv, Recall(snaps'), UNCHANGED <<st, listed>>
  PROVE  LatestRecalled' /\ LatestAtOneMoment'
<1>1. \A k \in Loaders : st[k] \in {"list", "choose"} =>
        could'[k] = could[k] \cup {Highest(snaps')}
  BY DEF Recall
<1>2. could' = [k \in Loaders |-> could'[k]]
  BY DEF Recall
<1>3. Highest(snaps)' = Highest(snaps')
  BY DEF Highest
<1>4. LatestRecalled'
  BY <1>1, <1>2, <1>3 DEF LatestRecalled
<1>5. LatestAtOneMoment'
  BY <1>1 DEF IInv, LatestAtOneMoment
<1> QED
  BY <1>4, <1>5

LEMMA ServerKeeps ==
  ASSUME IInv,
         \/ \E l \in Loaders : SendSave(l)
         \/ \E m \in net : Record(m) \/ LoseSave(m)
         \/ \E r \in snaps : Prune(r)
         \/ AppendEvent \/ DeleteStream \/ UNCHANGED vars
  PROVE  IInv'
<1> USE DEF IInv
<1>1. TypeOK'
  BY OtherTypes
<1>2. UNCHANGED <<loader, since>>
  BY DEF SendSave, Record, LoseSave, Prune, AppendEvent, DeleteStream, vars
<1>3. RecordsUsable'
  BY <1>2 DEF RecordsUsable, Usable, loader
<1>4. ASSUME UNCHANGED life PROVE \A k \in Loaders : Replays(k)'
  BY <1>2, <1>4, ReplaysStay DEF loader
<1>5. ASSUME UNCHANGED <<stream, life>> PROVE StreamInOrder' /\ Begun'
  BY <1>2, <1>5 DEF StreamInOrder, Begun
<1>6. ASSUME UNCHANGED <<snaps, could>> PROVE LatestRecalled' /\ LatestAtOneMoment'
  BY <1>2, <1>6 DEF LatestRecalled, LatestAtOneMoment, loader
<1>7. ASSUME NEW l \in Loaders, SendSave(l) PROVE IInv'
  <2>1. state[l] \in Seq(Event) /\ Len(state[l]) \in Nat
    BY LenProperties DEF TypeOK
  <2>2. SnapsUsable'
    BY <1>7, <2>1 DEF SendSave, SnapsUsable, Usable, server
  <2>3. UNCHANGED <<stream, life, snaps, could>>
    BY <1>7 DEF SendSave, server
  <2> QED
    BY <1>1, <1>3, <1>4, <1>5, <1>6, <2>2, <2>3
<1>8. ASSUME NEW m \in net, Record(m) PROVE IInv'
  <2>1. snaps' = {r \in snaps : r.version # m.version} \cup {RecordOf(m)}
    BY <1>8 DEF Record, RecordOf, AnchorNow
  <2>2. RecordOf(m).found /\ Usable(RecordOf(m))
    BY DEF RecordOf, Usable, SnapsUsable
  <2>3. IsFiniteSet(snaps')
    <3>1. IsFiniteSet({r \in snaps : r.version # m.version})
      BY FS_Subset DEF SnapsUsable
    <3> QED
      BY <2>1, <3>1, FS_AddElement
  <2>4. SnapsUsable'
    BY <1>8, <2>1, <2>2, <2>3 DEF Record, SnapsUsable, Usable
  <2>5. LatestRecalled' /\ LatestAtOneMoment'
    BY <1>2, <1>8, RecallKeeps DEF Record, loader
  <2>6. UNCHANGED <<stream, life>>
    BY <1>8 DEF Record
  <2> QED
    BY <1>1, <1>3, <1>4, <1>5, <2>4, <2>5, <2>6
<1>9. ASSUME NEW m \in net, LoseSave(m) PROVE IInv'
  <2>1. SnapsUsable' /\ UNCHANGED <<stream, life, snaps, could>>
    BY <1>9 DEF LoseSave, SnapsUsable, Usable, server
  <2> QED
    BY <1>1, <1>3, <1>4, <1>5, <1>6, <2>1
<1>10. ASSUME NEW r \in snaps, Prune(r) PROVE IInv'
  <2>1. snaps' = snaps \ {r} /\ UNCHANGED <<stream, life, net>>
    BY <1>10 DEF Prune
  <2>2. SnapsUsable'
    BY <2>1, FS_RemoveElement DEF SnapsUsable, Usable
  <2>3. LatestRecalled' /\ LatestAtOneMoment'
    BY <1>2, <1>10, RecallKeeps DEF Prune, loader
  <2> QED
    BY <1>1, <1>3, <1>4, <1>5, <2>1, <2>2, <2>3
<1>11. CASE AppendEvent
  <2> DEFINE e == [life |-> life, nr |-> Len(stream)]
  <2>1. stream \in Seq(Event) /\ Len(stream) \in Nat /\ e \in Event
    BY LenProperties DEF TypeOK, Event
  <2>2. stream' = Append(stream, e) /\ UNCHANGED <<life, snaps, net, could>>
    BY <1>11 DEF AppendEvent
  <2>3. /\ Len(stream') = Len(stream) + 1
        /\ \A i \in 1..Len(stream) : stream'[i] = stream[i]
        /\ stream'[Len(stream) + 1] = e
    BY <2>1, <2>2, AppendProperties
  <2>4. StreamInOrder'
    BY <2>1, <2>2, <2>3 DEF StreamInOrder
  <2>5. Begun'
    <3>1. \A k \in Loaders : since[k].len \in Nat
      BY DEF Begun
    <3> QED
      BY <1>2, <2>1, <2>2, <2>3, <3>1 DEF Begun
  <2>6. SnapsUsable'
    BY <2>2 DEF SnapsUsable, Usable
  <2> QED
    BY <1>1, <1>3, <1>4, <1>6, <2>2, <2>4, <2>5, <2>6
<1>12. CASE DeleteStream
  <2>1. stream' = <<>> /\ life' = life + 1 /\ UNCHANGED <<snaps, net, could>>
    BY <1>12 DEF DeleteStream
  <2>2. StreamInOrder'
    <3>1. Len(stream') = 0
      BY <2>1
    <3> QED
      BY <3>1 DEF StreamInOrder
  <2>3. Begun'
    <3>1. \A k \in Loaders : since[k].life \in Nat /\ since[k].life <= life
      BY Bounds DEF Begun
    <3>2. life \in Nat
      BY Bounds DEF TypeOK
    <3> QED
      BY <1>2, <2>1, <3>1, <3>2 DEF Begun
  <2>4. SnapsUsable'
    BY <2>1 DEF SnapsUsable, Usable
  <2>5. \A k \in Loaders : Replays(k)'
    BY <1>12, ReplaysSurvive
  <2> QED
    BY <1>1, <1>3, <1>6, <2>1, <2>2, <2>3, <2>4, <2>5
<1>13. CASE UNCHANGED vars
  <2>1. UNCHANGED <<stream, life, snaps, net, could>>
    BY <1>13 DEF vars, server
  <2>2. SnapsUsable'
    BY <2>1 DEF SnapsUsable, Usable
  <2> QED
    BY <1>1, <1>3, <1>4, <1>5, <1>6, <2>1, <2>2
<1> QED
  BY <1>7, <1>8, <1>9, <1>10, <1>11, <1>12, <1>13

LEMMA StepIInv == IInv /\ [Next]_vars => IInv'
<1> SUFFICES ASSUME IInv, [Next]_vars PROVE IInv'
  OBVIOUS
<1>1. ASSUME NEW l \in Loaders, SendList(l) \/ AnswerList(l) \/ Choose(l) PROVE IInv'
  BY <1>1, SendListKeeps, AnswerListKeeps, ChooseKeeps
<1>2. ASSUME NEW l \in Loaders,
             CheckAnchor(l) \/ ReadPage(l) \/ Mismatch(l) \/ LoadFails(l) \/ LoadAgain(l)
      PROVE  IInv'
  BY <1>2, ReplayKeeps
<1>3. CASE \/ \E l \in Loaders : SendSave(l)
           \/ \E m \in net : Record(m) \/ LoseSave(m)
           \/ \E r \in snaps : Prune(r)
           \/ AppendEvent \/ DeleteStream \/ UNCHANGED vars
  BY <1>3, ServerKeeps
<1> QED
  BY <1>1, <1>2, <1>3 DEF Next, AllStopped

LEMMA Invariant == Spec => []IInv
BY InitIInv, StepIInv, PTL DEF Spec
-----------------------------------------------------------------------------
\* Every variable stays in its type; no empty record and no two of one version are
\* ever stored.
THEOREM TypeCorrect == Spec => []TypeOK
<1>1. IInv => TypeOK
  BY DEF IInv
<1> QED
  BY <1>1, Invariant, PTL

\* However snapshots are saved and deleted while Client.Latest waits for its List,
\* in whatever order the answer lists them, and with any number of them, it returns
\* one that was the latest at some moment of the call.
THEOREM LatestWasLatest == Spec => []LatestAtOneMoment
<1>1. IInv => LatestAtOneMoment
  BY DEF IInv
<1> QED
  BY <1>1, Invariant, PTL

\* A state loaded from a snapshot and the pages behind it is the one that a replay
\* of the stream gives, for any page size, whatever is appended, saved late, pruned
\* or deleted: for a loader that compares hashes also across deletions.
THEOREM LoadsReplay == Spec => []Rehydrated
<1>1. ASSUME IInv, NEW l \in Loaders, st[l] = "done"
      PROVE  LET plain == OfLife(rec[l].data, since[l].life) /\ since[l].life = life
                 verified == l \in Verifying /\ RightlyAnchored(rec[l])
             IN /\ plain \/ verified => OneLife(state[l])
                /\ (plain \/ verified) /\ since[l].life = life =>
                     OfLife(state[l], life) /\ since[l].len <= Len(state[l])
  <2>1. PlainReplay(l) /\ Linked(l) /\ ReadAll(l)
    BY <1>1 DEF IInv, Replays
  <2> QED
    BY <1>1, <2>1 DEF PlainReplay, Plain, Linked, ReadAll, OfLife
<1>2. IInv => Rehydrated
  BY <1>1 DEF Rehydrated
<1> QED
  BY <1>2, Invariant, PTL
=============================================================================
