------------------------- MODULE StreamAppend_proofs -------------------------
(***************************************************************************)
(* Proofs about StreamAppend for every number of writers and every plan,   *)
(* page, batch size and bound.                                             *)
(***************************************************************************)
EXTENDS StreamAppend, SequenceTheorems, TLAPS

\* A request under way, and what the writers expect when they name a version.
Appends == {m \in net : m.type = "append"}
Concrete(w) == Versioned(plan[w])

\* s is what the stream begins with, unless it is about an earlier life.
Begins(s, n) ==
  n = life => /\ Len(s) <= Len(stream)
              /\ \A j \in 1..Len(s) : s[j] = stream[j].id

-----------------------------------------------------------------------------
(* Types.                                                                  *)

\* Whatever is expected is a number.
LEMMA ExpectedIsNumber == Expectations \subseteq Int
BY PlansAssumption DEF Expectations, NoStream, AnyVersion, StreamExists, PlanType

\* The fields of a plan.
LEMMA PlanTypes ==
  ASSUME TypeOK, NEW w \in Writers
  PROVE  /\ plan[w].kind \in Kinds /\ plan[w].ids \in {"given", "generated"}
         /\ plan[w].size \in Nat \ {0}
BY PlansAssumption DEF TypeOK, PlanType

\* A member of net by its type.
LEMMA NetTypes ==
  ASSUME TypeOK, NEW m \in net
  PROVE  /\ m.type = "append" => m \in Requests
         /\ m.type # "append" => m \in Replies
         /\ m.by \in Writers /\ m.send \in Nat
BY DEF TypeOK, Requests, Replies

\* The fields of an entry.
LEMMA EntryTypes ==
  ASSUME TypeOK
  PROVE  /\ Len(stream) \in Nat
         /\ \A i \in 1..Len(stream) :
              /\ stream[i] \in Entries /\ stream[i].id \in Ids
              /\ stream[i].id.by \in Writers /\ stream[i].id.round \in Nat
              /\ stream[i].id.send \in Nat /\ stream[i].id.nr \in Nat \ {0}
              /\ stream[i].exact \in BOOLEAN /\ stream[i].saw \in Seq(Ids)
              /\ Len(stream[i].saw) \in Nat /\ stream[i].sawLife \in Nat
<1>1. stream \in Seq(Entries) /\ Len(stream) \in Nat
  BY DEF TypeOK
<1> SUFFICES ASSUME NEW i \in 1..Len(stream)
             PROVE  /\ stream[i] \in Entries /\ stream[i].id \in Ids
                    /\ stream[i].id.by \in Writers /\ stream[i].id.round \in Nat
                    /\ stream[i].id.send \in Nat /\ stream[i].id.nr \in Nat \ {0}
                    /\ stream[i].exact \in BOOLEAN /\ stream[i].saw \in Seq(Ids)
                    /\ Len(stream[i].saw) \in Nat /\ stream[i].sawLife \in Nat
  BY <1>1
<1>2. stream[i] \in Entries
  BY <1>1
<1>3. stream[i].id \in Ids /\ stream[i].exact \in BOOLEAN /\ stream[i].saw \in Seq(Ids)
      /\ stream[i].sawLife \in Nat
  BY <1>2 DEF Entries
<1> QED
  BY <1>2, <1>3 DEF Ids

\* What the gateway returns to a Read that starts within the stream.
LEMMA PageFacts ==
  ASSUME TypeOK, NEW start \in Nat, start <= Len(stream)
  PROVE  /\ ReadForward(start, Page) \in Seq(Ids)
         /\ start + Len(ReadForward(start, Page)) <= Len(stream)
         /\ \A i \in 1..Len(ReadForward(start, Page)) :
              ReadForward(start, Page)[i] = stream[start + i].id
<1> DEFINE end == IF start + Page < Len(stream) THEN start + Page ELSE Len(stream)
<1>1. Len(stream) \in Nat /\ end \in Nat /\ start <= end /\ end <= Len(stream)
  BY BoundsAssumption DEF TypeOK
<1>2. ReadForward(start, Page) = [i \in 1..(end - start) |-> stream[start + i].id]
  BY DEF ReadForward
<1> HIDE DEF end
<1>3. \A j \in 1..Len(stream) : stream[j].id \in Ids
  BY EntryTypes
<1>4. \A i \in 1..(end - start) : start + i \in 1..Len(stream)
  BY <1>1
<1>5. \A i \in 1..(end - start) : stream[start + i].id \in Ids
  BY <1>3, <1>4
<1>6. ReadForward(start, Page) \in Seq(Ids) /\ Len(ReadForward(start, Page)) = end - start
  BY <1>1, <1>2, <1>5
<1> QED
  BY <1>1, <1>2, <1>6

\* The events of a request.
LEMMA BatchFacts ==
  ASSUME TypeOK, NEW r \in net, r.type = "append"
  PROVE  /\ Batch(r) \in Seq(Entries) /\ Len(Batch(r)) = plan[r.by].size
         /\ plan[r.by].size \in Nat \ {0}
         /\ \A k \in 1..plan[r.by].size :
              /\ Batch(r)[k].id = [by |-> r.by, round |-> r.round, send |-> r.send, nr |-> k]
              /\ Batch(r)[k].exact = (plan[r.by].kind = "exact")
              /\ Batch(r)[k].saw = r.saw /\ Batch(r)[k].sawLife = r.sawLife
<1>1. r \in Requests /\ plan[r.by].size \in Nat \ {0}
  BY NetTypes, PlanTypes
<1> DEFINE size == plan[r.by].size
           item(k) == [id |-> [by |-> r.by, round |-> r.round, send |-> r.send, nr |-> k],
                       exact |-> plan[r.by].kind = "exact", saw |-> r.saw,
                       sawLife |-> r.sawLife]
<1>2. Batch(r) = [k \in 1..size |-> item(k)]
  BY DEF Batch
<1>3. \A k \in 1..size : item(k) \in Entries
  BY <1>1 DEF Entries, Ids, Requests
<1>4. size \in Nat
  BY <1>1
<1>5. Batch(r) \in Seq(Entries) /\ Len(Batch(r)) = size
  <2> HIDE DEF item, size
  <2> QED BY <1>2, <1>3, <1>4
<1>6. ASSUME NEW k \in 1..size
      PROVE  /\ Batch(r)[k].id = [by |-> r.by, round |-> r.round, send |-> r.send, nr |-> k]
             /\ Batch(r)[k].exact = (plan[r.by].kind = "exact")
             /\ Batch(r)[k].saw = r.saw /\ Batch(r)[k].sawLife = r.sawLife
  <2>1. Batch(r)[k] = item(k)
    <3> HIDE DEF item, size
    <3> QED BY <1>2, <1>6
  <2> QED
    BY <2>1
<1> QED
  BY <1>1, <1>5, <1>6

\* How Execute extends the stream.
LEMMA ExecuteFacts ==
  ASSUME TypeOK, NEW r \in net, Execute(r)
  PROVE  /\ stream' \in Seq(Entries)
         /\ Len(stream) \in Nat /\ Len(stream') = Len(stream) + plan[r.by].size
         /\ \A i \in 1..Len(stream) : stream'[i] = stream[i]
         /\ \A k \in 1..plan[r.by].size :
              /\ stream'[Len(stream) + k] \in Entries
              /\ stream'[Len(stream) + k].id =
                   [by |-> r.by, round |-> r.round, send |-> r.send, nr |-> k]
              /\ stream'[Len(stream) + k].exact = (plan[r.by].kind = "exact")
              /\ stream'[Len(stream) + k].saw = r.saw
              /\ stream'[Len(stream) + k].sawLife = r.sawLife
         /\ \A i \in (Len(stream) + 1)..Len(stream') : i - Len(stream) \in 1..plan[r.by].size
<1>1. r.type = "append" /\ stream' = stream \o Batch(r)
  BY DEF Execute
<1>2. /\ Batch(r) \in Seq(Entries) /\ Len(Batch(r)) = plan[r.by].size
      /\ plan[r.by].size \in Nat \ {0}
      /\ \A k \in 1..plan[r.by].size :
           /\ Batch(r)[k].id = [by |-> r.by, round |-> r.round, send |-> r.send, nr |-> k]
           /\ Batch(r)[k].exact = (plan[r.by].kind = "exact")
           /\ Batch(r)[k].saw = r.saw /\ Batch(r)[k].sawLife = r.sawLife
  BY <1>1, BatchFacts
<1>3. stream \in Seq(Entries) /\ Len(stream) \in Nat
  BY DEF TypeOK
<1>4. /\ stream' \in Seq(Entries) /\ Len(stream') = Len(stream) + Len(Batch(r))
      /\ \A i \in 1..Len(stream) + Len(Batch(r)) :
           stream'[i] = IF i <= Len(stream) THEN stream[i] ELSE Batch(r)[i - Len(stream)]
  BY <1>1, <1>2, <1>3, ConcatProperties
<1>5. \A k \in 1..plan[r.by].size : stream'[Len(stream) + k] = Batch(r)[k]
  <2> TAKE k \in 1..plan[r.by].size
  <2>1. /\ Len(stream) + k \in 1..(Len(stream) + Len(Batch(r)))
        /\ ~(Len(stream) + k <= Len(stream)) /\ (Len(stream) + k) - Len(stream) = k
    BY <1>2, <1>3
  <2> QED
    BY <1>4, <2>1
<1>6. \A k \in 1..plan[r.by].size : Batch(r)[k] \in Entries
  BY <1>2
<1>7. \A i \in 1..Len(stream) : stream'[i] = stream[i]
  BY <1>2, <1>3, <1>4
<1>8. \A i \in (Len(stream) + 1)..Len(stream') : i - Len(stream) \in 1..plan[r.by].size
  BY <1>2, <1>3, <1>4
<1>9. /\ Len(stream') = Len(stream) + plan[r.by].size
      /\ stream' \in Seq(Entries) /\ Len(stream) \in Nat
  BY <1>2, <1>3, <1>4
<1>10. \A k \in 1..plan[r.by].size :
         /\ stream'[Len(stream) + k] \in Entries
         /\ stream'[Len(stream) + k].id =
              [by |-> r.by, round |-> r.round, send |-> r.send, nr |-> k]
         /\ stream'[Len(stream) + k].exact = (plan[r.by].kind = "exact")
         /\ stream'[Len(stream) + k].saw = r.saw
         /\ stream'[Len(stream) + k].sawLife = r.sawLife
  <2> TAKE k \in 1..plan[r.by].size
  <2>1. stream'[Len(stream) + k] = Batch(r)[k]
    BY <1>5
  <2> QED
    BY <1>2, <1>6, <2>1
<1> QED
  BY <1>7, <1>8, <1>9, <1>10
-----------------------------------------------------------------------------
(* Type correctness.                                                       *)

\* What stays when neither the stream nor the plans change.
LEMMA TypeInit == Init => TypeOK
<1> SUFFICES ASSUME Init PROVE TypeOK
  OBVIOUS
<1>1. \A w \in Writers : ParseExpected(plan[w]) \in Expectations
  BY DEF Init, ParseExpected, Expectations
<1>2. NoResult \in Results
  BY DEF NoResult, Results
<1> QED
  BY <1>1, <1>2 DEF Init, TypeOK, States

\* A step of a writer or of the gateway keeps the types.
LEMMA TypeStep == TypeOK /\ [Next]_vars => TypeOK'
<1> SUFFICES ASSUME TypeOK, [Next]_vars PROVE TypeOK'
  OBVIOUS
<1>0. CASE UNCHANGED vars
  BY <1>0 DEF TypeOK, vars, server, looking
<1>1. ASSUME NEW w \in Writers, ReadPage(w) PROVE TypeOK'
  <2> DEFINE start == Len(seen[w])
             page == IF start <= Len(stream) THEN ReadForward(start, Page) ELSE <<>>
  <2>1. start \in Nat /\ seen[w] \in Seq(Ids)
    BY DEF TypeOK
  <2>2. page \in Seq(Ids) /\ Len(page) \in Nat
    BY <2>1, PageFacts
  <2>3. /\ seen' = [seen EXCEPT ![w] = @ \o page]
        /\ seenLife' = [seenLife EXCEPT ![w] = IF start = 0 THEN life ELSE @]
        /\ \/ UNCHANGED <<st, expected>>
           \/ /\ st' = [st EXCEPT ![w] = "ready"]
              /\ expected' = [expected EXCEPT ![w] = VersionOf(start + Len(page))]
        /\ UNCHANGED <<server, net, plan, round, sends, result>>
    BY <1>1 DEF ReadPage, Goto
  <2> HIDE DEF start, page
  <2>4. VersionOf(start + Len(page)) \in Expectations
    BY <2>1, <2>2 DEF VersionOf, Expectations, NoStream
  <2>5. seen[w] \o page \in Seq(Ids)
    BY <2>1, <2>2
  <2>6. seen' \in [Writers -> Seq(Ids)]
    BY <2>3, <2>5 DEF TypeOK
  <2>7. seenLife' \in [Writers -> Nat]
    BY <2>3 DEF TypeOK
  <2>8. st' \in [Writers -> States] /\ expected' \in [Writers -> Expectations]
    BY <2>3, <2>4 DEF TypeOK, States
  <2> QED
    BY <2>3, <2>6, <2>7, <2>8 DEF TypeOK, server
<1>2. ASSUME NEW w \in Writers, AskVersion(w) PROVE TypeOK'
  <2>1. VersionOf(Len(stream)) \in Expectations
    BY EntryTypes DEF VersionOf, Expectations, NoStream
  <2> QED
    BY <1>2, <2>1 DEF AskVersion, TypeOK, Goto, States, server
<1>3. ASSUME NEW w \in Writers, LookFails(w) \/ Found(w) \/ GiveUp(w) \/ Resend(w)
      PROVE  TypeOK'
  BY <1>3 DEF LookFails, Found, GiveUp, Resend, TypeOK, Goto, States, server, looking
<1>4. ASSUME NEW w \in Writers, SendAppend(w) PROVE TypeOK'
  <2>1. RequestOf(w) \in Requests
    BY DEF RequestOf, Requests, TypeOK
  <2> QED
    BY <1>4, <2>1 DEF SendAppend, TypeOK, Goto, States, server, looking
<1>5. ASSUME NEW w \in Writers, StartOver(w) PROVE TypeOK'
  BY <1>5 DEF StartOver, TypeOK, Goto, States, server
<1>6. ASSUME NEW m \in net, ReceiveOk(m) PROVE TypeOK'
  <2>1. m.by \in Writers /\ m.result \in Results
    BY <1>6, NetTypes DEF ReceiveOk, Replies
  <2> QED
    BY <1>6, <2>1 DEF ReceiveOk, TypeOK, Goto, States, server, looking
<1>7. ASSUME NEW m \in net, ReceiveConflict(m) PROVE TypeOK'
  BY <1>7 DEF ReceiveConflict, TypeOK, Goto, States, server, looking
<1>8. ASSUME NEW m \in net, Execute(m) PROVE TypeOK'
  <2>1. stream' \in Seq(Entries)
    BY <1>8, ExecuteFacts
  <2>2. m.by \in Writers /\ m.send \in Nat /\ plan[m.by].size \in Nat \ {0}
    BY NetTypes, PlanTypes
  <2>3. VersionOf(Len(stream) + plan[m.by].size) \in Nat /\ life \in Nat
    <3>1. stream \in Seq(Entries) /\ life \in Nat
      BY DEF TypeOK
    <3>2. Len(stream) \in Nat
      BY <3>1
    <3>3. Len(stream) + plan[m.by].size \in Nat \ {0}
      BY <2>2, <3>2
    <3> QED
      BY <3>1, <3>3 DEF VersionOf
  <2>4. net' \subseteq Requests \cup Replies
    <3> DEFINE answer == [version |-> VersionOf(Len(stream) + plan[m.by].size),
                          count |-> plan[m.by].size, life |-> life]
               reply == [type |-> "ok", by |-> m.by, send |-> m.send, result |-> answer]
    <3>1. answer \in Results
      BY <2>2, <2>3 DEF Results
    <3>2. reply \in Replies
      <4> HIDE DEF answer
      <4> QED BY <2>2, <3>1 DEF Replies
    <3>3. net' = (net \ {m}) \cup {reply} /\ net \subseteq Requests \cup Replies
      BY <1>8 DEF Execute, TypeOK
    <3> HIDE DEF reply
    <3> QED BY <3>2, <3>3
  <2> QED
    BY <1>8, <2>1, <2>4 DEF Execute, TypeOK, looking
<1>9. ASSUME NEW m \in net, Reject(m) PROVE TypeOK'
  <2>1. m.by \in Writers /\ m.send \in Nat
    BY NetTypes
  <2>2. net' \subseteq Requests \cup Replies
    BY <1>9, <2>1 DEF Reject, TypeOK, Replies
  <2> QED
    BY <1>9, <2>2 DEF Reject, TypeOK, server, looking
<1>10. ASSUME NEW m \in net, Lose(m) PROVE TypeOK'
  BY <1>10 DEF Lose, TypeOK, server, looking
<1>11. ASSUME Delete PROVE TypeOK'
  BY <1>11 DEF Delete, TypeOK, looking
<1>12. ASSUME AllStopped PROVE TypeOK'
  BY <1>0, <1>12 DEF AllStopped
<1> QED
  BY <1>0, <1>1, <1>2, <1>3, <1>4, <1>5, <1>6, <1>7, <1>8, <1>9, <1>10, <1>11, <1>12 DEF Next

\* Every variable keeps its type: the batches, versions and ids of the code.
THEOREM TypeCorrect == Spec => []TypeOK
<1>1. Init => TypeOK
  BY TypeInit
<1>2. TypeOK /\ [Next]_vars => TypeOK'
  BY TypeStep
<1> QED
  BY <1>1, <1>2, PTL DEF Spec
-----------------------------------------------------------------------------
(* Fresh decisions.  Whoever is about to append, or has an append under    *)
(* way, has read what the stream begins with; it only grows until it is    *)
(* deleted, so this stays true however late the append is; and the version *)
(* the gateway compares says that nothing has come since.                  *)

WritersKnow ==
  \A w \in Writers :
    /\ Begins(seen[w], seenLife[w]) /\ seenLife[w] <= life
    /\ plan[w].kind = "exact" /\ st[w] \notin {"look", "failed"}
         => expected[w] = Len(seen[w]) - 1

RequestsKnow ==
  \A r \in Appends :
    /\ Begins(r.saw, r.sawLife) /\ r.sawLife <= life
    /\ plan[r.by].kind = "exact" => r.expected = Len(r.saw) - 1

\* A plan that does not read has seen nothing.
SeenByRead == \A w \in Writers : plan[w].kind # "exact" => seen[w] = <<>>

Knowledge == TypeOK /\ SeenByRead /\ WritersKnow /\ RequestsKnow /\ FreshDecision

\* A request that the gateway executes, if its writer has read the stream.
LEMMA SawAll ==
  ASSUME TypeOK, RequestsKnow, NEW r \in net, Execute(r),
         plan[r.by].kind = "exact", r.sawLife = life
  PROVE  Len(r.saw) = Len(stream) /\ \A j \in 1..Len(stream) : r.saw[j] = stream[j].id
<1>1. r \in Appends /\ r \in Requests /\ MayAdmit(r.expected)
  BY NetTypes DEF Execute, Appends
<1>2. Begins(r.saw, life) /\ r.expected = Len(r.saw) - 1
  BY <1>1 DEF RequestsKnow
<1>3. Len(r.saw) \in Nat /\ Len(stream) \in Nat
  BY <1>1, EntryTypes DEF Requests
<1>4. r.expected = Len(stream) - 1
  BY <1>1, <1>2, <1>3 DEF MayAdmit, Unnamed, Admits, NoStream, AnyVersion, StreamExists, VersionOf
<1> QED
  BY <1>2, <1>3, <1>4 DEF Begins

\* What the stream begins with is left alone by an append.
LEMMA BeginsStays ==
  ASSUME TypeOK, NEW r \in net, Execute(r),
         NEW s, Len(s) \in Nat, NEW n, Begins(s, n)
  PROVE  Begins(s, n)'
<1>1. /\ Len(stream) \in Nat /\ Len(stream') = Len(stream) + plan[r.by].size
      /\ \A i \in 1..Len(stream) : stream'[i] = stream[i]
  BY ExecuteFacts
<1>2. plan[r.by].size \in Nat /\ life' = life
  BY NetTypes, PlanTypes DEF Execute
<1>3. ASSUME n = life
      PROVE  Len(s) <= Len(stream') /\ \A j \in 1..Len(s) : s[j] = stream'[j].id
  <2>1. Len(s) <= Len(stream) /\ \A j \in 1..Len(s) : s[j] = stream[j].id
    BY <1>3 DEF Begins
  <2>2. \A j \in 1..Len(s) : j \in 1..Len(stream)
    BY <1>1, <2>1
  <2>3. \A j \in 1..Len(s) : s[j] = stream'[j].id
    BY <1>1, <2>1, <2>2
  <2> QED
    BY <1>1, <1>2, <2>1, <2>3
<1> QED
  BY <1>2, <1>3 DEF Begins

\* A page more is still what the stream begins with.
LEMMA ReadKnows ==
  ASSUME TypeOK, WritersKnow, NEW w \in Writers, ReadPage(w)
  PROVE  /\ Begins(seen[w], seenLife[w])'
         /\ seenLife'[w] <= life'
         /\ st'[w] # "look" => expected'[w] = Len(seen'[w]) - 1
<1> DEFINE start == Len(seen[w])
           page == IF start <= Len(stream) THEN ReadForward(start, Page) ELSE <<>>
<1>1. start \in Nat /\ seen[w] \in Seq(Ids) /\ Len(stream) \in Nat /\ life \in Nat
  BY EntryTypes DEF TypeOK
<1>2. page \in Seq(Ids) /\ Len(page) \in Nat
  BY <1>1, PageFacts
<1>3. start <= Len(stream) => /\ start + Len(page) <= Len(stream)
                              /\ \A i \in 1..Len(page) : page[i] = stream[start + i].id
  BY <1>1, PageFacts
<1>4. Begins(seen[w], seenLife[w]) /\ seenLife[w] <= life /\ seenLife[w] \in Nat
  BY DEF WritersKnow, TypeOK
<1>5. /\ st[w] = "look" /\ seen' = [seen EXCEPT ![w] = @ \o page]
      /\ seenLife' = [seenLife EXCEPT ![w] = IF start = 0 THEN life ELSE @]
      /\ IF Len(page) = Page
         THEN UNCHANGED <<st, expected>>
         ELSE /\ Goto(w, "ready")
              /\ expected' = [expected EXCEPT ![w] = VersionOf(start + Len(page))]
      /\ stream' = stream /\ life' = life
  BY DEF ReadPage, server
<1> HIDE DEF start, page
<1>6. seen'[w] = seen[w] \o page /\ seenLife'[w] = (IF start = 0 THEN life ELSE seenLife[w])
  BY <1>5 DEF TypeOK
<1>7. /\ Len(seen'[w]) = start + Len(page)
      /\ \A i \in 1..start : seen'[w][i] = seen[w][i]
      /\ \A i \in (start + 1)..(start + Len(page)) : seen'[w][i] = page[i - start]
  BY <1>1, <1>2, <1>6, ConcatProperties DEF start
<1>8. ASSUME seenLife'[w] = life PROVE start <= Len(stream)
  BY <1>1, <1>4, <1>6, <1>8 DEF Begins, start
<1>9. ASSUME seenLife'[w] = life PROVE \A i \in 1..start : seen[w][i] = stream[i].id
  BY <1>1, <1>4, <1>6, <1>9 DEF Begins, start
<1>10. Begins(seen[w], seenLife[w])'
  <2> SUFFICES ASSUME seenLife'[w] = life
               PROVE  /\ Len(seen'[w]) <= Len(stream)
                      /\ \A j \in 1..Len(seen'[w]) : seen'[w][j] = stream[j].id
    BY <1>5 DEF Begins
  <2>1. start <= Len(stream) /\ \A i \in 1..start : seen[w][i] = stream[i].id
    BY <1>8, <1>9
  <2>2. Len(seen'[w]) <= Len(stream)
    BY <1>3, <1>7, <2>1
  <2>3. ASSUME NEW j \in 1..Len(seen'[w]), j <= start PROVE seen'[w][j] = stream[j].id
    BY <1>1, <1>7, <2>1, <2>3
  <2>4. ASSUME NEW j \in 1..Len(seen'[w]), j > start PROVE seen'[w][j] = stream[j].id
    <3>1. j \in (start + 1)..(start + Len(page)) /\ j - start \in 1..Len(page)
      BY <1>1, <1>2, <1>7, <2>4
    <3>2. seen'[w][j] = page[j - start] /\ start + (j - start) = j
      BY <1>1, <1>7, <3>1
    <3> QED
      BY <1>3, <2>1, <3>1, <3>2
  <2> QED
    BY <1>1, <2>2, <2>3, <2>4
<1>11. st'[w] # "look" => expected'[w] = Len(seen'[w]) - 1
  BY <1>5, <1>7 DEF VersionOf, TypeOK
<1>12. seenLife'[w] <= life'
  BY <1>1, <1>4, <1>5, <1>6
<1> QED
  BY <1>10, <1>11, <1>12

\* Executing an append keeps every decision in the stream fresh.
LEMMA ExecuteFresh ==
  ASSUME Knowledge, NEW r \in net, Execute(r)
  PROVE  FreshDecision'
<1> USE DEF Knowledge
<1>1. /\ Len(stream) \in Nat /\ Len(stream') = Len(stream) + plan[r.by].size
      /\ \A i \in 1..Len(stream) : stream'[i] = stream[i]
      /\ \A k \in 1..plan[r.by].size :
           /\ stream'[Len(stream) + k].id =
                [by |-> r.by, round |-> r.round, send |-> r.send, nr |-> k]
           /\ stream'[Len(stream) + k].exact = (plan[r.by].kind = "exact")
           /\ stream'[Len(stream) + k].saw = r.saw
           /\ stream'[Len(stream) + k].sawLife = r.sawLife
      /\ \A i \in (Len(stream) + 1)..Len(stream') : i - Len(stream) \in 1..plan[r.by].size
  BY ExecuteFacts
<1>2. life' = life /\ plan[r.by].size \in Nat
  BY NetTypes, PlanTypes DEF Execute
<1> SUFFICES ASSUME NEW i \in 1..Len(stream'),
                    stream'[i].exact, stream'[i].sawLife = life
             PROVE  /\ Len(stream'[i].saw) = i - stream'[i].id.nr
                    /\ \A j \in 1..Len(stream'[i].saw) : stream'[i].saw[j] = stream'[j].id
  BY <1>2 DEF FreshDecision
<1>3. CASE i <= Len(stream)
  <2>1. i \in 1..Len(stream) /\ stream'[i] = stream[i]
    BY <1>1, <1>3
  <2>2. /\ Len(stream[i].saw) = i - stream[i].id.nr
        /\ \A j \in 1..Len(stream[i].saw) : stream[i].saw[j] = stream[j].id
    BY <2>1 DEF FreshDecision
  <2>3. stream[i].id.nr \in Nat /\ Len(stream[i].saw) \in Nat
    BY <2>1, EntryTypes
  <2>4. \A j \in 1..Len(stream[i].saw) : j \in 1..Len(stream)
    BY <1>1, <2>1, <2>2, <2>3
  <2> QED
    BY <1>1, <2>1, <2>2, <2>4
<1>4. CASE i > Len(stream)
  <2> DEFINE k == i - Len(stream)
  <2>1. i \in (Len(stream) + 1)..Len(stream')
    BY <1>1, <1>2, <1>4
  <2>2. k \in 1..plan[r.by].size /\ i = Len(stream) + k
    BY <1>1, <1>2, <2>1
  <2> HIDE DEF k
  <2>3. /\ stream'[i].id = [by |-> r.by, round |-> r.round, send |-> r.send, nr |-> k]
        /\ stream'[i].exact = (plan[r.by].kind = "exact")
        /\ stream'[i].saw = r.saw /\ stream'[i].sawLife = r.sawLife
    BY <1>1, <2>2, Zenon
  <2>4. Len(r.saw) = Len(stream) /\ \A j \in 1..Len(stream) : r.saw[j] = stream[j].id
    BY <2>3, SawAll
  <2>5. Len(stream) = i - k
    BY <1>1, <1>2, <2>2
  <2> QED
    BY <1>1, <2>3, <2>4, <2>5
<1> QED
  BY <1>1, <1>2, <1>3, <1>4

\* The plans stay, and the stream is written and deleted by the gateway only.
LEMMA Frames ==
  ASSUME [Next]_vars
  PROVE  plan' = plan
BY DEF Next, vars, server, looking, ReadPage, AskVersion, LookFails, Found, SendAppend,
  GiveUp, Resend, StartOver, ReceiveOk, ReceiveConflict, Execute, Reject, Lose, Delete,
  AllStopped

\* Only Read adds to what a writer has seen.
LEMMA SeenStep == TypeOK /\ SeenByRead /\ [Next]_vars => SeenByRead'
<1> SUFFICES ASSUME TypeOK, SeenByRead, [Next]_vars PROVE SeenByRead'
  OBVIOUS
<1>1. plan' = plan
  BY Frames
<1>2. ASSUME NEW w \in Writers, ReadPage(w) PROVE SeenByRead'
  BY <1>1, <1>2 DEF ReadPage, SeenByRead, TypeOK
<1>3. ASSUME NEW w \in Writers, StartOver(w) PROVE SeenByRead'
  BY <1>1, <1>3 DEF StartOver, SeenByRead, TypeOK
<1>4. CASE UNCHANGED seen
  BY <1>1, <1>4 DEF SeenByRead
<1> QED
  BY <1>2, <1>3, <1>4 DEF Next, vars, looking, AskVersion, LookFails, Found, SendAppend,
    GiveUp, Resend, ReceiveOk, ReceiveConflict, Execute, Reject, Lose, Delete, AllStopped

\* Requests that were under way before keep what is known of them while the
\* stream does not change.
LEMMA RequestsKeep ==
  ASSUME RequestsKnow, UNCHANGED <<server, plan>>, Appends' \subseteq Appends
  PROVE  RequestsKnow'
BY DEF RequestsKnow, Begins, server

\* What is known stays true at every step.
LEMMA KnowledgeStep == Knowledge /\ [Next]_vars => Knowledge'
<1> SUFFICES ASSUME Knowledge, [Next]_vars PROVE Knowledge'
  OBVIOUS
<1> USE DEF Knowledge
<1>0. TypeOK' /\ SeenByRead' /\ plan' = plan
  BY TypeStep, SeenStep, Frames
<1>a. UNCHANGED server => FreshDecision'
  BY DEF FreshDecision, server
<1>b. ASSUME UNCHANGED <<server, seen, seenLife>>,
             \A w \in Writers :
               \/ UNCHANGED <<st[w], expected[w]>>
               \/ st'[w] \in {"look", "failed"}
               \/ st[w] \notin {"look", "failed"} /\ expected'[w] = expected[w]
      PROVE  WritersKnow'
  BY <1>0, <1>b DEF WritersKnow, Begins, server
<1>1. CASE UNCHANGED vars
  <2>1. UNCHANGED <<server, seen, seenLife, st, expected, plan, net>>
    BY <1>1 DEF vars, looking
  <2>2. WritersKnow'
    BY <1>b, <2>1
  <2>3. RequestsKnow'
    BY <2>1, RequestsKeep DEF Appends
  <2> QED
    BY <1>0, <1>a, <2>1, <2>2, <2>3
<1>2. ASSUME NEW w \in Writers, ReadPage(w) PROVE Knowledge'
  <2>1. UNCHANGED <<server, net, plan>> /\ \A u \in Writers \ {w} :
          UNCHANGED <<seen[u], seenLife[u], st[u], expected[u]>>
    BY <1>2 DEF ReadPage, Goto, TypeOK
  <2>2. /\ Begins(seen[w], seenLife[w])' /\ seenLife'[w] <= life'
        /\ st'[w] # "look" => expected'[w] = Len(seen'[w]) - 1
    BY <1>2, ReadKnows
  <2>3. ASSUME NEW u \in Writers, u # w
        PROVE  /\ Begins(seen[u], seenLife[u])' /\ seenLife'[u] <= life'
               /\ plan[u].kind = "exact" /\ st'[u] \notin {"look", "failed"}
                    => expected'[u] = Len(seen'[u]) - 1
    BY <2>1, <2>3 DEF WritersKnow, Begins, server
  <2>4. WritersKnow'
    BY <1>0, <2>2, <2>3 DEF WritersKnow
  <2>5. RequestsKnow'
    BY <2>1, RequestsKeep DEF Appends
  <2> QED
    BY <1>0, <1>a, <2>1, <2>4, <2>5
<1>3. ASSUME NEW w \in Writers, AskVersion(w) PROVE Knowledge'
  <2>1. UNCHANGED <<server, net, plan, seen>> /\ plan[w].kind # "exact"
        /\ seenLife'[w] = life /\ \A u \in Writers \ {w} :
             UNCHANGED <<seenLife[u], st[u], expected[u]>>
    BY <1>3 DEF AskVersion, Goto, TypeOK
  <2>2. WritersKnow'
    <3>1. ASSUME NEW u \in Writers, u # w
          PROVE  /\ Begins(seen[u], seenLife[u])' /\ seenLife'[u] <= life'
                 /\ plan[u].kind = "exact" /\ st'[u] \notin {"look", "failed"}
                      => expected'[u] = Len(seen'[u]) - 1
      BY <2>1, <3>1 DEF WritersKnow, Begins, server
    <3>2. seen[w] = <<>>
      BY <2>1 DEF SeenByRead
    <3>3. Begins(seen[w], seenLife[w])' /\ seenLife'[w] <= life'
      BY <2>1, <3>2, EntryTypes DEF Begins, server, TypeOK
    <3> QED
      BY <1>0, <2>1, <3>1, <3>3 DEF WritersKnow
  <2>3. RequestsKnow'
    BY <2>1, RequestsKeep DEF Appends
  <2> QED
    BY <1>0, <1>a, <2>1, <2>2, <2>3
<1>4. ASSUME NEW w \in Writers, LookFails(w) \/ Found(w) \/ GiveUp(w) \/ Resend(w)
      PROVE  Knowledge'
  <2>1. UNCHANGED <<server, net, plan, seen, seenLife, expected>>
    BY <1>4 DEF LookFails, Found, GiveUp, Resend, looking
  <2>2. \A u \in Writers : \/ st'[u] = st[u] \/ st'[u] = "failed"
                           \/ st[u] \notin {"look", "failed"}
    BY <1>4 DEF LookFails, Found, GiveUp, Resend, Goto, TypeOK
  <2>3. WritersKnow'
    BY <1>b, <2>1, <2>2
  <2>4. RequestsKnow'
    BY <2>1, RequestsKeep DEF Appends
  <2> QED
    BY <1>0, <1>a, <2>1, <2>3, <2>4
<1>5. ASSUME NEW w \in Writers, SendAppend(w) PROVE Knowledge'
  <2>1. /\ UNCHANGED <<server, plan, seen, seenLife, expected>>
        /\ st[w] = "ready" /\ net' = net \cup {RequestOf(w)}
    BY <1>5 DEF SendAppend, looking
  <2>2. \A u \in Writers : st'[u] = st[u] \/ st[u] \notin {"look", "failed"}
    BY <1>5, <2>1 DEF SendAppend, Goto, TypeOK
  <2>3. WritersKnow'
    BY <1>b, <2>1, <2>2
  <2>4. /\ Begins(seen[w], seenLife[w]) /\ seenLife[w] <= life
        /\ plan[w].kind = "exact" => expected[w] = Len(seen[w]) - 1
    BY <2>1 DEF WritersKnow
  <2>5. ASSUME NEW r \in Appends'
        PROVE  /\ Begins(r.saw, r.sawLife)' /\ r.sawLife <= life'
               /\ plan'[r.by].kind = "exact" => r.expected = Len(r.saw) - 1
    <3>1. CASE r \in Appends
      BY <2>1, <3>1 DEF RequestsKnow, Begins, server
    <3>2. CASE r = RequestOf(w)
      BY <2>1, <2>4, <3>2 DEF RequestOf, Begins, server
    <3> QED
      BY <2>1, <3>1, <3>2 DEF Appends
  <2>6. RequestsKnow'
    BY <2>5 DEF RequestsKnow
  <2> QED
    BY <1>0, <1>a, <2>1, <2>3, <2>6
<1>6. ASSUME NEW w \in Writers, StartOver(w) PROVE Knowledge'
  <2>1. UNCHANGED <<server, net, plan, seenLife>> /\ seen'[w] = <<>> /\ st'[w] = "look"
        /\ \A u \in Writers \ {w} : UNCHANGED <<seen[u], st[u], expected[u]>>
    BY <1>6 DEF StartOver, Goto, TypeOK
  <2>2. ASSUME NEW u \in Writers, u # w
        PROVE  /\ Begins(seen[u], seenLife[u])' /\ seenLife'[u] <= life'
               /\ plan[u].kind = "exact" /\ st'[u] \notin {"look", "failed"}
                    => expected'[u] = Len(seen'[u]) - 1
    BY <2>1, <2>2 DEF WritersKnow, Begins, server
  <2>3. Begins(seen[w], seenLife[w])' /\ seenLife'[w] <= life'
    BY <2>1, EntryTypes DEF WritersKnow, Begins, server
  <2>4. WritersKnow'
    BY <1>0, <2>1, <2>2, <2>3 DEF WritersKnow
  <2>5. RequestsKnow'
    BY <2>1, RequestsKeep DEF Appends
  <2> QED
    BY <1>0, <1>a, <2>1, <2>4, <2>5
<1>7. ASSUME NEW m \in net, ReceiveOk(m) \/ ReceiveConflict(m) \/ Reject(m) \/ Lose(m)
      PROVE  Knowledge'
  <2>1. UNCHANGED <<server, plan, seen, seenLife, expected>>
    BY <1>7 DEF ReceiveOk, ReceiveConflict, Reject, Lose, looking
  <2>2. \A u \in Writers : st'[u] = st[u] \/ st[u] = "wait"
    BY <1>7 DEF ReceiveOk, ReceiveConflict, Reject, Lose, Waits, Goto, TypeOK
  <2>3. WritersKnow'
    BY <1>b, <2>1, <2>2
  <2>4. Appends' \subseteq Appends
    BY <1>7 DEF ReceiveOk, ReceiveConflict, Reject, Lose, Appends
  <2> QED
    BY <1>0, <1>a, <2>1, <2>3, <2>4, RequestsKeep
<1>8. ASSUME NEW m \in net, Execute(m) PROVE Knowledge'
  <2>1. UNCHANGED <<life, plan, seen, seenLife, expected, st>>
    BY <1>8 DEF Execute, looking
  <2>2. Appends' \subseteq Appends
    BY <1>8 DEF Execute, Appends
  <2>3. \A w \in Writers : Begins(seen[w], seenLife[w])'
    <3> TAKE w \in Writers
    <3>1. Begins(seen[w], seenLife[w]) /\ Len(seen[w]) \in Nat
      BY DEF WritersKnow, TypeOK
    <3>2. \A i \in 1..Len(stream) : stream'[i] = stream[i]
      BY <1>8, ExecuteFacts
    <3>3. Len(stream) \in Nat /\ Len(stream') >= Len(stream)
      BY <1>8, ExecuteFacts, NetTypes, PlanTypes
    <3> QED
      BY <2>1, <3>1, <3>2, <3>3 DEF Begins
  <2>4. WritersKnow'
    BY <2>1, <2>3 DEF WritersKnow
  <2>5. ASSUME NEW r \in Appends'
        PROVE  /\ Begins(r.saw, r.sawLife)' /\ r.sawLife <= life'
               /\ plan'[r.by].kind = "exact" => r.expected = Len(r.saw) - 1
    <3>1. r \in Appends /\ r \in net /\ r.type = "append"
      BY <2>2, <2>5 DEF Appends
    <3>2. Begins(r.saw, r.sawLife) /\ Len(r.saw) \in Nat
      BY <3>1, NetTypes DEF RequestsKnow, Requests
    <3>3. Begins(r.saw, r.sawLife)'
      BY <1>8, <3>2, BeginsStays
    <3> QED
      BY <2>1, <3>1, <3>3 DEF RequestsKnow
  <2>6. RequestsKnow'
    BY <2>5 DEF RequestsKnow
  <2>7. FreshDecision'
    BY <1>8, ExecuteFresh
  <2> QED
    BY <1>0, <2>4, <2>6, <2>7
<1>9. ASSUME Delete PROVE Knowledge'
  <2>1. /\ UNCHANGED <<net, plan, seen, seenLife, expected, st>>
        /\ stream' = <<>> /\ life' = life + 1 /\ life \in Nat
    BY <1>9 DEF Delete, looking, TypeOK
  <2>2. FreshDecision'
    BY <2>1 DEF FreshDecision
  <2>3. WritersKnow'
    <3> SUFFICES ASSUME NEW w \in Writers
                 PROVE  /\ Begins(seen[w], seenLife[w])' /\ seenLife[w] <= life + 1
                        /\ plan[w].kind = "exact" /\ st[w] \notin {"look", "failed"}
                             => expected[w] = Len(seen[w]) - 1
      BY <2>1 DEF WritersKnow
    <3>1. seenLife[w] \in Nat /\ seenLife[w] <= life
      BY DEF WritersKnow, TypeOK
    <3>2. seenLife[w] # life + 1 /\ seenLife[w] <= life + 1
      BY <2>1, <3>1
    <3> QED
      BY <2>1, <3>2 DEF WritersKnow, Begins
  <2>4. ASSUME NEW r \in Appends'
        PROVE  /\ Begins(r.saw, r.sawLife)' /\ r.sawLife <= life'
               /\ plan'[r.by].kind = "exact" => r.expected = Len(r.saw) - 1
    <3>1. r \in Appends /\ r \in Requests
      BY <2>1, <2>4, NetTypes DEF Appends
    <3>2. r.sawLife \in Nat /\ r.sawLife <= life
      BY <3>1 DEF RequestsKnow, Requests
    <3>3. r.sawLife # life + 1 /\ r.sawLife <= life + 1
      BY <2>1, <3>2
    <3> QED
      BY <2>1, <3>1, <3>3 DEF RequestsKnow, Begins
  <2>5. RequestsKnow'
    BY <2>4 DEF RequestsKnow
  <2> QED
    BY <1>0, <2>2, <2>3, <2>5
<1>10. CASE AllStopped
  BY <1>1, <1>10 DEF AllStopped
<1> QED
  BY <1>1, <1>2, <1>3, <1>4, <1>5, <1>6, <1>7, <1>8, <1>9, <1>10 DEF Next

\* Nobody has read anything, and nothing is under way.
LEMMA KnowledgeInit == Init => Knowledge
<1> SUFFICES ASSUME Init PROVE Knowledge
  OBVIOUS
<1>1. TypeOK
  BY TypeInit
<1>2. FreshDecision /\ RequestsKnow
  BY DEF Init, FreshDecision, RequestsKnow, Appends
<1>3. ASSUME NEW w \in Writers, plan[w].kind = "exact" PROVE st[w] = "look"
  BY <1>3 DEF Init, Looks
<1>4. WritersKnow
  BY <1>3 DEF Init, WritersKnow, Begins
<1>5. SeenByRead
  BY DEF Init, SeenByRead
<1> QED
  BY <1>1, <1>2, <1>4, <1>5 DEF Knowledge

\* No lost update: a batch appended at the version read was decided on exactly
\* the events that precede it.
THEOREM DecisionsFresh == Spec => []FreshDecision
<1>1. Knowledge => FreshDecision
  BY DEF Knowledge
<1> QED
  BY <1>1, KnowledgeInit, KnowledgeStep, PTL DEF Spec
-----------------------------------------------------------------------------
(* The abstract log.                                                       *)

\* Execute and Delete are steps of the abstract log, the rest leaves it alone.
LEMMA LogStep == Knowledge /\ [Next]_vars => [Log!Next]_(Log!vars)
<1> SUFFICES ASSUME Knowledge, [Next]_vars PROVE [Log!Next]_(Log!vars)
  OBVIOUS
<1> USE DEF Knowledge
<1>1. ASSUME NEW r \in net, Execute(r) PROVE Log!Write
  <2>1. /\ Len(stream) \in Nat /\ Len(stream') = Len(stream) + plan[r.by].size
        /\ \A i \in 1..Len(stream) : stream'[i] = stream[i]
        /\ \A k \in 1..plan[r.by].size :
             /\ stream'[Len(stream) + k] \in Entries
             /\ stream'[Len(stream) + k].exact = (plan[r.by].kind = "exact")
             /\ stream'[Len(stream) + k].saw = r.saw
             /\ stream'[Len(stream) + k].sawLife = r.sawLife
        /\ \A i \in (Len(stream) + 1)..Len(stream') : i - Len(stream) \in 1..plan[r.by].size
    BY <1>1, ExecuteFacts
  <2>2. plan[r.by].size \in Nat /\ life' = life /\ r \in Requests
    BY <1>1, NetTypes, PlanTypes DEF Execute
  <2>3. plan[r.by].kind = "exact" /\ r.sawLife = life => r.saw = Log!Ids(stream)
    <3> SUFFICES ASSUME plan[r.by].kind = "exact", r.sawLife = life
                 PROVE  r.saw = Log!Ids(stream)
      OBVIOUS
    <3>1. Len(r.saw) = Len(stream) /\ \A j \in 1..Len(stream) : r.saw[j] = stream[j].id
      BY <1>1, SawAll
    <3>2. r.saw \in Seq(Ids)
      BY <2>2 DEF Requests
    <3>3. r.saw = [j \in 1..Len(stream) |-> r.saw[j]]
      BY <3>1, <3>2
    <3> QED
      BY <3>1, <3>3 DEF Log!Ids
  <2>4. ASSUME NEW i \in (Len(stream) + 1)..Len(stream')
        PROVE  /\ stream'[i] \in Entries
               /\ stream'[i].exact /\ stream'[i].sawLife = life
                    => stream'[i].saw = Log!Ids(stream)
    <3>1. i - Len(stream) \in 1..plan[r.by].size /\ i = Len(stream) + (i - Len(stream))
      BY <2>1
    <3> QED
      BY <2>1, <2>3, <3>1
  <2>5. Len(stream') >= Len(stream)
    BY <2>1, <2>2
  <2> QED
    BY <2>1, <2>2, <2>4, <2>5 DEF Log!Write
<1>2. ASSUME Delete PROVE Log!Delete
  BY <1>2 DEF Delete, Log!Delete
<1>3. CASE UNCHANGED server
  BY <1>3 DEF server, Log!vars
<1>4. CASE UNCHANGED vars
  BY <1>3, <1>4 DEF vars
<1>5. ASSUME NEW w \in Writers,
             \/ ReadPage(w) \/ AskVersion(w) \/ LookFails(w) \/ Found(w)
             \/ SendAppend(w) \/ GiveUp(w) \/ Resend(w) \/ StartOver(w)
      PROVE  UNCHANGED server
  BY <1>5 DEF ReadPage, AskVersion, LookFails, Found, SendAppend, GiveUp, Resend, StartOver
<1>6. ASSUME NEW m \in net, ReceiveOk(m) \/ ReceiveConflict(m) \/ Reject(m) \/ Lose(m)
      PROVE  UNCHANGED server
  BY <1>6 DEF ReceiveOk, ReceiveConflict, Reject, Lose
<1>7. CASE AllStopped
  BY <1>4, <1>7 DEF AllStopped
<1> QED
  BY <1>1, <1>2, <1>3, <1>4, <1>5, <1>6, <1>7 DEF Next, Log!Next

\* Reading and appending at the version read implement one atomic step on the
\* stream, whatever is lost, late or sent again.
THEOREM ImplementsLog == Spec => AtomicAppends
<1>1. Init => Log!Init
  BY DEF Init, Log!Init
<1> QED
  BY <1>1, KnowledgeInit, KnowledgeStep, LogStep, PTL DEF Spec, AtomicAppends, Log!Spec
-----------------------------------------------------------------------------
(* Written once.  All appends of one round name the version the round      *)
(* found; once one of them is executed the stream is past that version.    *)

Rounds ==
  \A r \in Appends :
    /\ r.round <= round[r.by]
    /\ r.round = round[r.by] =>
         st[r.by] \notin {"look", "failed"} /\ r.expected = expected[r.by]
    /\ Concrete(r.by) => r.expected >= -1
    /\ plan[r.by].kind = "exact" /\ plan[r.by].ids = "given" =>
         \A k \in 1..Len(r.saw) : r.saw[k].by # r.by

Concord ==
  \A q, r \in Appends : q.by = r.by /\ q.round = r.round => q.expected = r.expected

ExpectsVersion == \A w \in Writers : Concrete(w) => expected[w] >= -1

Overtaken ==
  \A i \in 1..Len(stream) :
    LET e == stream[i].id
    IN /\ e.round <= round[e.by]
       /\ e.round = round[e.by] => st[e.by] \notin {"look", "failed"}
       /\ Concrete(e.by) =>
            /\ e.round = round[e.by] => expected[e.by] < Len(stream) - 1
            /\ \A r \in Appends :
                 r.by = e.by /\ r.round = e.round => r.expected < Len(stream) - 1

Order == Rounds /\ Concord /\ ExpectsVersion /\ Overtaken /\ WrittenOnce

\* A writer whose round is not over keeps what it expects.
LEMMA OrderKeeps ==
  ASSUME TypeOK, Order, UNCHANGED <<server, plan, round>>, Appends' \subseteq Appends,
         \A w \in Writers :
           /\ st[w] \notin {"look", "failed"} =>
                st'[w] \notin {"look", "failed"} /\ expected'[w] = expected[w]
           /\ Concrete(w) => expected'[w] >= -1
  PROVE  Order'
<1> USE DEF Order
<1>0. stream' = stream /\ life' = life /\ plan' = plan /\ round' = round
  BY DEF server
<1>1. \A r \in Appends : r.by \in Writers
  BY NetTypes DEF Appends
<1>2. Rounds'
  BY <1>0, <1>1 DEF Rounds, Concrete
<1>3. Concord'
  BY DEF Concord
<1>4. ExpectsVersion'
  BY <1>0 DEF ExpectsVersion, Concrete
<1>5. Overtaken'
  <2> SUFFICES ASSUME NEW i \in 1..Len(stream)
               PROVE  LET e == stream[i].id
                      IN /\ e.round <= round[e.by]
                         /\ e.round = round[e.by] => st'[e.by] \notin {"look", "failed"}
                         /\ Concrete(e.by) =>
                              /\ e.round = round[e.by] => expected'[e.by] < Len(stream) - 1
                              /\ \A r \in Appends' : r.by = e.by /\ r.round = e.round
                                                       => r.expected < Len(stream) - 1
    BY <1>0 DEF Overtaken, Concrete
  <2>1. stream[i].id.by \in Writers
    BY EntryTypes
  <2> QED
    BY <2>1 DEF Overtaken
<1>6. WrittenOnce'
  BY <1>0 DEF WrittenOnce, SameOperation
<1> QED
  BY <1>2, <1>3, <1>4, <1>5, <1>6

\* An append that names a version is executed at that version.
LEMMA AtItsVersion ==
  ASSUME TypeOK, Order, NEW r \in net, Execute(r), Concrete(r.by)
  PROVE  r.expected = Len(stream) - 1
<1>1. r \in Appends /\ r \in Requests /\ MayAdmit(r.expected)
  BY NetTypes DEF Execute, Appends
<1>2. r.expected >= -1
  BY <1>1 DEF Order, Rounds
<1>3. r.expected \in Int
  BY <1>1, ExpectedIsNumber DEF Requests
<1> QED
  BY <1>1, <1>2, <1>3
     DEF MayAdmit, Unnamed, Admits, VersionOf, NoStream, AnyVersion, StreamExists

\* An append is executed on a stream that does not hold its operation yet.
LEMMA NotWrittenYet ==
  ASSUME Knowledge, Order, NEW r \in net, Execute(r), NEW i \in 1..Len(stream),
         stream[i].id.by = r.by
  PROVE  /\ Concrete(r.by) => stream[i].id.round # r.round
         /\ plan[r.by].kind = "exact" /\ plan[r.by].ids = "given" => r.sawLife # life
<1>1. r \in Appends /\ r \in Requests /\ TypeOK
  BY NetTypes DEF Execute, Appends, Knowledge
<1>2. Concrete(r.by) => stream[i].id.round # r.round
  <2> SUFFICES ASSUME Concrete(r.by), stream[i].id.round = r.round PROVE FALSE
    OBVIOUS
  <2>1. r.expected < Len(stream) - 1
    BY <1>1 DEF Order, Overtaken
  <2>2. r.expected = Len(stream) - 1 /\ Len(stream) \in Nat
    BY <1>1, AtItsVersion, EntryTypes
  <2> QED
    BY <2>1, <2>2
<1>3. plan[r.by].kind = "exact" /\ plan[r.by].ids = "given" => r.sawLife # life
  <2> SUFFICES ASSUME plan[r.by].kind = "exact", plan[r.by].ids = "given", r.sawLife = life
               PROVE  FALSE
    OBVIOUS
  <2>1. Len(r.saw) = Len(stream) /\ \A j \in 1..Len(stream) : r.saw[j] = stream[j].id
    BY SawAll DEF Knowledge
  <2>2. \A k \in 1..Len(r.saw) : r.saw[k].by # r.by
    BY <1>1 DEF Order, Rounds
  <2> QED
    BY <2>1, <2>2
<1> QED
  BY <1>2, <1>3

\* Executing an append writes no operation a second time.
LEMMA ExecuteOnce ==
  ASSUME Knowledge, Order, NEW r \in net, Execute(r)
  PROVE  WrittenOnce'
<1>1. /\ Len(stream) \in Nat /\ Len(stream') = Len(stream) + plan[r.by].size
      /\ \A i \in 1..Len(stream) : stream'[i] = stream[i]
      /\ \A k \in 1..plan[r.by].size :
           /\ stream'[Len(stream) + k].id =
                [by |-> r.by, round |-> r.round, send |-> r.send, nr |-> k]
           /\ stream'[Len(stream) + k].sawLife = r.sawLife
      /\ \A i \in (Len(stream) + 1)..Len(stream') : i - Len(stream) \in 1..plan[r.by].size
  BY ExecuteFacts DEF Knowledge
<1>2. plan' = plan /\ life' = life /\ plan[r.by].size \in Nat
  BY NetTypes, PlanTypes DEF Execute, Knowledge
<1> DEFINE Twice(a, b) ==
      LET p == plan[a.id.by]
      IN /\ SameOperation(a.id, b.id)
         /\ \/ Versioned(p) /\ a.id.round = b.id.round
            \/ p.kind = "exact" /\ p.ids = "given" /\ a.sawLife = life /\ b.sawLife = life
<1>3. ASSUME NEW i \in 1..Len(stream'), ~(i <= Len(stream))
      PROVE  /\ i - Len(stream) \in 1..plan[r.by].size
             /\ stream'[i].id.by = r.by /\ stream'[i].id.round = r.round
             /\ stream'[i].id.nr = i - Len(stream) /\ stream'[i].sawLife = r.sawLife
  <2>1. i - Len(stream) \in 1..plan[r.by].size /\ i = Len(stream) + (i - Len(stream))
    BY <1>1, <1>2, <1>3
  <2> DEFINE k == i - Len(stream)
  <2>2. k \in 1..plan[r.by].size /\ i = Len(stream) + k
    BY <2>1
  <2> HIDE DEF k
  <2>3. /\ stream'[i].id = [by |-> r.by, round |-> r.round, send |-> r.send, nr |-> k]
        /\ stream'[i].sawLife = r.sawLife
    BY <1>1, <2>2, Zenon
  <2>4. /\ stream'[i].id.by = r.by /\ stream'[i].id.round = r.round
        /\ stream'[i].id.nr = k
    BY <2>3
  <2> QED
    BY <2>1, <2>3, <2>4 DEF k
<1>4. ASSUME NEW i \in 1..Len(stream'), NEW j \in 1..Len(stream'),
             i <= Len(stream), ~(j <= Len(stream)),
             Twice(stream'[i], stream'[j]) \/ Twice(stream'[j], stream'[i])
      PROVE  FALSE
  <2>1. i \in 1..Len(stream) /\ stream'[i] = stream[i]
    BY <1>1, <1>4
  <2>2. stream'[j].id.by = r.by /\ stream'[j].id.round = r.round /\ stream'[j].sawLife = r.sawLife
    BY <1>3, <1>4, Zenon
  <2>3. stream[i].id.by = r.by
    BY <1>4, <2>1, <2>2 DEF SameOperation
  <2>4. /\ Concrete(r.by) => stream[i].id.round # r.round
        /\ plan[r.by].kind = "exact" /\ plan[r.by].ids = "given" => r.sawLife # life
    BY <2>1, <2>3, NotWrittenYet
  <2> QED
    BY <1>4, <2>1, <2>2, <2>3, <2>4 DEF Concrete
<1>5. ASSUME NEW i \in 1..Len(stream'), NEW j \in 1..Len(stream'),
             i <= Len(stream), j <= Len(stream), Twice(stream'[i], stream'[j])
      PROVE  i = j
  <2>1. /\ i \in 1..Len(stream) /\ stream'[i] = stream[i]
        /\ j \in 1..Len(stream) /\ stream'[j] = stream[j]
    BY <1>1, <1>5
  <2> QED
    BY <1>5, <2>1 DEF Order, WrittenOnce
<1>6. ASSUME NEW i \in 1..Len(stream'), NEW j \in 1..Len(stream'),
             ~(i <= Len(stream)), ~(j <= Len(stream)), Twice(stream'[i], stream'[j])
      PROVE  i = j
  <2>1. stream'[i].id.nr = i - Len(stream) /\ stream'[j].id.nr = j - Len(stream)
    BY <1>3, <1>6, Zenon
  <2>2. stream'[i].id.nr = stream'[j].id.nr
    BY <1>6 DEF SameOperation
  <2>3. i - Len(stream) = j - Len(stream) /\ Len(stream) \in Int /\ i \in Int /\ j \in Int
    BY <1>1, <1>2, <2>1, <2>2
  <2> QED
    BY <2>3
<1>7. \A i, j \in 1..Len(stream') : Twice(stream'[i], stream'[j]) => i = j
  BY <1>4, <1>5, <1>6
<1> QED
  BY <1>2, <1>7 DEF WrittenOnce

\* A new append names the version of its round, and a stream that holds the
\* operation is past it.
LEMMA SendInOrder ==
  ASSUME TypeOK, Order, NEW w \in Writers, SendAppend(w)
  PROVE  Order'
<1> USE DEF Order
<1> DEFINE q == RequestOf(w)
<1>1. /\ stream' = stream /\ life' = life /\ plan' = plan /\ round' = round
      /\ expected' = expected /\ st[w] = "ready" /\ ~Recognised(w)
      /\ net' = net \cup {q} /\ st' = [st EXCEPT ![w] = "wait"]
  BY DEF SendAppend, server, looking, Goto
<1>2. q.type = "append" /\ q.by = w /\ q.round = round[w] /\ q.expected = expected[w]
      /\ q.saw = seen[w]
  BY DEF RequestOf
<1>3. \A u \in Writers : st[u] \notin {"look", "failed"} => st'[u] \notin {"look", "failed"}
  BY <1>1 DEF TypeOK
<1>4. round[w] \in Nat /\ st'[w] = "wait"
  BY <1>1 DEF TypeOK
<1> HIDE DEF q
<1>5. Appends' = Appends \cup {q}
  BY <1>1, <1>2 DEF Appends
<1>6. \A r \in Appends : r.by \in Writers
  BY NetTypes DEF Appends
<1>7. Rounds'
  <2> SUFFICES ASSUME NEW r \in Appends'
               PROVE  /\ r.round <= round[r.by]
                      /\ r.round = round[r.by] =>
                           st'[r.by] \notin {"look", "failed"} /\ r.expected = expected[r.by]
                      /\ Concrete(r.by) => r.expected >= -1
                      /\ plan[r.by].kind = "exact" /\ plan[r.by].ids = "given" =>
                           \A k \in 1..Len(r.saw) : r.saw[k].by # r.by
    BY <1>1 DEF Rounds, Concrete
  <2>1. CASE r \in Appends
    BY <1>3, <1>6, <2>1 DEF Rounds
  <2>2. CASE r = q
    BY <1>1, <1>2, <1>4, <2>2 DEF ExpectsVersion, Recognised
  <2> QED
    BY <1>5, <2>1, <2>2
<1>8. Concord'
  <2>1. \A r \in Appends : r.by = w /\ r.round = round[w] => r.expected = expected[w]
    BY DEF Rounds
  <2> QED
    BY <1>2, <1>5, <2>1 DEF Concord
<1>9. ExpectsVersion'
  BY <1>1 DEF ExpectsVersion, Concrete
<1>10. Overtaken'
  <2> SUFFICES ASSUME NEW i \in 1..Len(stream)
               PROVE  LET e == stream[i].id
                      IN /\ e.round <= round[e.by]
                         /\ e.round = round[e.by] => st'[e.by] \notin {"look", "failed"}
                         /\ Concrete(e.by) =>
                              /\ e.round = round[e.by] => expected[e.by] < Len(stream) - 1
                              /\ \A r \in Appends' : r.by = e.by /\ r.round = e.round
                                                       => r.expected < Len(stream) - 1
    BY <1>1 DEF Overtaken, Concrete
  <2>1. stream[i].id.by \in Writers
    BY EntryTypes
  <2> QED
    BY <1>2, <1>3, <1>5, <2>1 DEF Overtaken
<1>11. WrittenOnce'
  BY <1>1 DEF WrittenOnce, SameOperation
<1> QED
  BY <1>7, <1>8, <1>9, <1>10, <1>11

\* The appends of earlier rounds stay what they were.
LEMMA StartOverInOrder ==
  ASSUME TypeOK, Order, NEW w \in Writers, StartOver(w)
  PROVE  Order'
<1> USE DEF Order
<1>1. /\ stream' = stream /\ life' = life /\ plan' = plan /\ net' = net
      /\ expected' = expected /\ round'[w] = round[w] + 1 /\ round[w] \in Nat
      /\ \A u \in Writers \ {w} : round'[u] = round[u] /\ st'[u] = st[u]
  BY DEF StartOver, server, Goto, TypeOK
<1>2. Appends' = Appends /\ \A r \in Appends : r.by \in Writers /\ r.round \in Nat
  BY <1>1, NetTypes DEF Appends, Requests
<1>3. Rounds'
  <2> SUFFICES ASSUME NEW r \in Appends
               PROVE  /\ r.round <= round'[r.by]
                      /\ r.round = round'[r.by] =>
                           st'[r.by] \notin {"look", "failed"} /\ r.expected = expected[r.by]
                      /\ Concrete(r.by) => r.expected >= -1
                      /\ plan[r.by].kind = "exact" /\ plan[r.by].ids = "given" =>
                           \A k \in 1..Len(r.saw) : r.saw[k].by # r.by
    BY <1>1, <1>2 DEF Rounds, Concrete
  <2>1. CASE r.by # w
    BY <1>1, <1>2, <2>1 DEF Rounds
  <2>2. CASE r.by = w
    BY <1>1, <1>2, <2>2 DEF Rounds
  <2> QED
    BY <2>1, <2>2
<1>4. Concord' /\ ExpectsVersion'
  BY <1>1, <1>2 DEF Concord, ExpectsVersion, Concrete
<1>5. Overtaken'
  <2> SUFFICES ASSUME NEW i \in 1..Len(stream)
               PROVE  LET e == stream[i].id
                      IN /\ e.round <= round'[e.by]
                         /\ e.round = round'[e.by] => st'[e.by] \notin {"look", "failed"}
                         /\ Concrete(e.by) =>
                              /\ e.round = round'[e.by] => expected[e.by] < Len(stream) - 1
                              /\ \A r \in Appends : r.by = e.by /\ r.round = e.round
                                                      => r.expected < Len(stream) - 1
    BY <1>1, <1>2 DEF Overtaken, Concrete
  <2>1. stream[i].id.by \in Writers /\ stream[i].id.round \in Nat
    BY EntryTypes
  <2>2. CASE stream[i].id.by # w
    BY <1>1, <2>1, <2>2 DEF Overtaken
  <2>3. CASE stream[i].id.by = w
    BY <1>1, <2>1, <2>3 DEF Overtaken
  <2> QED
    BY <2>2, <2>3
<1>6. WrittenOnce'
  BY <1>1 DEF WrittenOnce, SameOperation
<1> QED
  BY <1>3, <1>4, <1>5, <1>6

\* An append that was executed overtakes the others of its round.
LEMMA ExecuteInOrder ==
  ASSUME Knowledge, Order, NEW r \in net, Execute(r)
  PROVE  Order'
<1> USE DEF Order
<1>1. /\ Len(stream) \in Nat /\ Len(stream') = Len(stream) + plan[r.by].size
      /\ \A i \in 1..Len(stream) : stream'[i] = stream[i]
      /\ \A k \in 1..plan[r.by].size :
           stream'[Len(stream) + k].id =
             [by |-> r.by, round |-> r.round, send |-> r.send, nr |-> k]
      /\ \A i \in (Len(stream) + 1)..Len(stream') : i - Len(stream) \in 1..plan[r.by].size
  BY ExecuteFacts DEF Knowledge
<1>2. /\ plan' = plan /\ round' = round /\ expected' = expected /\ st' = st
      /\ plan[r.by].size \in Nat \ {0} /\ TypeOK
      /\ r \in Appends /\ Appends' \subseteq Appends /\ r.by \in Writers
  BY NetTypes, PlanTypes DEF Execute, Knowledge, Appends, looking
<1>3. Rounds' /\ Concord' /\ ExpectsVersion'
  BY <1>2 DEF Rounds, Concord, ExpectsVersion, Concrete
<1>4. Len(stream') > Len(stream)
  BY <1>1, <1>2
<1>5. \A q \in Appends : q.expected \in Int
  BY <1>2, NetTypes, ExpectedIsNumber DEF Appends, Requests
<1>6. ASSUME NEW i \in 1..Len(stream')
      PROVE  LET e == stream'[i].id
             IN /\ e.round <= round[e.by]
                /\ e.round = round[e.by] => st[e.by] \notin {"look", "failed"}
                /\ Concrete(e.by) =>
                     /\ e.round = round[e.by] => expected[e.by] < Len(stream') - 1
                     /\ \A q \in Appends : q.by = e.by /\ q.round = e.round
                                             => q.expected < Len(stream') - 1
  <2>1. CASE i <= Len(stream)
    <3>1. i \in 1..Len(stream) /\ stream'[i] = stream[i]
      BY <1>1, <2>1
    <3>2. stream[i].id.by \in Writers
      BY <1>2, <3>1, EntryTypes
    <3>3. expected[stream[i].id.by] \in Int
      <4>1. expected \in [Writers -> Expectations]
        BY <1>2 DEF TypeOK
      <4>2. Expectations \subseteq Int
        BY ExpectedIsNumber
      <4> QED
        BY <3>2, <4>1, <4>2
    <3> QED
      BY <1>1, <1>4, <1>5, <3>1, <3>3 DEF Overtaken
  <2>2. CASE ~(i <= Len(stream))
    <3> DEFINE k == i - Len(stream)
    <3>1. k \in 1..plan[r.by].size /\ i = Len(stream) + k
      BY <1>1, <1>2, <2>2
    <3> HIDE DEF k
    <3>2. stream'[i].id = [by |-> r.by, round |-> r.round, send |-> r.send, nr |-> k]
      BY <1>1, <3>1, Zenon
    <3>3. stream'[i].id.by = r.by /\ stream'[i].id.round = r.round
      BY <3>2
    <3>4. /\ r.round <= round[r.by]
          /\ r.round = round[r.by] =>
               st[r.by] \notin {"look", "failed"} /\ r.expected = expected[r.by]
      BY <1>2 DEF Rounds
    <3>5. Concrete(r.by) => r.expected = Len(stream) - 1
      BY <1>2, AtItsVersion
    <3>6. \A q \in Appends : q.by = r.by /\ q.round = r.round => q.expected = r.expected
      BY <1>2 DEF Concord
    <3>7. Concrete(r.by) => r.expected < Len(stream') - 1
      BY <1>1, <1>4, <3>5
    <3> QED
      BY <3>3, <3>4, <3>6, <3>7
  <2> QED
    BY <2>1, <2>2
<1>7. Overtaken'
  BY <1>2, <1>6 DEF Overtaken, Concrete
<1>8. WrittenOnce'
  BY ExecuteOnce
<1> QED
  BY <1>3, <1>7, <1>8

\* The order of rounds and versions stays at every step.
LEMMA OrderStep == Knowledge /\ Order /\ [Next]_vars => Order'
<1> SUFFICES ASSUME Knowledge, Order, [Next]_vars PROVE Order'
  OBVIOUS
<1>0. TypeOK /\ plan' = plan /\ ExpectsVersion
  BY Frames DEF Knowledge, Order
<1>1. CASE UNCHANGED vars
  BY <1>0, <1>1, OrderKeeps DEF vars, looking, Appends, ExpectsVersion
<1>2. ASSUME NEW w \in Writers, ReadPage(w) PROVE Order'
  <2>1. /\ UNCHANGED <<server, net, plan, round>> /\ st[w] = "look"
        /\ \A u \in Writers \ {w} : UNCHANGED <<st[u], expected[u]>>
        /\ \/ expected'[w] = expected[w]
           \/ \E n \in Nat : expected'[w] = VersionOf(n)
    <3> DEFINE start == Len(seen[w])
               page == IF start <= Len(stream) THEN ReadForward(start, Page) ELSE <<>>
    <3>1. start \in Nat /\ Len(page) \in Nat
      BY <1>0, PageFacts DEF TypeOK
    <3>2. \/ UNCHANGED <<st, expected>>
          \/ /\ st' = [st EXCEPT ![w] = "ready"]
             /\ expected' = [expected EXCEPT ![w] = VersionOf(start + Len(page))]
      BY <1>2 DEF ReadPage, Goto
    <3>3. UNCHANGED <<server, net, plan, round>> /\ st[w] = "look"
      BY <1>2 DEF ReadPage
    <3> HIDE DEF start, page
    <3> QED
      BY <1>0, <3>1, <3>2, <3>3 DEF TypeOK
  <2>2. expected'[w] >= -1 \/ expected'[w] = expected[w]
    BY <2>1 DEF VersionOf
  <2>3. \A u \in Writers : Concrete(u) => expected'[u] >= -1
    BY <1>0, <2>1, <2>2 DEF ExpectsVersion
  <2> QED
    BY <1>0, <2>1, <2>3, OrderKeeps DEF Appends
<1>3. ASSUME NEW w \in Writers, AskVersion(w) PROVE Order'
  <2>1. /\ UNCHANGED <<server, net, plan, round>> /\ st[w] = "look"
        /\ \A u \in Writers \ {w} : UNCHANGED <<st[u], expected[u]>>
        /\ expected'[w] = Len(stream) - 1 /\ Len(stream) \in Nat
    BY <1>0, <1>3, EntryTypes DEF AskVersion, Goto, TypeOK, VersionOf
  <2>2. \A u \in Writers : Concrete(u) => expected'[u] >= -1
    BY <1>0, <2>1 DEF ExpectsVersion
  <2> QED
    BY <1>0, <2>1, <2>2, OrderKeeps DEF Appends
<1>4. ASSUME NEW w \in Writers, LookFails(w) \/ Found(w) \/ GiveUp(w) \/ Resend(w)
      PROVE  Order'
  <2>1. UNCHANGED <<server, net, plan, round, expected>>
    BY <1>4 DEF LookFails, Found, GiveUp, Resend, looking
  <2>2. \A u \in Writers : st[u] \notin {"look", "failed"} => st'[u] \notin {"look", "failed"}
    BY <1>0, <1>4 DEF LookFails, Found, GiveUp, Resend, Goto, TypeOK
  <2> QED
    BY <1>0, <2>1, <2>2, OrderKeeps DEF Appends, ExpectsVersion
<1>5. ASSUME NEW w \in Writers, SendAppend(w) PROVE Order'
  BY <1>0, <1>5, SendInOrder
<1>6. ASSUME NEW w \in Writers, StartOver(w) PROVE Order'
  BY <1>0, <1>6, StartOverInOrder
<1>7. ASSUME NEW m \in net, ReceiveOk(m) \/ ReceiveConflict(m) \/ Reject(m) \/ Lose(m)
      PROVE  Order'
  <2>1. UNCHANGED <<server, plan, round, expected>>
    BY <1>7 DEF ReceiveOk, ReceiveConflict, Reject, Lose, looking
  <2>2. \A u \in Writers : st[u] \notin {"look", "failed"} => st'[u] \notin {"look", "failed"}
    BY <1>0, <1>7 DEF ReceiveOk, ReceiveConflict, Reject, Lose, Goto, TypeOK
  <2>3. Appends' \subseteq Appends
    BY <1>7 DEF ReceiveOk, ReceiveConflict, Reject, Lose, Appends
  <2> QED
    BY <1>0, <2>1, <2>2, <2>3, OrderKeeps DEF ExpectsVersion
<1>8. ASSUME NEW m \in net, Execute(m) PROVE Order'
  BY <1>8, ExecuteInOrder
<1>9. ASSUME Delete PROVE Order'
  <2>1. UNCHANGED <<net, plan, round, expected, st>> /\ stream' = <<>>
    BY <1>9 DEF Delete, looking
  <2> QED
    BY <2>1 DEF Order, Rounds, Concord, ExpectsVersion, Concrete, Overtaken, WrittenOnce, Appends
<1>10. CASE AllStopped
  BY <1>1, <1>10 DEF AllStopped
<1> QED
  BY <1>1, <1>2, <1>3, <1>4, <1>5, <1>6, <1>7, <1>8, <1>9, <1>10 DEF Next

\* A plan that names a version starts with that of an empty stream.
LEMMA OrderInit == Init => Order
<1> SUFFICES ASSUME Init PROVE Order
  OBVIOUS
<1>1. Rounds /\ Concord
  BY DEF Init, Rounds, Concord, Appends
<1>2. Overtaken /\ WrittenOnce
  BY DEF Init, Overtaken, WrittenOnce
<1>3. ASSUME NEW w \in Writers, Concrete(w) PROVE expected[w] >= -1
  <2>1. ParseExpected(plan[w]) >= -1
    BY <1>3, PlansAssumption
       DEF Init, Concrete, Versioned, ParseExpected, NoStream, PlanType
  <2> QED
    BY <2>1 DEF Init
<1> QED
  BY <1>1, <1>2, <1>3 DEF Order, ExpectsVersion

\* However often an append is sent again, with a version to expect the batch is
\* in the stream once; a writer with ids of its own also when it starts over.
THEOREM NothingTwice == Spec => []WrittenOnce
<1>1. Order => WrittenOnce
  BY DEF Order
<1> QED
  BY <1>1, KnowledgeInit, KnowledgeStep, OrderInit, OrderStep, PTL DEF Spec
-----------------------------------------------------------------------------
(* Truthful answers.  An append is executed or refused once, and what is   *)
(* said of it stays true until its writer hears of it, and after.          *)

\* Every append has a number of its own, and is under way or in the stream.
Sent ==
  /\ \A m \in net : m.send < sends[m.by]
  /\ \A q, r \in Appends : q.by = r.by /\ q.send = r.send => q = r
  /\ \A i \in 1..Len(stream) :
       /\ stream[i].id.send < sends[stream[i].id.by]
       /\ \A r \in Appends : r.by = stream[i].id.by => r.send # stream[i].id.send

\* What the steps of a writer that neither send nor receive leave alone.
Local(w) ==
  \/ ReadPage(w) \/ AskVersion(w) \/ LookFails(w) \/ Found(w)
  \/ GiveUp(w) \/ Resend(w) \/ StartOver(w)

\* The answers of the gateway keep their types.
LEMMA ReplyTypes ==
  ASSUME TypeOK, NEW m \in net, m.type = "ok"
  PROVE  m.result \in Results
BY NetTypes DEF Replies

\* Appends are numbered as they are sent.
LEMMA SentStep == TypeOK /\ Sent /\ [Next]_vars => Sent'
<1> SUFFICES ASSUME TypeOK, Sent, [Next]_vars PROVE Sent'
  OBVIOUS
<1>0. \A m \in net : m.by \in Writers /\ m.send \in Nat
  BY NetTypes
<1>1. CASE UNCHANGED <<stream, sends>> /\ net' \subseteq net
  BY <1>1 DEF Sent, Appends
<1>2. ASSUME NEW w \in Writers, SendAppend(w) PROVE Sent'
  <2> DEFINE q == RequestOf(w)
  <2>1. /\ stream' = stream /\ net' = net \cup {q} /\ sends' = [sends EXCEPT ![w] = @ + 1]
    BY <1>2 DEF SendAppend, server
  <2>2. q.type = "append" /\ q.by = w /\ q.send = sends[w] /\ sends[w] \in Nat
    BY DEF RequestOf, TypeOK
  <2> HIDE DEF q
  <2>3. /\ sends'[w] = sends[w] + 1 /\ \A u \in Writers \ {w} : sends'[u] = sends[u]
        /\ \A u \in Writers : sends[u] \in Nat
    BY <2>1 DEF TypeOK
  <2>4. Appends' = Appends \cup {q}
    BY <2>1, <2>2 DEF Appends
  <2>5. \A m \in net' : m.send < sends'[m.by]
    BY <1>0, <2>1, <2>2, <2>3 DEF Sent
  <2>6. \A r \in Appends : r.by = w => r.send # q.send
    BY <2>2, <1>0 DEF Sent, Appends
  <2>7. \A a, r \in Appends' : a.by = r.by /\ a.send = r.send => a = r
    BY <2>2, <2>4, <2>6 DEF Sent
  <2>8. ASSUME NEW i \in 1..Len(stream')
        PROVE  /\ stream'[i].id.send < sends'[stream'[i].id.by]
               /\ \A r \in Appends' : r.by = stream'[i].id.by => r.send # stream'[i].id.send
    <3>1. stream[i].id.by \in Writers /\ stream[i].id.send \in Nat
      BY <2>1, EntryTypes
    <3>2. stream[i].id.send < sends[stream[i].id.by]
      BY <2>1 DEF Sent
    <3> QED
      BY <2>1, <2>2, <2>3, <2>4, <3>1, <3>2 DEF Sent
  <2> QED
    BY <2>5, <2>7, <2>8 DEF Sent
<1>3. ASSUME NEW w \in Writers, Local(w) PROVE Sent'
  BY <1>1, <1>3 DEF Local, ReadPage, AskVersion, LookFails, Found, GiveUp, Resend, StartOver,
    server
<1>4. ASSUME NEW m \in net, ReceiveOk(m) \/ ReceiveConflict(m) \/ Lose(m) PROVE Sent'
  BY <1>1, <1>4 DEF ReceiveOk, ReceiveConflict, Lose, server
<1>5. ASSUME NEW r \in net, Execute(r) PROVE Sent'
  <2>1. /\ Len(stream) \in Nat /\ Len(stream') = Len(stream) + plan[r.by].size
        /\ \A i \in 1..Len(stream) : stream'[i] = stream[i]
        /\ \A k \in 1..plan[r.by].size :
             stream'[Len(stream) + k].id =
               [by |-> r.by, round |-> r.round, send |-> r.send, nr |-> k]
        /\ plan[r.by].size \in Nat
    BY <1>5, ExecuteFacts, NetTypes, PlanTypes
  <2> DEFINE q == [type |-> "ok", by |-> r.by, send |-> r.send,
                   result |-> [version |-> VersionOf(Len(stream) + plan[r.by].size),
                               count |-> plan[r.by].size, life |-> life]]
  <2>2. q.type = "ok" /\ q.by = r.by /\ q.send = r.send
    OBVIOUS
  <2>3. net' = (net \ {r}) \cup {q} /\ sends' = sends /\ r \in Appends
    BY <1>5 DEF Execute, Appends
  <2> HIDE DEF q
  <2>4. Appends' = Appends \ {r}
    BY <2>2, <2>3 DEF Appends
  <2>5. ASSUME NEW i \in 1..Len(stream')
        PROVE  /\ stream'[i].id.send < sends[stream'[i].id.by]
               /\ \A a \in Appends' : a.by = stream'[i].id.by => a.send # stream'[i].id.send
    <3>1. CASE i <= Len(stream)
      BY <2>1, <2>4, <3>1 DEF Sent
    <3>2. CASE ~(i <= Len(stream))
      <4> DEFINE k == i - Len(stream)
      <4>1. k \in 1..plan[r.by].size /\ i = Len(stream) + k
        BY <2>1, <3>2
      <4> HIDE DEF k
      <4>2. stream'[i].id = [by |-> r.by, round |-> r.round, send |-> r.send, nr |-> k]
        BY <2>1, <4>1, Zenon
      <4>3. stream'[i].id.by = r.by /\ stream'[i].id.send = r.send
        BY <4>2
      <4> QED
        BY <2>3, <2>4, <4>3 DEF Sent
    <3> QED
      BY <3>1, <3>2
  <2> QED
    BY <2>2, <2>3, <2>4, <2>5 DEF Sent
<1>6. ASSUME NEW r \in net, Reject(r) PROVE Sent'
  <2> DEFINE q == [type |-> "conflict", by |-> r.by, send |-> r.send]
  <2>1. q.type = "conflict" /\ q.by = r.by /\ q.send = r.send
    OBVIOUS
  <2>2. net' = (net \ {r}) \cup {q} /\ UNCHANGED <<stream, sends>>
    BY <1>6 DEF Reject, server
  <2> HIDE DEF q
  <2>3. Appends' \subseteq Appends
    BY <2>1, <2>2 DEF Appends
  <2> QED
    BY <2>1, <2>2, <2>3 DEF Sent
<1>7. ASSUME Delete PROVE Sent'
  BY <1>7 DEF Delete, Sent, Appends
<1>8. CASE UNCHANGED vars
  BY <1>1, <1>8 DEF vars, server
<1> QED
  BY <1>2, <1>3, <1>4, <1>5, <1>6, <1>7, <1>8 DEF Next, Local, AllStopped

\* A writer that asked for the version does not expect one that is to come, and
\* the append it waits for is the one of this round.
Asked ==
  /\ \A w \in Writers :
       plan[w].kind = "version" /\ st[w] \notin {"look", "failed"} /\ seenLife[w] = life
         => expected[w] <= Len(stream) - 1
  /\ \A r \in Appends :
       /\ plan[r.by].kind = "version" /\ r.sawLife = life => r.expected <= Len(stream) - 1
       /\ Waits(r.by, r.send) => r.expected = expected[r.by] /\ r.sawLife = seenLife[r.by]

\* The stream grows until it is deleted.
LEMMA AskedStep == Knowledge /\ Sent /\ Asked /\ [Next]_vars => Asked'
<1> SUFFICES ASSUME Knowledge, Sent, Asked, [Next]_vars PROVE Asked'
  OBVIOUS
<1>0. /\ TypeOK /\ plan' = plan /\ Len(stream) \in Nat /\ life \in Nat
      /\ \A r \in Appends : r.by \in Writers /\ r.send \in Nat /\ r.sawLife \in Nat
                            /\ r.expected \in Int
      /\ \A w \in Writers : sends[w] \in Nat /\ seenLife[w] \in Nat /\ expected[w] \in Int
  <2>1. TypeOK /\ plan' = plan /\ Len(stream) \in Nat
    BY Frames, EntryTypes DEF Knowledge
  <2>2. Expectations \subseteq Int
    BY ExpectedIsNumber
  <2>3. \A r \in Appends : r \in Requests
    BY <2>1, NetTypes DEF Appends
  <2>4. \A w \in Writers : expected[w] \in Expectations
    BY <2>1 DEF TypeOK
  <2> QED
    BY <2>1, <2>2, <2>3, <2>4 DEF TypeOK, Requests
<1>1. ASSUME UNCHANGED <<server, expected, seenLife, sends>>, Appends' \subseteq Appends,
             \A w \in Writers : /\ st'[w] = "wait" => st[w] = "wait"
                                /\ \/ st'[w] = st[w] \/ st[w] \notin {"look", "failed"}
                                   \/ st'[w] \in {"look", "failed"}
      PROVE  Asked'
  BY <1>0, <1>1 DEF Asked, Waits, server
<1>2. CASE UNCHANGED vars
  BY <1>1, <1>2 DEF vars, looking, Appends
<1>3. ASSUME NEW w \in Writers, ReadPage(w) PROVE Asked'
  <2>1. /\ UNCHANGED <<server, net, plan, sends>> /\ plan[w].kind = "exact"
        /\ st[w] = "look" /\ st'[w] \in {"look", "ready"}
        /\ \A u \in Writers \ {w} : UNCHANGED <<st[u], expected[u], seenLife[u]>>
    BY <1>0, <1>3 DEF ReadPage, Goto, TypeOK
  <2> QED
    BY <1>0, <2>1 DEF Asked, Appends, Waits, server
<1>4. ASSUME NEW w \in Writers, AskVersion(w) PROVE Asked'
  <2>1. /\ UNCHANGED <<server, net, plan, sends>>
        /\ st[w] = "look" /\ st'[w] = "ready" /\ expected'[w] = Len(stream) - 1
        /\ \A u \in Writers \ {w} : UNCHANGED <<st[u], expected[u], seenLife[u]>>
    BY <1>0, <1>4 DEF AskVersion, Goto, VersionOf, TypeOK
  <2> QED
    BY <1>0, <2>1 DEF Asked, Appends, Waits, server
<1>5. ASSUME NEW w \in Writers,
             LookFails(w) \/ Found(w) \/ GiveUp(w) \/ Resend(w) \/ StartOver(w)
      PROVE  Asked'
  <2>1. UNCHANGED <<server, expected, seenLife, sends>> /\ Appends' \subseteq Appends
    BY <1>5 DEF LookFails, Found, GiveUp, Resend, StartOver, looking, Appends
  <2>2. \A u \in Writers : /\ st'[u] = "wait" => st[u] = "wait"
                           /\ \/ st'[u] = st[u] \/ st[u] \notin {"look", "failed"}
                              \/ st'[u] \in {"look", "failed"}
    BY <1>0, <1>5 DEF LookFails, Found, GiveUp, Resend, StartOver, Goto, TypeOK
  <2> QED
    BY <1>1, <2>1, <2>2
<1>6. ASSUME NEW w \in Writers, SendAppend(w) PROVE Asked'
  <2> DEFINE q == RequestOf(w)
  <2>1. /\ UNCHANGED <<server, expected, seenLife>> /\ net' = net \cup {q}
        /\ st[w] = "ready" /\ st'[w] = "wait" /\ sends'[w] = sends[w] + 1
        /\ \A u \in Writers \ {w} : UNCHANGED <<st[u], sends[u]>>
    BY <1>0, <1>6 DEF SendAppend, looking, Goto, TypeOK
  <2>2. /\ q.type = "append" /\ q.by = w /\ q.expected = expected[w]
        /\ q.sawLife = seenLife[w] /\ q.send = sends[w]
    BY DEF RequestOf
  <2> HIDE DEF q
  <2>3. Appends' = Appends \cup {q}
    BY <2>1, <2>2 DEF Appends
  <2>4. \A r \in Appends : r.by = w => r.send < sends[w]
    BY DEF Sent, Appends
  <2>5. ASSUME NEW r \in Appends'
        PROVE  /\ plan[r.by].kind = "version" /\ r.sawLife = life
                    => r.expected <= Len(stream) - 1
               /\ Waits(r.by, r.send)' => r.expected = expected[r.by]
                                          /\ r.sawLife = seenLife[r.by]
    <3>1. CASE r = q
      BY <2>1, <2>2, <3>1 DEF Asked
    <3>2. CASE r \in Appends /\ r.by = w
      <4>1. r.send \in Nat /\ sends[w] \in Nat /\ r.send < sends[w]
        BY <1>0, <2>4, <3>2
      <4>2. ~Waits(r.by, r.send)'
        BY <2>1, <3>2, <4>1 DEF Waits
      <4> QED
        BY <3>2, <4>2 DEF Asked
    <3>3. CASE r \in Appends /\ r.by # w
      BY <1>0, <2>1, <3>3 DEF Asked, Waits
    <3> QED
      BY <2>3, <3>1, <3>2, <3>3
  <2>6. \A u \in Writers :
          plan[u].kind = "version" /\ st'[u] \notin {"look", "failed"} /\ seenLife[u] = life
            => expected[u] <= Len(stream) - 1
    BY <2>1 DEF Asked
  <2> QED
    BY <1>0, <2>1, <2>5, <2>6 DEF Asked, server
<1>7. ASSUME NEW m \in net, ReceiveOk(m) \/ ReceiveConflict(m) \/ Reject(m) \/ Lose(m)
      PROVE  Asked'
  <2>1. UNCHANGED <<server, expected, seenLife, sends>> /\ Appends' \subseteq Appends
    BY <1>7 DEF ReceiveOk, ReceiveConflict, Reject, Lose, looking, Appends
  <2>2. \A u \in Writers : st'[u] = st[u] \/ (st[u] = "wait" /\ st'[u] # "wait")
    BY <1>0, <1>7 DEF ReceiveOk, ReceiveConflict, Reject, Lose, Waits, Goto, TypeOK
  <2> QED
    BY <1>1, <2>1, <2>2
<1>8. ASSUME NEW m \in net, Execute(m) PROVE Asked'
  <2>1. UNCHANGED <<life, expected, seenLife, sends, st>> /\ Appends' \subseteq Appends
    BY <1>8 DEF Execute, looking, Appends
  <2>2. Len(stream') \in Nat /\ Len(stream') >= Len(stream)
    BY <1>0, <1>8, ExecuteFacts, NetTypes, PlanTypes
  <2> QED
    BY <1>0, <2>1, <2>2 DEF Asked, Waits
<1>9. ASSUME Delete PROVE Asked'
  <2>1. UNCHANGED <<net, expected, seenLife, sends, st>> /\ life' = life + 1
    BY <1>9 DEF Delete, looking
  <2>2. \A w \in Writers : seenLife[w] # life + 1
    BY <1>0 DEF Knowledge, WritersKnow
  <2>3. \A r \in Appends : r.sawLife # life + 1
    BY <1>0 DEF Knowledge, RequestsKnow
  <2> QED
    BY <1>0, <2>1, <2>2, <2>3 DEF Asked, Waits, Appends
<1> QED
  BY <1>2, <1>3, <1>4, <1>5, <1>6, <1>7, <1>8, <1>9 DEF Next, AllStopped

\* What a writer expects is behind the stream it looked at.
Behind(w) == Looks(w) /\ seenLife[w] = life => expected[w] < Len(stream) - 1

\* Append n of w was not executed and never will be.
Undone(w, n) ==
  /\ \A i \in 1..Len(stream) : stream[i].id.by = w => stream[i].id.send # n
  /\ \A r \in Appends : r.by = w => r.send # n

Refused ==
  /\ \A m \in net : m.type = "conflict" =>
       Undone(m.by, m.send) /\ (Waits(m.by, m.send) => Behind(m.by))
  /\ \A w \in Writers : st[w] = "conflict" => Undone(w, sends[w] - 1) /\ Behind(w)

\* An append that is refused names a version that the stream has left behind.
LEMMA RefusedBehind ==
  ASSUME Knowledge, Asked, NEW r \in net, Reject(r), Waits(r.by, r.send)
  PROVE  Behind(r.by)
<1>1. /\ TypeOK /\ r \in Appends /\ r \in Requests /\ r.by \in Writers
      /\ ~Admits(r.expected) /\ Len(stream) \in Nat
  BY NetTypes, EntryTypes DEF Reject, Appends, Knowledge
<1>2. r.expected = expected[r.by] /\ r.sawLife = seenLife[r.by] /\ r.expected \in Int
  BY <1>1, ExpectedIsNumber DEF Asked, Requests
<1>3. r.expected # Len(stream) - 1
  BY <1>1 DEF Admits, VersionOf
<1> SUFFICES ASSUME Looks(r.by), r.sawLife = life PROVE r.expected <= Len(stream) - 1
  BY <1>1, <1>2, <1>3 DEF Behind
<1>4. CASE plan[r.by].kind = "exact"
  <2>1. Begins(r.saw, r.sawLife) /\ r.expected = Len(r.saw) - 1 /\ Len(r.saw) \in Nat
    BY <1>1, <1>4 DEF Knowledge, RequestsKnow, Requests
  <2> QED
    BY <1>1, <2>1 DEF Begins
<1>5. CASE plan[r.by].kind = "version"
  BY <1>1, <1>5 DEF Asked
<1> QED
  BY <1>4, <1>5 DEF Looks

\* A refusal stays true: what was refused is not sent again under its number.
LEMMA RefusedStep == Knowledge /\ Sent /\ Asked /\ Refused /\ [Next]_vars => Refused'
<1> SUFFICES ASSUME Knowledge, Sent, Asked, Refused, [Next]_vars PROVE Refused'
  OBVIOUS
<1>0. /\ TypeOK /\ plan' = plan /\ Len(stream) \in Nat /\ life \in Nat
      /\ \A m \in net : m.by \in Writers /\ m.send \in Nat
      /\ \A w \in Writers : sends[w] \in Nat /\ seenLife[w] \in Nat /\ expected[w] \in Int
  <2>1. TypeOK /\ plan' = plan /\ Len(stream) \in Nat
    BY Frames, EntryTypes DEF Knowledge
  <2>2. Expectations \subseteq Int
    BY ExpectedIsNumber
  <2>3. \A m \in net : m.by \in Writers /\ m.send \in Nat
    BY <2>1, NetTypes
  <2>4. \A w \in Writers : expected[w] \in Expectations
    BY <2>1 DEF TypeOK
  <2> QED
    BY <2>1, <2>2, <2>3, <2>4 DEF TypeOK
<1>1. ASSUME UNCHANGED <<server, sends>>, net' \subseteq net,
             \A w \in Writers : st'[w] \in {"wait", "conflict"}
               => UNCHANGED <<st[w], expected[w], seenLife[w]>>
      PROVE  Refused'
  <2>1. Appends' \subseteq Appends /\ stream' = stream /\ life' = life
    BY <1>1 DEF Appends, server
  <2>2. \A w, n : Undone(w, n) => Undone(w, n)'
    BY <2>1 DEF Undone
  <2>3. \A w \in Writers : st'[w] \in {"wait", "conflict"} => (Behind(w) <=> Behind(w)')
    BY <1>0, <1>1, <2>1 DEF Behind, Looks
  <2>4. ASSUME NEW m \in net', m.type = "conflict"
        PROVE  Undone(m.by, m.send)' /\ (Waits(m.by, m.send)' => Behind(m.by)')
    <3>1. m \in net /\ m.by \in Writers
      BY <1>0, <1>1
    <3>2. Waits(m.by, m.send)' => Waits(m.by, m.send) /\ st'[m.by] = "wait"
      BY <1>1, <3>1 DEF Waits
    <3> QED
      BY <2>2, <2>3, <2>4, <3>1, <3>2 DEF Refused
  <2>5. ASSUME NEW w \in Writers, st'[w] = "conflict"
        PROVE  Undone(w, sends[w] - 1)' /\ Behind(w)'
    BY <1>1, <2>2, <2>3, <2>5 DEF Refused
  <2> QED
    BY <1>1, <2>4, <2>5 DEF Refused
<1>2. CASE UNCHANGED vars
  BY <1>1, <1>2 DEF vars, looking
<1>3. ASSUME NEW w \in Writers, Local(w) PROVE Refused'
  <2>1. UNCHANGED <<server, sends, net>> /\ st'[w] \notin {"wait", "conflict"}
        /\ \A u \in Writers \ {w} : UNCHANGED <<st[u], expected[u], seenLife[u]>>
    BY <1>0, <1>3 DEF Local, ReadPage, AskVersion, LookFails, Found, GiveUp, Resend, StartOver,
      Goto, TypeOK, looking
  <2> QED
    BY <1>1, <2>1
<1>4. ASSUME NEW m \in net, ReceiveOk(m) \/ Lose(m) PROVE Refused'
  <2>1. /\ UNCHANGED <<server, sends, expected, seenLife>> /\ net' \subseteq net
        /\ \A u \in Writers : st'[u] = st[u] \/ st'[u] = "done"
    BY <1>0, <1>4 DEF ReceiveOk, Lose, looking, Goto, TypeOK
  <2> QED
    BY <1>1, <2>1
<1>5. ASSUME NEW m \in net, ReceiveConflict(m) PROVE Refused'
  <2>1. /\ UNCHANGED <<server, plan, sends, expected, seenLife>> /\ net' \subseteq net
        /\ m.type = "conflict" /\ Waits(m.by, m.send) /\ st'[m.by] = "conflict"
        /\ \A u \in Writers \ {m.by} : st'[u] = st[u]
    BY <1>0, <1>5 DEF ReceiveConflict, looking, Goto, TypeOK
  <2>2. Undone(m.by, m.send) /\ Behind(m.by) /\ m.send = sends[m.by] - 1 /\ m.by \in Writers
    BY <1>0, <2>1 DEF Refused, Waits
  <2>3. \A w, n : Undone(w, n) => Undone(w, n)'
    BY <2>1 DEF Undone, Appends, server
  <2>4. \A w : Behind(w) => Behind(w)'
    BY <2>1 DEF Behind, Looks, server
  <2>5. ASSUME NEW w \in Writers, st'[w] = "conflict"
        PROVE  Undone(w, sends[w] - 1)' /\ Behind(w)'
    <3>1. CASE w = m.by
      BY <2>1, <2>2, <2>3, <2>4, <3>1
    <3>2. CASE w # m.by
      BY <2>1, <2>3, <2>4, <2>5, <3>2 DEF Refused
    <3> QED
      BY <3>1, <3>2
  <2>6. ASSUME NEW a \in net', a.type = "conflict"
        PROVE  Undone(a.by, a.send)' /\ (Waits(a.by, a.send)' => Behind(a.by)')
    <3>1. a \in net /\ a.by \in Writers
      BY <1>0, <2>1
    <3>2. Waits(a.by, a.send)' => Waits(a.by, a.send)
      BY <2>1, <3>1 DEF Waits
    <3> QED
      BY <2>3, <2>4, <2>6, <3>1, <3>2 DEF Refused
  <2> QED
    BY <2>1, <2>5, <2>6 DEF Refused
<1>6. ASSUME NEW w \in Writers, SendAppend(w) PROVE Refused'
  <2> DEFINE q == RequestOf(w)
  <2>1. /\ UNCHANGED <<server, plan, expected, seenLife>> /\ net' = net \cup {q}
        /\ st[w] = "ready" /\ st'[w] = "wait" /\ sends'[w] = sends[w] + 1
        /\ \A u \in Writers \ {w} : UNCHANGED <<st[u], sends[u]>>
    BY <1>0, <1>6 DEF SendAppend, looking, Goto, TypeOK
  <2>2. q.type = "append" /\ q.by = w /\ q.send = sends[w]
    BY DEF RequestOf
  <2> HIDE DEF q
  <2>3. Appends' = Appends \cup {q}
    BY <2>1, <2>2 DEF Appends
  <2>4. \A u, n : Undone(u, n) /\ (u = w => n # sends[w]) => Undone(u, n)'
    BY <2>1, <2>2, <2>3 DEF Undone, server
  <2>5. \A u : Behind(u) => Behind(u)'
    BY <2>1 DEF Behind, Looks, server
  <2>6. ASSUME NEW a \in net', a.type = "conflict"
        PROVE  Undone(a.by, a.send)' /\ (Waits(a.by, a.send)' => Behind(a.by)')
    <3>1. a \in net /\ a.by \in Writers /\ a.send \in Nat /\ a.send < sends[a.by]
      BY <1>0, <2>1, <2>2, <2>6 DEF Sent
    <3>2. Undone(a.by, a.send)'
      BY <1>0, <2>4, <2>6, <3>1 DEF Refused
    <3>3. Waits(a.by, a.send)' => Waits(a.by, a.send)
      BY <1>0, <2>1, <3>1 DEF Waits
    <3> QED
      BY <2>5, <2>6, <3>1, <3>2, <3>3 DEF Refused
  <2>7. ASSUME NEW u \in Writers, st'[u] = "conflict"
        PROVE  Undone(u, sends[u] - 1)' /\ Behind(u)'
    <3>1. u # w /\ st[u] = "conflict" /\ sends'[u] = sends[u]
      BY <2>1, <2>7
    <3> QED
      BY <2>4, <2>5, <3>1 DEF Refused
  <2> QED
    BY <2>6, <2>7 DEF Refused
<1>7. ASSUME NEW r \in net, Execute(r) PROVE Refused'
  <2>1. /\ UNCHANGED <<life, plan, sends, expected, seenLife, st>>
        /\ r \in Appends /\ Appends' \subseteq Appends
        /\ \A m \in net' : m.type = "conflict" => m \in net
    BY <1>7 DEF Execute, looking, Appends
  <2>2. /\ Len(stream') = Len(stream) + plan[r.by].size /\ plan[r.by].size \in Nat
        /\ \A i \in 1..Len(stream) : stream'[i] = stream[i]
        /\ \A k \in 1..plan[r.by].size :
             stream'[Len(stream) + k].id =
               [by |-> r.by, round |-> r.round, send |-> r.send, nr |-> k]
    BY <1>0, <1>7, ExecuteFacts, NetTypes, PlanTypes
  <2>3. ASSUME NEW w, NEW n, Undone(w, n) PROVE Undone(w, n)'
    <3>1. ASSUME NEW i \in 1..Len(stream'), stream'[i].id.by = w PROVE stream'[i].id.send # n
      <4>1. CASE i <= Len(stream)
        BY <1>0, <2>2, <2>3, <3>1, <4>1 DEF Undone
      <4>2. CASE ~(i <= Len(stream))
        <5> DEFINE k == i - Len(stream)
        <5>1. k \in 1..plan[r.by].size /\ i = Len(stream) + k
          BY <1>0, <2>2, <4>2
        <5> HIDE DEF k
        <5>2. stream'[i].id = [by |-> r.by, round |-> r.round, send |-> r.send, nr |-> k]
          BY <2>2, <5>1, Zenon
        <5>3. stream'[i].id.by = r.by /\ stream'[i].id.send = r.send
          BY <5>2
        <5> QED
          BY <2>1, <2>3, <3>1, <5>3 DEF Undone
      <4> QED
        BY <4>1, <4>2
    <3> QED
      BY <2>1, <2>3, <3>1 DEF Undone
  <2>4. \A w \in Writers : Behind(w) => Behind(w)'
    BY <1>0, <2>1, <2>2 DEF Behind, Looks
  <2> QED
    BY <1>0, <2>1, <2>3, <2>4 DEF Refused, Waits
<1>8. ASSUME NEW r \in net, Reject(r) PROVE Refused'
  <2> DEFINE q == [type |-> "conflict", by |-> r.by, send |-> r.send]
  <2>1. q.type = "conflict" /\ q.by = r.by /\ q.send = r.send
    OBVIOUS
  <2>2. /\ net' = (net \ {r}) \cup {q} /\ r \in Appends
        /\ UNCHANGED <<server, plan, sends, expected, seenLife, st>>
    BY <1>8 DEF Reject, looking, Appends
  <2> HIDE DEF q
  <2>3. Appends' = Appends \ {r}
    BY <2>1, <2>2 DEF Appends
  <2>4. \A w, n : Undone(w, n) => Undone(w, n)'
    BY <2>2, <2>3 DEF Undone, server
  <2>5. \A w : Behind(w) => Behind(w)'
    BY <2>2 DEF Behind, Looks, server
  <2>6. Undone(r.by, r.send)'
    BY <2>2, <2>3 DEF Undone, Sent, server
  <2>7. Waits(r.by, r.send) => Behind(r.by)
    BY <1>8, RefusedBehind
  <2>8. ASSUME NEW a \in net', a.type = "conflict"
        PROVE  Undone(a.by, a.send)' /\ (Waits(a.by, a.send)' => Behind(a.by)')
    <3>1. CASE a = q
      BY <2>1, <2>2, <2>5, <2>6, <2>7, <3>1 DEF Waits
    <3>2. CASE a \in net
      BY <2>2, <2>4, <2>5, <2>8, <3>2 DEF Refused, Waits
    <3> QED
      BY <2>2, <3>1, <3>2
  <2>9. ASSUME NEW w \in Writers, st'[w] = "conflict"
        PROVE  Undone(w, sends[w] - 1)' /\ Behind(w)'
    BY <2>2, <2>4, <2>5, <2>9 DEF Refused
  <2> QED
    BY <2>2, <2>8, <2>9 DEF Refused
<1>9. ASSUME Delete PROVE Refused'
  <2>1. /\ UNCHANGED <<net, plan, sends, expected, seenLife, st>>
        /\ stream' = <<>> /\ life' = life + 1
    BY <1>9 DEF Delete, looking
  <2>2. \A w \in Writers : seenLife[w] # life + 1
    BY <1>0 DEF Knowledge, WritersKnow
  <2>3. \A w \in Writers : Behind(w)'
    BY <2>1, <2>2 DEF Behind
  <2>4. \A w, n : Undone(w, n) => Undone(w, n)'
    BY <2>1 DEF Undone, Appends
  <2> QED
    BY <1>0, <2>1, <2>3, <2>4 DEF Refused, Waits
<1> QED
  BY <1>2, <1>3, <1>4, <1>5, <1>6, <1>7, <1>8, <1>9 DEF Next, Local, AllStopped

\* What the stream holds of append n of w, if res says so of this life.
Placed(w, n, res) ==
  res.life = life =>
    /\ res.version < Len(stream)
    /\ \A k \in 1..res.count :
         LET i == res.version - res.count + 1 + k
         IN i > 0 /\ stream[i].id.by = w /\ stream[i].id.nr = k /\ stream[i].id.send = n

Answered ==
  /\ \A m \in net : m.type = "ok" => Placed(m.by, m.send, m.result) /\ m.result.life <= life
  /\ \A w \in Writers : result[w].count > 0 =>
       /\ st[w] = "done" /\ result[w].life <= life
       /\ Placed(w, sends[w] - 1, result[w])

\* What a result says stays true while the stream grows.
LEMMA PlacedStays ==
  ASSUME TypeOK, NEW r \in net, Execute(r), NEW w, NEW n, NEW res \in Results, Placed(w, n, res)
  PROVE  Placed(w, n, res)'
<1>1. /\ Len(stream) \in Nat /\ Len(stream') = Len(stream) + plan[r.by].size
      /\ plan[r.by].size \in Nat
      /\ \A i \in 1..Len(stream) : stream'[i] = stream[i]
  BY ExecuteFacts, NetTypes, PlanTypes
<1>2. life' = life
  BY DEF Execute
<1>3. res.version \in Nat /\ res.count \in Nat
  BY DEF Results
<1> SUFFICES ASSUME res.life = life
             PROVE  /\ res.version < Len(stream')
                    /\ \A k \in 1..res.count :
                         LET i == res.version - res.count + 1 + k
                         IN i > 0 /\ stream'[i].id.by = w /\ stream'[i].id.nr = k
                                  /\ stream'[i].id.send = n
  BY <1>2 DEF Placed
<1>4. res.version < Len(stream)
  BY DEF Placed
<1>5. ASSUME NEW k \in 1..res.count
      PROVE  LET i == res.version - res.count + 1 + k
             IN i > 0 /\ stream'[i].id.by = w /\ stream'[i].id.nr = k /\ stream'[i].id.send = n
  <2> DEFINE i == res.version - res.count + 1 + k
  <2>1. i > 0 /\ stream[i].id.by = w /\ stream[i].id.nr = k /\ stream[i].id.send = n
    BY <1>5 DEF Placed
  <2>2. i \in 1..Len(stream)
    BY <1>1, <1>3, <1>4, <2>1
  <2>3. stream'[i] = stream[i]
    BY <1>1, <2>2
  <2> QED
    BY <2>1, <2>3
<1> QED
  BY <1>1, <1>3, <1>4, <1>5

\* The result of an append says where the gateway has put it.
LEMMA ExecutePlaces ==
  ASSUME TypeOK, NEW r \in net, Execute(r), NEW res,
         res.version = VersionOf(Len(stream) + plan[r.by].size),
         res.count = plan[r.by].size
  PROVE  Placed(r.by, r.send, res)'
<1>1. /\ Len(stream) \in Nat /\ Len(stream') = Len(stream) + plan[r.by].size
      /\ plan[r.by].size \in Nat
      /\ \A k \in 1..plan[r.by].size :
           stream'[Len(stream) + k].id =
             [by |-> r.by, round |-> r.round, send |-> r.send, nr |-> k]
  BY ExecuteFacts, NetTypes, PlanTypes
<1>2. res.version = Len(stream) + plan[r.by].size - 1
  BY <1>1 DEF VersionOf
<1>3. ASSUME NEW k \in 1..res.count
      PROVE  LET i == res.version - res.count + 1 + k
             IN i > 0 /\ stream'[i].id.by = r.by /\ stream'[i].id.nr = k
                      /\ stream'[i].id.send = r.send
  <2>1. res.version - res.count + 1 + k = Len(stream) + k /\ Len(stream) + k > 0
    BY <1>1, <1>2, <1>3
  <2>2. stream'[Len(stream) + k].id =
          [by |-> r.by, round |-> r.round, send |-> r.send, nr |-> k]
    BY <1>1, <1>3, Zenon
  <2> QED
    BY <2>1, <2>2
<1>4. res.version < Len(stream')
  BY <1>1, <1>2
<1> QED
  BY <1>3, <1>4 DEF Placed

\* Every result a writer has, or is to get, is true.
LEMMA AnsweredStep == TypeOK /\ Answered /\ [Next]_vars => Answered'
<1> SUFFICES ASSUME TypeOK, Answered, [Next]_vars PROVE Answered'
  OBVIOUS
<1>0. /\ life \in Nat /\ \A w \in Writers : result[w] \in Results /\ sends[w] \in Nat
      /\ \A m \in net : m.by \in Writers /\ m.send \in Nat
      /\ \A m \in net : m.type = "ok" => m.result \in Results
      /\ \A x \in Results : x.life \in Nat
  BY NetTypes, ReplyTypes DEF TypeOK, Results
<1>1. ASSUME UNCHANGED server, \A m \in net' : m.type = "ok" => m \in net,
             \A w \in Writers :
               /\ result'[w] = result[w]
               /\ st[w] = "done" => st'[w] = "done" /\ sends'[w] = sends[w]
      PROVE  Answered'
  <2>1. \A w, n, x : Placed(w, n, x) => Placed(w, n, x)'
    BY <1>1 DEF Placed, server
  <2>2. life' = life
    BY <1>1 DEF server
  <2>3. ASSUME NEW w \in Writers, result'[w].count > 0
        PROVE  /\ st'[w] = "done" /\ result'[w].life <= life
               /\ Placed(w, sends[w] - 1, result[w])'
    <3>1. st[w] = "done" /\ result[w].life <= life /\ Placed(w, sends[w] - 1, result[w])
      BY <1>1, <2>3 DEF Answered
    <3>2. Placed(w, sends[w] - 1, result[w])'
      BY <1>1, <3>1 DEF Placed, server
    <3> QED
      BY <1>1, <3>1, <3>2
  <2> QED
    BY <1>1, <2>1, <2>2, <2>3 DEF Answered
<1>2. CASE UNCHANGED vars
  BY <1>1, <1>2 DEF vars
<1>3. ASSUME NEW w \in Writers, Local(w) \/ SendAppend(w) PROVE Answered'
  <2>1. UNCHANGED <<server, result>> /\ \A m \in net' : m.type = "ok" => m \in net
    <3>1. CASE Local(w)
      BY <3>1 DEF Local, ReadPage, AskVersion, LookFails, Found, GiveUp, Resend, StartOver
    <3>2. CASE SendAppend(w)
      <4>1. UNCHANGED <<server, result>> /\ net' = net \cup {RequestOf(w)}
        BY <3>2 DEF SendAppend
      <4>2. RequestOf(w).type = "append"
        BY DEF RequestOf
      <4> QED
        BY <4>1, <4>2
    <3> QED
      BY <1>3, <3>1, <3>2
  <2>2. st[w] # "done" /\ \A u \in Writers \ {w} : UNCHANGED <<st[u], sends[u]>>
    BY <1>3 DEF Local, ReadPage, AskVersion, LookFails, Found, GiveUp, Resend, StartOver,
      SendAppend, Goto, TypeOK
  <2> QED
    BY <1>1, <2>1, <2>2
<1>4. ASSUME NEW m \in net, ReceiveConflict(m) \/ Reject(m) \/ Lose(m) PROVE Answered'
  <2>1. UNCHANGED <<server, result, sends>> /\ \A a \in net' : a.type = "ok" => a \in net
    BY <1>4 DEF ReceiveConflict, Reject, Lose
  <2>2. \A u \in Writers : st[u] = "done" => st'[u] = "done"
    BY <1>0, <1>4 DEF ReceiveConflict, Reject, Lose, Waits, Goto, TypeOK
  <2> QED
    BY <1>1, <2>1, <2>2
<1>5. ASSUME NEW m \in net, ReceiveOk(m) PROVE Answered'
  <2>1. /\ UNCHANGED <<server, sends>> /\ net' \subseteq net /\ m.type = "ok"
        /\ sends[m.by] = m.send + 1 /\ result'[m.by] = m.result /\ st'[m.by] = "done"
        /\ \A u \in Writers \ {m.by} : UNCHANGED <<result[u], st[u]>>
    BY <1>0, <1>5 DEF ReceiveOk, Waits, Goto, TypeOK
  <2>2. \A w, n, x : Placed(w, n, x) => Placed(w, n, x)'
    BY <2>1 DEF Placed, server
  <2>3. Placed(m.by, m.send, m.result)' /\ m.result.life <= life /\ m.send = sends[m.by] - 1
    BY <1>0, <2>1, <2>2 DEF Answered
  <2>4. ASSUME NEW w \in Writers, result'[w].count > 0
        PROVE  /\ st'[w] = "done" /\ result'[w].life <= life
               /\ Placed(w, sends[w] - 1, result[w])'
    <3>1. CASE w = m.by
      BY <2>1, <2>3, <3>1 DEF Placed
    <3>2. CASE w # m.by
      <4>1. st[w] = "done" /\ result[w].life <= life /\ Placed(w, sends[w] - 1, result[w])
        BY <2>1, <2>4, <3>2 DEF Answered
      <4>2. Placed(w, sends[w] - 1, result[w])'
        BY <2>1, <3>2, <4>1 DEF Placed, server
      <4> QED
        BY <2>1, <3>2, <4>1, <4>2
    <3> QED
      BY <3>1, <3>2
  <2> QED
    BY <2>1, <2>2, <2>4 DEF Answered, server
<1>6. ASSUME NEW r \in net, Execute(r) PROVE Answered'
  <2>1. PICK res, q :
          /\ res \in Results /\ res.life = life /\ res.count = plan[r.by].size
          /\ res.version = VersionOf(Len(stream) + plan[r.by].size)
          /\ q.by = r.by /\ q.send = r.send /\ q.result = res
          /\ net' = (net \ {r}) \cup {q}
    <3> DEFINE new == [version |-> VersionOf(Len(stream) + plan[r.by].size),
                       count |-> plan[r.by].size, life |-> life]
               ok == [type |-> "ok", by |-> r.by, send |-> r.send, result |-> new]
    <3>1. plan[r.by].size \in Nat \ {0} /\ Len(stream) \in Nat
      BY NetTypes, PlanTypes, EntryTypes
    <3>2. VersionOf(Len(stream) + plan[r.by].size) \in Nat
      BY <3>1 DEF VersionOf
    <3>3. new \in Results
      BY <1>0, <3>1, <3>2 DEF Results
    <3>4. net' = (net \ {r}) \cup {ok}
      BY <1>6 DEF Execute
    <3>5. ok.by = r.by /\ ok.send = r.send /\ ok.result = new
      OBVIOUS
    <3>6. /\ new.life = life /\ new.count = plan[r.by].size
          /\ new.version = VersionOf(Len(stream) + plan[r.by].size)
      OBVIOUS
    <3> HIDE DEF new, ok
    <3> QED
      BY <3>3, <3>4, <3>5, <3>6
  <2>2. UNCHANGED <<life, st, sends, result>>
    BY <1>6 DEF Execute
  <2>3. Placed(r.by, r.send, res)'
    BY <1>6, <2>1, ExecutePlaces
  <2>4. \A w, n : \A x \in Results : Placed(w, n, x) => Placed(w, n, x)'
    BY <1>6, PlacedStays
  <2>5. ASSUME NEW m \in net', m.type = "ok"
        PROVE  Placed(m.by, m.send, m.result)' /\ m.result.life <= life
    <3>1. CASE m = q
      BY <1>0, <2>1, <2>3, <3>1
    <3>2. CASE m \in net
      BY <1>0, <2>4, <2>5, <3>2 DEF Answered
    <3> QED
      BY <2>1, <3>1, <3>2
  <2>6. ASSUME NEW w \in Writers, result'[w].count > 0
        PROVE  /\ st'[w] = "done" /\ result'[w].life <= life
               /\ Placed(w, sends[w] - 1, result[w])'
    <3>1. st[w] = "done" /\ result[w].life <= life /\ Placed(w, sends[w] - 1, result[w])
      BY <2>2, <2>6 DEF Answered
    <3>2. PICK n, x : n = sends[w] - 1 /\ x = result[w]
      OBVIOUS
    <3>3. Placed(w, n, x)'
      BY <1>0, <2>4, <3>1, <3>2
    <3>4. Placed(w, sends[w] - 1, result[w])'
      BY <2>2, <3>2, <3>3
    <3> QED
      BY <2>2, <3>1, <3>4
  <2> QED
    BY <2>2, <2>5, <2>6 DEF Answered
<1>7. ASSUME Delete PROVE Answered'
  <2>1. UNCHANGED <<net, st, sends, result>> /\ life' = life + 1
    BY <1>7 DEF Delete
  <2>2. ASSUME NEW m \in net, m.type = "ok"
        PROVE  Placed(m.by, m.send, m.result)' /\ m.result.life <= life'
    <3>1. m.result.life \in Nat /\ m.result.life <= life
      BY <1>0, <2>2 DEF Answered
    <3> QED
      BY <1>0, <2>1, <3>1 DEF Placed
  <2>3. ASSUME NEW w \in Writers, result[w].count > 0
        PROVE  /\ st[w] = "done" /\ result[w].life <= life'
               /\ Placed(w, sends[w] - 1, result[w])'
    <3>1. result[w].life \in Nat /\ result[w].life <= life /\ st[w] = "done"
      BY <1>0, <2>3 DEF Answered
    <3> QED
      BY <1>0, <2>1, <3>1 DEF Placed
  <2> QED
    BY <2>1, <2>2, <2>3 DEF Answered
<1> QED
  BY <1>2, <1>3, <1>4, <1>5, <1>6, <1>7 DEF Next, Local, AllStopped

\* Before anything is sent there is nothing to answer.
LEMMA AnswersInit == Init => Sent /\ Asked /\ Refused /\ Answered
<1> SUFFICES ASSUME Init PROVE Sent /\ Asked /\ Refused /\ Answered
  OBVIOUS
<1>1. Sent
  BY DEF Init, Sent, Appends
<1>2. \A w \in Writers : st[w] \in {"look", "ready"} /\ (plan[w].kind = "version" => st[w] = "look")
  BY DEF Init, Looks
<1>3. Asked
  BY <1>2 DEF Init, Asked, Appends
<1>4. Refused
  BY <1>2 DEF Init, Refused
<1>5. Answered
  BY DEF Init, Answered, NoResult
<1> QED
  BY <1>1, <1>3, <1>4, <1>5

\* An AppendResult says where the batch is.
THEOREM ResultsTrue == Spec => []ResultTruthful
<1>1. TypeOK /\ Answered => ResultTruthful
  <2> SUFFICES ASSUME TypeOK, Answered, NEW w \in Writers, result[w].count > 0,
                      result[w].life = life
               PROVE  /\ result[w].version < Len(stream)
                      /\ \A k \in 1..result[w].count :
                           LET i == result[w].version - result[w].count + 1 + k
                           IN i > 0 /\ stream[i].id.by = w /\ stream[i].id.nr = k
                                    /\ stream[i].id.send + 1 = sends[w]
    BY DEF ResultTruthful
  <2>1. Placed(w, sends[w] - 1, result[w])
    BY DEF Answered
  <2>2. sends[w] \in Nat
    BY DEF TypeOK
  <2> QED
    BY <2>1, <2>2 DEF Placed
<1>2. Knowledge => TypeOK
  BY DEF Knowledge
<1> QED
  BY <1>1, <1>2, AnswersInit, AnsweredStep, KnowledgeInit, KnowledgeStep, PTL DEF Spec

\* An append answered with a conflict was not executed, never will be, and what
\* its writer expects is behind the stream.
THEOREM ConflictsTrue == Spec => []ConflictTruthful
<1>1. TypeOK /\ Refused => ConflictTruthful
  <2> SUFFICES ASSUME TypeOK, Refused, NEW w \in Writers, st[w] = "conflict"
               PROVE  /\ \A i \in 1..Len(stream) :
                           stream[i].id.by = w => stream[i].id.send + 1 # sends[w]
                      /\ \A m \in net : m.type = "append" /\ m.by = w => m.send + 1 # sends[w]
                      /\ Looks(w) /\ seenLife[w] = life => expected[w] < VersionOf(Len(stream))
    BY DEF ConflictTruthful
  <2>1. Undone(w, sends[w] - 1) /\ Behind(w) /\ sends[w] \in Nat
    BY DEF Refused, TypeOK
  <2>2. \A i \in 1..Len(stream) : stream[i].id.send \in Nat
    BY EntryTypes
  <2>3. \A m \in net : m.send \in Nat
    BY NetTypes
  <2> QED
    BY <2>1, <2>2, <2>3 DEF Undone, Behind, VersionOf, Appends
<1>2. Knowledge => TypeOK
  BY DEF Knowledge
<1> QED
  BY <1>1, <1>2, AnswersInit, SentStep, AskedStep, RefusedStep, KnowledgeInit, KnowledgeStep,
     PTL DEF Spec
=============================================================================
