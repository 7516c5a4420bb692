--------------------------- MODULE Payload_proofs ---------------------------
(***************************************************************************)
(* Proofs about Payload for any number of events and any ids: whatever the *)
(* payloads are, and whenever the writer is killed, streams append sends   *)
(* what streams read has read, or nothing.                                 *)
(*                                                                         *)
(* The pipe is at each moment the start of what the reader is to print,    *)
(* and a single event, printed, filtered and parsed again, has the payload *)
(* intended for it: RoundTrip goes through the forms a payload may take.   *)
(***************************************************************************)
EXTENDS Payload, SequenceTheorems, TLAPS

\* What the filter makes of the i-th event.
Piped(i) == Filter(Printed(stream[i], plan.bytes), plan.edit)

\* The pipe holds the first objects, in their order.
PipeIsPrefix ==
  /\ pipe \in Seq({Piped(i) : i \in DOMAIN stream})
  /\ Len(pipe) <= Len(stream)
  /\ \A i \in 1..Len(pipe) : pipe[i] = Piped(i)
  /\ writer = "done" => Len(pipe) = Len(stream)

\* What was sent was parsed from a well-formed input, which is no longer written.
SentIsParsed ==
  outcome = "sent" =>
    /\ proposed = toProposedEvents(pipe)
    /\ WellFormed /\ writer # "writing"

TypeOK ==
  /\ stream \in Seq(Events)
  /\ plan \in [bytes : Modes, layout : Layouts, edit : Edits]
  /\ writer \in {"writing", "done", "killed between", "killed within"}
  /\ outcome \in {"running", "sent", "usage error"}

IInv == TypeOK /\ PipeIsPrefix /\ SentIsParsed
-----------------------------------------------------------------------------
(* One event.                                                              *)

\* The forms of a JSON value are told apart.
LEMMA Forms ==
  /\ Object # Absent /\ Null # Absent /\ Null # Object
  /\ \A s \in Bytes : /\ Str(s) # Absent /\ Str(s) # Null /\ Str(s) # Object
                      /\ Str(s)[2] = s
<1>1. Len(Absent) = 0 /\ Len(Object) = 1 /\ Len(Null) = 1 /\ Object[1] # Null[1]
  BY DEF Absent, Object, Null
<1>2. \A s \in Bytes : Len(Str(s)) = 2 /\ Str(s)[2] = s
  BY DEF Str
<1> QED
  BY <1>1, <1>2

\* The payload intended for an event.
IntendedFor(e, edit) ==
  IF edit = "replace" \/ (edit = "set" /\ e.data = "empty") THEN "{}" ELSE e.data

\* Printed, filtered and parsed again, an event has its own payload, unless the
\* filter has set a value and left no base64 form.
LEMMA RoundTrip ==
  ASSUME NEW e \in Events, NEW mode \in Modes, NEW edit \in Edits,
         NEW o, o = Filter(Printed(e, mode), edit)
  PROVE  /\ o.id = e.id /\ o.type = e.type
         /\ resolveInputBytes(o.data, o.b64) = IntendedFor(e, edit)
<1>1. PICK d : /\ Printed(e, mode) = [id |-> e.id, type |-> e.type, b64 |-> e.data, data |-> d]
               /\ e.data = "empty" => d = Absent
  BY DEF Printed, Decoded
<1>2. Unquoted(Object) = "{}" /\ Unquoted(Absent) = "empty"
  BY Forms DEF Unquoted
<1>3. CASE edit = "none"
  <2>1. o.id = e.id /\ o.type = e.type /\ o.b64 = e.data /\ o.data = d
    BY <1>1, <1>3 DEF Filter
  <2> QED
    BY <2>1, <1>1, <1>2, <1>3 DEF resolveInputBytes, IntendedFor
<1>4. CASE edit # "none"
  <2>1. /\ o.id = e.id /\ o.type = e.type /\ o.data = Object
        /\ o.b64 = IF edit = "replace" THEN "empty" ELSE e.data
    BY <1>1, <1>4 DEF Filter
  <2> QED
    BY <2>1, <1>2, <1>4 DEF resolveInputBytes, IntendedFor, Edits
<1> QED
  BY <1>3, <1>4
-----------------------------------------------------------------------------
(* The pipe.                                                               *)

LEMMA InitIInv == Init => IInv
<1> SUFFICES ASSUME Init PROVE IInv
  OBVIOUS
<1>1. stream \in Seq(Events)
  <2>1. PICK n \in 0..MaxEvents : stream \in [1..n -> Events]
    BY DEF Init
  <2> QED
    BY <2>1, SeqDef
<1>2. Len(stream) \in Nat
  BY <1>1
<1> QED
  BY <1>1, <1>2 DEF Init, IInv, TypeOK, PipeIsPrefix, SentIsParsed

LEMMA WriteKeeps == IInv /\ Write => IInv'
<1> SUFFICES ASSUME IInv, Write PROVE IInv'
  OBVIOUS
<1> DEFINE n == Len(pipe) + 1
           Objects == {Piped(i) : i \in DOMAIN stream}
<1>1. /\ Len(stream) \in Nat /\ DOMAIN stream = 1..Len(stream)
      /\ pipe \in Seq(Objects) /\ Len(pipe) \in Nat /\ DOMAIN pipe = 1..Len(pipe)
  BY LenProperties DEF IInv, TypeOK, PipeIsPrefix
<1>2. n \in DOMAIN stream /\ Piped(n) \in Objects
  BY <1>1 DEF Write
<1>3. \A i : Piped(i)' = Piped(i)
  BY DEF Write, Piped
<1>4. pipe' = Append(pipe, Piped(n))
  BY DEF Write, Piped
<1>5. /\ pipe' \in Seq(Objects) /\ Len(pipe') = n /\ DOMAIN pipe' = 1..n
      /\ \A i \in 1..Len(pipe) : pipe'[i] = pipe[i]
      /\ pipe'[n] = Piped(n)
  BY <1>1, <1>2, <1>4, AppendProperties
<1>6. TypeOK' /\ SentIsParsed'
  BY DEF IInv, TypeOK, SentIsParsed, Write
<1>7. PipeIsPrefix'
  <2>1. pipe' \in Seq({Piped(i) : i \in DOMAIN stream})'
    BY <1>3, <1>5 DEF Write
  <2>2. ASSUME NEW i \in 1..Len(pipe') PROVE pipe'[i] = Piped(i)'
    <3>1. i \in 1..Len(pipe) \/ i = n
      BY <1>1, <1>5
    <3>2. i \in 1..Len(pipe) => pipe[i] = Piped(i)
      BY DEF IInv, PipeIsPrefix
    <3> QED
      BY <1>3, <1>5, <3>1, <3>2
  <2>3. Len(pipe') <= Len(stream)' /\ writer' # "done"
    BY <1>1, <1>5 DEF Write
  <2> QED
    BY <2>1, <2>2, <2>3 DEF PipeIsPrefix
<1> QED
  BY <1>6, <1>7 DEF IInv

\* The invariant: PipeIsPrefix is kept by the writer and SentIsParsed by the
\* appender, which starts when the writer has stopped.
LEMMA StepIInv == IInv /\ [Next]_vars => IInv'
<1> SUFFICES ASSUME IInv, [Next]_vars PROVE IInv'
  OBVIOUS
<1>1. CASE Write
  BY <1>1, WriteKeeps
<1>2. CASE WriteEnds
  BY <1>2 DEF WriteEnds, IInv, TypeOK, PipeIsPrefix, SentIsParsed, Piped
<1>3. CASE WriterKilled
  BY <1>3 DEF WriterKilled, IInv, TypeOK, PipeIsPrefix, SentIsParsed, Piped
<1>4. CASE ReadProposedEvents
  <2>1. TypeOK' /\ PipeIsPrefix'
    BY <1>4 DEF ReadProposedEvents, IInv, TypeOK, PipeIsPrefix, Piped
  <2>2. SentIsParsed'
    BY <1>4 DEF ReadProposedEvents, SentIsParsed, WellFormed, toProposedEvents
  <2> QED
    BY <2>1, <2>2 DEF IInv
<1>5. CASE UNCHANGED vars
  BY <1>5 DEF vars, IInv, TypeOK, PipeIsPrefix, SentIsParsed, Piped, WellFormed,
             toProposedEvents
<1> QED
  BY <1>1, <1>2, <1>3, <1>4, <1>5 DEF Next, Stopped

LEMMA IInvFaithful == IInv => PipeFaithful
<1> SUFFICES ASSUME IInv, outcome = "sent" PROVE PipeFaithful
  BY DEF PipeFaithful
<1>1. /\ DOMAIN stream = 1..Len(stream) /\ Len(stream) \in Nat
      /\ DOMAIN pipe = 1..Len(pipe) /\ Len(pipe) \in Nat
      /\ Len(pipe) <= Len(stream)
  BY LenProperties DEF IInv, TypeOK, PipeIsPrefix
<1>2. /\ DOMAIN proposed = DOMAIN pipe /\ Len(proposed) = Len(pipe)
      /\ \A i \in DOMAIN pipe :
           proposed[i] = [id |-> pipe[i].id,
                          data |-> resolveInputBytes(pipe[i].data, pipe[i].b64),
                          type |-> defaultStr(pipe[i].type, DefaultType)]
  BY <1>1 DEF IInv, SentIsParsed, toProposedEvents
<1>3. ASSUME NEW i \in DOMAIN proposed
      PROVE  /\ proposed[i].id = stream[i].id
             /\ proposed[i].data = Intended(i)
             /\ proposed[i].type \in {stream[i].type, DefaultType}
             /\ stream[i].type # "" => proposed[i].type = stream[i].type
  <2>1. i \in DOMAIN pipe /\ i \in 1..Len(pipe) /\ i \in 1..Len(stream)
    BY <1>1, <1>2
  <2>2. stream[i] \in Events /\ pipe[i] = Piped(i)
    BY <2>1, ElementOfSeq DEF IInv, TypeOK, PipeIsPrefix
  <2>3. plan.bytes \in Modes /\ plan.edit \in Edits
    BY DEF IInv, TypeOK
  <2>4. /\ pipe[i].id = stream[i].id /\ pipe[i].type = stream[i].type
        /\ resolveInputBytes(pipe[i].data, pipe[i].b64) = Intended(i)
    <3>1. pipe[i] = Filter(Printed(stream[i], plan.bytes), plan.edit)
      BY <2>2 DEF Piped
    <3>2. Intended(i) = IntendedFor(stream[i], plan.edit)
      BY DEF Intended, IntendedFor
    <3>3. ASSUME NEW o, o = Filter(Printed(stream[i], plan.bytes), plan.edit)
          PROVE  /\ o.id = stream[i].id /\ o.type = stream[i].type
                 /\ resolveInputBytes(o.data, o.b64) = IntendedFor(stream[i], plan.edit)
      BY <3>3, <2>2, <2>3, RoundTrip
    <3> QED
      BY <3>1, <3>2, <3>3
  <2>5. /\ proposed[i].id = pipe[i].id
        /\ proposed[i].data = resolveInputBytes(pipe[i].data, pipe[i].b64)
        /\ proposed[i].type = defaultStr(pipe[i].type, DefaultType)
    BY <2>1, <1>2
  <2> QED
    BY <2>4, <2>5 DEF defaultStr
<1>4. Len(proposed) = Len(stream) \/ (plan.layout = "lines" /\ writer = "killed between")
  BY <1>2 DEF IInv, TypeOK, SentIsParsed, PipeIsPrefix, WellFormed, Layouts
<1> QED
  BY <1>3, <1>4 DEF PipeFaithful
-----------------------------------------------------------------------------
\* Whatever the payloads, the modes and the filter's edit, and whenever the writer
\* is killed, streams append sends what streams read has read (encode.addBytes,
\* resolveInputBytes, readProposedEvents): each payload byte for byte, in order,
\* all of them or none, but for a pipe of whole lines cut between two of them.
THEOREM Faithful == Spec => []PipeFaithful
<1>1. Spec => []IInv
  BY InitIInv, StepIInv, PTL DEF Spec
<1> QED
  BY <1>1, IInvFaithful, PTL
=============================================================================
