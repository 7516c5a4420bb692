------------------------------- MODULE Payload -------------------------------
(***************************************************************************)
(* Events on a pipe: `streams read`, perhaps a filter such as jq, then     *)
(* `streams append`.  The reader prints each byte field as encode does, as *)
(* base64 and in mode auto also decoded; the filter may pass the array on, *)
(* split it into lines, and change the decoded data; the appender parses   *)
(* the whole of its input and turns it into events.  Whoever writes into   *)
(* the pipe may be killed before it is done.                               *)
(*                                                                         *)
(* The bytes of a payload are named by the cases the code tells apart: no  *)
(* bytes, the JSON texts null, "s" in quotes, and an object with and       *)
(* without white space, a text s that is no JSON, and bytes that are no    *)
(* UTF-8.  The events of a stream are told apart by their payloads; tags   *)
(* and metadata go the same way.                                           *)
(***************************************************************************)
EXTENDS Naturals, Sequences

CONSTANTS MaxEvents, Ids

Bytes == {"empty", "null", "quoted s", "{}", "{ }", "s", "binary"}
Json(b) == b \in {"null", "quoted s", "{}", "{ }"}
Utf8(b) == b # "binary"
DefaultType == "application/json"
Types == {DefaultType, "text/plain", ""}

Events == [id : Ids, data : Bytes, type : Types]
Modes == {"auto", "base64"}
Layouts == {"array", "lines"}
\* What the filter does to .data: nothing; sets it; sets it and deletes .data_b64.
Edits == {"none", "set", "replace"}

VARIABLES
  stream,   \* the events read
  plan,     \* --bytes of the reader, and layout and edit of the filter
  pipe,     \* the objects written so far
  writer,   \* who writes: writing, done, or killed before or within an object
  proposed, \* the events passed to Append
  outcome   \* of the appender: running, sent, or a usage error

vars == <<stream, plan, pipe, writer, proposed, outcome>>

\* JSON values: a string, the object, null; or no value.
Str(s) == <<"string", s>>
Object == <<"object">>
Null == <<"null">>
Absent == <<>>
\* The value of a JSON text; the encoder prints a raw message without white space.
ValueOf(b) == CASE b = "quoted s" -> Str("s")
                [] b = "null" -> Null
                [] OTHER -> Object

\* addBytes
Decoded(b, type, mode) ==
  IF mode # "auto" \/ b = "empty" THEN Absent
  ELSE IF type = DefaultType /\ Json(b) THEN ValueOf(b)
  ELSE IF Utf8(b) THEN Str(b) ELSE Absent
Printed(e, mode) ==
  [id |-> e.id, type |-> e.type, b64 |-> e.data, data |-> Decoded(e.data, e.type, mode)]

\* The filter's new value for .data is an object.
Filter(o, edit) ==
  IF edit = "none" THEN o
  ELSE [o EXCEPT !.data = Object, !.b64 = IF edit = "replace" THEN "empty" ELSE @]

\* A JSON value as bytes: the text of a string, nothing for null, otherwise the
\* value as it stands.
Unquoted(v) == IF v \in {Absent, Null} THEN "empty"
               ELSE IF v = Object THEN "{}" ELSE v[2]

\* Mutant: the decoded form is preferred.
resolveInputBytesDecoded(raw, b64) == IF raw # Absent THEN Unquoted(raw) ELSE b64
resolveInputBytes(raw, b64) == IF b64 # "empty" THEN b64 ELSE Unquoted(raw)

defaultStr(s, def) == IF s = "" THEN def ELSE s

toProposedEvents(objects) ==
  [i \in DOMAIN objects |->
     [id |-> objects[i].id,
      data |-> resolveInputBytes(objects[i].data, objects[i].b64),
      type |-> defaultStr(objects[i].type, DefaultType)]]

Init ==
  /\ stream \in UNION {[1..n -> Events] : n \in 0..MaxEvents}
  /\ \A i, j \in DOMAIN stream : i # j => stream[i].id # stream[j].id
  /\ plan \in [bytes : Modes, layout : Layouts, edit : Edits]
  /\ pipe = <<>> /\ writer = "writing"
  /\ proposed = <<>> /\ outcome = "running"

\* The next event is printed, and filtered.
Write ==
  /\ writer = "writing" /\ Len(pipe) < Len(stream)
  /\ pipe' = Append(pipe, Filter(Printed(stream[Len(pipe) + 1], plan.bytes), plan.edit))
  /\ UNCHANGED <<stream, plan, writer, proposed, outcome>>

WriteEnds ==
  /\ writer = "writing" /\ Len(pipe) = Len(stream)
  /\ writer' = "done"
  /\ UNCHANGED <<stream, plan, pipe, proposed, outcome>>

\* The writer is killed between two objects or within one.
WriterKilled ==
  /\ writer = "writing" /\ Len(pipe) < Len(stream)
  /\ writer' \in {"killed between", "killed within"}
  /\ UNCHANGED <<stream, plan, pipe, proposed, outcome>>

\* An array parses when it is complete, and lines when the last one is, with at
\* least one of them.
WellFormed ==
  IF plan.layout = "array" THEN writer = "done"
  ELSE pipe # <<>> /\ writer # "killed within"

\* The appender has read all of its input.
ReadProposedEvents ==
  /\ outcome = "running" /\ writer # "writing"
  /\ IF WellFormed
     THEN proposed' = toProposedEvents(pipe) /\ outcome' = "sent"
     ELSE outcome' = "usage error" /\ UNCHANGED proposed
  /\ UNCHANGED <<stream, plan, pipe, writer>>

Stopped == outcome # "running" /\ UNCHANGED vars

Next == Write \/ WriteEnds \/ WriterKilled \/ ReadProposedEvents \/ Stopped

Spec == Init /\ [][Next]_vars
-----------------------------------------------------------------------------
\* The payload that the i-th event must have at the end of the pipe: its own
\* bytes, unless the filter has set a new value and left no base64 form, which
\* takes precedence.
Intended(i) ==
  IF plan.edit = "replace" \/ (plan.edit = "set" /\ stream[i].data = "empty")
  THEN "{}" ELSE stream[i].data

\* What streams append sends is what streams read has read, byte for byte, with
\* ids and content types, whatever the payloads are and in both modes of --bytes:
\* only an empty content type becomes JSON.  It sends all of it or nothing, even
\* when the writer is killed; only whole lines can be taken for a shorter input.
PipeFaithful ==
  outcome = "sent" =>
    /\ \A i \in DOMAIN proposed :
         /\ proposed[i].id = stream[i].id
         /\ proposed[i].data = Intended(i)
         /\ proposed[i].type \in {stream[i].type, DefaultType}
         /\ stream[i].type # "" => proposed[i].type = stream[i].type
    /\ \/ Len(proposed) = Len(stream)
       \/ plan.layout = "lines" /\ writer = "killed between"
=============================================================================
