------------------------------- MODULE EventLog -------------------------------
(***************************************************************************)
(* What optimistic concurrency promises on one stream: reading a stream    *)
(* and appending at the version read look like one atomic step.  A stream  *)
(* may be deleted; a batch decided on in an earlier life of the stream is  *)
(* outside of the promise, since versions start again.                     *)
(***************************************************************************)
EXTENDS Integers, Sequences

CONSTANTS Entries, IdOf(_)

VARIABLES stream, life

vars == <<stream, life>>

Ids(s) == [i \in 1..Len(s) |-> IdOf(s[i])]

Init == stream = <<>> /\ life = 0

\* The stream grows.  What was decided on in this life, after a read of the
\* stream, was decided on exactly the stream it is appended to.
Write ==
  /\ Len(stream') >= Len(stream)
  /\ \A i \in 1..Len(stream) : stream'[i] = stream[i]
  /\ \A i \in (Len(stream) + 1)..Len(stream') :
       /\ stream'[i] \in Entries
       /\ stream'[i].exact /\ stream'[i].sawLife = life => stream'[i].saw = Ids(stream)
  /\ UNCHANGED life

Delete ==
  /\ stream' = <<>>
  /\ life' = life + 1

Next == Write \/ Delete

Spec == Init /\ [][Next]_vars
=============================================================================
