---------------------------- MODULE FifoHandoff ----------------------------
(***************************************************************************)
(* What the channel pair returned by streams.Watch, subscriptions.Subscribe*)
(* and stores.Watch promises its caller, without goroutines, buffers or    *)
(* channel closes: values arrive in the order the server sent them, none   *)
(* skipped and none repeated, and the one verdict that follows them tells  *)
(* the truth about how the stream ended.                                   *)
(*                                                                         *)
(* A value is named by its position in the server's send order.            *)
(***************************************************************************)
EXTENDS Naturals, Sequences

Stops == {"canceled", "deadline"}          \* the two values of ctx.Err()
Verdicts == {"nil", "status"} \cup Stops   \* what the error channel can say

VARIABLES
  sent,       \* how many values the server has sent
  fate,       \* "open", "ended" (status OK) or "broken" (any other status)
  stop,       \* "live", or the reason the caller's context is done
  delivered,  \* the values the caller has received, in order
  verdict     \* "none" until the caller has read the error channel

vars == <<sent, fate, stop, delivered, verdict>>

TypeOK ==
  /\ sent \in Nat
  /\ fate \in {"open", "ended", "broken"}
  /\ stop \in {"live"} \cup Stops
  /\ delivered \in Seq(Nat)
  /\ verdict \in {"none"} \cup Verdicts

Init ==
  /\ sent = 0
  /\ fate = "open"
  /\ stop = "live"
  /\ delivered = <<>>
  /\ verdict = "none"

Emit ==
  /\ fate = "open"
  /\ sent' = sent + 1
  /\ UNCHANGED <<fate, stop, delivered, verdict>>

Finish ==
  /\ fate = "open"
  /\ fate' \in {"ended", "broken"}
  /\ UNCHANGED <<sent, stop, delivered, verdict>>

Stop ==
  /\ stop = "live"
  /\ stop' \in Stops
  /\ UNCHANGED <<sent, fate, delivered, verdict>>

\* The caller may stop its context in the same breath as it leaves the loop;
\* only a value not handed over yet can be the next one handed over.
HandOver ==
  /\ verdict = "none"
  /\ Len(delivered) < sent
  /\ delivered' = Append(delivered, Len(delivered) + 1)
  /\ UNCHANGED <<sent, fate, stop, verdict>>

\* "nil" is the strong promise: the server finished, and the caller has all.
MayConclude(v) ==
  \/ v = "nil" /\ fate = "ended" /\ Len(delivered) = sent
  \/ v = "status" /\ fate = "broken"
  \/ v \in Stops /\ stop = v

Conclude ==
  /\ verdict = "none"
  /\ \E v \in Verdicts : MayConclude(v) /\ verdict' = v
  /\ UNCHANGED <<sent, fate, stop, delivered>>

Next == Emit \/ Finish \/ Stop \/ HandOver \/ Conclude

Spec == Init /\ [][Next]_vars
=============================================================================
