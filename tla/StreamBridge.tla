---------------------------- MODULE StreamBridge ----------------------------
(***************************************************************************)
(* The bridge between a gRPC server stream and a pair of Go channels that  *)
(* streams.Watch, subscriptions.Subscribe and stores.Watch all use: a      *)
(* goroutine opens the stream, receives, hands each value over an          *)
(* unbuffered channel while watching ctx.Done(), leaves at most one error  *)
(* in a one-slot channel, and closes the error channel and then the value  *)
(* channel (deferred closes run last-in first-out).                        *)
(*                                                                         *)
(* The caller ranges over the values and then reads the error channel once;*)
(* it may be arbitrarily slow, stop reading altogether, or cancel and skip *)
(* to the error channel, as the demos do.  The gRPC stream (server, flow-  *)
(* control window, cancellation) is external: values wait on `wire' in the *)
(* order the server sent them; a broken transport loses a suffix of them.  *)
(***************************************************************************)
EXTENDS Naturals, Sequences

CONSTANTS
  Window,   \* how many values gRPC flow control lets wait for the client
  MaxSent   \* bound of the model: how many values the server may send

ASSUME WindowAssumption == Window \in Nat \ {0}
ASSUME MaxSentAssumption == MaxSent \in Nat

Stops == {"canceled", "deadline"}
Verdicts == {"nil", "status"} \cup Stops
PCs == {"open", "recv", "send", "report", "closeErrs", "closeEvents", "done"}
NoMsg == 0

VARIABLES
  ctx,           \* the caller's context: "live" or why it is done
  srv,           \* the server's end: "idle", "streaming", "eof", "failed"
  sent,          \* how many values the server has sent
  wire,          \* values sent and not received, oldest first
  pc,            \* where the goroutine is
  recvd,         \* how many values Recv has returned to it
  hand,          \* the value it is handing over, NoMsg when none
  err,           \* how its loop ended: "none" while it runs
  errBuf,        \* the slot of the error channel, "none" when empty
  errsClosed,
  eventsClosed,
  reader,        \* the caller: "ranging", "awaiting" the error, "finished"
  delivered,     \* history: the values the caller has received
  verdict        \* what the caller read from the error channel

srvVars == <<srv, sent, wire>>
routineVars == <<pc, recvd, hand, err, errsClosed, eventsClosed>>
callerVars == <<reader, delivered, verdict>>
vars == <<ctx, srvVars, routineVars, errBuf, callerVars>>

TypeOK ==
  /\ ctx \in {"live"} \cup Stops
  /\ srv \in {"idle", "streaming", "eof", "failed"}
  /\ sent \in Nat
  /\ wire \in Seq(Nat) /\ Len(wire) <= Window
  /\ pc \in PCs
  /\ recvd \in Nat
  /\ hand \in Nat
  /\ err \in {"none"} \cup Verdicts
  /\ errBuf \in {"none", "status"} \cup Stops
  /\ errsClosed \in BOOLEAN
  /\ eventsClosed \in BOOLEAN
  /\ reader \in {"ranging", "awaiting", "finished"}
  /\ delivered \in Seq(Nat)
  /\ verdict \in {"none"} \cup Verdicts

Init ==
  /\ ctx = "live"
  /\ srv = "idle" /\ sent = 0 /\ wire = <<>>
  /\ pc = "open" /\ recvd = 0 /\ hand = NoMsg /\ err = "none"
  /\ errBuf = "none" /\ errsClosed = FALSE /\ eventsClosed = FALSE
  /\ reader = "ranging" /\ delivered = <<>> /\ verdict = "none"
-----------------------------------------------------------------------------
(* The caller's context and the server, both outside the goroutine.        *)

Cancel ==
  /\ ctx = "live"
  /\ ctx' \in Stops
  /\ UNCHANGED <<srvVars, routineVars, errBuf, callerVars>>

\* Nothing more is sent once the client has reset the stream.
SrvSend ==
  /\ srv = "streaming" /\ ctx = "live"
  /\ sent < MaxSent /\ Len(wire) < Window
  /\ sent' = sent + 1
  /\ wire' = Append(wire, sent + 1)
  /\ UNCHANGED <<ctx, srv, routineVars, errBuf, callerVars>>

SrvEnd ==
  /\ srv = "streaming"
  /\ srv' = "eof"
  /\ UNCHANGED <<ctx, sent, wire, routineVars, errBuf, callerVars>>

\* An error status keeps what was sent before it; a broken connection also
\* loses the values that had not reached the client.
SrvFail ==
  /\ srv = "streaming"
  /\ srv' = "failed"
  /\ \E k \in 0..Len(wire) : wire' = SubSeq(wire, 1, k)
  /\ UNCHANGED <<ctx, sent, routineVars, errBuf, callerVars>>
-----------------------------------------------------------------------------
(* The goroutine.                                                          *)

OpenOk ==
  /\ pc = "open" /\ ctx = "live"
  /\ pc' = "recv"
  /\ srv' = "streaming"
  /\ UNCHANGED <<ctx, sent, wire, recvd, hand, err, errsClosed, eventsClosed,
                 errBuf, callerVars>>

\* The loop is left with error e, which the goroutine then reports.
LeaveWith(e) ==
  /\ err' = e
  /\ pc' = "report"
  /\ hand' = NoMsg
  /\ UNCHANGED <<recvd, errsClosed, eventsClosed>>

OpenFail ==
  /\ pc = "open"
  /\ LeaveWith(IF ctx = "live" THEN "status" ELSE ctx)
  /\ srv' = "failed"
  /\ UNCHANGED <<ctx, sent, wire, errBuf, callerVars>>

\* Values already received by the transport may still come out after the
\* context is done.
RecvMsg ==
  /\ pc = "recv" /\ wire # <<>>
  /\ hand' = Head(wire)
  /\ wire' = Tail(wire)
  /\ recvd' = recvd + 1
  /\ pc' = "send"
  /\ UNCHANGED <<ctx, srv, sent, err, errsClosed, eventsClosed, errBuf,
                 callerVars>>

\* Mutant: no case for io.EOF, which is then reported as an error.
RecvEofReported ==
  /\ pc = "recv" /\ wire = <<>> /\ srv = "eof"
  /\ LeaveWith("nil")
  /\ UNCHANGED <<ctx, srvVars, errBuf, callerVars>>

\* Mutant: every error of Recv ends the loop as io.EOF does.
RecvEofOnAnyError ==
  /\ pc = "recv" /\ wire = <<>> /\ srv \in {"eof", "failed"}
  /\ err' = "nil"
  /\ pc' = "closeErrs"
  /\ UNCHANGED <<ctx, srvVars, recvd, hand, errsClosed, eventsClosed, errBuf,
                 callerVars>>

RecvEof ==
  /\ pc = "recv" /\ wire = <<>> /\ srv = "eof"
  /\ err' = "nil"
  /\ pc' = "closeErrs"
  /\ UNCHANGED <<ctx, srvVars, recvd, hand, errsClosed, eventsClosed, errBuf,
                 callerVars>>

RecvErr ==
  /\ pc = "recv"
  /\ \/ wire = <<>> /\ srv = "failed" /\ LeaveWith("status")
     \/ ctx # "live" /\ LeaveWith(ctx)
  /\ UNCHANGED <<ctx, srvVars, errBuf, callerVars>>

\* Mutant: a break that leaves the select and not the loop.
SendAbortedKeepsLooping ==
  /\ pc = "send" /\ ctx # "live"
  /\ hand' = NoMsg
  /\ pc' = "recv"
  /\ UNCHANGED <<ctx, srvVars, recvd, err, errsClosed, eventsClosed, errBuf,
                 callerVars>>

\* Mutant: a default case, so that a busy caller misses the value.
SendDroppedWhenBusy ==
  /\ pc = "send"
  /\ hand' = NoMsg
  /\ pc' = "recv"
  /\ UNCHANGED <<ctx, srvVars, recvd, err, errsClosed, eventsClosed, errBuf,
                 callerVars>>

\* Mutant: context.Canceled reported where ctx.Err() is meant.
SendAbortedAsCanceled ==
  /\ pc = "send" /\ ctx # "live"
  /\ LeaveWith("canceled")
  /\ UNCHANGED <<ctx, srvVars, errBuf, callerVars>>

\* Mutant: the hand-over does not watch ctx.Done().
SendNeverAborted == FALSE /\ UNCHANGED vars

\* select: case <-ctx.Done().  The value in hand is dropped.
SendAborted ==
  /\ pc = "send" /\ ctx # "live"
  /\ LeaveWith(ctx)
  /\ UNCHANGED <<ctx, srvVars, errBuf, callerVars>>

\* errs <- err: blocks while the slot is taken.
Report ==
  /\ pc = "report" /\ errBuf = "none"
  /\ errBuf' = err
  /\ pc' = "closeErrs"
  /\ UNCHANGED <<ctx, srvVars, recvd, hand, err, errsClosed, eventsClosed,
                 callerVars>>

\* Mutant: the error channel is not closed.
CloseErrsForgotten ==
  /\ pc = "closeErrs"
  /\ pc' = "closeEvents"
  /\ UNCHANGED <<ctx, srvVars, recvd, hand, err, errsClosed, eventsClosed,
                 errBuf, callerVars>>

CloseErrs ==
  /\ pc = "closeErrs"
  /\ errsClosed' = TRUE
  /\ pc' = "closeEvents"
  /\ UNCHANGED <<ctx, srvVars, recvd, hand, err, eventsClosed, errBuf,
                 callerVars>>

\* Mutant: the value channel is not closed.
CloseEventsForgotten ==
  /\ pc = "closeEvents"
  /\ pc' = "done"
  /\ UNCHANGED <<ctx, srvVars, recvd, hand, err, errsClosed, eventsClosed,
                 errBuf, callerVars>>

CloseEvents ==
  /\ pc = "closeEvents"
  /\ eventsClosed' = TRUE
  /\ pc' = "done"
  /\ UNCHANGED <<ctx, srvVars, recvd, hand, err, errsClosed, errBuf,
                 callerVars>>
-----------------------------------------------------------------------------
(* The caller.                                                             *)

\* The rendezvous on the unbuffered channel: both sides move.
HandOver ==
  /\ pc = "send" /\ reader = "ranging"
  /\ delivered' = Append(delivered, hand)
  /\ pc' = "recv"
  /\ hand' = NoMsg
  /\ UNCHANGED <<ctx, srvVars, recvd, err, errsClosed, eventsClosed, errBuf,
                 reader, verdict>>

RangeEnds ==
  /\ reader = "ranging" /\ eventsClosed
  /\ reader' = "awaiting"
  /\ UNCHANGED <<ctx, srvVars, routineVars, errBuf, delivered, verdict>>

\* Cancel, leave the loop early, and go and drain the error channel.
Abandon ==
  /\ reader = "ranging" /\ ctx # "live"
  /\ reader' = "awaiting"
  /\ UNCHANGED <<ctx, srvVars, routineVars, errBuf, delivered, verdict>>

\* <-errs: the buffered error, or nil once the channel is closed and empty.
TakeVerdict ==
  /\ reader = "awaiting"
  /\ errBuf # "none" \/ errsClosed
  /\ verdict' = IF errBuf # "none" THEN errBuf ELSE "nil"
  /\ errBuf' = "none"
  /\ reader' = "finished"
  /\ UNCHANGED <<ctx, srvVars, routineVars, delivered>>
-----------------------------------------------------------------------------
Server == SrvSend \/ SrvEnd \/ SrvFail

\* What the goroutine does without the caller's help.
Routine ==
  \/ OpenOk \/ OpenFail \/ RecvMsg \/ RecvEof \/ RecvErr \/ SendAborted
  \/ Report \/ CloseErrs \/ CloseEvents

Caller == HandOver \/ RangeEnds \/ Abandon \/ TakeVerdict

\* The only way to stop for good: nothing is left blocked or unread.
Terminated ==
  /\ pc = "done" /\ reader = "finished" /\ ctx # "live"
  /\ UNCHANGED vars

Next == Cancel \/ Server \/ Routine \/ Caller \/ Terminated

Spec == Init /\ [][Next]_vars

\* The Go scheduler runs a ready goroutine; the caller and the server owe
\* nothing.
RoutineFairSpec == Spec /\ WF_vars(Routine)

\* A caller that keeps draining, as pump does.
CallerDrains == WF_vars(HandOver \/ RangeEnds \/ TakeVerdict)
-----------------------------------------------------------------------------
(* Safety.                                                                 *)

\* The caller receives the server's values in order, none skipped, none
\* twice, whatever breaks or is cancelled on the way.
InOrderNoGaps == \A i \in 1..Len(delivered) : delivered[i] = i

\* A nil verdict means the server finished and the caller has everything it
\* sent: neither a cancellation nor a broken connection can look like it.
NilMeansComplete ==
  verdict = "nil" => srv = "eof" /\ Len(delivered) = sent

\* An error verdict names what really happened: a status only when the
\* stream failed, a context error only when that is the context's.
VerdictTruthful ==
  /\ verdict = "status" => srv = "failed"
  /\ verdict \in Stops => ctx = verdict

\* Backpressure and loss: at any time at most one value has left the wire
\* without reaching the caller, and it is lost only if the context is done.
LosesAtMostOne ==
  /\ recvd <= Len(delivered) + 1
  /\ ctx = "live" /\ hand = NoMsg => recvd = Len(delivered)

\* A caller whose range has ended reads the error channel without waiting,
\* and no verdict is overwritten or lost: the slot is free for the only
\* report, and stays full until read.
VerdictReady ==
  /\ eventsClosed => errsClosed
  /\ pc = "report" => errBuf = "none" /\ verdict = "none"
  /\ eventsClosed /\ verdict = "none" => errBuf = "none" <=> err = "nil"

-----------------------------------------------------------------------------
(* Liveness.                                                               *)

\* A done context frees the goroutine, even if the caller never reads again.
CancelStopsRoutine == (ctx # "live") ~> (pc = "done")

\* A caller that keeps draining learns how the stream ended.
DrainingCallerFinishes ==
  CallerDrains =>
    ((srv \in {"eof", "failed"} \/ ctx # "live") ~> (reader = "finished"))
-----------------------------------------------------------------------------
(* Refinement of the channel-pair promise.                                 *)

Fate ==
  CASE srv = "eof" -> "ended" [] srv = "failed" -> "broken" [] OTHER -> "open"

Promise == INSTANCE FifoHandoff WITH fate <- Fate, stop <- ctx

\* Every step of the goroutine, the server and the caller is a step of the
\* promise or leaves it alone.
KeepsPromise == Promise!Spec
=============================================================================
