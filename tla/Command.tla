------------------------------ MODULE Command ------------------------------
(***************************************************************************)
(* One run of the program `reckon': global flags, routing, the checks of a *)
(* handler, its input on stdin, the lazy dial, one unary call under a      *)
(* deadline or one stream through the pump, and what is left behind:       *)
(* stdout, stderr, the exit status, and the effect on the server.          *)
(*                                                                         *)
(* Handlers gives each command its shape (CommandTable holds the table of  *)
(* route.go).  Flags and arguments are abstracted to the mistakes in them. *)
(* An exit status is named by the code of the error object, "ok" for 0:    *)
(* the two correspond one to one.                                          *)
(*                                                                         *)
(* External: the gateway, which refuses connections or serves, and which   *)
(* executes a request, refuses it, or answers that something failed; the   *)
(* clock; and whoever holds stdin, stdout and the signals.  stderr can     *)
(* always be written.                                                      *)
(***************************************************************************)
EXTENDS Naturals, FiniteSets

CONSTANTS
  Handlers,     \* the commands, each with its shape
  MaxMistakes   \* bound of the model: mistakes on one command line

Checks == {"flags", "arity", "value"}
Shape ==
  [store   : BOOLEAN,        \* calls requireStore
   checks  : SUBSET Checks,  \* what it refuses before it dials
   late    : BOOLEAN,        \* it has a subcommand, looked at after the dial
   stdin   : {"none", "input", "acks"},
   streams : BOOLEAN]        \* ends in pump, not in writeJSON

ASSUME HandlersAssumption == Handlers \in [DOMAIN Handlers -> Shape]
ASSUME MistakesAssumption == MaxMistakes \in Nat

VARIABLES
  asked, wrong, version,   \* the command line: command, mistakes, --version
  gateway,                 \* "serving" or "refusing" connections
  pc, exit, stdout, stderr,
  signalled, stdin, disk,  \* what the surroundings did so far; stdin is "left"
                           \* once the reader of acks has given it up
  deadline,                \* of the unary call: "off", "running", "expired"
  request, reply           \* of the call: at the server, and back here

line == <<asked, wrong, version, gateway>>
out == <<exit, stdout, stderr>>
around == <<signalled, stdin, disk>>
rpc == <<request, reply>>
vars == <<line, pc, out, around, deadline, rpc>>

Handler == Handlers[asked]
Unary == ~Handler.streams
Stopped == pc \in {"done", "killed"}
Cancelled == signalled \/ stdin = "left"
LastFrames == {"eof", "client_eof", "error"}

\* The mistakes a command line for a handler of shape h can hold.
Mistakes(h) ==
  {"global", "route", "ca", "target"} \cup h.checks
    \cup (IF h.store THEN {"store"} ELSE {})
    \cup (IF h.late THEN {"link"} ELSE {})
    \cup (IF h.stdin = "input" THEN {"input"} ELSE {})

Refusals == {"NotFound", "InvalidArgument", "FailedPrecondition", "AlreadyExists"}
Failures == {"Unavailable", "DeadlineExceeded", "Canceled", "Internal"}
Statuses == Refusals \cup Failures
RefusalCodes == {"not_found", "invalid_argument", "precondition", "already_exists"}
Codes ==
  RefusalCodes \cup {"usage", "unreachable", "unavailable", "timeout", "internal"}

\* Mutant: a cancellation is given a code of its own.
CodeOfNamingCanceled(status) ==
  IF status = "Canceled" THEN "canceled" ELSE "internal"

CodeOf(status) ==
  CASE status = "NotFound" -> "not_found"
    [] status = "Unavailable" -> "unavailable"
    [] status = "DeadlineExceeded" -> "timeout"
    [] status = "InvalidArgument" -> "invalid_argument"
    [] status = "FailedPrecondition" -> "precondition"
    [] status = "AlreadyExists" -> "already_exists"
    [] OTHER -> "internal"

TypeOK ==
  /\ asked \in DOMAIN Handlers
  /\ wrong \subseteq Mistakes(Handler) /\ version \in BOOLEAN
  /\ gateway \in {"serving", "refusing"}
  /\ pc \in {"parse", "route", "validate", "read", "dial", "call", "wait",
             "print", "ready", "stream", "done", "killed"} \cup LastFrames
  /\ exit \in Codes \cup {"none", "ok"}
  /\ stdout \in {"nothing", "partial", "value", "frames"} \cup LastFrames
  /\ stderr \in {"nothing", "error"}
  /\ signalled \in BOOLEAN
  /\ stdin \in {"open", "ended", "left"} /\ disk \in {"room", "full"}
  /\ deadline \in {"off", "running", "expired"}
  /\ request \in {"unsent", "sent", "executed", "refused"}
  /\ reply \in Statuses \cup {"none", "OK"}

Init ==
  /\ asked \in DOMAIN Handlers
  /\ wrong \in SUBSET Mistakes(Handler) /\ Cardinality(wrong) <= MaxMistakes
  /\ version \in BOOLEAN
  /\ gateway \in {"serving", "refusing"}
  /\ pc = "parse" /\ exit = "none"
  /\ stdout = "nothing" /\ stderr = "nothing"
  /\ signalled = FALSE /\ stdin = "open" /\ disk = "room"
  /\ deadline = "off" /\ request = "unsent" /\ reply = "none"

-----------------------------------------------------------------------------
(* The process.  An error ends the run: one object on stderr, its code as  *)
(* the exit status.                                                        *)

Fail(code) ==
  /\ pc' = "done" /\ exit' = code /\ stderr' = "error"
  /\ UNCHANGED <<line, around, rpc, deadline>>
FailSilently(code) == Fail(code) /\ UNCHANGED stdout

Go(next) == pc' = next /\ UNCHANGED <<line, out, around, rpc>>

ParseGlobal ==
  /\ pc = "parse"
  /\ \/ "global" \in wrong /\ FailSilently("usage")
     \/ "global" \notin wrong /\ Go("route") /\ UNCHANGED deadline

\* The error of this write is discarded.
ShowVersion ==
  /\ pc = "route" /\ version
  /\ pc' = "done" /\ exit' = "ok"
  /\ stdout' = IF disk = "room" THEN "value" ELSE "partial"
  /\ UNCHANGED <<line, stderr, around, deadline, rpc>>

Route ==
  /\ pc = "route" /\ ~version
  /\ \/ "route" \in wrong /\ FailSilently("usage")
     \/ "route" \notin wrong /\ Go("validate") /\ UNCHANGED deadline

\* requireStore, then flags, positional arguments and their values.
Validate ==
  /\ pc = "validate"
  /\ LET found == wrong \cap ({"store"} \cup Handler.checks)
     IN \/ found # {} /\ FailSilently("usage")
        \/ /\ found = {}
           /\ Go(IF Handler.stdin = "input" THEN "read" ELSE "dial")
           /\ UNCHANGED deadline

\* io.ReadAll: nothing but the end of stdin (or an error of it) lets it return.
ReadInput ==
  /\ pc = "read" /\ stdin = "ended"
  /\ \/ "input" \in wrong /\ FailSilently("usage")
     \/ "input" \notin wrong /\ Go("dial") /\ UNCHANGED deadline

\* A bad --ca, or a target grpc.NewClient cannot make a client for.
DialFails ==
  /\ pc = "dial"
  /\ \/ "ca" \in wrong /\ FailSilently("usage")
     \/ "ca" \notin wrong /\ "target" \in wrong /\ FailSilently("unreachable")

\* Mutant: the call runs under the context of the process, not under rpcCtx.
DialWithoutDeadline ==
  /\ pc = "dial" /\ wrong \cap {"ca", "target"} = {}
  /\ Go(IF Unary THEN "call" ELSE "ready") /\ UNCHANGED deadline

\* No connection is made yet; the deadline of a unary call starts to run.
Dial ==
  /\ pc = "dial" /\ wrong \cap {"ca", "target"} = {}
  /\ Go(IF Unary THEN "call" ELSE "ready")
  /\ deadline' = IF Unary THEN "running" ELSE "off"

\* admin links looks at its subcommand only here.
SubUsage == pc = "call" /\ "link" \in wrong /\ FailSilently("usage")

Send ==
  /\ pc = "call" /\ "link" \notin wrong
  /\ gateway = "serving" /\ ~signalled /\ deadline # "expired"
  /\ pc' = "wait" /\ request' = "sent"
  /\ UNCHANGED <<line, out, around, deadline, reply>>

ConnectionRefused ==
  /\ pc = "call" /\ "link" \notin wrong /\ gateway = "refusing"
  /\ FailSilently(CodeOf("Unavailable"))

\* Mutant: a cancelled call is a clean stop, as it is in pump.
AbortCleanly ==
  /\ pc = "wait" /\ signalled
  /\ pc' = "done" /\ exit' = "ok"
  /\ UNCHANGED <<line, stdout, stderr, around, deadline, rpc>>

\* The context of the call is done before, or while, the request is out.
Abort ==
  /\ pc = "wait" \/ (pc = "call" /\ "link" \notin wrong)
  /\ \/ signalled /\ FailSilently(CodeOf("Canceled"))
     \/ deadline = "expired" /\ FailSilently(CodeOf("DeadlineExceeded"))

Return ==
  /\ pc = "wait"
  /\ \/ reply = "OK" /\ Go("print") /\ UNCHANGED deadline
     \/ reply \in Statuses /\ FailSilently(CodeOf(reply))

\* Mutant: the error of writeJSON is discarded.
WriteRegardless ==
  /\ pc = "print"
  /\ pc' = "done" /\ exit' = "ok"
  /\ stdout' = IF disk = "room" THEN "value" ELSE "partial"
  /\ UNCHANGED <<line, stderr, around, deadline, rpc>>

WriteResult ==
  /\ pc = "print"
  /\ \/ /\ disk = "room"
        /\ pc' = "done" /\ exit' = "ok" /\ stdout' = "value"
        /\ UNCHANGED <<line, stderr, around, deadline, rpc>>
     \/ disk = "full" /\ stdout' = "partial" /\ Fail("internal")

\* A frame of pump: when it cannot be written nobody hears of it.
Framed(frame) == IF disk = "room" THEN frame ELSE "partial"

Ready ==
  /\ pc = "ready"
  /\ pc' = "stream" /\ stdout' = Framed("frames")
  /\ UNCHANGED <<line, exit, stderr, around, deadline, rpc>>

Verdicts ==
  (IF reply = "none" THEN {} ELSE {reply})
    \cup (IF gateway = "refusing" THEN {"Unavailable"} ELSE {})
    \cup (IF Cancelled THEN {"Canceled"} ELSE {})

\* The range over the values ends, behind the frames of them all, and pump
\* reads the error channel: what it finds calls for one of the last frames.
ReadVerdict ==
  /\ pc = "stream"
  /\ \E verdict \in Verdicts :
       /\ reply' = verdict
       /\ pc' = IF verdict = "OK" THEN "eof"
                ELSE IF verdict = "Canceled" \/ Cancelled THEN "client_eof"
                ELSE "error"
  /\ UNCHANGED <<line, out, around, deadline, request>>

\* The last frame is written, and its verdict returned.
StreamEnds ==
  /\ pc \in LastFrames
  /\ stdout' = Framed(pc)
  /\ \/ pc = "error" /\ Fail(CodeOf(reply))
     \/ /\ pc # "error" /\ pc' = "done" /\ exit' = "ok"
        /\ UNCHANGED <<line, stderr, around, deadline, rpc>>

\* consumeStdinAcks cancels the stream at the end of stdin or at a line too
\* long for its scanner, when the Ack it may be in has returned.
AckerEnds ==
  /\ Handler.stdin = "acks" /\ pc \in {"ready", "stream"} \cup LastFrames
  /\ stdin # "left" /\ stdin' = "left"
  /\ UNCHANGED <<line, pc, out, signalled, disk, deadline, rpc>>

-----------------------------------------------------------------------------
(* The surroundings, at any time.                                          *)

\* NotifyContext turns SIGINT and SIGTERM into the end of the context.
Signal ==
  /\ ~Stopped /\ ~signalled /\ signalled' = TRUE
  /\ UNCHANGED <<line, pc, out, stdin, disk, deadline, rpc>>

StdinEnds ==
  /\ ~Stopped /\ stdin = "open" /\ stdin' = "ended"
  /\ UNCHANGED <<line, pc, out, signalled, disk, deadline, rpc>>

DiskFills ==
  /\ ~Stopped /\ disk = "room" /\ disk' = "full"
  /\ UNCHANGED <<line, pc, out, signalled, stdin, deadline, rpc>>

\* SIGKILL, or SIGPIPE because the reader of stdout is gone.
Kill ==
  /\ ~Stopped /\ pc' = "killed"
  /\ UNCHANGED <<line, out, around, deadline, rpc>>

Expire ==
  /\ ~Stopped /\ deadline = "running" /\ deadline' = "expired"
  /\ UNCHANGED <<line, pc, out, around, rpc>>

\* The server gets to the request, perhaps when the process is long gone.
Execute ==
  /\ request = "sent" /\ request' = "executed"
  /\ UNCHANGED <<line, pc, out, around, deadline, reply>>

\* What it answers when it has executed it: that, or a failure to say so.
Answer ==
  /\ request = "executed" /\ reply = "none"
  /\ reply' \in {"OK"} \cup Failures
  /\ UNCHANGED <<line, pc, out, around, deadline, request>>

Refuse ==
  /\ request = "sent" /\ reply = "none"
  /\ request' = "refused" /\ reply' \in Statuses
  /\ UNCHANGED <<line, pc, out, around, deadline>>

\* The connection breaks; the request may have arrived.
ConnectionLost ==
  /\ request \in {"sent", "executed"} /\ reply = "none"
  /\ reply' = "Unavailable"
  /\ UNCHANGED <<line, pc, out, around, deadline, request>>

EndStream ==
  /\ pc = "stream" /\ gateway = "serving" /\ reply = "none"
  /\ reply' \in {"OK"} \cup Statuses
  /\ UNCHANGED <<line, pc, out, around, deadline, request>>

-----------------------------------------------------------------------------
Works ==
  \/ ParseGlobal \/ Route \/ Validate \/ ReadInput
  \/ DialFails \/ Dial \/ SubUsage \/ Send \/ ConnectionRefused
  \/ Abort \/ Return
\* The steps that get on only when a write to stdout returns.
Writes == ShowVersion \/ WriteResult \/ Ready \/ ReadVerdict \/ StreamEnds
Process == Works \/ Writes \/ AckerEnds
Surroundings ==
  \/ Signal \/ StdinEnds \/ DiskFills \/ Kill \/ Expire
  \/ Execute \/ Answer \/ Refuse \/ ConnectionLost \/ EndStream
Next == Process \/ Surroundings

Spec == Init /\ [][Next]_vars
\* The process works when it can, and time passes.  The gateway owes nothing,
\* not even the return of an Ack, and nobody need read stdout.
FairSpec == Spec /\ WF_vars(Works) /\ WF_vars(Expire)

\* A stdout on which each write returns, with or without an error.
StdoutRead == WF_vars(Writes)

-----------------------------------------------------------------------------
(* A script can tell from the exit status what became of its call: "ok"    *)
(* means executed, "usage" and "unreachable" that nothing was ever sent,   *)
(* and the four refusals that it was not and will not be executed.  Only   *)
(* "unavailable", "timeout" and "internal" leave it open (main.go run,     *)
(* output.go fromGRPC, and the return paths of every handler).             *)
ExitTellsEffect ==
  /\ exit = "ok" /\ Unary /\ ~version => request = "executed"
  /\ exit \in {"usage", "unreachable"} => request = "unsent"
  /\ Unary /\ exit \in RefusalCodes => request = "refused"

(* What reaches stdout, stderr and the exit status agree: one value of a   *)
(* unary command and nothing on stderr with "ok", an error object and no   *)
(* whole value otherwise, however late stdout fails; a stream whose frames *)
(* could be written ends in a terminal frame that says what the exit       *)
(* status says (DESIGN 2.2 and 5; writeJSON, emitErr, pump).               *)
OutputDiscipline ==
  pc = "done" =>
    /\ (exit = "ok") <=> (stderr = "nothing")
    /\ Unary /\ ~version => ((exit = "ok") <=> (stdout = "value"))
    /\ disk = "room" /\ stdout \in {"eof", "client_eof"} => exit = "ok"
    /\ disk = "room" /\ stdout = "error" => exit # "ok"
    /\ disk = "room" => stdout # "frames"

(* On a stdout that is read, a run whose input has ended stops by itself:  *)
(* a unary one even if the gateway never answers, one that streams when    *)
(* its context is cancelled, by a signal or by the end of the acker, which *)
(* itself may be kept by an Ack without an answer (rpcCtx, NotifyContext,  *)
(* pump, consumeStdinAcks).                                                *)
InputOver == Handler.stdin # "input" \/ stdin = "ended"
RunEnds == StdoutRead => ((InputOver /\ (Unary \/ Cancelled)) ~> Stopped)

(* The design's account of signals: a signal ends the run.                 *)
SignalEnds == StdoutRead => (signalled ~> Stopped)
=============================================================================
