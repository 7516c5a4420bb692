---------------------------- MODULE SubsConsume ----------------------------
(***************************************************************************)
(* `reckon subs consume': Client.Subscribe's bridge (StreamBridge), the    *)
(* pump that turns its channels into NDJSON frames on stdout, the acks in  *)
(* the modes auto and stdin, and the restarts of the process against the   *)
(* checkpoint the server keeps.                                            *)
(*                                                                         *)
(* External: the server, which starts a session behind the stored          *)
(* checkpoint and moves it forward to an acked number; and the plugin,     *)
(* which in mode stdin reads the frames in order, handles them durably and *)
(* acks what it has handled.  An event is named by its number, counted     *)
(* from 1; a delivery's checkpoint is that number (as in the tests of      *)
(* subscriptions).  The i-th value of a session is event base + i.         *)
(* Each process has a stdout of its own: a pipe, whose writer waits while  *)
(* it is full, or a file, a write to which may fail; in mode stdin it is   *)
(* the plugin's pipe.                                                      *)
(***************************************************************************)
EXTENDS Naturals, Sequences, FiniteSets

CONSTANTS
  AckModes,     \* the values of --ack-mode under consideration
  Window,       \* as in StreamBridge
  MaxEvents,    \* bound of the model: events of the subscription
  MaxSessions,  \* bound of the model: starts of the process
  MaxLines      \* bound of the model: lines waiting on stdin

ASSUME AckModesAssumption == AckModes \subseteq {"auto", "none", "stdin"}
ASSUME BoundsAssumption ==
  /\ Window \in Nat \ {0} /\ MaxEvents \in Nat
  /\ MaxSessions \in Nat \ {0} /\ MaxLines \in Nat

VARIABLES
  ctx, srv, sent, wire, pc, recvd, hand, err, errBuf, errsClosed,
  eventsClosed, reader, delivered, verdict   \* of the bridge

Bridge == INSTANCE StreamBridge WITH MaxSent <- MaxEvents

VARIABLES
  ackMode,   \* --ack-mode, the same at each start of the command
  ckpt,      \* the server's checkpoint of the subscription
  acks,      \* acks under way to the server, of this process or an earlier one
  base,      \* what it was when this session was opened
  phase,     \* the pump: "start", "range", "ack", "emit", the kind of the
             \* terminal frame it is about to write, "exited", "crashed"
  cur,       \* the delivery the pump is framing, 0 when none
  frames,    \* the frames this process has tried to write
  lost,      \* which of them did not come out as a line of their own
  session,   \* how many times the process was started
  crashes,   \* how many of them were killed
  tried,     \* history: the events whose frame was written, out or lost
  handled,   \* the events the plugin has handled, ever
  stdin,     \* lines the plugin wrote and the process did not read
  stdinOpen,
  acker      \* consumeStdinAcks: "scan", "ack", "gone"

bridgeButCtx == <<srv, sent, wire, pc, recvd, hand, err, errBuf, errsClosed,
                  eventsClosed, reader, delivered, verdict>>
bridgeVars == <<ctx, bridgeButCtx>>
outVars == <<frames, lost>>
pumpVars == <<phase, cur, outVars, tried>>
stdinVars == <<stdin, stdinOpen, acker, handled>>
runVars == <<ackMode, base, session, crashes>>
cliVars == <<ckpt, acks, pumpVars, stdinVars, runVars>>
vars == <<bridgeVars, cliVars>>

Frame(kind, event) == [kind |-> kind, event |-> event]
Delivery(e) == Frame("delivery", e)
Terminal(kind) == Frame(kind, 0)
TerminalKinds == {"eof", "client_eof", "error"}
Events == 1..MaxEvents
\* The lines of stdin: an ack of a number, which is 0 when the JSON names
\* none, a line that is no JSON, and a line longer than bufio.Scanner takes.
NoJson == MaxEvents + 1
TooLong == MaxEvents + 2
Lines == 0..TooLong
Larger(a, b) == IF a > b THEN a ELSE b

TypeOK ==
  /\ Bridge!TypeOK
  /\ ackMode \in AckModes
  /\ ckpt \in 0..MaxEvents /\ base \in 0..ckpt /\ acks \subseteq Events
  /\ phase \in {"start", "range", "ack", "emit", "exited", "crashed"} \cup TerminalKinds
  /\ cur \in 0..MaxEvents
  /\ \A i \in 1..Len(frames) :
       frames[i] \in [kind : {"ready", "delivery"} \cup TerminalKinds,
                      event : 0..MaxEvents]
  /\ lost \subseteq 1..Len(frames)
  /\ session \in 1..MaxSessions /\ crashes \in 0..session
  /\ tried \subseteq Events /\ handled \subseteq Events
  /\ stdin \in Seq(Lines) /\ Len(stdin) <= MaxLines
  /\ stdinOpen \in BOOLEAN
  /\ acker \in {"scan", "ack", "gone"}

AckerAtStart == IF ackMode = "stdin" THEN "scan" ELSE "gone"

Init ==
  /\ Bridge!Init
  /\ ackMode \in AckModes
  /\ ckpt = 0 /\ acks = {} /\ base = 0
  /\ phase = "start" /\ cur = 0 /\ frames = <<>> /\ lost = {}
  /\ session = 1 /\ crashes = 0
  /\ tried = {} /\ handled = {}
  /\ stdin = <<>> /\ stdinOpen = TRUE /\ acker = AckerAtStart

Alive == phase \notin {"exited", "crashed"}
-----------------------------------------------------------------------------
(* Subscribe's goroutine and the gRPC stream: the bridge, unchanged.       *)

OpenStream == Alive /\ (Bridge!OpenOk \/ Bridge!OpenFail) /\ UNCHANGED cliVars

Receive ==
  /\ Alive
  /\ Bridge!RecvMsg \/ Bridge!RecvEof \/ Bridge!RecvErr
  /\ UNCHANGED cliVars

EndRoutine ==
  /\ Alive
  /\ \/ Bridge!SendAborted \/ Bridge!Report
     \/ Bridge!CloseErrs \/ Bridge!CloseEvents
  /\ UNCHANGED cliVars

Serve ==
  /\ Alive
  /\ \/ base + sent < MaxEvents /\ Bridge!SrvSend
     \/ Bridge!SrvEnd
     \/ Bridge!SrvFail
  /\ UNCHANGED cliVars
\* An ack arrives, however late, and moves the checkpoint forward ...
ApplyAck ==
  \E n \in acks :
    /\ acks' = acks \ {n}
    /\ ckpt' = Larger(ckpt, n)
    /\ UNCHANGED <<bridgeVars, pumpVars, stdinVars, runVars>>

\* ... or it is lost.
LoseAck ==
  \E n \in acks :
    /\ acks' = acks \ {n}
    /\ UNCHANGED <<bridgeVars, ckpt, pumpVars, stdinVars, runVars>>
-----------------------------------------------------------------------------
(* The pump.  The step that writes a frame is taken when the write         *)
(* returns, which may be never: a pipe nobody reads fills.  The error of a *)
(* write is dropped, and the pump goes on as if the frame were out.        *)

\* What can become of a frame: in a file the write may fail, or the frame is
\* joined to the piece of line that an earlier failure left.
Fates == {"out"} \cup (IF ackMode = "stdin" THEN {} ELSE {"lost"})

Write(frame, fate) ==
  /\ frames' = Append(frames, frame)
  /\ lost' = IF fate = "lost" THEN lost \cup {Len(frames')} ELSE lost

Ready ==
  /\ phase = "start"
  /\ phase' = "range"
  /\ \E fate \in Fates : Write(Frame("ready", 0), fate)
  /\ UNCHANGED <<bridgeVars, ckpt, acks, cur, tried, stdinVars, runVars>>

\* Client.Ack: nothing leaves once the context is done.  The server has
\* nothing to move for a number 0.
SendAck(n) == acks' = IF ctx = "live" THEN acks \cup ({n} \ {0}) ELSE acks

\* Mutant: the number acked is that of the next event wanted.
TakeAckingNext ==
  /\ phase = "range"
  /\ Bridge!HandOver
  /\ cur' = base + hand
  /\ IF ackMode = "auto"
     THEN phase' = "ack" /\ SendAck(cur' + 1)
     ELSE phase' = "emit" /\ UNCHANGED acks
  /\ UNCHANGED <<ckpt, outVars, tried, stdinVars, runVars>>

\* The range receives a delivery; in mode auto the frame function acks first.
Take ==
  /\ phase = "range"
  /\ Bridge!HandOver
  /\ cur' = base + hand
  /\ IF ackMode = "auto"
     THEN phase' = "ack" /\ SendAck(cur')
     ELSE phase' = "emit" /\ UNCHANGED acks
  /\ UNCHANGED <<ckpt, outVars, tried, stdinVars, runVars>>

\* The Ack returns, with its reply or an error: either is ignored.
AutoAck ==
  /\ phase = "ack" /\ ctx = "live"
  /\ phase' = "emit"
  /\ UNCHANGED <<bridgeVars, ckpt, acks, cur, outVars, tried, stdinVars, runVars>>

\* Mutant: the Ack of mode auto runs in a context of its own.
AutoAckNotCancelled == FALSE /\ UNCHANGED vars

\* The outstanding Ack returns because its context is done.
AutoAckAborted ==
  /\ phase = "ack" /\ ctx # "live"
  /\ phase' = "emit"
  /\ UNCHANGED <<bridgeVars, ckpt, acks, cur, outVars, tried, stdinVars, runVars>>

WriteDelivery ==
  /\ \E fate \in Fates : Write(Delivery(cur), fate)
  /\ tried' = tried \cup {cur}

\* Mutant: a frame is written only while the context is live.
EmitUnlessDone ==
  /\ phase = "emit"
  /\ IF ctx = "live" THEN WriteDelivery ELSE UNCHANGED <<outVars, tried>>
  /\ cur' = 0
  /\ phase' = "range"
  /\ UNCHANGED <<bridgeVars, ckpt, acks, stdinVars, runVars>>

Emit ==
  /\ phase = "emit"
  /\ WriteDelivery
  /\ cur' = 0
  /\ phase' = "range"
  /\ UNCHANGED <<bridgeVars, ckpt, acks, stdinVars, runVars>>

DrainEnds ==
  /\ phase = "range"
  /\ Bridge!RangeEnds
  /\ UNCHANGED cliVars

\* Mutant: an error while the context is live is taken for a clean stop.
KindOfLenient(v) ==
  IF v = "nil" \/ ctx = "live" THEN {"eof"} ELSE {"client_eof"}

\* How the pump words the verdict v.  The server may itself have ended the
\* stream with status Canceled, which isCanceled does not tell apart.
KindOf(v) ==
  IF v = "nil" THEN {"eof"}
  ELSE IF v \in Bridge!Stops \/ ctx # "live" THEN {"client_eof"}
  ELSE {"error", "client_eof"}

\* <-errs, and which terminal frame it calls for.
ReadVerdict ==
  /\ phase = "range"
  /\ Bridge!TakeVerdict
  /\ phase' \in KindOf(verdict')
  /\ UNCHANGED <<ckpt, acks, cur, outVars, tried, stdinVars, runVars>>

\* Mutant: an error is returned without its frame.
FinishSilentOnError ==
  /\ phase \in TerminalKinds
  /\ IF phase = "error"
     THEN UNCHANGED outVars
     ELSE \E fate \in Fates : Write(Terminal(phase), fate)
  /\ phase' = "exited"
  /\ UNCHANGED <<bridgeVars, ckpt, acks, cur, tried, stdinVars, runVars>>

\* The one terminal frame, and the end of the process.
Finish ==
  /\ phase \in TerminalKinds
  /\ \E fate \in Fates : Write(Terminal(phase), fate)
  /\ phase' = "exited"
  /\ UNCHANGED <<bridgeVars, ckpt, acks, cur, tried, stdinVars, runVars>>
-----------------------------------------------------------------------------
(* Mode stdin: the plugin (external) and consumeStdinAcks.                 *)

\* The events whose frames stdout shows.
Readable == {frames[i].event : i \in (1..Len(frames)) \ lost} \ {0}

\* The plugin handles the frames in the order they come.
PluginHandle ==
  /\ ackMode = "stdin"
  /\ \E e \in Readable \ handled :
       /\ \A d \in Readable : d < e => d \in handled
       /\ handled' = handled \cup {e}
  /\ UNCHANGED <<bridgeVars, ckpt, acks, pumpVars, runVars, stdin, stdinOpen, acker>>

\* It acks one it has handled, or writes a line that says nothing.
PluginWrite ==
  /\ ackMode = "stdin" /\ Alive /\ stdinOpen /\ Len(stdin) < MaxLines
  /\ \E n \in (Readable \cap handled) \cup {0, NoJson, TooLong} :
       stdin' = Append(stdin, n)
  /\ UNCHANGED <<bridgeVars, ckpt, acks, pumpVars, runVars, stdinOpen, acker,
                 handled>>

PluginClose ==
  /\ ackMode = "stdin" /\ Alive /\ stdinOpen
  /\ stdinOpen' = FALSE
  /\ UNCHANGED <<bridgeVars, ckpt, acks, pumpVars, runVars, stdin, acker,
                 handled>>

\* Mutant: the number acked is that of the next event wanted.
ScanAckingNext ==
  /\ Alive /\ acker = "scan" /\ stdin # <<>> /\ Head(stdin) # TooLong
  /\ stdin' = Tail(stdin)
  /\ IF Head(stdin) = NoJson
     THEN UNCHANGED <<acker, acks>>
     ELSE acker' = "ack" /\ SendAck(Head(stdin) + 1)
  /\ UNCHANGED <<bridgeVars, ckpt, pumpVars, runVars, stdinOpen, handled>>

\* One line of stdin: skipped if it is no JSON, else the call of Ack.
Scan ==
  /\ Alive /\ acker = "scan" /\ stdin # <<>> /\ Head(stdin) # TooLong
  /\ stdin' = Tail(stdin)
  /\ IF Head(stdin) = NoJson
     THEN UNCHANGED <<acker, acks>>
     ELSE acker' = "ack" /\ SendAck(Head(stdin))
  /\ UNCHANGED <<bridgeVars, ckpt, pumpVars, runVars, stdinOpen, handled>>

\* The Ack of the line returns, with its reply or an error, ignored too.
StdinAck ==
  /\ Alive /\ acker = "ack"
  /\ acker' = "scan"
  /\ UNCHANGED <<bridgeVars, ckpt, acks, pumpVars, runVars, stdin, stdinOpen,
                 handled>>

\* Scan is false at the end of stdin and at a line that is too long.
ScanOver ==
  \/ stdin = <<>> /\ ~stdinOpen
  \/ stdin # <<>> /\ Head(stdin) = TooLong

\* Mutant: the acker ends and leaves the stream running.
AckerLeaves ==
  /\ Alive /\ acker = "scan" /\ ScanOver
  /\ acker' = "gone"
  /\ UNCHANGED <<bridgeVars, ckpt, acks, pumpVars, runVars, stdin, stdinOpen,
                 handled>>

\* The acker ends and cancels the stream; whatever is left is not read.
AckerEnds ==
  /\ Alive /\ acker = "scan" /\ ScanOver
  /\ acker' = "gone"
  /\ ctx' = IF ctx = "live" THEN "canceled" ELSE ctx
  /\ UNCHANGED <<bridgeButCtx, ckpt, acks, pumpVars, runVars, stdin, stdinOpen,
                 handled>>
-----------------------------------------------------------------------------
(* The process.                                                            *)

\* SIGINT or SIGTERM.
Signal ==
  /\ Alive /\ ctx = "live"
  /\ ctx' = "canceled"
  /\ UNCHANGED <<bridgeButCtx, cliVars>>

\* The bridge of a process that has opened no stream.
BridgeAnew ==
  /\ ctx' = "live"
  /\ srv' = "idle" /\ sent' = 0 /\ wire' = <<>>
  /\ pc' = "open" /\ recvd' = 0 /\ hand' = 0 /\ err' = "none"
  /\ errBuf' = "none" /\ errsClosed' = FALSE /\ eventsClosed' = FALSE
  /\ reader' = "ranging" /\ delivered' = <<>> /\ verdict' = "none"

\* SIGKILL, power loss, SIGPIPE of a stdout nobody holds open: what the
\* process had in memory and on stdin is gone; what it wrote stays, and the
\* acks under way may still arrive.
Crash ==
  /\ Alive
  /\ BridgeAnew
  /\ phase' = "crashed" /\ cur' = 0
  /\ stdin' = <<>> /\ stdinOpen' = FALSE /\ acker' = "gone"
  /\ crashes' = crashes + 1
  /\ UNCHANGED <<ckpt, acks, frames, lost, tried, handled, ackMode, base, session>>

\* The plugin or the operator starts the command again.
Restart ==
  /\ ~Alive /\ session < MaxSessions
  /\ session' = session + 1
  /\ BridgeAnew
  /\ base' = ckpt
  /\ phase' = "start" /\ cur' = 0 /\ frames' = <<>> /\ lost' = {}
  /\ stdin' = <<>> /\ stdinOpen' = TRUE /\ acker' = AckerAtStart
  /\ UNCHANGED <<ackMode, ckpt, acks, crashes, tried, handled>>

\* No session is left to the model.
Stopped == ~Alive /\ session = MaxSessions /\ UNCHANGED vars
-----------------------------------------------------------------------------
Routine == OpenStream \/ Receive \/ EndRoutine
PumpWrites == Ready \/ Emit \/ Finish
Pump == Take \/ AutoAckAborted \/ DrainEnds \/ ReadVerdict
Acker == Scan \/ AckerEnds
AckReplies == AutoAck \/ StdinAck
Plugin == PluginHandle \/ PluginWrite \/ PluginClose

Next ==
  \/ Routine \/ Pump \/ PumpWrites \/ Acker \/ AckReplies \/ Plugin
  \/ Serve \/ ApplyAck \/ LoseAck
  \/ Signal \/ Crash \/ Restart \/ Stopped

Spec == Init /\ [][Next]_vars

\* The process runs when it can.  The server need not answer, not even an Ack,
\* and nobody need read stdout, so that a write may never return.
CliFairSpec == Spec /\ WF_vars(Routine) /\ WF_vars(Pump) /\ WF_vars(Acker)

\* A network on which each Ack returns, answered or not.
AcksReturn == WF_vars(AutoAck) /\ WF_vars(StdinAck)

\* A stdout on which each write returns: a file, or a pipe that is read.
StdoutRead == WF_vars(PumpWrites)
-----------------------------------------------------------------------------
(* Properties.                                                             *)

\* The pump frames ready, then the session's deliveries in order without a
\* gap, then at most one terminal frame, there exactly when the process has
\* exited by itself.  stdout shows these frames less the lost ones, and in
\* mode stdin all of them.
FramesWellFormed ==
  LET n == Len(frames)
      last == IF phase = "exited" THEN n - 1 ELSE n
  IN /\ \/ phase = "start" /\ n = 0
        \/ phase = "crashed" /\ n = 0
        \/ /\ frames[1].kind = "ready"
           /\ \A i \in 2..last : frames[i] = Delivery(base + i - 1)
           /\ phase = "exited" => n > 1 /\ frames[n].kind \in TerminalKinds
     /\ ackMode = "stdin" => lost = {}

EndsWith(kind) == phase = "exited" /\ frames[Len(frames)].kind = kind

\* The terminal frame is honest: eof only if the server ended and each event
\* it sent is on stdout, but for those whose frame was lost; error only if the
\* stream failed.
TerminalHonest ==
  /\ EndsWith("eof") =>
       /\ srv = "eof"
       /\ (base + 1)..(base + sent) \ Readable \subseteq {frames[i].event : i \in lost}
  /\ EndsWith("error") => srv = "failed"

\* Mode stdin: the checkpoint never passes an event the plugin has not
\* handled, whatever is lost, killed or restarted: nothing is skipped.
CheckpointBehindHandled ==
  ackMode = "stdin" => 1..ckpt \subseteq handled

\* Mode auto: an event may be acked and no frame of it ever written, but only
\* the one in the pump's hands, so at most one for each kill.  (The others
\* that stdout does not show are those whose frame was lost.)
LostPerCrash ==
  ackMode = "auto" =>
    Cardinality((1..ckpt) \ tried)
      <= crashes + (IF phase \in {"ack", "emit"} THEN 1 ELSE 0)

\* A signal ends the process, even while the server keeps an Ack waiting, if
\* stdout is read: a write to a full pipe does not look at the context.
SignalStops == StdoutRead => ((ctx # "live") ~> ~Alive)

\* Closing stdin ends it too, if besides the Acks before it return.
CloseStops == (AcksReturn /\ StdoutRead) => ((~stdinOpen) ~> ~Alive)

(* What a document says and the code does not do.                          *)

\* DESIGN 5.2: mode auto acks after emitting the delivery, with whatever
\* success.
AckedWereEmitted == 1..ckpt \subseteq tried
=============================================================================
