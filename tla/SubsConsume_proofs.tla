------------------------- MODULE SubsConsume_proofs -------------------------
(***************************************************************************)
(* Proofs about SubsConsume for every window, number of events, sessions   *)
(* and lines.  The bridge inside of it keeps the inductive invariant of    *)
(* StreamBridge_proofs: each step of the process is a step of the bridge   *)
(* or leaves it alone, and a kill or a restart begins it anew.  On top of  *)
(* that the invariant says where each event is between the bridge and the  *)
(* server's checkpoint: in the pump's hand, framed, handled by the plugin, *)
(* in a line of stdin, in an ack under way.                                *)
(***************************************************************************)
EXTENDS SubsConsume, FiniteSetTheorems, TLAPS

BP == INSTANCE StreamBridge_proofs WITH MaxSent <- MaxEvents

\* How many deliveries were framed, and whether the pump holds one.
Framed ==
  IF phase = "exited" THEN Len(frames) - 2
  ELSE IF frames = <<>> THEN 0 ELSE Len(frames) - 1
Holds == phase \in {"ack", "emit"}
\* The events this process has framed, whatever became of the frames.
InFrames == {frames[i].event : i \in 1..Len(frames)} \ {0}
FrameSet ==
  [kind : {"ready", "delivery"} \cup TerminalKinds, event : 0..MaxEvents]

\* The types of what the bridge does not have.
Types ==
  /\ ackMode \in AckModes
  /\ ckpt \in 0..MaxEvents /\ base \in 0..ckpt /\ acks \subseteq Events
  /\ phase \in {"start", "range", "ack", "emit", "exited", "crashed"} \cup TerminalKinds
  /\ cur \in 0..MaxEvents
  /\ frames \in Seq(FrameSet)
  /\ lost \subseteq 1..Len(frames) /\ (ackMode = "stdin" => lost = {})
  /\ session \in 1..MaxSessions /\ crashes \in 0..session
  /\ (phase # "crashed" => crashes < session)
  /\ tried \subseteq Events /\ handled \subseteq Events
  /\ stdin \in Seq(Lines) /\ Len(stdin) <= MaxLines
  /\ stdinOpen \in BOOLEAN
  /\ acker \in {"scan", "ack", "gone"}

\* What was framed is what the bridge has delivered, less the one in hand.
FramedInOrder ==
  /\ base + sent <= MaxEvents /\ base + Len(delivered) <= MaxEvents
  /\ frames # <<>> => frames[1] = Frame("ready", 0)
  /\ \A i \in 2..(Framed + 1) : frames[i] = Delivery(base + i - 1)
  /\ Framed \in Nat /\ base + Framed <= MaxEvents
  /\ phase = "start" => frames = <<>> /\ delivered = <<>> /\ cur = 0
  /\ phase = "range" => frames # <<>> /\ Framed = Len(delivered) /\ cur = 0
  /\ Holds => frames # <<>> /\ Len(delivered) = Framed + 1
                /\ cur = base + Len(delivered)
  /\ phase \in TerminalKinds =>
       /\ frames # <<>> /\ Framed = Len(delivered) /\ cur = 0
       /\ phase = "eof" => verdict = "nil"
       /\ phase = "error" => verdict = "status"
  /\ phase = "exited" =>
       /\ Framed = Len(delivered)
       /\ frames[Len(frames)].kind \in TerminalKinds
       /\ frames[Len(frames)].event = 0
       /\ frames[Len(frames)].kind = "eof" => verdict = "nil"
       /\ frames[Len(frames)].kind = "error" => verdict = "status"

PumpInv == Types /\ BP!IInv /\ FramedInOrder
-----------------------------------------------------------------------------
(* What the steps do to the bridge.                                        *)

\* The bridge in order, from its start on and at each of its steps.
LEMMA BridgeStart == BP!Init => BP!IInv
BY BoundsAssumption, BP!InitIInv

LEMMA BridgeGoes == BP!IInv /\ [BP!Next]_(BP!vars) => BP!IInv'
BY BoundsAssumption, BP!StepIInv

\* Steps that leave the bridge alone.
LEMMA BridgeRests == UNCHANGED bridgeVars => UNCHANGED BP!vars
BY DEF bridgeVars, bridgeButCtx, BP!vars, BP!srvVars, BP!routineVars, BP!callerVars

\* The goroutine moves nothing that the pump or the caller sees.
LEMMA RoutineEffect ==
  ASSUME Routine
  PROVE  BP!Next /\ UNCHANGED <<sent, delivered, reader, verdict, cliVars>>
<1>1. CASE OpenStream
  BY <1>1 DEF OpenStream, Bridge!OpenOk, Bridge!OpenFail, Bridge!LeaveWith, Bridge!callerVars,
    Bridge!NoMsg, BP!Next, BP!Routine, BP!OpenOk, BP!OpenFail, BP!LeaveWith, BP!callerVars, BP!NoMsg
<1>2. CASE Receive
  BY <1>2 DEF Receive, Bridge!RecvMsg, Bridge!RecvEof, Bridge!RecvErr, Bridge!LeaveWith,
    Bridge!callerVars, Bridge!srvVars, Bridge!NoMsg, BP!Next, BP!Routine, BP!RecvMsg, BP!RecvEof,
    BP!RecvErr, BP!LeaveWith, BP!callerVars, BP!srvVars, BP!NoMsg
<1>3. CASE EndRoutine
  BY <1>3 DEF EndRoutine, Bridge!SendAborted, Bridge!Report, Bridge!CloseErrs,
    Bridge!CloseEvents, Bridge!LeaveWith, Bridge!callerVars, Bridge!srvVars, Bridge!NoMsg,
    BP!Next, BP!Routine, BP!SendAborted, BP!Report, BP!CloseErrs, BP!CloseEvents, BP!LeaveWith,
    BP!callerVars, BP!srvVars, BP!NoMsg
<1> QED
  BY <1>1, <1>2, <1>3 DEF Routine

\* The server sends no more than there is.
LEMMA ServeEffect ==
  ASSUME Serve
  PROVE  /\ BP!Next /\ UNCHANGED <<delivered, reader, verdict, cliVars>>
         /\ sent' = sent \/ (sent' = sent + 1 /\ base + sent < MaxEvents)
<1>1. CASE Bridge!SrvSend /\ base + sent < MaxEvents
  BY <1>1 DEF Serve, Bridge!SrvSend, Bridge!routineVars, Bridge!callerVars, BP!Next, BP!Server,
    BP!SrvSend, BP!routineVars, BP!callerVars
<1>2. CASE Bridge!SrvEnd
  BY <1>2 DEF Serve, Bridge!SrvEnd, Bridge!routineVars, Bridge!callerVars, BP!Next, BP!Server,
    BP!SrvEnd, BP!routineVars, BP!callerVars
<1>3. CASE Bridge!SrvFail
  BY <1>3 DEF Serve, Bridge!SrvFail, Bridge!routineVars, Bridge!callerVars, BP!Next, BP!Server,
    BP!SrvFail, BP!routineVars, BP!callerVars
<1> QED
  BY <1>1, <1>2, <1>3 DEF Serve

\* The value handed over is the next one.
LEMMA TakeEffect ==
  ASSUME PumpInv, Take
  PROVE  /\ BP!Next /\ UNCHANGED <<sent, reader, verdict>>
         /\ Len(delivered') = Len(delivered) + 1 /\ Len(delivered) \in Nat
         /\ cur' = base + Len(delivered) + 1 /\ cur' \in Events
<1>1. /\ pc = "send" /\ delivered' = Append(delivered, hand) /\ cur' = base + hand
      /\ UNCHANGED <<sent, reader, verdict>>
  BY DEF Take, Bridge!HandOver, Bridge!srvVars
<1>2. BP!Next
  BY DEF Take, Bridge!HandOver, Bridge!srvVars, Bridge!NoMsg, BP!Next, BP!Caller, BP!HandOver,
    BP!srvVars, BP!NoMsg
<1>3. hand = recvd /\ recvd = Len(delivered) + 1 /\ recvd + Len(wire) <= sent
  BY <1>1 DEF PumpInv, BP!IInv, BP!HandInOrder, BP!WireInOrder
<1>4. /\ delivered \in Seq(Nat) /\ wire \in Seq(Nat) /\ sent \in Nat /\ base \in Nat
      /\ base + sent <= MaxEvents /\ MaxEvents \in Nat /\ recvd \in Nat
  BY BoundsAssumption DEF PumpInv, BP!IInv, BP!TypeOK, Types, FramedInOrder
<1>5. Len(delivered') = Len(delivered) + 1 /\ Len(delivered) \in Nat
  BY <1>1, <1>4
<1>6. base + hand \in Events
  BY <1>3, <1>4, <1>5 DEF Events
<1> QED
  BY <1>1, <1>2, <1>3, <1>4, <1>5, <1>6

\* The range ends.
LEMMA DrainEffect ==
  ASSUME DrainEnds
  PROVE  BP!Next /\ UNCHANGED <<sent, delivered, verdict, cliVars>>
BY DEF DrainEnds, Bridge!RangeEnds, Bridge!srvVars, Bridge!routineVars, BP!Next, BP!Caller,
  BP!RangeEnds, BP!srvVars, BP!routineVars

\* The verdict is read, and worded.
LEMMA VerdictEffect ==
  ASSUME PumpInv, ReadVerdict
  PROVE  /\ BP!Next /\ UNCHANGED <<sent, delivered>>
         /\ phase' \in TerminalKinds
         /\ phase' = "eof" => verdict' = "nil"
         /\ phase' = "error" => verdict' = "status"
<1>1. UNCHANGED <<sent, delivered>> /\ verdict' = (IF errBuf # "none" THEN errBuf ELSE "nil")
  BY DEF ReadVerdict, Bridge!TakeVerdict, Bridge!srvVars
<1>2. BP!Next
  BY DEF ReadVerdict, Bridge!TakeVerdict, Bridge!srvVars, Bridge!routineVars, BP!Next, BP!Caller,
    BP!TakeVerdict, BP!srvVars, BP!routineVars
<1>3. errBuf \in {"none", "status", "canceled", "deadline"}
  BY DEF PumpInv, BP!IInv, BP!TypeOK, BP!Stops
<1>4. phase' \in KindOf(verdict')
  BY DEF ReadVerdict
<1>5. /\ phase' \in TerminalKinds
      /\ phase' = "eof" => verdict' = "nil"
      /\ phase' = "error" => verdict' = "status"
  BY <1>1, <1>3, <1>4 DEF KindOf, TerminalKinds, Bridge!Stops
<1> QED
  BY <1>1, <1>2, <1>5

\* What writing a frame does, whatever becomes of it.
LEMMA WriteEffect ==
  ASSUME Types, NEW f \in FrameSet, NEW fate \in Fates, Write(f, fate)
  PROVE  /\ frames' = Append(frames, f) /\ frames' \in Seq(FrameSet)
         /\ lost' \subseteq 1..Len(frames') /\ (ackMode = "stdin" => lost' = {})
<1>1. /\ frames' = Append(frames, f) /\ frames \in Seq(FrameSet)
      /\ lost \subseteq 1..Len(frames) /\ (ackMode = "stdin" => lost = {})
  BY DEF Types, Write
<1>2. frames' \in Seq(FrameSet) /\ Len(frames') = Len(frames) + 1 /\ Len(frames) \in Nat
  BY <1>1
<1>3. lost' \subseteq lost \cup {Len(frames')} /\ (fate # "lost" => lost' = lost)
  BY DEF Write
<1>4. ackMode = "stdin" => fate # "lost"
  BY DEF Fates
<1> QED
  BY <1>1, <1>2, <1>3, <1>4

\* The three steps that write.
LEMMA WritersEffect ==
  ASSUME PumpInv, Ready \/ Emit \/ Finish
  PROVE  /\ frames' \in Seq(FrameSet)
         /\ lost' \subseteq 1..Len(frames') /\ (ackMode = "stdin" => lost' = {})
         /\ Ready => frames' = Append(frames, Frame("ready", 0))
         /\ Emit => frames' = Append(frames, Delivery(cur))
         /\ Finish => frames' = Append(frames, Terminal(phase))
<1>0. Types /\ MaxEvents \in Nat
  BY BoundsAssumption DEF PumpInv
<1>1. CASE Ready
  <2>1. Frame("ready", 0) \in FrameSet
    BY <1>0 DEF Frame, FrameSet
  <2>2. PICK fate \in Fates : Write(Frame("ready", 0), fate)
    BY <1>1 DEF Ready
  <2> QED
    BY <1>0, <1>1, <2>1, <2>2, WriteEffect DEF Emit, Finish, Ready, TerminalKinds
<1>2. CASE Emit
  <2>1. Delivery(cur) \in FrameSet
    BY <1>0 DEF Delivery, Frame, FrameSet, Types
  <2>2. PICK fate \in Fates : Write(Delivery(cur), fate)
    BY <1>2 DEF Emit, WriteDelivery
  <2> QED
    BY <1>0, <1>2, <2>1, <2>2, WriteEffect DEF Emit, Finish, Ready, TerminalKinds
<1>3. CASE Finish
  <2>1. Terminal(phase) \in FrameSet
    BY <1>0, <1>3 DEF Terminal, Frame, FrameSet, Finish
  <2>2. PICK fate \in Fates : Write(Terminal(phase), fate)
    BY <1>3 DEF Finish
  <2> QED
    BY <1>0, <1>3, <2>1, <2>2, WriteEffect DEF Emit, Finish, Ready, TerminalKinds
<1> QED
  BY <1>1, <1>2, <1>3

\* Signals and the acker's end cancel the context, a kill and a restart begin
\* anew, and the rest leaves the bridge alone.
LEMMA BridgeStep ==
  ASSUME PumpInv, [Next]_vars
  PROVE  BP!IInv'
<1>0. BP!IInv
  BY DEF PumpInv
<1>1. CASE BP!Next
  BY <1>0, <1>1, BridgeGoes
<1>2. CASE UNCHANGED bridgeVars
  BY <1>0, <1>2, BridgeRests, BridgeGoes
<1>3. ASSUME ctx = "live", ctx' = "canceled", UNCHANGED bridgeButCtx PROVE BP!IInv'
  <2>1. BP!Cancel
    BY <1>3 DEF BP!Cancel, BP!Stops, BP!srvVars, BP!routineVars, BP!callerVars, bridgeButCtx
  <2> QED
    BY <1>1, <2>1 DEF BP!Next
<1>4. CASE AckerEnds
  <2>1. UNCHANGED bridgeButCtx /\ ctx' = IF ctx = "live" THEN "canceled" ELSE ctx
    BY <1>4 DEF AckerEnds
  <2> QED
    BY <1>2, <1>3, <2>1 DEF bridgeVars
<1>5. CASE Signal
  BY <1>3, <1>5 DEF Signal
<1>6. CASE Crash \/ Restart
  <2>1. BridgeAnew
    BY <1>6 DEF Crash, Restart
  <2>2. BP!Init'
    BY <2>1 DEF BridgeAnew, BP!Init, BP!NoMsg
  <2>3. BP!Init' => BP!IInv'
    BY BridgeStart, PTL
  <2> QED
    BY <2>2, <2>3
<1>7. CASE UNCHANGED vars
  BY <1>2, <1>7 DEF vars
<1>8. CASE Ready \/ AutoAck \/ AutoAckAborted \/ Emit \/ Finish \/ Plugin \/ Scan
             \/ StdinAck \/ ApplyAck \/ LoseAck
  BY <1>2, <1>8 DEF Ready, AutoAck, AutoAckAborted, Emit, Finish, Plugin, PluginHandle,
    PluginWrite, PluginClose, Scan, StdinAck, ApplyAck, LoseAck
<1> QED
  BY <1>1, <1>4, <1>5, <1>6, <1>7, <1>8, RoutineEffect, ServeEffect, TakeEffect, DrainEffect,
    VerdictEffect DEF Next, Pump, PumpWrites, Acker, AckReplies, Stopped
-----------------------------------------------------------------------------
(* Types, and what was framed.                                             *)

\* What the pump holds is an event.
LEMMA HeldIsEvent ==
  ASSUME PumpInv, Holds
  PROVE  cur \in Events
<1>1. /\ MaxEvents \in Nat /\ base \in Nat /\ base + Len(delivered) <= MaxEvents
      /\ cur = base + Len(delivered) /\ Len(delivered) = Framed + 1 /\ Framed \in Nat
  BY BoundsAssumption DEF PumpInv, FramedInOrder, Types
<1> QED
  BY <1>1 DEF Events

\* What Append does to the frames.
LEMMA FrameAdded ==
  ASSUME frames \in Seq(FrameSet), NEW f, frames' = Append(frames, f)
  PROVE  /\ Len(frames') = Len(frames) + 1 /\ Len(frames) \in Nat
         /\ \A i \in 1..Len(frames) : frames'[i] = frames[i]
         /\ frames'[Len(frames) + 1] = f /\ frames' # <<>>
         /\ f \in FrameSet => frames' \in Seq(FrameSet)
OBVIOUS

\* Frames, lines, acks and numbers of every step are what they should be.
LEMMA TypesStep == PumpInv /\ [Next]_vars => Types'
<1> SUFFICES ASSUME PumpInv, [Next]_vars PROVE Types'
  OBVIOUS
<1>0. Types /\ MaxEvents \in Nat /\ MaxSessions \in Nat \ {0} /\ MaxLines \in Nat
  BY BoundsAssumption DEF PumpInv
<1>a. CASE UNCHANGED cliVars
  BY <1>0, <1>a DEF Types, cliVars, pumpVars, outVars, stdinVars, runVars
<1>1. CASE Ready
  BY <1>0, <1>1, WritersEffect DEF Ready, Types, stdinVars, runVars
<1>2. CASE Take
  <2>1. cur' \in Events
    BY <1>2, TakeEffect
  <2>2. acks' \subseteq Events
    BY <1>0, <1>2, <2>1 DEF Take, SendAck, Types
  <2>3. /\ cur' \in 0..MaxEvents /\ phase' \in {"ack", "emit"} /\ phase = "range"
        /\ UNCHANGED <<ackMode, ckpt, base, frames, lost, session, crashes, tried, handled,
                       stdin, stdinOpen, acker>>
    BY <1>0, <1>2, <2>1 DEF Take, outVars, stdinVars, runVars, Events
  <2> QED
    BY <1>0, <2>2, <2>3 DEF Types
<1>3. CASE AutoAck \/ AutoAckAborted
  BY <1>0, <1>3 DEF AutoAck, AutoAckAborted, Types, outVars, stdinVars, runVars
<1>4. CASE Emit
  <2>1. tried' \subseteq Events
    <3>1. tried \subseteq Events /\ tried' = tried \cup {cur}
      BY <1>0, <1>4 DEF Emit, WriteDelivery, Types
    <3>2. cur \in Events
      BY <1>4, HeldIsEvent DEF Emit, Holds
    <3> QED
      BY <3>1, <3>2
  <2> QED
    BY <1>0, <1>4, <2>1, WritersEffect DEF Emit, Types, stdinVars, runVars
<1>5. CASE Finish
  BY <1>0, <1>5, WritersEffect DEF Finish, Types, stdinVars, runVars, TerminalKinds
<1>6. CASE PluginHandle
  <2>1. Readable \subseteq Events
    <3>0. frames \in Seq(FrameSet)
      BY <1>0 DEF Types
    <3>1. \A i \in 1..Len(frames) : frames[i] \in FrameSet
      BY <3>0
    <3>2. \A i \in 1..Len(frames) : frames[i].event \in 0..MaxEvents
      BY <3>1 DEF FrameSet
    <3> QED
      BY <1>0, <3>2 DEF Readable, Events
  <2> QED
    BY <1>0, <1>6, <2>1 DEF PluginHandle, Types, pumpVars, outVars, runVars
<1>7. CASE PluginWrite
  <2>1. PICK n \in (Readable \cap handled) \cup {0, NoJson, TooLong} : stdin' = Append(stdin, n)
    BY <1>7 DEF PluginWrite
  <2>2. n \in Lines
    <3>1. handled \subseteq Events
      BY <1>0 DEF Types
    <3>2. n \in Events \/ n \in {0, NoJson, TooLong}
      BY <2>1, <3>1
    <3> QED
      BY <1>0, <3>2 DEF Events, Lines, NoJson, TooLong
  <2>3. stdin' \in Seq(Lines) /\ Len(stdin') <= MaxLines
    BY <1>0, <1>7, <2>1, <2>2 DEF PluginWrite, Types
  <2> QED
    BY <1>0, <1>7, <2>3 DEF PluginWrite, Types, pumpVars, outVars, runVars
<1>8. CASE PluginClose
  BY <1>0, <1>8 DEF PluginClose, Types, pumpVars, outVars, runVars
<1>9. CASE Scan
  <2>1. Head(stdin) \in Lines /\ stdin' \in Seq(Lines) /\ Len(stdin') <= MaxLines
    BY <1>0, <1>9 DEF Scan, Types
  <2>2. acks' \subseteq Events
    <3>1. acks \subseteq Events /\ Head(stdin) # TooLong
      BY <1>0, <1>9 DEF Types, Scan
    <3>2. CASE Head(stdin) = NoJson
      BY <1>9, <3>1, <3>2 DEF Scan
    <3>3. CASE Head(stdin) # NoJson
      <4>1. Head(stdin) \in 0..MaxEvents
        BY <1>0, <2>1, <3>1, <3>3 DEF Lines, NoJson, TooLong
      <4>2. {Head(stdin)} \ {0} \subseteq Events
        BY <1>0, <4>1 DEF Events
      <4> QED
        BY <1>9, <3>1, <3>3, <4>2 DEF Scan, SendAck
    <3> QED
      BY <3>2, <3>3
  <2> QED
    BY <1>0, <1>9, <2>1, <2>2 DEF Scan, Types, pumpVars, outVars, runVars
<1>10. CASE StdinAck
  BY <1>0, <1>10 DEF StdinAck, Types, pumpVars, outVars, runVars
<1>11. CASE AckerEnds
  BY <1>0, <1>11 DEF AckerEnds, Types, pumpVars, outVars, runVars
<1>12. CASE ApplyAck
  <2>1. ckpt' \in 0..MaxEvents /\ ckpt' >= ckpt /\ acks' \subseteq Events
    BY <1>0, <1>12 DEF ApplyAck, Larger, Types, Events
  <2> QED
    BY <1>0, <1>12, <2>1 DEF ApplyAck, Types, pumpVars, outVars, stdinVars, runVars
<1>13. CASE LoseAck
  BY <1>0, <1>13 DEF LoseAck, Types, pumpVars, outVars, stdinVars, runVars
<1>14. CASE Crash
  <2>1. stdin' = <<>> /\ stdin' \in Seq(Lines) /\ Len(stdin') = 0
    BY <1>14 DEF Crash
  <2>2. crashes' \in 0..session
    BY <1>0, <1>14 DEF Crash, Types, Alive
  <2>3. /\ phase' = "crashed" /\ cur' = 0 /\ stdinOpen' = FALSE /\ acker' = "gone"
        /\ UNCHANGED <<ckpt, acks, frames, lost, tried, handled, ackMode, base, session>>
    BY <1>14 DEF Crash
  <2>4. /\ cur' \in 0..MaxEvents /\ (phase' # "crashed" => crashes' < session')
        /\ (ackMode' = "stdin" => lost' = {}) /\ lost' \subseteq 1..Len(frames')
    BY <1>0, <2>3 DEF Types
  <2>5. Len(stdin') <= MaxLines
    BY <1>0, <2>1
  <2> QED
    BY <1>0, <2>1, <2>2, <2>3, <2>4, <2>5 DEF Types
<1>15. CASE Restart
  <2>1. /\ stdin' = <<>> /\ stdin' \in Seq(Lines) /\ Len(stdin') = 0
        /\ frames' = <<>> /\ frames' \in Seq(FrameSet)
    BY <1>15 DEF Restart
  <2> QED
    BY <1>0, <1>15, <2>1 DEF Restart, Types, AckerAtStart
<1>16. CASE Signal
  BY <1>a, <1>16 DEF Signal
<1>17. CASE UNCHANGED vars
  BY <1>a, <1>17 DEF vars
<1>18. CASE ReadVerdict
  <2>1. phase' \in TerminalKinds /\ phase = "range"
    BY <1>18, VerdictEffect DEF ReadVerdict
  <2> QED
    BY <1>0, <1>18, <2>1 DEF ReadVerdict, Types, outVars, stdinVars, runVars, TerminalKinds
<1> QED
  BY <1>a, <1>1, <1>2, <1>3, <1>4, <1>5, <1>6, <1>7, <1>8, <1>9, <1>10, <1>11, <1>12, <1>13,
    <1>14, <1>15, <1>16, <1>17, <1>18, RoutineEffect, ServeEffect, DrainEffect
    DEF Next, Pump, PumpWrites, Acker, AckReplies, Plugin, Stopped

\* What was framed stays what the bridge has delivered, less the one in hand.
LEMMA FramesStep == PumpInv /\ [Next]_vars => FramedInOrder'
<1> SUFFICES ASSUME PumpInv, [Next]_vars PROVE FramedInOrder'
  OBVIOUS
<1>0. /\ Types /\ FramedInOrder /\ MaxEvents \in Nat /\ frames \in Seq(FrameSet)
      /\ Len(frames) \in Nat /\ sent \in Nat /\ base \in Nat /\ Len(delivered) \in Nat
  BY BoundsAssumption DEF PumpInv, Types, BP!IInv, BP!TypeOK
<1>a. ASSUME UNCHANGED <<phase, frames, base, delivered, verdict, cur>>,
             base + sent' <= MaxEvents
      PROVE  FramedInOrder'
  BY <1>0, <1>a DEF FramedInOrder, Framed, Holds
<1>1. CASE Routine
  BY <1>0, <1>1, <1>a, RoutineEffect DEF cliVars, pumpVars, outVars, runVars, FramedInOrder
<1>2. CASE Serve
  BY <1>0, <1>2, <1>a, ServeEffect DEF cliVars, pumpVars, outVars, runVars, FramedInOrder
<1>3. CASE Ready
  <2>1. /\ phase = "start" /\ phase' = "range" /\ frames' = Append(frames, Frame("ready", 0))
        /\ UNCHANGED <<base, sent, delivered, verdict, cur>>
    BY <1>3, WritersEffect DEF Ready, bridgeVars, bridgeButCtx, runVars
  <2>2. frames = <<>> /\ delivered = <<>> /\ cur = 0
    BY <1>0, <2>1 DEF FramedInOrder
  <2>3. frames' = <<Frame("ready", 0)>>
    BY <2>1, <2>2
  <2>4. frames' # <<>> /\ Len(frames') = 1 /\ frames'[1] = Frame("ready", 0)
    BY <2>3
  <2> QED
    BY <1>0, <2>1, <2>2, <2>4 DEF FramedInOrder, Framed, Holds, TerminalKinds
<1>4. CASE Take
  <2>1. /\ Len(delivered') = Len(delivered) + 1 /\ cur' = base + Len(delivered) + 1
        /\ UNCHANGED <<sent, verdict>> /\ cur' \in Events
    BY <1>4, TakeEffect
  <2>2. /\ phase = "range" /\ phase' \in {"ack", "emit"} /\ UNCHANGED <<frames, base>>
    BY <1>4 DEF Take, outVars, runVars
  <2>3. base + Len(delivered') <= MaxEvents
    BY <1>0, <2>1 DEF Events
  <2> QED
    BY <1>0, <2>1, <2>2, <2>3 DEF FramedInOrder, Framed, Holds, TerminalKinds
<1>5. CASE AutoAck \/ AutoAckAborted
  <2>1. /\ phase = "ack" /\ phase' = "emit"
        /\ UNCHANGED <<frames, base, sent, delivered, verdict, cur>>
    BY <1>5 DEF AutoAck, AutoAckAborted, bridgeVars, bridgeButCtx, outVars, runVars
  <2> QED
    BY <1>0, <2>1 DEF FramedInOrder, Framed, Holds, TerminalKinds
<1>6. CASE Emit
  <2>1. /\ phase = "emit" /\ phase' = "range" /\ frames' = Append(frames, Delivery(cur))
        /\ cur' = 0 /\ UNCHANGED <<base, sent, delivered, verdict>>
    BY <1>6, WritersEffect DEF Emit, bridgeVars, bridgeButCtx, runVars
  <2>2. /\ frames # <<>> /\ Len(delivered) = Framed + 1 /\ cur = base + Len(delivered)
        /\ Framed = Len(frames) - 1 /\ Framed \in Nat
    BY <1>0, <2>1 DEF FramedInOrder, Holds, Framed
  <2>3. /\ Len(frames') = Len(frames) + 1 /\ frames' # <<>>
        /\ \A i \in 1..Len(frames) : frames'[i] = frames[i]
        /\ frames'[Len(frames) + 1] = Delivery(cur)
    BY <1>0, <2>1, FrameAdded
  <2>4. Framed' = Framed + 1
    BY <1>0, <2>1, <2>2, <2>3 DEF Framed
  <2>5. ASSUME NEW i \in 2..(Framed' + 1) PROVE frames'[i] = Delivery(base + i - 1)
    <3>1. CASE i \in 2..(Framed + 1)
      BY <1>0, <2>2, <2>3, <3>1 DEF FramedInOrder
    <3>2. CASE i = Framed + 2
      BY <1>0, <2>2, <2>3, <3>2
    <3> QED
      BY <2>2, <2>4, <3>1, <3>2
  <2>6. frames'[1] = Frame("ready", 0)
    BY <1>0, <2>2, <2>3 DEF FramedInOrder
  <2> QED
    BY <1>0, <2>1, <2>2, <2>3, <2>4, <2>5, <2>6 DEF FramedInOrder, Holds, TerminalKinds
<1>7. CASE DrainEnds
  BY <1>0, <1>7, <1>a, DrainEffect DEF cliVars, pumpVars, outVars, runVars, FramedInOrder
<1>8. CASE Finish
  <2>1. /\ phase \in TerminalKinds /\ phase' = "exited"
        /\ UNCHANGED <<base, sent, delivered, verdict, cur>>
        /\ frames' = Append(frames, Terminal(phase))
    BY <1>8, WritersEffect DEF Finish, bridgeVars, bridgeButCtx, runVars
  <2>2. /\ frames # <<>> /\ Framed = Len(delivered) /\ Framed \in Nat
        /\ phase = "eof" => verdict = "nil"
        /\ phase = "error" => verdict = "status"
    BY <1>0, <2>1 DEF FramedInOrder
  <2>3. /\ Len(frames') = Len(frames) + 1 /\ frames' # <<>>
        /\ \A i \in 1..Len(frames) : frames'[i] = frames[i]
        /\ frames'[Len(frames) + 1] = Terminal(phase)
    BY <1>0, <2>1, FrameAdded
  <2>4. Framed = Len(frames) - 1
    BY <2>1, <2>2 DEF Framed, TerminalKinds
  <2>5. Framed' = Framed
    BY <1>0, <2>1, <2>3, <2>4 DEF Framed
  <2>6. Terminal(phase).kind = phase /\ Terminal(phase).event = 0
    BY DEF Terminal, Frame
  <2>7. /\ \A i \in 2..(Framed + 1) : frames'[i] = Delivery(base + i - 1)
        /\ frames'[1] = Frame("ready", 0)
    BY <1>0, <2>2, <2>3, <2>4 DEF FramedInOrder
  <2>8. base + Framed <= MaxEvents /\ base + sent <= MaxEvents /\ base + Len(delivered) <= MaxEvents
    BY <1>0 DEF FramedInOrder
  <2> QED
    BY <1>0, <2>1, <2>2, <2>3, <2>4, <2>5, <2>6, <2>7, <2>8 DEF FramedInOrder, Holds, TerminalKinds
<1>13. CASE ReadVerdict
  <2>1. /\ phase = "range" /\ phase' \in TerminalKinds
        /\ phase' = "eof" => verdict' = "nil"
        /\ phase' = "error" => verdict' = "status"
        /\ UNCHANGED <<base, sent, delivered, cur, frames>>
    BY <1>13, VerdictEffect DEF ReadVerdict, outVars, runVars
  <2> QED
    BY <1>0, <2>1 DEF FramedInOrder, Framed, Holds, TerminalKinds
<1>9. CASE Plugin \/ Scan \/ StdinAck \/ AckerEnds \/ ApplyAck \/ LoseAck \/ Signal
  <2>1. UNCHANGED <<phase, frames, base, sent, delivered, verdict, cur>>
    BY <1>9 DEF Plugin, PluginHandle, PluginWrite, PluginClose, Scan, StdinAck, AckerEnds,
      ApplyAck, LoseAck, Signal, bridgeVars, bridgeButCtx, cliVars, pumpVars, outVars, runVars
  <2> QED
    BY <1>0, <1>a, <2>1 DEF FramedInOrder
<1>10. CASE Crash
  <2>1. /\ phase' = "crashed" /\ phase # "exited" /\ phase # "crashed"
        /\ UNCHANGED <<frames, base>> /\ sent' = 0 /\ delivered' = <<>> /\ cur' = 0
    BY <1>10 DEF Crash, Alive, BridgeAnew
  <2>2. Framed' = Framed /\ ~Holds'
    BY <2>1 DEF Framed, Holds
  <2>3. base <= MaxEvents /\ Len(delivered') = 0
    BY <1>0, <2>1 DEF Types
  <2> QED
    BY <1>0, <2>1, <2>2, <2>3 DEF FramedInOrder, TerminalKinds
<1>11. CASE Restart
  <2>1. /\ phase' = "start" /\ frames' = <<>> /\ sent' = 0 /\ base' = ckpt /\ cur' = 0
        /\ delivered' = <<>>
    BY <1>11 DEF Restart, BridgeAnew
  <2>2. ckpt \in 0..MaxEvents
    BY <1>0 DEF Types
  <2> QED
    BY <1>0, <2>1, <2>2 DEF FramedInOrder, Framed, Holds, TerminalKinds
<1>12. CASE UNCHANGED vars
  BY <1>0, <1>a, <1>12 DEF vars, bridgeVars, bridgeButCtx, cliVars, pumpVars, outVars, runVars,
    FramedInOrder
<1> QED
  BY <1>1, <1>2, <1>3, <1>4, <1>5, <1>6, <1>7, <1>8, <1>9, <1>10, <1>11, <1>12,
    <1>13 DEF Next, Pump, PumpWrites, Acker, AckReplies, Stopped
-----------------------------------------------------------------------------
(* What the plugin can read, and how it moves.                             *)

\* The events framed are those behind the session's base, one after the other.
LEMMA FramedIs ==
  ASSUME PumpInv
  PROVE  /\ InFrames = (base + 1)..(base + Framed)
         /\ base \in Nat /\ Framed \in Nat /\ MaxEvents \in Nat
         /\ base + Framed <= MaxEvents
<1>1. /\ FramedInOrder /\ frames \in Seq(FrameSet) /\ Len(frames) \in Nat /\ base \in Nat
      /\ MaxEvents \in Nat /\ Framed \in Nat /\ base + Framed <= MaxEvents
      /\ Len(delivered) \in Nat
  BY BoundsAssumption DEF PumpInv, Types, FramedInOrder, BP!IInv, BP!TypeOK
<1>2. ASSUME NEW i \in 1..Len(frames)
      PROVE  frames[i].event = IF i \in 2..(Framed + 1) THEN base + i - 1 ELSE 0
  <2>1. CASE i = 1
    <3>1. frames # <<>>
      BY <1>1, <1>2
    <3>2. frames[1].event = 0
      BY <1>1, <3>1 DEF FramedInOrder, Frame
    <3>3. 1 \notin 2..(Framed + 1)
      BY <1>1
    <3> QED
      BY <2>1, <3>2, <3>3
  <2>2. CASE i \in 2..(Framed + 1)
    <3>1. frames[i] = Delivery(base + i - 1)
      BY <1>1, <2>2 DEF FramedInOrder
    <3>2. Delivery(base + i - 1).event = base + i - 1
      BY DEF Delivery, Frame
    <3> QED
      BY <2>2, <3>1, <3>2
  <2>3. CASE i > Framed + 1
    <3>1. phase = "exited" /\ i = Len(frames)
      BY <1>1, <1>2, <2>3 DEF Framed
    <3>2. frames[i].event = 0
      BY <1>1, <3>1 DEF FramedInOrder
    <3>3. i \notin 2..(Framed + 1)
      BY <1>1, <2>3
    <3> QED
      BY <3>2, <3>3
  <2> QED
    BY <1>1, <2>1, <2>2, <2>3
<1>3. Framed > 0 => Framed + 1 <= Len(frames)
  BY <1>1 DEF Framed
<1>4. ASSUME NEW e \in InFrames PROVE e \in (base + 1)..(base + Framed)
  <2>1. PICK i \in 1..Len(frames) : e = frames[i].event /\ e # 0
    BY <1>4 DEF InFrames
  <2> QED
    BY <1>1, <1>2, <2>1
<1>5. ASSUME NEW e \in (base + 1)..(base + Framed) PROVE e \in InFrames
  <2>1. (e - base) + 1 \in 2..(Framed + 1) /\ (e - base) + 1 \in 1..Len(frames) /\ e # 0
    BY <1>1, <1>3, <1>5
  <2>2. frames[(e - base) + 1].event = base + ((e - base) + 1) - 1
    BY <1>2, <2>1
  <2>3. frames[(e - base) + 1].event = e
    BY <1>1, <1>5, <2>2
  <2> QED
    BY <2>1, <2>3 DEF InFrames
<1> QED
  BY <1>1, <1>4, <1>5

\* Only a frame written and a restart change what there is to read: the frame
\* adds the event in hand, the restart takes everything away.
LEMMA FramedStep ==
  ASSUME PumpInv, [Next]_vars, ~Emit, ~Restart
  PROVE  UNCHANGED <<InFrames, tried, session, base>>
<1>1. /\ FramedInOrder /\ frames \in Seq(FrameSet) /\ Len(frames) \in Nat
  BY DEF PumpInv, Types
<1>a. UNCHANGED frames => UNCHANGED InFrames
  BY DEF InFrames
<1>2. CASE UNCHANGED <<frames, tried, session, base>>
  BY <1>a, <1>2
<1>3. ASSUME NEW f, f.event = 0, frames' = Append(frames, f),
             UNCHANGED <<tried, session, base>>
      PROVE  UNCHANGED <<InFrames, tried, session, base>>
  <2>1. /\ Len(frames') = Len(frames) + 1
        /\ \A i \in 1..Len(frames) : frames'[i] = frames[i]
        /\ frames'[Len(frames) + 1] = f
    BY <1>1, <1>3, FrameAdded
  <2>2. \A i \in 1..Len(frames') : i \in 1..Len(frames) \/ i = Len(frames) + 1
    BY <1>1, <2>1
  <2>3. \A i \in 1..Len(frames) : i \in 1..Len(frames')
    BY <1>1, <2>1
  <2>4. ASSUME NEW e \in InFrames' PROVE e \in InFrames
    <3>1. PICK i \in 1..Len(frames') : e = frames'[i].event /\ e # 0
      BY <2>4 DEF InFrames
    <3>2. i \in 1..Len(frames)
      BY <1>3, <2>1, <2>2, <3>1
    <3> QED
      BY <2>1, <3>1, <3>2 DEF InFrames
  <2>5. ASSUME NEW e \in InFrames PROVE e \in InFrames'
    <3>1. PICK i \in 1..Len(frames) : e = frames[i].event /\ e # 0
      BY <2>5 DEF InFrames
    <3> QED
      BY <2>1, <2>3, <3>1 DEF InFrames
  <2> QED
    BY <1>3, <2>4, <2>5
<1>4. CASE Ready
  <2>1. Frame("ready", 0).event = 0 /\ frames' = Append(frames, Frame("ready", 0))
    BY <1>4, WritersEffect DEF Frame
  <2> QED
    BY <1>3, <1>4, <2>1 DEF Ready, runVars
<1>5. CASE Finish
  <2>1. frames' = Append(frames, Terminal(phase))
    BY <1>5, WritersEffect
  <2>2. Terminal(phase).event = 0
    BY DEF Terminal, Frame
  <2> QED
    BY <1>3, <1>5, <2>1, <2>2 DEF Finish, runVars
<1>6. CASE Routine \/ Serve \/ DrainEnds
  BY <1>2, <1>6, RoutineEffect, ServeEffect, DrainEffect DEF cliVars, pumpVars, outVars, runVars
<1>7. CASE Take \/ AutoAck \/ AutoAckAborted \/ ReadVerdict \/ Plugin \/ Acker \/ StdinAck
           \/ ApplyAck \/ LoseAck \/ Signal \/ Crash
  BY <1>2, <1>7 DEF Take, ReadVerdict, AutoAck, AutoAckAborted, Plugin, PluginHandle, PluginWrite,
    PluginClose, Acker, Scan, StdinAck, AckerEnds, ApplyAck, LoseAck, Signal, Crash, cliVars,
    pumpVars, outVars, runVars
<1>8. CASE UNCHANGED vars
  BY <1>2, <1>8 DEF vars, cliVars, pumpVars, outVars, runVars
<1> QED
  BY <1>4, <1>5, <1>6, <1>7, <1>8 DEF Next, Pump, PumpWrites, AckReplies, Stopped

\* A frame written.
LEMMA FramedEmit ==
  ASSUME PumpInv, PumpInv', Emit
  PROVE  /\ InFrames' = InFrames \cup {cur} /\ cur \notin InFrames /\ cur \in Events
         /\ cur = base + Framed + 1
<1>1. /\ Holds /\ phase = "emit" /\ phase' = "range" /\ frames' = Append(frames, Delivery(cur))
      /\ UNCHANGED base
  BY WritersEffect DEF Emit, Holds, runVars
<1>2. /\ frames \in Seq(FrameSet) /\ Len(frames) \in Nat /\ frames # <<>>
      /\ cur = base + Framed + 1 /\ Framed = Len(frames) - 1
  <2>1. FramedInOrder /\ frames \in Seq(FrameSet)
    BY DEF PumpInv, Types
  <2>2. frames # <<>> /\ Len(delivered) = Framed + 1 /\ cur = base + Len(delivered)
    BY <1>1, <2>1 DEF FramedInOrder
  <2>3. Framed = Len(frames) - 1
    BY <1>1, <2>2 DEF Framed
  <2> QED
    BY <2>1, <2>2, <2>3, FramedIs
<1>3. Framed' = Framed + 1
  <2>1. Len(frames') = Len(frames) + 1 /\ frames' # <<>>
    BY <1>1, <1>2, FrameAdded
  <2> QED
    BY <1>1, <1>2, <2>1 DEF Framed
<1>4. InFrames' = (base + 1)..(base + Framed + 1)
  <2>1. (InFrames = (base + 1)..(base + Framed))'
    BY FramedIs, PTL
  <2> QED
    BY <1>1, <1>3, <2>1, FramedIs
<1>5. cur \in Events
  BY <1>1, HeldIsEvent
<1> QED
  BY <1>2, <1>4, <1>5, FramedIs

\* A restart.
LEMMA FramedRestart ==
  ASSUME Restart
  PROVE  InFrames' = {} /\ session' = session + 1 /\ UNCHANGED tried
BY DEF Restart, InFrames
-----------------------------------------------------------------------------
(* Each event framed, in the plugin and under way to the server.           *)

\* What this process framed is remembered.
FramedTried == InFrames \subseteq tried

\* Mode stdin: what is on its way to the checkpoint has been handled, with
\* everything before it.
HandledFirst ==
  ackMode = "stdin" =>
    /\ 1..ckpt \subseteq handled
    /\ acks \subseteq handled
    /\ \A i \in 1..Len(stdin) : stdin[i] \in handled \cup {0, NoJson, TooLong}
    /\ \A e \in handled : 1..e \subseteq handled

\* consumeStdinAcks runs in mode stdin only.
AckerMode == ackMode # "stdin" => acker = "gone"

\* Mode auto: what was acked, or may be, and never framed.
InHand == IF Holds THEN {cur} ELSE {}
Acked(e) == e <= ckpt \/ (\E n \in acks : e <= n) \/ (Holds /\ e <= cur)
Untried == {e \in Events : e \notin tried /\ Acked(e)}
LostInHand == ackMode = "auto" => Cardinality(Untried \ InHand) <= crashes

SubsInv == PumpInv /\ FramedTried /\ HandledFirst /\ AckerMode /\ LostInHand

\* A frame adds its event to what was tried, a restart forgets the frames.
LEMMA TriedStep == PumpInv /\ PumpInv' /\ FramedTried /\ [Next]_vars => FramedTried'
<1> SUFFICES ASSUME PumpInv, PumpInv', FramedTried, [Next]_vars PROVE FramedTried'
  OBVIOUS
<1>1. CASE Emit
  BY <1>1, FramedEmit DEF FramedTried, Emit, WriteDelivery
<1>2. CASE Restart
  BY <1>2, FramedRestart DEF FramedTried
<1>3. CASE ~Emit /\ ~Restart
  BY <1>3, FramedStep DEF FramedTried
<1> QED
  BY <1>1, <1>2, <1>3

\* The plugin handles in order, acks what it handled, and the acks move the
\* checkpoint no further.
LEMMA HandledStep == PumpInv /\ HandledFirst /\ [Next]_vars => HandledFirst'
<1> SUFFICES ASSUME PumpInv, HandledFirst, [Next]_vars, ackMode' = "stdin"
             PROVE  HandledFirst'
  BY DEF HandledFirst
<1>0. /\ ckpt \in Nat /\ acks \subseteq Nat /\ handled \subseteq Nat /\ base \in 0..ckpt
      /\ stdin \in Seq(Lines) /\ Len(stdin) \in Nat
  BY BoundsAssumption DEF PumpInv, Types, Events
<1>1. ackMode = "stdin"
  BY RoutineEffect, ServeEffect, DrainEffect DEF Next, Pump, PumpWrites, Ready, Take, AutoAck,
    AutoAckAborted, Emit, ReadVerdict, Finish, Acker, Scan, AckerEnds, AckReplies, StdinAck, Plugin,
    PluginHandle, PluginWrite, PluginClose, ApplyAck, LoseAck, Signal, Crash, Restart, Stopped,
    cliVars, runVars, vars
<1>2. /\ 1..ckpt \subseteq handled /\ acks \subseteq handled
      /\ \A i \in 1..Len(stdin) : stdin[i] \in handled \cup {0, NoJson, TooLong}
      /\ \A e \in handled : 1..e \subseteq handled
  BY <1>1 DEF HandledFirst
<1>b. Readable = InFrames
  BY <1>1 DEF PumpInv, Types, Readable, InFrames
<1>a. ASSUME UNCHANGED <<ckpt, acks, stdin, handled>> PROVE HandledFirst'
  BY <1>2, <1>a DEF HandledFirst
<1>3. CASE Routine \/ Serve \/ DrainEnds
  BY <1>a, <1>3, RoutineEffect, ServeEffect, DrainEffect DEF cliVars, stdinVars
<1>4. CASE Ready \/ Take \/ AutoAck \/ AutoAckAborted \/ Emit \/ ReadVerdict \/ Finish
           \/ StdinAck \/ AckerEnds \/ PluginClose \/ Signal \/ UNCHANGED vars
  BY <1>1, <1>a, <1>4 DEF Ready, Take, AutoAck, AutoAckAborted, Emit, ReadVerdict, Finish,
    StdinAck, AckerEnds, PluginClose, Signal, cliVars, stdinVars, vars
<1>5. CASE PluginHandle
  <2>1. /\ UNCHANGED <<ckpt, acks, stdin>>
        /\ \E e \in InFrames \ handled :
             /\ \A d \in InFrames : d < e => d \in handled
             /\ handled' = handled \cup {e}
    BY <1>5, <1>b DEF PluginHandle
  <2>2. PICK e \in InFrames \ handled :
          /\ \A d \in InFrames : d < e => d \in handled
          /\ handled' = handled \cup {e}
    BY <2>1
  <2>3. ASSUME NEW d \in 1..e PROVE d \in handled'
    <3>1. InFrames = (base + 1)..(base + Framed) /\ base \in Nat /\ Framed \in Nat
      BY FramedIs
    <3>2. CASE d <= base
      BY <1>0, <1>2, <2>2, <3>1, <3>2
    <3>3. CASE base < d /\ d < e
      <4>1. d \in InFrames
        BY <2>2, <3>1, <3>3
      <4> QED
        BY <2>2, <3>3, <4>1
    <3>4. CASE d = e
      BY <2>2, <3>4
    <3> QED
      BY <2>2, <3>1, <3>2, <3>3, <3>4
  <2> QED
    BY <1>2, <2>1, <2>2, <2>3 DEF HandledFirst
<1>6. CASE PluginWrite
  <2>1. UNCHANGED <<ckpt, acks, handled>>
    BY <1>6 DEF PluginWrite
  <2>2. PICK n \in (Readable \cap handled) \cup {0, NoJson, TooLong} : stdin' = Append(stdin, n)
    BY <1>6 DEF PluginWrite
  <2>3. \A i \in 1..Len(stdin') : stdin'[i] \in handled \cup {0, NoJson, TooLong}
    BY <1>0, <1>2, <2>2
  <2> QED
    BY <1>2, <2>1, <2>3 DEF HandledFirst
<1>7. CASE Scan
  <2>1. stdin # <<>> /\ stdin' = Tail(stdin) /\ UNCHANGED <<ckpt, handled>>
    BY <1>7 DEF Scan
  <2>2. \A i \in 1..Len(stdin') : stdin'[i] \in handled \cup {0, NoJson, TooLong}
    BY <1>0, <1>2, <2>1
  <2>3. Head(stdin) \in handled \cup {0, NoJson, TooLong}
    BY <1>0, <1>2, <2>1
  <2>4. acks' \subseteq handled
    BY <1>2, <1>7, <2>3 DEF Scan, SendAck
  <2> QED
    BY <1>2, <2>1, <2>2, <2>4 DEF HandledFirst
<1>8. CASE ApplyAck
  <2>1. PICK n \in acks : acks' = acks \ {n} /\ ckpt' = Larger(ckpt, n)
    BY <1>8 DEF ApplyAck
  <2>2. UNCHANGED <<stdin, handled>>
    BY <1>8 DEF ApplyAck, stdinVars
  <2>3. 1..ckpt' \subseteq handled
    BY <1>2, <2>1 DEF Larger
  <2> QED
    BY <1>2, <2>1, <2>2, <2>3 DEF HandledFirst
<1>9. CASE LoseAck
  BY <1>2, <1>9 DEF LoseAck, stdinVars, HandledFirst
<1>10. CASE Crash \/ Restart
  <2>1. UNCHANGED <<ckpt, acks, handled>> /\ stdin' = <<>>
    BY <1>10 DEF Crash, Restart
  <2> QED
    BY <1>2, <2>1 DEF HandledFirst
<1> QED
  BY <1>3, <1>4, <1>5, <1>6, <1>7, <1>8, <1>9, <1>10 DEF Next, Pump, PumpWrites, Acker,
    AckReplies, Plugin, Stopped

\* No other mode starts the goroutine over stdin.
LEMMA AckerStep == PumpInv /\ AckerMode /\ [Next]_vars => AckerMode'
<1> SUFFICES ASSUME PumpInv, AckerMode, [Next]_vars PROVE AckerMode'
  OBVIOUS
<1>a. ASSUME UNCHANGED <<ackMode, acker>> PROVE AckerMode'
  BY <1>a DEF AckerMode
<1>1. CASE Routine \/ Serve \/ DrainEnds
  BY <1>a, <1>1, RoutineEffect, ServeEffect, DrainEffect DEF cliVars, runVars, stdinVars
<1>2. CASE Ready \/ Take \/ AutoAck \/ AutoAckAborted \/ Emit \/ ReadVerdict \/ Finish
           \/ Plugin \/ ApplyAck \/ LoseAck \/ Signal \/ UNCHANGED vars
  BY <1>a, <1>2 DEF Ready, Take, AutoAck, AutoAckAborted, Emit, ReadVerdict, Finish, Plugin,
    PluginHandle, PluginWrite, PluginClose, ApplyAck, LoseAck, Signal, vars, cliVars, runVars,
    stdinVars
<1>3. CASE Crash
  BY <1>3 DEF Crash, AckerMode
<1>4. CASE Scan \/ StdinAck \/ AckerEnds
  BY <1>4 DEF Scan, StdinAck, AckerEnds, runVars, AckerMode
<1>5. CASE Restart
  BY <1>5 DEF Restart, AckerAtStart, AckerMode
<1> QED
  BY <1>1, <1>2, <1>3, <1>4, <1>5 DEF Next, Pump, PumpWrites, Acker, AckReplies, Stopped

\* A step that moves nothing an event's fate hangs on.
LEMMA LostAside ==
  ASSUME LostInHand, UNCHANGED <<ackMode, ckpt, acks, phase, cur, tried, crashes>>
  PROVE  LostInHand'
BY DEF LostInHand, Untried, InHand, Acked, Holds

\* A step that adds nothing to what is lost.
LEMMA LostNoMore ==
  ASSUME PumpInv, LostInHand, ackMode = "auto", crashes' = crashes,
         Untried' \ InHand' \subseteq Untried \ InHand
  PROVE  LostInHand'
<1>1. IsFiniteSet(Untried \ InHand)
  <2>1. IsFiniteSet(Events)
    BY BoundsAssumption, FS_Interval DEF Events
  <2> QED
    BY <2>1, FS_Subset DEF Untried
<1>2. /\ Cardinality(Untried' \ InHand') <= Cardinality(Untried \ InHand)
      /\ Cardinality(Untried' \ InHand') \in Nat /\ Cardinality(Untried \ InHand) \in Nat
  <2>1. IsFiniteSet(Untried' \ InHand')
    BY <1>1, FS_Subset
  <2> QED
    BY <1>1, <2>1, FS_Subset, FS_CardinalityType
<1>3. Cardinality(Untried \ InHand) <= crashes /\ crashes \in Nat
  BY DEF LostInHand, PumpInv, Types
<1>4. Cardinality((Untried \ InHand)') <= crashes'
  BY <1>2, <1>3
<1> QED
  BY <1>4 DEF LostInHand

\* Mode auto: each kill loses at most the event in hand.
LEMMA LostStep ==
  PumpInv /\ PumpInv' /\ FramedTried /\ AckerMode /\ LostInHand /\ [Next]_vars => LostInHand'
<1> SUFFICES ASSUME PumpInv, PumpInv', FramedTried, AckerMode, LostInHand, [Next]_vars,
                    ackMode' = "auto"
             PROVE  LostInHand'
  BY DEF LostInHand
<1>0. /\ ckpt \in Nat /\ acks \subseteq Nat /\ base \in 0..ckpt /\ crashes \in Nat
      /\ tried \subseteq Events /\ Events \subseteq Nat /\ cur \in Nat
  BY BoundsAssumption DEF PumpInv, Types, Events
<1>1. ackMode = "auto"
  BY RoutineEffect, ServeEffect, DrainEffect DEF Next, Pump, PumpWrites, Ready, Take, AutoAck,
    AutoAckAborted, Emit, ReadVerdict, Finish, Acker, Scan, AckerEnds, AckReplies, StdinAck, Plugin,
    PluginHandle, PluginWrite, PluginClose, ApplyAck, LoseAck, Signal, Crash, Restart, Stopped,
    cliVars, runVars, vars
<1>2. acker = "gone"
  BY <1>1 DEF AckerMode
<1>a. CASE UNCHANGED <<ackMode, ckpt, acks, phase, cur, tried, crashes>>
  BY <1>a, LostAside
<1>b. ASSUME UNCHANGED <<ckpt, acks, cur, tried, crashes>>, Holds' <=> Holds
      PROVE  LostInHand'
  BY <1>1, <1>b DEF LostInHand, Untried, InHand, Acked
<1>3. CASE Routine \/ Serve \/ DrainEnds
  BY <1>a, <1>3, RoutineEffect, ServeEffect, DrainEffect DEF cliVars, pumpVars, outVars, runVars
<1>4. CASE Ready \/ AutoAck \/ AutoAckAborted \/ ReadVerdict \/ Finish
  <2>1. ReadVerdict => phase = "range" /\ phase' \in TerminalKinds
    BY VerdictEffect DEF ReadVerdict
  <2> QED
    BY <1>b, <1>4, <2>1 DEF Ready, AutoAck, AutoAckAborted, ReadVerdict, Finish, Holds, runVars,
      TerminalKinds
<1>5. CASE Plugin \/ Acker \/ StdinAck \/ Signal \/ UNCHANGED vars
  BY <1>1, <1>2, <1>a, <1>5 DEF Plugin, PluginHandle, PluginWrite, PluginClose, Acker, Scan,
    AckerEnds, StdinAck, Signal, vars, cliVars, pumpVars, outVars, runVars
<1>6. CASE Take
  <2>1. /\ ~Holds /\ Holds' /\ UNCHANGED <<ckpt, tried, crashes>>
        /\ phase = "range" /\ acks' \subseteq acks \cup {cur'}
    BY <1>6 DEF Take, SendAck, Holds, outVars, runVars
  <2>2. cur' = base + Framed + 1 /\ cur' \in Events
    <3>1. Framed = Len(delivered)
      BY <2>1 DEF PumpInv, FramedInOrder
    <3> QED
      BY <1>6, <3>1, TakeEffect
  <2>3. InFrames = (base + 1)..(base + Framed) /\ base \in Nat /\ Framed \in Nat
    BY FramedIs
  <2>4. ASSUME NEW e \in Events, e \notin tried, Acked(e)', e # cur' PROVE Acked(e)
    <3>1. CASE e <= ckpt \/ \E n \in acks : e <= n
      BY <3>1 DEF Acked
    <3>2. CASE e <= cur'
      <4>1. e \notin InFrames
        BY <2>4 DEF FramedTried
      <4>2. e <= base
        BY <1>0, <2>2, <2>3, <2>4, <3>2, <4>1
      <4> QED
        BY <1>0, <4>2 DEF Acked
    <3> QED
      BY <2>1, <2>4, <3>1, <3>2 DEF Acked
  <2>5. InHand = {} /\ InHand' = {cur'}
    BY <2>1 DEF InHand
  <2>6. Untried' \ InHand' \subseteq Untried \ InHand
    BY <2>1, <2>4, <2>5 DEF Untried
  <2> QED
    BY <1>1, <2>1, <2>6, LostNoMore
<1>7. CASE Emit
  <2>1. /\ Holds /\ ~Holds' /\ UNCHANGED <<ckpt, acks, crashes>>
        /\ tried' = tried \cup {cur}
    BY <1>7 DEF Emit, WriteDelivery, Holds, runVars
  <2>4. InHand = {cur} /\ InHand' = {}
    BY <2>1 DEF InHand
  <2>5. \A e : Acked(e)' => Acked(e)
    BY <2>1 DEF Acked
  <2>6. ASSUME NEW e \in Untried' PROVE e \in Untried \ InHand
    <3>1. e \in Events /\ e \notin tried' /\ Acked(e)'
      BY <2>6 DEF Untried
    <3> QED
      BY <2>1, <2>4, <2>5, <3>1 DEF Untried
  <2> QED
    BY <1>1, <2>1, <2>4, <2>6, LostNoMore
<1>8. CASE ApplyAck \/ LoseAck
  <2>1. UNCHANGED <<phase, cur, tried, crashes>>
    BY <1>8 DEF ApplyAck, LoseAck, pumpVars, outVars, runVars
  <2>2. \A e \in Events : Acked(e)' => Acked(e)
    <3>1. CASE ApplyAck
      <4>1. PICK n \in acks : acks' = acks \ {n} /\ ckpt' = Larger(ckpt, n)
        BY <3>1 DEF ApplyAck
      <4> QED
        BY <1>0, <2>1, <4>1 DEF Acked, Larger, Holds
    <3>2. CASE LoseAck
      BY <2>1, <3>2 DEF LoseAck, Acked, Holds
    <3> QED
      BY <1>8, <3>1, <3>2
  <2>3. Untried' \ InHand' \subseteq Untried \ InHand
    BY <2>1, <2>2 DEF Untried, InHand, Holds
  <2> QED
    BY <1>1, <2>1, <2>3, LostNoMore
<1>9. CASE Crash
  <2>1. /\ phase' = "crashed" /\ crashes' = crashes + 1 /\ UNCHANGED <<ckpt, acks, tried>>
    BY <1>9 DEF Crash
  <2>2. InHand' = {} /\ ~Holds'
    BY <2>1 DEF InHand, Holds
  <2>3. Untried' \subseteq Untried
    BY <2>1, <2>2 DEF Untried, Acked
  <2>4. Untried' \subseteq (Untried \ InHand) \cup {cur}
    BY <2>3 DEF InHand
  <2>5. IsFiniteSet(Untried \ InHand)
    <3>1. IsFiniteSet(Events)
      BY BoundsAssumption, FS_Interval DEF Events
    <3> QED
      BY <3>1, FS_Subset DEF Untried
  <2>6. /\ IsFiniteSet((Untried \ InHand) \cup {cur})
        /\ Cardinality((Untried \ InHand) \cup {cur}) <= Cardinality(Untried \ InHand) + 1
    <3>1. CASE cur \in Untried \ InHand
      <4>1. (Untried \ InHand) \cup {cur} = Untried \ InHand
        BY <3>1
      <4>2. Cardinality(Untried \ InHand) \in Nat
        BY <2>5, FS_CardinalityType
      <4> QED
        BY <2>5, <4>1, <4>2
    <3>2. CASE cur \notin Untried \ InHand
      <4>1. /\ IsFiniteSet((Untried \ InHand) \cup {cur})
            /\ Cardinality((Untried \ InHand) \cup {cur}) = Cardinality(Untried \ InHand) + 1
        BY <2>5, <3>2, FS_AddElement
      <4>2. Cardinality(Untried \ InHand) \in Nat
        BY <2>5, FS_CardinalityType
      <4> QED
        BY <4>1, <4>2
    <3> QED
      BY <3>1, <3>2
  <2>7. /\ Cardinality(Untried') <= Cardinality((Untried \ InHand) \cup {cur})
        /\ Cardinality(Untried') \in Nat
        /\ Cardinality((Untried \ InHand) \cup {cur}) \in Nat
        /\ Cardinality(Untried \ InHand) \in Nat
    BY <2>4, <2>5, <2>6, FS_Subset, FS_CardinalityType
  <2>8. Cardinality(Untried \ InHand) <= crashes
    BY <1>1 DEF LostInHand
  <2>9. Cardinality(Untried') <= crashes'
    BY <1>0, <2>1, <2>6, <2>7, <2>8
  <2>10. Untried' \ InHand' = Untried'
    BY <2>2
  <2> QED
    BY <2>9, <2>10 DEF LostInHand
<1>10. CASE Restart
  <2>1. /\ phase' = "start" /\ phase \in {"exited", "crashed"}
        /\ UNCHANGED <<ckpt, acks, tried, crashes>>
    BY <1>10 DEF Restart, Alive
  <2>2. Untried' \ InHand' \subseteq Untried \ InHand
    BY <2>1 DEF Untried, InHand, Acked, Holds
  <2> QED
    BY <1>1, <2>1, <2>2, LostNoMore
<1> QED
  BY <1>3, <1>4, <1>5, <1>6, <1>7, <1>8, <1>9, <1>10 DEF Next, Pump, PumpWrites, AckReplies, Stopped
-----------------------------------------------------------------------------
(* The theorems.                                                           *)

\* The first session starts in the invariant.
LEMMA InitSubs == Init => SubsInv
<1> SUFFICES ASSUME Init PROVE SubsInv
  OBVIOUS
<1>1. BP!IInv
  <2>1. BP!Init
    BY DEF Init, Bridge!Init, BP!Init, Bridge!NoMsg, BP!NoMsg
  <2> QED
    BY <2>1, BridgeStart
<1>2. /\ ackMode \in AckModes /\ ckpt = 0 /\ acks = {} /\ base = 0 /\ phase = "start" /\ cur = 0
      /\ frames = <<>> /\ lost = {} /\ session = 1 /\ crashes = 0 /\ tried = {}
      /\ handled = {} /\ stdin = <<>> /\ stdinOpen = TRUE /\ acker = AckerAtStart
      /\ delivered = <<>> /\ sent = 0
  BY DEF Init, Bridge!Init
<1>3. Types
  <2>1. frames \in Seq(FrameSet) /\ stdin \in Seq(Lines) /\ Len(stdin) = 0
    BY <1>2
  <2> QED
    BY <1>2, <2>1, BoundsAssumption DEF Types, AckerAtStart
<1>4. FramedInOrder
  BY <1>2, BoundsAssumption DEF FramedInOrder, Framed, Holds, TerminalKinds
<1>5. FramedTried
  BY <1>2 DEF FramedTried, InFrames
<1>6. HandledFirst /\ AckerMode
  BY <1>2 DEF HandledFirst, AckerMode, AckerAtStart
<1>7. LostInHand
  <2>1. Untried \ InHand = {}
    BY <1>2, BoundsAssumption DEF Untried, Acked, Holds, Events
  <2> QED
    <3>1. Cardinality(Untried \ InHand) = 0
      BY <2>1, FS_EmptySet
    <3> QED
      BY <1>2, <3>1 DEF LostInHand
<1> QED
  BY <1>1, <1>3, <1>4, <1>5, <1>6, <1>7 DEF SubsInv, PumpInv

\* Every step keeps it.
LEMMA StepSubs == SubsInv /\ [Next]_vars => SubsInv'
<1> SUFFICES ASSUME SubsInv, [Next]_vars PROVE SubsInv'
  OBVIOUS
<1>1. PumpInv /\ FramedTried /\ HandledFirst /\ AckerMode /\ LostInHand
  BY DEF SubsInv
<1>2. PumpInv'
  BY <1>1, BridgeStep, TypesStep, FramesStep DEF PumpInv
<1> QED
  BY <1>1, <1>2, TriedStep, HandledStep, AckerStep, LostStep DEF SubsInv

\* The invariant holds in every session, whatever was killed or lost before.
THEOREM InductiveInvariant == Spec => []SubsInv
BY InitSubs, StepSubs, PTL DEF Spec

\* Every variable of the process, the plugin and the server stays in its type.
THEOREM TypeCorrect == Spec => []TypeOK
<1>1. SubsInv => TypeOK
  <2> SUFFICES ASSUME SubsInv PROVE TypeOK
    OBVIOUS
  <2>1. Types /\ BP!TypeOK
    BY DEF SubsInv, PumpInv, BP!IInv
  <2>2. Bridge!TypeOK
    BY <2>1 DEF BP!TypeOK, Bridge!TypeOK, BP!Stops, Bridge!Stops, BP!PCs, Bridge!PCs,
      BP!Verdicts, Bridge!Verdicts
  <2>3. \A i \in 1..Len(frames) : frames[i] \in FrameSet
    BY <2>1 DEF Types
  <2> QED
    BY <2>1, <2>2, <2>3 DEF TypeOK, Types, FrameSet
<1> QED
  BY InductiveInvariant, <1>1, PTL

\* The pump frames ready, the session's deliveries without a gap, and one last
\* frame; stdout shows them but for those whose write failed.
THEOREM StdoutInOrder == Spec => []FramesWellFormed
<1>1. SubsInv => FramesWellFormed
  <2> SUFFICES ASSUME SubsInv PROVE FramesWellFormed
    OBVIOUS
  <2>1. /\ FramedInOrder /\ frames \in Seq(FrameSet) /\ Len(frames) \in Nat
        /\ phase \in {"start", "range", "ack", "emit", "exited", "crashed"} \cup TerminalKinds
        /\ ackMode = "stdin" => lost = {}
    BY DEF SubsInv, PumpInv, Types
  <2>2. CASE frames = <<>>
    <3>1. phase \in {"start", "crashed"}
      BY <2>1, <2>2 DEF FramedInOrder, Framed, Holds
    <3> QED
      BY <2>1, <2>2, <3>1 DEF FramesWellFormed
  <2>3. CASE frames # <<>>
    <3>1. frames[1].kind = "ready"
      BY <2>1, <2>3 DEF FramedInOrder, Frame
    <3>2. (IF phase = "exited" THEN Len(frames) - 1 ELSE Len(frames)) = Framed + 1
      BY <2>1, <2>3 DEF Framed
    <3>3. phase = "exited" =>
            Len(frames) > 1 /\ frames[Len(frames)].kind \in TerminalKinds
      BY <2>1 DEF FramedInOrder, Framed
    <3>4. \A i \in 2..(Framed + 1) : frames[i] = Delivery(base + i - 1)
      BY <2>1 DEF FramedInOrder
    <3> QED
      BY <2>1, <3>1, <3>2, <3>3, <3>4 DEF FramesWellFormed
  <2> QED
    BY <2>2, <2>3
<1> QED
  BY InductiveInvariant, <1>1, PTL

\* The last frame says what happened to the stream: eof only behind everything
\* the server sent, on stdout or lost, error only after a failure.
THEOREM LastFrameIsTrue == Spec => []TerminalHonest
<1>1. SubsInv => TerminalHonest
  <2> SUFFICES ASSUME SubsInv, phase = "exited" PROVE TerminalHonest
    BY DEF TerminalHonest, EndsWith
  <2>1. FramedInOrder /\ BP!IInv /\ frames \in Seq(FrameSet) /\ sent \in Nat
    BY DEF SubsInv, PumpInv, Types, BP!IInv, BP!TypeOK
  <2>2. Framed = Len(delivered) /\ Framed = Len(frames) - 2
    BY <2>1 DEF FramedInOrder, Framed
  <2>3. CASE frames[Len(frames)].kind = "eof"
    <3>1. verdict = "nil"
      BY <2>1, <2>3 DEF FramedInOrder
    <3>2. srv = "eof" /\ Len(delivered) = sent
      BY <2>1, <3>1 DEF BP!IInv, BP!ErrKept, BP!ErrTruthful
    <3>3. InFrames = (base + 1)..(base + sent)
      BY <2>2, <3>2, FramedIs DEF SubsInv
    <3>4. InFrames \ Readable \subseteq {frames[i].event : i \in lost}
      BY DEF InFrames, Readable
    <3> QED
      BY <2>3, <3>2, <3>3, <3>4 DEF TerminalHonest, EndsWith
  <2>4. CASE frames[Len(frames)].kind = "error"
    <3>1. verdict = "status"
      BY <2>1, <2>4 DEF FramedInOrder
    <3>2. srv = "failed"
      BY <2>1, <3>1 DEF BP!IInv, BP!ErrKept, BP!ErrTruthful
    <3> QED
      BY <2>4, <3>2 DEF TerminalHonest, EndsWith
  <2> QED
    BY <2>3, <2>4 DEF TerminalHonest, EndsWith
<1> QED
  BY InductiveInvariant, <1>1, PTL

\* Mode stdin: the checkpoint stays behind what the plugin has handled.
THEOREM NothingSkipped == Spec => []CheckpointBehindHandled
<1>1. SubsInv => CheckpointBehindHandled
  BY DEF SubsInv, HandledFirst, CheckpointBehindHandled
<1> QED
  BY InductiveInvariant, <1>1, PTL

\* Mode auto: each kill leaves at most the event in the pump's hands unframed.
THEOREM OneLossPerCrash == Spec => []LostPerCrash
<1>1. SubsInv => LostPerCrash
  <2> SUFFICES ASSUME SubsInv, ackMode = "auto" PROVE LostPerCrash
    BY DEF LostPerCrash
  <2> DEFINE W == (1..ckpt) \ tried
  <2>1. /\ ckpt \in 0..MaxEvents /\ MaxEvents \in Nat /\ crashes \in Nat
        /\ Cardinality(Untried \ InHand) <= crashes
    BY BoundsAssumption DEF SubsInv, PumpInv, Types, LostInHand
  <2>2. IsFiniteSet(Untried)
    <3>1. IsFiniteSet(Events)
      BY <2>1, FS_Interval DEF Events
    <3> QED
      BY <3>1, FS_Subset DEF Untried
  <2>3. W \subseteq Untried
    BY <2>1 DEF Untried, Acked, Events
  <2>4. CASE Holds
    <3>1. Cardinality(Untried) <= Cardinality(Untried \ InHand) + 1
      <4>1. CASE cur \in Untried
        <5>1. /\ IsFiniteSet(Untried \ {cur})
              /\ Cardinality(Untried \ {cur}) = Cardinality(Untried) - 1
          BY <2>2, <4>1, FS_RemoveElement
        <5>2. Untried \ InHand = Untried \ {cur}
          BY <2>4 DEF InHand
        <5>3. Cardinality(Untried) \in Nat
          BY <2>2, FS_CardinalityType
        <5>4. Cardinality(Untried \ InHand) = Cardinality(Untried) - 1
          BY <5>1, <5>2
        <5> HIDE DEF W
        <5> QED
          BY <5>3, <5>4
      <4>2. CASE cur \notin Untried
        <5>1. Untried \ InHand = Untried
          BY <2>4, <4>2 DEF InHand
        <5>2. Cardinality(Untried) \in Nat
          BY <2>2, FS_CardinalityType
        <5> QED
          BY <5>1, <5>2
      <4> QED
        BY <4>1, <4>2
    <3>2. Cardinality(W) <= Cardinality(Untried) /\ Cardinality(W) \in Nat
          /\ Cardinality(Untried) \in Nat
      BY <2>2, <2>3, FS_Subset, FS_CardinalityType
    <3>3. Cardinality(Untried \ InHand) \in Nat
      BY <2>2, FS_Subset, FS_CardinalityType
    <3>4. Cardinality(W) <= crashes + 1
      BY <2>1, <3>1, <3>2, <3>3
    <3> QED
      BY <2>4, <3>4 DEF LostPerCrash, Holds
  <2>5. CASE ~Holds
    <3>1. Untried \ InHand = Untried
      BY <2>5 DEF InHand
    <3>2. Cardinality(W) <= Cardinality(Untried) /\ Cardinality(W) \in Nat
          /\ Cardinality(Untried) \in Nat
      BY <2>2, <2>3, FS_Subset, FS_CardinalityType
    <3>3. Cardinality(W) <= crashes + 0
      BY <2>1, <3>1, <3>2
    <3> QED
      BY <2>5, <3>3 DEF LostPerCrash, Holds
  <2> QED
    BY <2>4, <2>5
<1> QED
  BY InductiveInvariant, <1>1, PTL
=============================================================================
