--------------------------- MODULE Command_proofs ---------------------------
(***************************************************************************)
(* What a run of a command leaves behind, for every table of handlers: the *)
(* exit status tells what became of the call, and stdout, stderr and the   *)
(* exit status agree.                                                      *)
(*                                                                         *)
(* Neither property is inductive: a step from "wait" to "done" says of the *)
(* request only what the reply says of it, and a step to "done" leaves on  *)
(* stdout what the earlier phases put there.  Phases states both.          *)
(***************************************************************************)
EXTENDS Command, TLAPS

BeforeCall == {"parse", "route", "validate", "read", "dial", "call"}
StreamOnly == {"ready", "stream"} \cup LastFrames

\* Before it is done, what a phase has written and sent.
Phases ==
  /\ pc # "done" => exit = "none" /\ stderr = "nothing"
  /\ pc \in BeforeCall \cup {"wait", "print", "ready"} => stdout = "nothing"
  /\ pc \in BeforeCall \cup StreamOnly => request = "unsent"
  /\ pc \notin {"parse", "route", "done", "killed"} => ~version
  /\ pc \in {"call", "wait", "print"} => Unary
  /\ pc \in StreamOnly => ~Unary
  /\ pc = "print" => request = "executed"
  /\ pc \in StreamOnly \ {"ready"} => stdout \in {"frames", "partial"}
  /\ pc = "error" => reply \in Statuses

USE DEF LastFrames

\* What a reply says of the request it answers.
RepliesKnow ==
  /\ ~Unary \/ version => request = "unsent"
  /\ Unary /\ reply = "OK" => request = "executed"
  /\ Unary /\ reply \in Refusals => request = "refused"

IInv == TypeOK /\ Phases /\ RepliesKnow /\ ExitTellsEffect /\ OutputDiscipline

-----------------------------------------------------------------------------
\* A status has a code; only a refusal has the code of a refusal, and none
\* has a code that says nothing was sent.
LEMMA CodesOfStatuses ==
  ASSUME NEW status \in Statuses
  PROVE  /\ CodeOf(status) \in Codes \ {"usage", "unreachable"}
         /\ CodeOf(status) \in RefusalCodes => status \in Refusals
BY DEF CodeOf, Statuses, Refusals, Failures, Codes, RefusalCodes

LEMMA ShapeOfHandler ==
  ASSUME asked \in DOMAIN Handlers
  PROVE  Handler.streams \in BOOLEAN
BY HandlersAssumption DEF Handler, Shape

\* The runs start in the invariant.
LEMMA InitIInv == Init => IInv
<1> SUFFICES ASSUME Init PROVE IInv
  OBVIOUS
<1>1. TypeOK
  BY DEF Init, TypeOK, Handler, Statuses
<1>2. Phases
  BY DEF Init, Phases, BeforeCall, StreamOnly
<1>3. RepliesKnow
  BY DEF Init, RepliesKnow, Refusals
<1>4. ExitTellsEffect /\ OutputDiscipline
  BY DEF Init, ExitTellsEffect, OutputDiscipline, RefusalCodes
<1> QED
  BY <1>1, <1>2, <1>3, <1>4 DEF IInv

\* An error that ends a run before anything was sent.
LEMMA FailBeforeCall ==
  ASSUME IInv, pc \in BeforeCall,
         NEW code \in Codes \ RefusalCodes, FailSilently(code)
  PROVE  IInv'
<1> USE DEF FailSilently, Fail, line, around, rpc, Handler, Unary
<1>1. TypeOK'
  BY DEF IInv, TypeOK
<1>2. Phases' /\ RepliesKnow'
  BY DEF IInv, Phases, RepliesKnow, BeforeCall, StreamOnly
<1>3. ExitTellsEffect' /\ OutputDiscipline'
  BY DEF IInv, TypeOK, Phases, ExitTellsEffect, OutputDiscipline, BeforeCall,
         StreamOnly, Codes
<1> QED
  BY <1>1, <1>2, <1>3 DEF IInv

\* An error of the call itself, with its request out.
LEMMA FailWaiting ==
  ASSUME IInv, pc = "wait", NEW code \in Codes \ {"usage", "unreachable"},
         code \in RefusalCodes => reply \in Refusals,
         FailSilently(code)
  PROVE  IInv'
<1> USE DEF FailSilently, Fail, line, around, rpc, Handler, Unary
<1>1. TypeOK'
  BY DEF IInv, TypeOK
<1>2. Phases' /\ RepliesKnow'
  BY DEF IInv, Phases, RepliesKnow, BeforeCall, StreamOnly
<1>3. ExitTellsEffect' /\ OutputDiscipline'
  BY DEF IInv, TypeOK, Phases, RepliesKnow, ExitTellsEffect, OutputDiscipline,
         BeforeCall, StreamOnly, Codes, RefusalCodes
<1> QED
  BY <1>1, <1>2, <1>3 DEF IInv

\* Steps towards the call, which write and send nothing.
LEMMA StepGo ==
  ASSUME IInv, pc \in BeforeCall \ {"call"}, NEW next, Go(next),
         \/ next \in {"route", "validate", "read", "dial"}
         \/ next = "call" /\ Unary
         \/ next = "ready" /\ ~Unary,
         next \in {"parse", "route"} \/ ~version,
         deadline' \in {"off", "running", "expired"}
  PROVE  IInv'
<1> USE DEF Go, line, out, around, rpc, Handler, Unary
<1>1. TypeOK'
  BY DEF IInv, TypeOK
<1>2. Phases'
  BY DEF IInv, Phases, BeforeCall, StreamOnly
<1>3. RepliesKnow' /\ ExitTellsEffect' /\ OutputDiscipline'
  BY DEF IInv, RepliesKnow, ExitTellsEffect, OutputDiscipline, BeforeCall
<1> QED
  BY <1>1, <1>2, <1>3 DEF IInv

\* The command line: everything up to the call.
LEMMA StepTowardsCall ==
  ASSUME IInv,
         \/ ParseGlobal \/ Route \/ Validate \/ ReadInput
         \/ DialFails \/ Dial \/ SubUsage \/ ConnectionRefused
  PROVE  IInv'
<1> USE DEF BeforeCall
<1>1. /\ {"usage", "unreachable", "unavailable"} \subseteq Codes \ RefusalCodes
      /\ deadline \in {"off", "running", "expired"}
  BY DEF Codes, RefusalCodes, IInv, TypeOK
<1>2. ~version \/ pc \in {"parse", "route", "done", "killed"}
  BY DEF IInv, Phases
<1>3. CASE ParseGlobal
  BY <1>1, <1>3, FailBeforeCall, StepGo DEF ParseGlobal
<1>4. CASE Route
  BY <1>1, <1>4, FailBeforeCall, StepGo DEF Route
<1>5. CASE Validate
  BY <1>1, <1>2, <1>5, FailBeforeCall, StepGo DEF Validate
<1>6. CASE ReadInput
  BY <1>1, <1>2, <1>6, FailBeforeCall, StepGo DEF ReadInput
<1>7. CASE DialFails
  BY <1>1, <1>7, FailBeforeCall DEF DialFails
<1>8. CASE Dial
  BY <1>1, <1>2, <1>8, StepGo DEF Dial
<1>9. CASE SubUsage
  BY <1>1, <1>9, FailBeforeCall DEF SubUsage
<1>10. CASE ConnectionRefused
  BY <1>1, <1>10, FailBeforeCall DEF ConnectionRefused, CodeOf
<1> QED
  BY <1>3, <1>4, <1>5, <1>6, <1>7, <1>8, <1>9, <1>10

\* The call goes out, is given up, or returns.
LEMMA StepCall ==
  ASSUME IInv, Send \/ Abort \/ Return
  PROVE  IInv'
<1>1. CASE Send
  <2> USE <1>1 DEF Send, line, out, around, Handler, Unary
  <2>1. TypeOK'
    BY DEF IInv, TypeOK
  <2>2. Phases' /\ RepliesKnow'
    BY DEF IInv, Phases, RepliesKnow, BeforeCall, StreamOnly
  <2>3. ExitTellsEffect' /\ OutputDiscipline'
    BY DEF IInv, Phases, ExitTellsEffect, OutputDiscipline, RefusalCodes
  <2> QED
    BY <2>1, <2>2, <2>3 DEF IInv
<1>2. CASE Abort
  <2>1. {CodeOf("Canceled"), CodeOf("DeadlineExceeded")}
          \subseteq Codes \ (RefusalCodes \cup {"usage", "unreachable"})
    BY DEF CodeOf, Codes, RefusalCodes
  <2>2. CASE pc = "wait"
    BY <1>2, <2>1, <2>2, FailWaiting DEF Abort
  <2>3. CASE pc = "call"
    BY <1>2, <2>1, <2>3, FailBeforeCall DEF Abort, BeforeCall
  <2> QED
    BY <1>2, <2>2, <2>3 DEF Abort
<1>3. CASE Return
  <2>1. CASE reply \in Statuses /\ FailSilently(CodeOf(reply))
    BY <1>3, <2>1, CodesOfStatuses, FailWaiting DEF Return
  <2>2. CASE reply = "OK" /\ Go("print") /\ UNCHANGED deadline
    <3> USE <1>3, <2>2 DEF Return, Go, line, out, around, rpc, Handler, Unary
    <3>1. TypeOK'
      BY DEF IInv, TypeOK
    <3>2. Phases' /\ RepliesKnow'
      BY DEF IInv, Phases, RepliesKnow, BeforeCall, StreamOnly
    <3>3. ExitTellsEffect' /\ OutputDiscipline'
      BY DEF IInv, ExitTellsEffect, OutputDiscipline
    <3> QED
      BY <3>1, <3>2, <3>3 DEF IInv
  <2> QED
    BY <1>3, <2>1, <2>2 DEF Return
<1> QED
  BY <1>1, <1>2, <1>3

\* What is written on stdout.
LEMMA StepWrite ==
  ASSUME IInv, Writes
  PROVE  IInv'
<1> USE DEF line, around, rpc, out, Handler, Unary
<1>1. CASE ShowVersion
  <2> USE <1>1 DEF ShowVersion
  <2>1. TypeOK'
    BY DEF IInv, TypeOK
  <2>2. Phases' /\ RepliesKnow'
    BY DEF IInv, Phases, RepliesKnow, BeforeCall, StreamOnly
  <2>3. ExitTellsEffect' /\ OutputDiscipline'
    BY DEF IInv, TypeOK, Phases, ExitTellsEffect, OutputDiscipline,
           RefusalCodes
  <2> QED
    BY <2>1, <2>2, <2>3 DEF IInv
<1>2. CASE WriteResult
  <2> USE <1>2 DEF WriteResult, Fail
  <2>1. TypeOK'
    BY DEF IInv, TypeOK, Codes
  <2>2. Phases' /\ RepliesKnow'
    BY DEF IInv, Phases, RepliesKnow, BeforeCall, StreamOnly
  <2>3. ExitTellsEffect' /\ OutputDiscipline'
    BY DEF IInv, TypeOK, Phases, ExitTellsEffect, OutputDiscipline,
           RefusalCodes
  <2> QED
    BY <2>1, <2>2, <2>3 DEF IInv
<1>3. CASE Ready
  <2> USE <1>3 DEF Ready, Framed
  <2>1. TypeOK'
    BY DEF IInv, TypeOK
  <2>2. Phases' /\ RepliesKnow'
    BY DEF IInv, Phases, RepliesKnow, BeforeCall, StreamOnly
  <2>3. ExitTellsEffect' /\ OutputDiscipline'
    BY DEF IInv, ExitTellsEffect, OutputDiscipline
  <2> QED
    BY <2>1, <2>2, <2>3 DEF IInv
<1>4. CASE ReadVerdict
  <2>1. PICK verdict \in Verdicts :
          /\ reply' = verdict
          /\ pc' \in LastFrames
          /\ pc' = "error" => verdict # "OK"
    BY <1>4 DEF ReadVerdict
  <2>2. verdict = "OK" \/ verdict \in Statuses
    BY DEF IInv, TypeOK, Verdicts, Statuses, Failures
  <2> USE <1>4, <2>1, <2>2 DEF ReadVerdict
  <2>3. TypeOK'
    BY DEF IInv, TypeOK
  <2>4. Phases' /\ RepliesKnow'
    BY DEF IInv, Phases, RepliesKnow, BeforeCall, StreamOnly
  <2>5. ExitTellsEffect' /\ OutputDiscipline'
    BY DEF IInv, ExitTellsEffect, OutputDiscipline
  <2> QED
    BY <2>3, <2>4, <2>5 DEF IInv
<1>5. CASE StreamEnds
  <2>1. /\ pc \in LastFrames /\ stdout' \in {pc, "partial"}
        /\ ~Unary /\ ~version /\ request = "unsent"
    BY <1>5 DEF StreamEnds, Framed, IInv, Phases, StreamOnly
  <2>2. stdout' = "partial" => disk # "room"
    BY <1>5 DEF StreamEnds, Framed
  <2>3. CASE pc # "error" /\ pc' = "done" /\ exit' = "ok"
             /\ UNCHANGED <<line, stderr, around, deadline, rpc>>
    <3> USE <2>1, <2>2, <2>3
    <3>1. TypeOK'
      BY DEF IInv, TypeOK
    <3>2. Phases' /\ RepliesKnow'
      BY DEF IInv, Phases, RepliesKnow, BeforeCall, StreamOnly
    <3>3. ExitTellsEffect' /\ OutputDiscipline'
      BY DEF IInv, TypeOK, Phases, ExitTellsEffect, OutputDiscipline,
             RefusalCodes
    <3> QED
      BY <3>1, <3>2, <3>3 DEF IInv
  <2>4. CASE pc = "error" /\ Fail(CodeOf(reply))
    <3>1. CodeOf(reply) \in Codes \ {"usage", "unreachable"}
      BY <2>4, CodesOfStatuses DEF IInv, Phases
    <3> USE <2>1, <2>2, <2>4, <3>1 DEF Fail
    <3>2. TypeOK'
      BY DEF IInv, TypeOK
    <3>3. Phases' /\ RepliesKnow'
      BY DEF IInv, Phases, RepliesKnow, BeforeCall, StreamOnly
    <3>4. ExitTellsEffect' /\ OutputDiscipline'
      BY DEF IInv, TypeOK, Phases, ExitTellsEffect, OutputDiscipline,
             Codes, RefusalCodes
    <3> QED
      BY <3>2, <3>3, <3>4 DEF IInv
  <2> QED
    BY <1>5, <2>3, <2>4 DEF StreamEnds
<1> QED
  BY <1>1, <1>2, <1>3, <1>4, <1>5 DEF Writes

\* The acker and the surroundings write nothing, and the server settles a
\* request once.
LEMMA StepSurroundings ==
  ASSUME IInv, AckerEnds \/ Surroundings
  PROVE  IInv'
<1> USE DEF line, around, rpc, out, Handler, Unary
<1>1. CASE AckerEnds \/ Signal \/ StdinEnds \/ DiskFills \/ Kill \/ Expire
  <2> USE <1>1 DEF Signal, StdinEnds, DiskFills, Kill, Expire, Stopped
  <2>1. TypeOK'
    <3>1. CASE AckerEnds
      BY <3>1 DEF AckerEnds, IInv, TypeOK
    <3>2. CASE Signal \/ StdinEnds
      BY <3>2 DEF IInv, TypeOK
    <3>3. CASE DiskFills \/ Kill \/ Expire
      BY <3>3 DEF IInv, TypeOK
    <3> QED
      BY <3>1, <3>2, <3>3
  <2> USE DEF AckerEnds
  <2>2. Phases' /\ RepliesKnow'
    BY DEF IInv, Phases, RepliesKnow, BeforeCall, StreamOnly
  <2>3. ExitTellsEffect' /\ OutputDiscipline'
    BY DEF IInv, ExitTellsEffect, OutputDiscipline
  <2> QED
    BY <2>1, <2>2, <2>3 DEF IInv
<1>2. CASE Execute \/ Answer \/ Refuse \/ ConnectionLost \/ EndStream
  <2> USE <1>2 DEF Execute, Answer, Refuse, ConnectionLost, EndStream
  <2>1. TypeOK'
    BY DEF IInv, TypeOK, Statuses, Failures
  <2>2. Phases'
    BY DEF IInv, Phases, BeforeCall, StreamOnly
  <2>3. RepliesKnow'
    BY DEF IInv, Phases, RepliesKnow, StreamOnly, Statuses, Failures, Refusals
  <2>4. ExitTellsEffect' /\ OutputDiscipline'
    BY DEF IInv, ExitTellsEffect, OutputDiscipline
  <2> QED
    BY <2>1, <2>2, <2>3, <2>4 DEF IInv
<1> QED
  BY <1>1, <1>2 DEF Surroundings

LEMMA StepIInv == IInv /\ [Next]_vars => IInv'
<1> SUFFICES ASSUME IInv, [Next]_vars PROVE IInv'
  OBVIOUS
<1>1. CASE Process
  BY <1>1, StepTowardsCall, StepCall, StepWrite, StepSurroundings
     DEF Process, Works
<1>2. CASE Surroundings
  BY <1>2, StepSurroundings
<1>3. CASE UNCHANGED vars
  <2> USE <1>3 DEF vars, line, around, rpc, out, Handler, Unary
  <2>1. TypeOK' /\ Phases' /\ RepliesKnow'
    BY DEF IInv, TypeOK, Phases, RepliesKnow
  <2>2. ExitTellsEffect' /\ OutputDiscipline'
    BY DEF IInv, ExitTellsEffect, OutputDiscipline
  <2> QED
    BY <2>1, <2>2 DEF IInv
<1> QED
  BY <1>1, <1>2, <1>3 DEF Next

(* The invariant holds in every behaviour of a run.                       *)
LEMMA Inductive == Spec => []IInv
<1> QED
  BY InitIInv, StepIInv, PTL DEF Spec

(* Every variable of a run stays in its type, for every table of handlers. *)
THEOREM TypeCorrect == Spec => []TypeOK
<1>1. IInv => TypeOK
  BY DEF IInv
<1> QED
  BY <1>1, Inductive, PTL

(* For every table of handlers, and whatever the gateway, the clock and    *)
(* the surroundings do: the exit status of a run tells what became of its  *)
(* call, also when the server gets to the request after the run has ended. *)
THEOREM ExitIsHonest == Spec => []ExitTellsEffect
<1>1. IInv => ExitTellsEffect
  BY DEF IInv
<1> QED
  BY <1>1, Inductive, PTL

(* stdout and stderr agree with the exit status, for every table.          *)
THEOREM OutputsAgree == Spec => []OutputDiscipline
<1>1. IInv => OutputDiscipline
  BY DEF IInv
<1> QED
  BY <1>1, Inductive, PTL
=============================================================================
