------------------------ MODULE StreamBridge_proofs ------------------------
(***************************************************************************)
(* Proofs about StreamBridge, for every Window and MaxSent: the type       *)
(* invariant, the safety invariants, and that the bridge implements        *)
(* FifoHandoff.  The inductive invariant IInv says where each value is:    *)
(* the caller has 1..Len(delivered), at most one value is in the           *)
(* goroutine's hand, and the rest wait on the wire in order; and that an   *)
(* error, once met, is kept unchanged until the caller reads it.           *)
(***************************************************************************)
EXTENDS StreamBridge, TLAPS

Running == pc \in {"open", "recv", "send"}

\* The wire holds the values that follow the last one received; only a
\* failed stream may have lost some behind them.
WireInOrder ==
  /\ \A i \in 1..Len(wire) : wire[i] = recvd + i
  /\ recvd + Len(wire) <= sent
  /\ srv # "failed" => recvd + Len(wire) = sent
  /\ srv = "idle" => pc = "open" /\ sent = 0
  /\ pc = "open" => srv = "idle" /\ recvd = 0

\* What the caller has, and what the goroutine holds between the two.
HandInOrder ==
  /\ InOrderNoGaps
  /\ pc = "send" => hand = recvd /\ recvd = Len(delivered) + 1
  /\ pc # "send" => hand = NoMsg
  /\ pc \in {"open", "recv"} => recvd = Len(delivered)
  /\ LosesAtMostOne

\* Why the loop ended, if it has.
ErrTruthful ==
  /\ Running <=> err = "none"
  /\ err = "nil" => srv = "eof" /\ Len(delivered) = sent /\ pc # "report"
  /\ err = "status" => srv = "failed"
  /\ err \in Stops => ctx = err

\* From the goroutine's error to the caller's verdict.
ErrKept ==
  /\ errsClosed <=> pc \in {"closeEvents", "done"}
  /\ eventsClosed <=> pc = "done"
  /\ Running \/ pc = "report" \/ err = "nil" => errBuf = "none"
  /\ Running \/ pc = "report" => verdict = "none"
  /\ ~Running /\ pc # "report" /\ err # "nil" =>
        IF verdict = "none" THEN errBuf = err ELSE errBuf = "none"
  /\ verdict \in {"none", err}
  /\ reader = "finished" <=> verdict # "none"

IInv == TypeOK /\ WireInOrder /\ HandInOrder /\ ErrTruthful /\ ErrKept
-----------------------------------------------------------------------------
\* The initial state satisfies the inductive invariant.
LEMMA InitIInv == Init => IInv
<1> USE WindowAssumption, MaxSentAssumption
<1> SUFFICES ASSUME Init PROVE IInv
  OBVIOUS
<1>1. TypeOK
  <2>1. wire \in Seq(Nat) /\ Len(wire) <= Window /\ delivered \in Seq(Nat)
    BY DEF Init
  <2> QED
    BY <2>1 DEF Init, TypeOK, PCs, NoMsg, Verdicts, Stops
<1>2. WireInOrder
  BY DEF Init, WireInOrder
<1>3. HandInOrder
  BY DEF Init, HandInOrder, InOrderNoGaps, LosesAtMostOne, NoMsg
<1>4. ErrTruthful
  BY DEF Init, ErrTruthful, Running, Stops
<1>5. ErrKept
  BY DEF Init, ErrKept, Running
<1> QED
  BY <1>1, <1>2, <1>3, <1>4, <1>5 DEF IInv

\* Every step preserves it.
LEMMA StepIInv == IInv /\ [Next]_vars => IInv'
<1> USE WindowAssumption, MaxSentAssumption DEF NoMsg
<1> SUFFICES ASSUME IInv, [Next]_vars PROVE IInv'
  OBVIOUS
<1> USE DEF IInv, srvVars, routineVars, callerVars, vars
<1>1. CASE Cancel
  <2>1. TypeOK'
    BY <1>1 DEF Cancel, TypeOK, PCs, Verdicts, Stops
  <2>2. WireInOrder'
    BY <1>1 DEF Cancel, WireInOrder, TypeOK
  <2>3. HandInOrder'
    BY <1>1 DEF Cancel, HandInOrder, InOrderNoGaps, LosesAtMostOne, TypeOK, WireInOrder
  <2>4. ErrTruthful'
    BY <1>1 DEF Cancel, ErrTruthful, Running, Stops, TypeOK, WireInOrder, HandInOrder
  <2>5. ErrKept'
    BY <1>1 DEF Cancel, ErrKept, ErrTruthful, Running, Stops, TypeOK
  <2> QED
    BY <2>1, <2>2, <2>3, <2>4, <2>5
<1>2. CASE SrvSend
  <2>1. TypeOK'
    BY <1>2 DEF SrvSend, TypeOK, PCs, Verdicts, Stops
  <2>2. WireInOrder'
    BY <1>2 DEF SrvSend, WireInOrder, TypeOK
  <2>3. HandInOrder'
    BY <1>2 DEF SrvSend, HandInOrder, InOrderNoGaps, LosesAtMostOne, TypeOK, WireInOrder
  <2>4. ErrTruthful'
    BY <1>2 DEF SrvSend, ErrTruthful, Running, Stops, TypeOK, WireInOrder, HandInOrder
  <2>5. ErrKept'
    BY <1>2 DEF SrvSend, ErrKept, ErrTruthful, Running, Stops, TypeOK
  <2> QED
    BY <2>1, <2>2, <2>3, <2>4, <2>5
<1>3. CASE SrvEnd
  <2>1. TypeOK'
    BY <1>3 DEF SrvEnd, TypeOK, PCs, Verdicts, Stops
  <2>2. WireInOrder'
    BY <1>3 DEF SrvEnd, WireInOrder, TypeOK
  <2>3. HandInOrder'
    BY <1>3 DEF SrvEnd, HandInOrder, InOrderNoGaps, LosesAtMostOne, TypeOK, WireInOrder
  <2>4. ErrTruthful'
    BY <1>3 DEF SrvEnd, ErrTruthful, Running, Stops, TypeOK, WireInOrder, HandInOrder
  <2>5. ErrKept'
    BY <1>3 DEF SrvEnd, ErrKept, ErrTruthful, Running, Stops, TypeOK
  <2> QED
    BY <2>1, <2>2, <2>3, <2>4, <2>5
<1>4. CASE SrvFail
  <2>1. TypeOK'
    BY <1>4 DEF SrvFail, TypeOK, PCs, Verdicts, Stops
  <2>2. WireInOrder'
    BY <1>4 DEF SrvFail, WireInOrder, TypeOK
  <2>3. HandInOrder'
    BY <1>4 DEF SrvFail, HandInOrder, InOrderNoGaps, LosesAtMostOne, TypeOK, WireInOrder
  <2>4. ErrTruthful'
    BY <1>4 DEF SrvFail, ErrTruthful, Running, Stops, TypeOK, WireInOrder, HandInOrder
  <2>5. ErrKept'
    BY <1>4 DEF SrvFail, ErrKept, ErrTruthful, Running, Stops, TypeOK
  <2> QED
    BY <2>1, <2>2, <2>3, <2>4, <2>5
<1>5. CASE OpenOk
  <2>1. TypeOK'
    BY <1>5 DEF OpenOk, TypeOK, PCs, Verdicts, Stops
  <2>2. WireInOrder'
    BY <1>5 DEF OpenOk, WireInOrder, TypeOK
  <2>3. HandInOrder'
    BY <1>5 DEF OpenOk, HandInOrder, InOrderNoGaps, LosesAtMostOne, TypeOK, WireInOrder
  <2>4. ErrTruthful'
    BY <1>5 DEF OpenOk, ErrTruthful, Running, Stops, TypeOK, WireInOrder, HandInOrder
  <2>5. ErrKept'
    BY <1>5 DEF OpenOk, ErrKept, ErrTruthful, Running, Stops, TypeOK
  <2> QED
    BY <2>1, <2>2, <2>3, <2>4, <2>5
<1>6. CASE OpenFail
  <2>1. TypeOK'
    BY <1>6 DEF OpenFail, LeaveWith, TypeOK, PCs, Verdicts, Stops
  <2>2. WireInOrder'
    BY <1>6 DEF OpenFail, LeaveWith, WireInOrder, TypeOK
  <2>3. HandInOrder'
    BY <1>6 DEF OpenFail, LeaveWith, HandInOrder, InOrderNoGaps, LosesAtMostOne, TypeOK, WireInOrder
  <2>4. ErrTruthful'
    BY <1>6 DEF OpenFail, LeaveWith, ErrTruthful, Running, Stops, TypeOK, WireInOrder, HandInOrder
  <2>5. ErrKept'
    BY <1>6 DEF OpenFail, LeaveWith, ErrKept, ErrTruthful, Running, Stops, TypeOK
  <2> QED
    BY <2>1, <2>2, <2>3, <2>4, <2>5
<1>7. CASE RecvMsg
  <2>1. TypeOK'
    BY <1>7 DEF RecvMsg, TypeOK, PCs, Verdicts, Stops
  <2>2. WireInOrder'
    <3>1. wire' \in Seq(Nat) /\ Len(wire') = Len(wire) - 1
      BY <1>7 DEF RecvMsg, TypeOK
    <3>2. ASSUME NEW i \in 1..Len(wire') PROVE wire'[i] = recvd' + i
      <4>1. i + 1 \in 1..Len(wire) /\ wire'[i] = wire[i + 1]
        BY <1>7, <3>1, <3>2 DEF RecvMsg, TypeOK
      <4> QED
        BY <1>7, <4>1 DEF RecvMsg, WireInOrder, TypeOK
    <3>3. recvd' + Len(wire') = recvd + Len(wire)
      BY <1>7, <3>1 DEF RecvMsg, TypeOK
    <3>4. srv' = srv /\ sent' = sent /\ pc = "recv" /\ pc' = "send"
      BY <1>7 DEF RecvMsg
    <3> QED
      BY <3>2, <3>3, <3>4 DEF WireInOrder
  <2>3. HandInOrder'
    BY <1>7 DEF RecvMsg, HandInOrder, InOrderNoGaps, LosesAtMostOne, TypeOK, WireInOrder
  <2>4. ErrTruthful'
    BY <1>7 DEF RecvMsg, ErrTruthful, Running, Stops, TypeOK, WireInOrder, HandInOrder
  <2>5. ErrKept'
    BY <1>7 DEF RecvMsg, ErrKept, ErrTruthful, Running, Stops, TypeOK
  <2> QED
    BY <2>1, <2>2, <2>3, <2>4, <2>5
<1>8. CASE RecvEof
  <2>1. TypeOK'
    BY <1>8 DEF RecvEof, TypeOK, PCs, Verdicts, Stops
  <2>2. WireInOrder'
    BY <1>8 DEF RecvEof, WireInOrder, TypeOK
  <2>3. HandInOrder'
    BY <1>8 DEF RecvEof, HandInOrder, InOrderNoGaps, LosesAtMostOne, TypeOK, WireInOrder
  <2>4. ErrTruthful'
    BY <1>8 DEF RecvEof, ErrTruthful, Running, Stops, TypeOK, WireInOrder, HandInOrder
  <2>5. ErrKept'
    BY <1>8 DEF RecvEof, ErrKept, ErrTruthful, Running, Stops, TypeOK
  <2> QED
    BY <2>1, <2>2, <2>3, <2>4, <2>5
<1>9. CASE RecvErr
  <2>1. TypeOK'
    BY <1>9 DEF RecvErr, LeaveWith, TypeOK, PCs, Verdicts, Stops
  <2>2. WireInOrder'
    BY <1>9 DEF RecvErr, LeaveWith, WireInOrder, TypeOK
  <2>3. HandInOrder'
    BY <1>9 DEF RecvErr, LeaveWith, HandInOrder, InOrderNoGaps, LosesAtMostOne, TypeOK, WireInOrder
  <2>4. ErrTruthful'
    BY <1>9 DEF RecvErr, LeaveWith, ErrTruthful, Running, Stops, TypeOK, WireInOrder, HandInOrder
  <2>5. ErrKept'
    BY <1>9 DEF RecvErr, LeaveWith, ErrKept, ErrTruthful, Running, Stops, TypeOK
  <2> QED
    BY <2>1, <2>2, <2>3, <2>4, <2>5
<1>10. CASE SendAborted
  <2>1. TypeOK'
    BY <1>10 DEF SendAborted, LeaveWith, TypeOK, PCs, Verdicts, Stops
  <2>2. WireInOrder'
    BY <1>10 DEF SendAborted, LeaveWith, WireInOrder, TypeOK
  <2>3. HandInOrder'
    BY <1>10 DEF SendAborted, LeaveWith, HandInOrder, InOrderNoGaps, LosesAtMostOne, TypeOK, WireInOrder
  <2>4. ErrTruthful'
    BY <1>10 DEF SendAborted, LeaveWith, ErrTruthful, Running, Stops, TypeOK, WireInOrder, HandInOrder
  <2>5. ErrKept'
    BY <1>10 DEF SendAborted, LeaveWith, ErrKept, ErrTruthful, Running, Stops, TypeOK
  <2> QED
    BY <2>1, <2>2, <2>3, <2>4, <2>5
<1>11. CASE Report
  <2>1. TypeOK'
    BY <1>11 DEF Report, TypeOK, PCs, Verdicts, Stops, ErrTruthful, Running
  <2>2. WireInOrder'
    BY <1>11 DEF Report, WireInOrder, TypeOK
  <2>3. HandInOrder'
    BY <1>11 DEF Report, HandInOrder, InOrderNoGaps, LosesAtMostOne, TypeOK, WireInOrder
  <2>4. ErrTruthful'
    BY <1>11 DEF Report, ErrTruthful, Running, Stops, TypeOK, WireInOrder, HandInOrder
  <2>5. ErrKept'
    BY <1>11 DEF Report, ErrKept, ErrTruthful, Running, Stops, TypeOK
  <2> QED
    BY <2>1, <2>2, <2>3, <2>4, <2>5
<1>12. CASE CloseErrs
  <2>1. TypeOK'
    BY <1>12 DEF CloseErrs, TypeOK, PCs, Verdicts, Stops
  <2>2. WireInOrder'
    BY <1>12 DEF CloseErrs, WireInOrder, TypeOK
  <2>3. HandInOrder'
    BY <1>12 DEF CloseErrs, HandInOrder, InOrderNoGaps, LosesAtMostOne, TypeOK, WireInOrder
  <2>4. ErrTruthful'
    BY <1>12 DEF CloseErrs, ErrTruthful, Running, Stops, TypeOK, WireInOrder, HandInOrder
  <2>5. ErrKept'
    BY <1>12 DEF CloseErrs, ErrKept, ErrTruthful, Running, Stops, TypeOK
  <2> QED
    BY <2>1, <2>2, <2>3, <2>4, <2>5
<1>13. CASE CloseEvents
  <2>1. TypeOK'
    BY <1>13 DEF CloseEvents, TypeOK, PCs, Verdicts, Stops
  <2>2. WireInOrder'
    BY <1>13 DEF CloseEvents, WireInOrder, TypeOK
  <2>3. HandInOrder'
    BY <1>13 DEF CloseEvents, HandInOrder, InOrderNoGaps, LosesAtMostOne, TypeOK, WireInOrder
  <2>4. ErrTruthful'
    BY <1>13 DEF CloseEvents, ErrTruthful, Running, Stops, TypeOK, WireInOrder, HandInOrder
  <2>5. ErrKept'
    BY <1>13 DEF CloseEvents, ErrKept, ErrTruthful, Running, Stops, TypeOK
  <2> QED
    BY <2>1, <2>2, <2>3, <2>4, <2>5
<1>14. CASE HandOver
  <2>1. TypeOK'
    BY <1>14 DEF HandOver, TypeOK, PCs, Verdicts, Stops
  <2>2. WireInOrder'
    BY <1>14 DEF HandOver, WireInOrder, TypeOK
  <2>3. HandInOrder'
    BY <1>14 DEF HandOver, HandInOrder, InOrderNoGaps, LosesAtMostOne, TypeOK, WireInOrder
  <2>4. ErrTruthful'
    BY <1>14 DEF HandOver, ErrTruthful, Running, Stops, TypeOK, WireInOrder, HandInOrder
  <2>5. ErrKept'
    BY <1>14 DEF HandOver, ErrKept, ErrTruthful, Running, Stops, TypeOK
  <2> QED
    BY <2>1, <2>2, <2>3, <2>4, <2>5
<1>15. CASE RangeEnds
  <2>1. TypeOK'
    BY <1>15 DEF RangeEnds, TypeOK, PCs, Verdicts, Stops
  <2>2. WireInOrder'
    BY <1>15 DEF RangeEnds, WireInOrder, TypeOK
  <2>3. HandInOrder'
    BY <1>15 DEF RangeEnds, HandInOrder, InOrderNoGaps, LosesAtMostOne, TypeOK, WireInOrder
  <2>4. ErrTruthful'
    BY <1>15 DEF RangeEnds, ErrTruthful, Running, Stops, TypeOK, WireInOrder, HandInOrder
  <2>5. ErrKept'
    BY <1>15 DEF RangeEnds, ErrKept, ErrTruthful, Running, Stops, TypeOK
  <2> QED
    BY <2>1, <2>2, <2>3, <2>4, <2>5
<1>16. CASE Abandon
  <2>1. TypeOK'
    BY <1>16 DEF Abandon, TypeOK, PCs, Verdicts, Stops
  <2>2. WireInOrder'
    BY <1>16 DEF Abandon, WireInOrder, TypeOK
  <2>3. HandInOrder'
    BY <1>16 DEF Abandon, HandInOrder, InOrderNoGaps, LosesAtMostOne, TypeOK, WireInOrder
  <2>4. ErrTruthful'
    BY <1>16 DEF Abandon, ErrTruthful, Running, Stops, TypeOK, WireInOrder, HandInOrder
  <2>5. ErrKept'
    BY <1>16 DEF Abandon, ErrKept, ErrTruthful, Running, Stops, TypeOK
  <2> QED
    BY <2>1, <2>2, <2>3, <2>4, <2>5
<1>17. CASE TakeVerdict
  <2>1. TypeOK'
    BY <1>17 DEF TakeVerdict, TypeOK, PCs, Verdicts, Stops
  <2>2. WireInOrder'
    BY <1>17 DEF TakeVerdict, WireInOrder, TypeOK
  <2>3. HandInOrder'
    BY <1>17 DEF TakeVerdict, HandInOrder, InOrderNoGaps, LosesAtMostOne, TypeOK, WireInOrder
  <2>4. ErrTruthful'
    BY <1>17 DEF TakeVerdict, ErrTruthful, Running, Stops, TypeOK, WireInOrder, HandInOrder
  <2>5. ErrKept'
    BY <1>17 DEF TakeVerdict, ErrKept, ErrTruthful, Running, Stops, TypeOK
  <2> QED
    BY <2>1, <2>2, <2>3, <2>4, <2>5
<1>18. CASE UNCHANGED vars
  BY <1>18 DEF TypeOK, WireInOrder, HandInOrder, InOrderNoGaps, LosesAtMostOne, ErrTruthful, ErrKept, Running
<1> QED
  BY <1>1, <1>2, <1>3, <1>4, <1>5, <1>6, <1>7, <1>8, <1>9, <1>10, <1>11, <1>12, <1>13, <1>14, <1>15, <1>16, <1>17, <1>18 DEF Next, Server, Routine, Caller, Terminated

\* The inductive invariant holds in every reachable state.
THEOREM InductiveInvariant == Spec => []IInv
  BY InitIInv, StepIInv, PTL DEF Spec

\* Every variable stays in its type.
THEOREM TypeCorrect == Spec => []TypeOK
<1>1. IInv => TypeOK
  BY DEF IInv
<1> QED
  BY InductiveInvariant, <1>1, PTL

\* The caller has received the first values the server sent, in order.
THEOREM InOrder == Spec => []InOrderNoGaps
<1>1. IInv => InOrderNoGaps
  BY DEF IInv, HandInOrder
<1> QED
  BY InductiveInvariant, <1>1, PTL

\* A nil error means that the server ended the stream and every value of it was
\* delivered.
THEOREM NilIsComplete == Spec => []NilMeansComplete
<1>1. IInv => NilMeansComplete
  BY DEF IInv, ErrKept, ErrTruthful, NilMeansComplete, Stops
<1> QED
  BY InductiveInvariant, <1>1, PTL

\* The error the caller takes names what happened to the stream.
THEOREM VerdictIsTrue == Spec => []VerdictTruthful
<1>1. IInv => VerdictTruthful
  BY DEF IInv, ErrKept, ErrTruthful, VerdictTruthful, Stops
<1> QED
  BY InductiveInvariant, <1>1, PTL

\* At most one value read off the stream is dropped, and only after a cancel.
THEOREM OneLoss == Spec => []LosesAtMostOne
<1>1. IInv => LosesAtMostOne
  BY DEF IInv, HandInOrder
<1> QED
  BY InductiveInvariant, <1>1, PTL

\* When the range over the values ends, reading the error channel does not wait.
THEOREM NoWaitForVerdict == Spec => []VerdictReady
<1>1. IInv => VerdictReady
  BY DEF IInv, ErrKept, ErrTruthful, Running, VerdictReady
<1> QED
  BY InductiveInvariant, <1>1, PTL

-----------------------------------------------------------------------------
\* The initial state is one of FifoHandoff's.
LEMMA InitRefines == Init => Promise!Init
  BY DEF Init, Promise!Init, Fate

\* A step of the bridge is a step of FifoHandoff or leaves its state alone.
LEMMA StepRefines == IInv /\ IInv' /\ [Next]_vars => [Promise!Next]_(Promise!vars)
<1> SUFFICES ASSUME IInv, IInv', [Next]_vars
             PROVE  [Promise!Next]_(Promise!vars)
  OBVIOUS
<1> USE DEF srvVars, routineVars, callerVars, Promise!vars, Fate
<1>1. CASE Cancel
  <2> Promise!Stop
    BY <1>1 DEF Cancel, Promise!Stop, Stops, Promise!Stops
  <2> QED
    BY DEF Promise!Next
<1>2. CASE SrvSend
  <2> Promise!Emit
    BY <1>2 DEF SrvSend, Promise!Emit
  <2> QED
    BY DEF Promise!Next
<1>3. CASE SrvEnd \/ SrvFail
  <2> Promise!Finish
    BY <1>3 DEF SrvEnd, SrvFail, Promise!Finish
  <2> QED
    BY DEF Promise!Next
<1>4. CASE OpenOk
  BY <1>4 DEF OpenOk, IInv, WireInOrder
<1>5. CASE OpenFail
  <2> Promise!Finish
    BY <1>5 DEF OpenFail, IInv, WireInOrder, Promise!Finish
  <2> QED
    BY DEF Promise!Next
<1>6. CASE RecvMsg \/ RecvEof \/ RecvErr \/ SendAborted
  BY <1>6 DEF RecvMsg, RecvEof, RecvErr, SendAborted
<1>7. CASE Report \/ CloseErrs \/ CloseEvents \/ RangeEnds \/ Abandon
  BY <1>7 DEF Report, CloseErrs, CloseEvents, RangeEnds, Abandon
<1>8. CASE HandOver
  <2>1. hand = Len(delivered) + 1 /\ verdict = "none" /\ Len(delivered) < sent
    BY <1>8 DEF HandOver, IInv, TypeOK, HandInOrder, WireInOrder, ErrKept, Running
  <2> Promise!HandOver
    BY <1>8, <2>1 DEF HandOver, Promise!HandOver
  <2> QED
    BY DEF Promise!Next
<1>9. CASE TakeVerdict
  <2>1. verdict = "none" /\ verdict' = err
    BY <1>9 DEF TakeVerdict, IInv, TypeOK, ErrKept, ErrTruthful, Running
  <2>2. err \in Verdicts /\ err # "none"
    BY <1>9, <2>1 DEF TakeVerdict, IInv, TypeOK, ErrKept, ErrTruthful, Running, Verdicts, Stops
  <2>3. Promise!MayConclude(err)
    BY <2>2 DEF Promise!MayConclude, IInv, ErrTruthful, Verdicts, Stops, Promise!Stops
  <2> Promise!Conclude
    BY <1>9, <2>1, <2>2, <2>3 DEF TakeVerdict, Promise!Conclude, Verdicts, Stops, Promise!Verdicts, Promise!Stops
  <2> QED
    BY DEF Promise!Next
<1>10. CASE UNCHANGED vars
  BY <1>10 DEF vars
<1> QED
  BY <1>1, <1>2, <1>3, <1>4, <1>5, <1>6, <1>7, <1>8, <1>9, <1>10
     DEF Next, Server, Routine, Caller, Terminated

\* The bridge implements the promise of the channel pair, whatever the
\* window, the number of values and the caller's behaviour.
THEOREM BridgeKeepsPromise == Spec => KeepsPromise
<1>1. Spec => Promise!Init /\ [][Promise!Next]_(Promise!vars)
  BY InductiveInvariant, InitRefines, StepRefines, PTL DEF Spec
<1> QED
  BY <1>1 DEF KeepsPromise, Promise!Spec
=============================================================================
