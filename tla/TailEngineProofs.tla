-------------------------- MODULE TailEngineProofs --------------------------
(***************************************************************************)
(* Theorems about the tail engine: its type invariant, the safety          *)
(* properties of TailEngine and that it implements LossyChannel, for a log *)
(* of any length and for every capacity of the two channels.               *)
(***************************************************************************)
EXTENDS TailEngine, ChannelTheorems

USE TailAssumption

-----------------------------------------------------------------------------
(* Types.                                                                  *)

(* Reporting an error keeps errChan bounded.                               *)
LEMMA ReportTyped ==
  ASSUME TypeOK, NEW err \in Error, Report(err)
  PROVE  /\ errChan' \in Seq(Error) /\ Len(errChan') <= ErrCap
         /\ reported' \in Seq(Error)
<1>1. CASE Len(errChan) < ErrCap
  <2>1. errChan' = Append(errChan, err) /\ reported' = Append(reported, err)
    BY <1>1 DEF Report
  <2>2. Len(errChan) + 1 <= ErrCap
    BY <1>1 DEF TypeOK
  <2> QED
    BY <2>1, <2>2, AppendProperties DEF TypeOK
<1>2. CASE ~(Len(errChan) < ErrCap)
  BY <1>2 DEF TypeOK, Report
<1> QED
  BY <1>1, <1>2

(* Nothing has happened initially.                                         *)
LEMMA InitTypeOK == Init => TypeOK
<1> SUFFICES ASSUME Init PROVE TypeOK
  OBVIOUS
<1>1. /\ lineChan \in Seq(1 .. NLines) /\ Len(lineChan) <= LineCap
      /\ errChan \in Seq(Error) /\ Len(errChan) <= ErrCap
      /\ taken \in Seq(1 .. NLines) /\ reported \in Seq(Error)
  BY EmptySeq DEF Init
<1>2. /\ loopPc \in {"off", "open", "select", "stopping", "done"}
      /\ stopPc \in {"idle", "waiting", "closed"}
      /\ {ctxDone, streamClosed} \subseteq BOOLEAN
  BY DEF Init
<1>3. offered \in 0 .. NLines /\ lost \subseteq 1 .. NLines
  BY DEF Init
<1> QED
  BY <1>1, <1>2, <1>3 DEF TypeOK

(* Every step keeps the variables in their types.                          *)
LEMMA StepTypeOK == TypeOK /\ [Next]_vars => TypeOK'
<1> SUFFICES ASSUME TypeOK, [Next]_vars PROVE TypeOK'
  OBVIOUS
<1> USE DEF channels, library, history
<1>1. CASE Start
  BY <1>1 DEF Start, TypeOK
<1>2. ASSUME NEW err \in Failure, OpenFails(err) PROVE TypeOK'
  <2>1. err \in Error
    BY DEF Error
  <2> QED
    BY <1>2, <2>1, ReportTyped DEF OpenFails, TypeOK
<1>3. CASE OpenLog \/ LoopDone \/ LibraryStopped \/ StreamEnds
  BY <1>3 DEF OpenLog, LoopDone, LibraryStopped, StreamEnds, TypeOK
<1>4. CASE Receive
  <2>1. offered' \in 0 .. NLines /\ offered' \in 1 .. NLines
    BY <1>4 DEF Receive, TypeOK
  <2>2. CASE Len(lineChan) < LineCap
    <3>1. lineChan' = Append(lineChan, offered')
      BY <1>4, <2>2 DEF Receive, PassOn
    <3>2. lineChan' \in Seq(1 .. NLines) /\ Len(lineChan') <= LineCap
      BY <2>1, <2>2, <3>1, AppendProperties DEF TypeOK
    <3> QED
      BY <1>4, <2>1, <2>2, <3>2 DEF Receive, PassOn, TypeOK
  <2>3. CASE ~(Len(lineChan) < LineCap)
    <3>1. Report("ErrBufferOverflow") /\ "ErrBufferOverflow" \in Error
      BY <1>4, <2>3 DEF Receive, Error
    <3>2. /\ errChan' \in Seq(Error) /\ Len(errChan') <= ErrCap
          /\ reported' \in Seq(Error)
      BY <3>1, ReportTyped
    <3> QED
      BY <1>4, <2>1, <2>3, <3>2 DEF Receive, TypeOK
  <2> QED
    BY <2>2, <2>3
<1>5. CASE Stop \/ StopClose \/ CloseStream
  BY <1>5 DEF Stop, StopClose, CloseStream, TypeOK
<1>6. CASE TakeLine
  BY <1>6, HeadTailProperties, AppendProperties DEF TakeLine, TypeOK
<1>7. CASE TakeError
  BY <1>7, HeadTailProperties DEF TakeError, TypeOK
<1>8. CASE UNCHANGED vars
  BY <1>8 DEF vars, TypeOK
<1> QED
  BY <1>1, <1>2, <1>3, <1>4, <1>5, <1>6, <1>7, <1>8
  DEF Next, RunLoop, Environment

(* Every variable keeps its type, and neither channel exceeds its capacity.*)
THEOREM TypeCorrect == Spec => []TypeOK
BY InitTypeOK, StepTypeOK, PTL DEF Spec
-----------------------------------------------------------------------------
(* The strengthening that makes the properties inductive.                  *)

(* Lines are lost after they have been offered.                            *)
LostInv == lost \subseteq 1 .. offered

(* What is in errChan has been reported; while the loop runs it can only   *)
(* be an overflow, since a failure to open the log ends the loop.          *)
ErrorInv ==
  /\ Range(errChan) \subseteq Range(reported)
  /\ loopPc # "done" => Range(errChan) \subseteq {"ErrBufferOverflow"}

(* Stop closes the channels when the loop has ended.                       *)
DoneInv == stopPc = "closed" => loopPc = "done"

IInv ==
  /\ TypeOK /\ LostInv /\ LinesInOrder
  /\ ErrorInv /\ LossReported /\ DoneInv

(* Nothing has happened initially.                                         *)
LEMMA InitIInv == Init => IInv
<1> SUFFICES ASSUME Init PROVE IInv
  OBVIOUS
<1>1. lineChan = <<>> /\ taken = <<>> /\ errChan = <<>> /\ lost = {} /\ offered = 0
  BY DEF Init
<1>2. taken \o lineChan = <<>> /\ DOMAIN (taken \o lineChan) = {}
  BY <1>1
<1>3. LinesInOrder
  <2>1. 1 .. offered = {}
    BY <1>1
  <2> QED
    BY <1>1, <1>2, <2>1 DEF LinesInOrder, Range
<1>4. ErrorInv
  BY <1>1 DEF ErrorInv, Range
<1> QED
  BY <1>1, <1>3, <1>4, InitTypeOK DEF Init, IInv, LostInv, LossReported, DoneInv

(* A line that is passed on comes after all that were passed on before it, *)
(* and what is taken from lineChan had been passed on.                     *)
LEMMA StepOrder == TypeOK /\ LostInv /\ LinesInOrder /\ [Next]_vars => LinesInOrder'
<1> SUFFICES ASSUME TypeOK, LostInv, LinesInOrder, [Next]_vars PROVE LinesInOrder'
  OBVIOUS
<1> DEFINE passedOn == taken \o lineChan
<1> USE DEF channels, library, history
<1>1. passedOn \in Seq(1 .. NLines) /\ Range(passedOn) = (1 .. offered) \ lost
  BY ConcatProperties DEF TypeOK, LinesInOrder
<1>2. CASE Receive
  <2>1. /\ offered' = offered + 1 /\ offered \in Nat /\ offered' \in 1 .. NLines
        /\ 1 .. offered' = (1 .. offered) \cup {offered'} /\ taken' = taken
    BY <1>2 DEF Receive, TypeOK
  <2>2. CASE Len(lineChan) < LineCap
    <3>1. lineChan' = Append(lineChan, offered') /\ lost' = lost
      BY <1>2, <2>2 DEF Receive, PassOn
    <3>2. passedOn' = Append(passedOn, offered')
      <4>1. /\ taken \in Seq(1 .. NLines) /\ lineChan \in Seq(1 .. NLines)
            /\ offered' \in 1 .. NLines /\ taken' = taken
        BY <2>1 DEF TypeOK
      <4>2. taken \o Append(lineChan, offered') = Append(taken \o lineChan, offered')
        BY <4>1, SendHistory, SMTT(20)
      <4> QED
        BY <3>1, <4>1, <4>2
    <3>3. Range(passedOn') = (1 .. offered') \ lost'
      <4> HIDE DEF passedOn
      <4>1. Range(Append(passedOn, offered')) = Range(passedOn) \cup {offered'}
        BY <1>1, <2>1, SendRange
      <4>2. offered' \notin lost
        BY <2>1 DEF LostInv
      <4> QED
        BY <1>1, <2>1, <3>1, <3>2, <4>1, <4>2
    <3>4. \A j, k \in DOMAIN passedOn' : j < k => passedOn'[j] < passedOn'[k]
      <4>1. /\ Len(passedOn) \in Nat /\ DOMAIN passedOn = 1 .. Len(passedOn)
            /\ DOMAIN Append(passedOn, offered') = 1 .. Len(passedOn) + 1
            /\ \A j \in 1 .. Len(passedOn) : Append(passedOn, offered')[j] = passedOn[j]
            /\ Append(passedOn, offered')[Len(passedOn) + 1] = offered'
        BY <1>1, <2>1, AppendProperties, LenProperties
      <4>2. \A j \in 1 .. Len(passedOn) : passedOn[j] \in 1 .. offered
        BY <1>1, <4>1 DEF Range
      <4>3. \A j, k \in 1 .. Len(passedOn) : j < k => passedOn[j] < passedOn[k]
        BY <4>1 DEF LinesInOrder
      <4> HIDE DEF passedOn
      <4> QED
        BY <2>1, <3>2, <4>1, <4>2, <4>3
    <3> QED
      BY <3>3, <3>4 DEF LinesInOrder
  <2>3. CASE ~(Len(lineChan) < LineCap)
    <3>1. lineChan' = lineChan /\ lost' = lost \cup {offered'}
      BY <1>2, <2>3 DEF Receive
    <3>2. (1 .. offered') \ lost' = (1 .. offered) \ lost
      BY <2>1, <3>1
    <3> QED
      BY <2>1, <3>1, <3>2 DEF LinesInOrder
  <2> QED
    BY <2>2, <2>3
<1>3. CASE TakeLine
  <2>1. passedOn' = passedOn
    BY <1>3, ReceiveHistory DEF TakeLine, TypeOK
  <2> QED
    BY <1>3, <2>1 DEF TakeLine, LinesInOrder
<1>4. CASE UNCHANGED <<taken, lineChan, offered, lost>>
  BY <1>4 DEF LinesInOrder
<1> QED
  BY <1>2, <1>3, <1>4
  DEF vars, Next, RunLoop, Environment, Start, OpenFails, OpenLog, LoopDone,
      LibraryStopped, StreamEnds, Stop, StopClose, CloseStream, TakeError

(* Every step keeps the other parts of the invariant.                      *)
LEMMA StepRest == IInv /\ [Next]_vars => (LostInv /\ ErrorInv /\ LossReported /\ DoneInv)'
<1> SUFFICES ASSUME IInv, [Next]_vars
             PROVE  (LostInv /\ ErrorInv /\ LossReported /\ DoneInv)'
  OBVIOUS
<1> USE DEF channels, library, history, LostInv, ErrorInv, LossReported, DoneInv
<1>1. ASSUME NEW err \in Error, Report(err)
      PROVE  /\ Range(errChan') \subseteq Range(errChan) \cup {err}
             /\ Range(errChan') \subseteq Range(reported')
             /\ Range(reported) \subseteq Range(reported')
             /\ err \in Range(reported') \/ (errChan' = errChan /\ errChan # <<>>)
  <2>1. errChan \in Seq(Error) /\ reported \in Seq(Error) /\ ErrCap > 0
    BY DEF IInv, TypeOK
  <2>2. CASE Len(errChan) < ErrCap
    <3>1. errChan' = Append(errChan, err) /\ reported' = Append(reported, err)
      BY <1>1, <2>2 DEF Report
    <3>2. /\ Range(errChan') = Range(errChan) \cup {err}
          /\ Range(reported') = Range(reported) \cup {err}
      BY <2>1, <3>1, SendRange
    <3> QED
      BY <3>2 DEF IInv
  <2>3. CASE ~(Len(errChan) < ErrCap)
    BY <1>1, <2>1, <2>3 DEF Report, IInv
  <2> QED
    BY <2>2, <2>3
<1>2. CASE Start \/ OpenLog \/ LoopDone \/ LibraryStopped \/ StreamEnds
  <2>1. UNCHANGED <<stopPc, offered, errChan, lost, reported>> /\ loopPc # "done"
    BY <1>2 DEF Start, OpenLog, LoopDone, LibraryStopped, StreamEnds
  <2> QED
    BY <2>1 DEF IInv
<1>3. ASSUME NEW err \in Failure, OpenFails(err)
      PROVE  (LostInv /\ ErrorInv /\ LossReported /\ DoneInv)'
  <2>1. Report(err) /\ err \in Error
    BY <1>3 DEF OpenFails, Error
  <2> QED
    BY <1>1, <1>3, <2>1 DEF OpenFails, IInv
<1>4. CASE Receive
  <2>1. offered \in Nat /\ offered' = offered + 1 /\ loopPc' = loopPc /\ loopPc = "select"
    BY <1>4 DEF Receive, IInv, TypeOK
  <2>2. CASE Len(lineChan) < LineCap
    <3>1. UNCHANGED <<loopPc, stopPc, errChan, lost, reported>>
      BY <1>4, <2>2 DEF Receive, PassOn
    <3>2. LostInv'
      BY <2>1, <3>1 DEF IInv
    <3> QED
      BY <3>1, <3>2 DEF IInv
  <2>3. CASE ~(Len(lineChan) < LineCap)
    <3>1. Report("ErrBufferOverflow") /\ "ErrBufferOverflow" \in Error
      BY <1>4, <2>3 DEF Receive, Error
    <3>2. lost' = lost \cup {offered'} /\ stopPc' = stopPc
      BY <1>4, <2>3 DEF Receive
    <3>3. "ErrBufferOverflow" \in Range(reported')
      <4>1. CASE errChan' = errChan /\ errChan # <<>>
        <5>1. Range(errChan) # {}
          BY <4>1, ReceiveRange DEF IInv, TypeOK
        <5> QED
          BY <2>1, <3>1, <5>1, <1>1 DEF IInv
      <4> QED
        BY <1>1, <3>1, <4>1
    <3> QED
      BY <1>1, <2>1, <3>1, <3>2, <3>3 DEF IInv
  <2> QED
    BY <2>2, <2>3
<1>5. CASE Stop \/ StopClose \/ CloseStream \/ TakeLine
  BY <1>5 DEF Stop, StopClose, CloseStream, TakeLine, IInv
<1>6. CASE TakeError
  <2>1. Range(errChan') \subseteq Range(errChan)
    BY <1>6, ReceiveRange DEF TakeError, IInv, TypeOK
  <2> QED
    BY <1>6, <2>1 DEF TakeError, IInv
<1>7. CASE UNCHANGED vars
  BY <1>7 DEF vars, IInv
<1> QED
  BY <1>2, <1>3, <1>4, <1>5, <1>6, <1>7 DEF Next, RunLoop, Environment

(* The parts together. *)
LEMMA StepIInv == IInv /\ [Next]_vars => IInv'
BY StepTypeOK, StepOrder, StepRest DEF IInv

(* The inductive invariant is an invariant of the tail engine.             *)
LEMMA Invariance == Spec => []IInv
BY InitIInv, StepIInv, PTL DEF Spec

-----------------------------------------------------------------------------
(* The properties.                                                         *)

(* The collector gets the lines in the order auditd wrote them, none twice *)
(* and none left out but those that were dropped.                          *)
THEOREM LinesKeepOrder == Spec => []LinesInOrder
<1>1. IInv => LinesInOrder
  BY DEF IInv
<1> QED
  BY <1>1, Invariance, PTL

(* Once a line is dropped an overflow has been reported, even if errChan   *)
(* was full at that moment.                                                *)
THEOREM LossesNoticed == Spec => []LossReported
<1>1. IInv => LossReported
  BY DEF IInv
<1> QED
  BY <1>1, Invariance, PTL

(* Nothing is sent on the channels once Stop has closed them.              *)
THEOREM ClosedChannelsQuiet == Spec => NoSendAfterClose
<1>1. IInv /\ [Next]_vars =>
        [stopPc = "closed" => /\ Len(lineChan') <= Len(lineChan)
                              /\ Len(errChan') <= Len(errChan)]_vars
  <2> SUFFICES ASSUME IInv, Next, stopPc = "closed"
               PROVE  /\ Len(lineChan') <= Len(lineChan)
                      /\ Len(errChan') <= Len(errChan)
    OBVIOUS
  <2>1. loopPc = "done" /\ Len(lineChan) \in Nat /\ Len(errChan) \in Nat
    BY DEF IInv, DoneInv, TypeOK
  <2>2. CASE TakeLine
    BY <2>1, <2>2, HeadTailProperties DEF TakeLine, IInv, TypeOK
  <2>3. CASE TakeError
    BY <2>1, <2>3, HeadTailProperties DEF TakeError, IInv, TypeOK
  <2>4. CASE UNCHANGED channels
    BY <2>1, <2>4 DEF channels
  <2> QED
    BY <2>1, <2>2, <2>3, <2>4
    DEF Next, RunLoop, Environment, Start, OpenFails, OpenLog, LoopDone,
        LibraryStopped, StreamEnds, Receive, Stop, StopClose, CloseStream
<1> QED
  BY <1>1, Invariance, PTL DEF Spec, NoSendAfterClose

-----------------------------------------------------------------------------
(* The tail engine implements LossyChannel.                                *)

(* The line channel is empty and open, and nothing is lost, initially. *)
LEMMA InitRefines == Init => LineChannel!Init
BY FS_EmptySet DEF Init, LineChannel!Init

(* A received line is sent or, when the channel is full, lost; TakeLine    *)
(* receives, StopClose closes, and all other steps leave the channel as    *)
(* it is.                                                                  *)
LEMMA StepRefines == IInv /\ [Next]_vars => [LineChannel!Next]_(LineChannel!channelVars)
<1> SUFFICES ASSUME IInv, [Next]_vars
             PROVE  [LineChannel!Next]_(LineChannel!channelVars)
  OBVIOUS
<1> USE DEF channels, library, history, LineChannel!Next, LineChannel!channelVars
<1>1. CASE Receive
  <2>1. /\ offered \in Nat /\ offered' \in 1 .. NLines /\ offered' = offered + 1
        /\ stopPc # "closed" /\ stopPc' = stopPc
    BY <1>1 DEF Receive, IInv, TypeOK, DoneInv
  <2>2. CASE Len(lineChan) < LineCap
    <3>1. lineChan' = Append(lineChan, offered') /\ lost' = lost
      BY <1>1, <2>2 DEF Receive, PassOn
    <3>2. lineChan' # <<>> /\ lineChan' = Append(lineChan, lineChan'[Len(lineChan')])
      BY <2>1, <3>1, SendIsLast DEF IInv, TypeOK
    <3> QED
      BY <2>1, <2>2, <3>1, <3>2 DEF LineChannel!Send
  <2>3. CASE ~(Len(lineChan) < LineCap)
    <3>1. lineChan' = lineChan /\ lost' = lost \cup {offered'} /\ Len(lineChan) = LineCap
      BY <1>1, <2>3 DEF Receive, IInv, TypeOK
    <3>2. IsFiniteSet(lost) /\ offered' \notin lost
      <4>1. IsFiniteSet(1 .. offered)
        BY <2>1, FS_Interval
      <4>2. lost \in SUBSET (1 .. offered)
        BY DEF IInv, LostInv
      <4>3. IsFiniteSet(lost)
        BY <4>1, <4>2, FS_Subset
      <4> QED
        BY <2>1, <4>2, <4>3
    <3>3. Cardinality(lost') = Cardinality(lost) + 1
      BY <3>1, <3>2, FS_AddElement
    <3> QED
      BY <2>1, <3>1, <3>3 DEF LineChannel!Lose
  <2> QED
    BY <2>2, <2>3
<1>2. CASE TakeLine
  BY <1>2 DEF TakeLine, LineChannel!Receive
<1>3. CASE StopClose
  BY <1>3 DEF StopClose, LineChannel!Close
<1>4. CASE Stop
  BY <1>4 DEF Stop
<1>5. CASE UNCHANGED <<lineChan, stopPc, lost>>
  BY <1>5
<1> QED
  BY <1>1, <1>2, <1>3, <1>4, <1>5
  DEF vars, Next, RunLoop, Environment, Start, OpenFails, OpenLog, LoopDone,
      LibraryStopped, StreamEnds, CloseStream, TakeError

(* To the collector the tail engine is a channel that loses a line only    *)
(* when it is full.                                                        *)
THEOREM Refinement == Spec => ImplementsChannel
BY InitRefines, StepRefines, Invariance, PTL
DEF Spec, ImplementsChannel, LineChannel!Spec
=============================================================================
