----------------------------- MODULE AgentProofs -----------------------------
(***************************************************************************)
(* Theorems about the dispatcher's loop and about the agent it is part of, *)
(* for all groups, any number of rules and every capacity.  First the      *)
(* dispatcher on its own, whatever its environment does: its numbering has *)
(* no gap, and to its consumer it is a LossyChannel.  Then the agent: the  *)
(* same holds there, the dispatcher and main are the environment           *)
(* RuleEngineProofs assumes of the engine, and together the two account    *)
(* for the alerts from the collector's hand-off on.                        *)
(***************************************************************************)
EXTENDS Agent, ChannelTheorems

USE DispatcherAssumption

-----------------------------------------------------------------------------
(* The numbers of the groups.                                              *)

(* A group with a SYSCALL record gets the next number, any other none.     *)
LEMMA NumberStep ==
  ASSUME NEW k \in Nat
  PROVE  /\ NumberOf(k) \in Nat
         /\ NumberOf(k + 1) = IF arrived[k + 1] \in NoSyscall THEN NumberOf(k)
                                                               ELSE NumberOf(k) + 1
<1> DEFINE before == {j \in 1 .. k : arrived[j] \notin NoSyscall}
           upTo == {j \in 1 .. k + 1 : arrived[j] \notin NoSyscall}
<1>1. IsFiniteSet(before)
  <2>1. IsFiniteSet(1 .. k)
    BY FS_Interval
  <2>2. before \in SUBSET (1 .. k)
    OBVIOUS
  <2> HIDE DEF before
  <2> QED
    BY <2>1, <2>2, FS_Subset
<1>2. Cardinality(before) \in Nat
  BY <1>1, FS_CardinalityType
<1>3. 1 .. k + 1 = (1 .. k) \cup {k + 1} /\ k + 1 \notin 1 .. k
  OBVIOUS
<1>4. CASE arrived[k + 1] \in NoSyscall
  <2>1. upTo = before
    BY <1>3, <1>4
  <2> QED
    BY <1>2, <1>4, <2>1 DEF NumberOf
<1>5. CASE arrived[k + 1] \notin NoSyscall
  <2>1. upTo = before \cup {k + 1} /\ k + 1 \notin before
    BY <1>3, <1>5
  <2>2. Cardinality(upTo) = Cardinality(before) + 1
    BY <1>1, <2>1, FS_AddElement
  <2> QED
    BY <1>2, <1>5, <2>2 DEF NumberOf
<1> QED
  BY <1>4, <1>5

(* The numbering starts from zero. *)
LEMMA NumberOfNone == NumberOf(0) = 0
<1>1. {j \in 1 .. 0 : arrived[j] \notin NoSyscall} = {}
  OBVIOUS
<1> QED
  BY <1>1, FS_EmptySet DEF NumberOf

(* The number of a group does not depend on what arrives after it.         *)
LEMMA NumberKept ==
  ASSUME arrived \in Seq(Group), NEW g \in Group, arrived' = Append(arrived, g),
         NEW k \in 0 .. Len(arrived)
  PROVE  NumberOf(k)' = NumberOf(k)
<1>1. \A j \in 1 .. k : arrived'[j] = arrived[j]
  OBVIOUS
<1>2. {j \in 1 .. k : arrived'[j] \notin NoSyscall}
      = {j \in 1 .. k : arrived[j] \notin NoSyscall}
  BY <1>1
<1> QED
  BY <1>2 DEF NumberOf

(* Nor on anything but what arrives.                                       *)
LEMMA NumberFrame ==
  ASSUME arrived' = arrived
  PROVE  /\ Wanted' = Wanted
         /\ \A k : NumberOf(k)' = NumberOf(k) /\ EventOf(k)' = EventOf(k)
BY DEF Wanted, NumberOf, EventOf

-----------------------------------------------------------------------------
(* Types.                                                                  *)

(* The types of the initial state. *)
LEMMA InitTypeOK == Init => TypeOK
<1> SUFFICES ASSUME Init PROVE TypeOK
  OBVIOUS
<1>1. /\ inputChan \in Seq(Group) /\ Len(inputChan) <= InCap
      /\ arrived \in Seq(Group) /\ event \in Seq(Event)
      /\ outputChan \in Seq(Event) /\ Len(outputChan) <= OutCap
      /\ forwarded \in Seq(Event)
      /\ errChan \in Seq({"ErrBufferOverflow"}) /\ Len(errChan) <= ErrCap
  BY EmptySeq DEF Init
<1>2. /\ loopPc \in {"off", "select", "send", "done"}
      /\ Len(event) = IF loopPc = "send" THEN 1 ELSE 0
      /\ sequenceID \in Nat
      /\ {inputClosed, ctxDone, closed} \subseteq BOOLEAN
  BY DEF Init
<1> QED
  BY <1>1, <1>2 DEF TypeOK

(* Every step keeps the variables in their types.                          *)
LEMMA StepTypeOK == TypeOK /\ [Next]_vars => TypeOK'
<1> SUFFICES ASSUME TypeOK, [Next]_vars PROVE TypeOK'
  OBVIOUS
<1> USE DEF input, output
<1>1. CASE Start \/ LoopDone \/ LoopInputClosed
  BY <1>1 DEF Start, LoopDone, LoopInputClosed, TypeOK
<1>2. CASE Receive
  <2>1. /\ Head(inputChan) \in Group /\ inputChan' \in Seq(Group)
        /\ Len(inputChan') <= InCap
    BY <1>2, HeadTailProperties DEF Receive, TypeOK
  <2>2. CASE Head(inputChan) \in NoSyscall
    BY <1>2, <2>1, <2>2 DEF Receive, TypeOK
  <2>3. CASE Head(inputChan) \notin NoSyscall
    <3>1. /\ sequenceID' = sequenceID + 1 /\ loopPc' = "send"
          /\ event' = <<[ID |-> sequenceID', group |-> Head(inputChan)]>>
      BY <1>2, <2>3 DEF Receive
    <3>2. sequenceID' \in Nat \ {0}
      BY <3>1 DEF TypeOK
    <3>3. [ID |-> sequenceID', group |-> Head(inputChan)] \in Event
      BY <2>1, <2>3, <3>2 DEF Event
    <3>4. event' \in Seq(Event) /\ Len(event') = 1
      BY <3>1, <3>3
    <3> QED
      BY <1>2, <2>1, <3>1, <3>2, <3>4 DEF Receive, TypeOK
  <2> QED
    BY <2>2, <2>3
<1>3. CASE Send
  <2>1. event' = <<>> /\ event' \in Seq(Event) /\ Len(event') = 0
    BY <1>3 DEF Send
  <2>2. event[1] \in Event
    <3>1. event \in Seq(Event) /\ Len(event) = 1
      BY <1>3 DEF Send, TypeOK
    <3> QED
      BY <3>1, HandHolds
  <2>3. CASE HasRoom
    <3>1. /\ outputChan' = Append(outputChan, event[1])
          /\ forwarded' = Append(forwarded, event[1])
          /\ loopPc' = "select" /\ UNCHANGED <<errChan, closed>>
      BY <1>3, <2>3 DEF Send, Forward
    <3>2. /\ outputChan' \in Seq(Event) /\ forwarded' \in Seq(Event)
          /\ Len(outputChan') <= OutCap
      BY <2>2, <2>3, <3>1, AppendProperties DEF HasRoom, TypeOK
    <3> QED
      BY <1>3, <2>1, <3>1, <3>2 DEF Send, TypeOK
  <2>4. CASE ~HasRoom
    <3>1. /\ ReportOverflow
          /\ loopPc' = "done" /\ UNCHANGED <<closed, outputChan, forwarded>>
      BY <1>3, <2>4 DEF Send, GiveUp
    <3>2. errChan' \in Seq({"ErrBufferOverflow"}) /\ Len(errChan') <= ErrCap
      <4>1. CASE Len(errChan) < ErrCap
        <5>1. errChan' = Append(errChan, "ErrBufferOverflow")
          BY <3>1, <4>1 DEF ReportOverflow
        <5> QED
          BY <4>1, <5>1, AppendProperties DEF TypeOK
      <4>2. CASE ~(Len(errChan) < ErrCap)
        BY <3>1, <4>2 DEF ReportOverflow, TypeOK
      <4> QED
        BY <4>1, <4>2
    <3> QED
      BY <1>3, <2>1, <3>1, <3>2 DEF Send, TypeOK
  <2> QED
    BY <2>3, <2>4
<1>4. ASSUME NEW g \in Group, Arrive(g) PROVE TypeOK'
  <2>1. /\ inputChan' \in Seq(Group) /\ arrived' \in Seq(Group)
        /\ Len(inputChan') <= InCap
    BY <1>4, AppendProperties DEF Arrive, TypeOK
  <2> QED
    BY <1>4, <2>1 DEF Arrive, TypeOK
<1>5. CASE CloseInput \/ Cancel
  BY <1>5 DEF CloseInput, Cancel, TypeOK
<1>6. CASE TakeEvent
  BY <1>6, HeadTailProperties DEF TakeEvent, TypeOK
<1>7. CASE TakeError
  BY <1>7, HeadTailProperties DEF TakeError, TypeOK
<1>8. CASE UNCHANGED vars
  BY <1>8 DEF vars, TypeOK
<1> QED
  BY <1>1, <1>2, <1>3, <1>4, <1>5, <1>6, <1>7, <1>8
  DEF Next, TransformLoop, Environment

(* Every variable keeps its type, and no channel exceeds its capacity.     *)
THEOREM TypeCorrect == Spec => []TypeOK
BY InitTypeOK, StepTypeOK, PTL DEF Spec

-----------------------------------------------------------------------------
(* The strengthening that makes the properties inductive.                  *)

(* How many groups the loop has received. *)
Received == Len(arrived) - Len(inputChan)

(* What is queued are the last groups that arrived.                        *)
QueueInv ==
  /\ Received \in Nat
  /\ \A i \in 1 .. Len(inputChan) : inputChan[i] = arrived[Received + i]

(* sequenceID counts the groups received that are to become events, and    *)
(* the event in hand is the one of the last group received.                *)
CountInv ==
  /\ sequenceID = NumberOf(Received)
  /\ loopPc = "send" => Received \in Wanted /\ event[1] = EventOf(Received)

(* The channels are closed as the loop ends.                               *)
DoneInv == closed => loopPc = "done"

IInv == TypeOK /\ QueueInv /\ CountInv /\ EventsInOrder /\ DoneInv

(* No group has arrived and nothing is numbered initially. *)
LEMMA InitIInv == Init => IInv
<1> SUFFICES ASSUME Init PROVE IInv
  OBVIOUS
<1>1. /\ arrived = <<>> /\ inputChan = <<>> /\ forwarded = <<>> /\ event = <<>>
      /\ sequenceID = 0 /\ closed = FALSE /\ loopPc = "off"
  BY DEF Init
<1>2. Received = 0
  BY <1>1 DEF Received
<1>3. QueueInv
  BY <1>1, <1>2 DEF QueueInv
<1>4. CountInv
  BY <1>1, <1>2, NumberOfNone DEF CountInv
<1>5. EventsInOrder
  BY <1>1 DEF EventsInOrder
<1> QED
  BY <1>1, <1>3, <1>4, <1>5, InitTypeOK DEF IInv, DoneInv

(* A receive and an arrival keep the queue at the end of what arrived; an  *)
(* arrival does not change what the groups before it become.               *)
LEMMA StepQueue == TypeOK /\ QueueInv /\ [Next]_vars => QueueInv'
<1> SUFFICES ASSUME TypeOK, QueueInv, [Next]_vars PROVE QueueInv'
  OBVIOUS
<1> USE DEF input, output
<1>1. /\ inputChan \in Seq(Group) /\ Len(inputChan) \in Nat
      /\ arrived \in Seq(Group) /\ Len(arrived) \in Nat
  BY DEF TypeOK
<1>2. CASE Receive
  <2>1. /\ arrived' = arrived /\ Len(inputChan') = Len(inputChan) - 1
        /\ \A i \in 1 .. Len(inputChan') : inputChan'[i] = inputChan[i + 1]
    BY <1>1, <1>2, HeadTailProperties DEF Receive
  <2>2. Received' = Received + 1 /\ Received \in Nat
    BY <1>1, <2>1 DEF Received, QueueInv
  <2>3. ASSUME NEW i \in 1 .. Len(inputChan')
        PROVE  inputChan'[i] = arrived'[Received' + i]
    <3>1. i + 1 \in 1 .. Len(inputChan) /\ Received + (i + 1) = Received' + i
      BY <1>1, <2>1, <2>2
    <3>2. inputChan[i + 1] = arrived[Received + (i + 1)]
      BY <3>1 DEF QueueInv
    <3> QED
      BY <2>1, <3>1, <3>2
  <2> QED
    BY <2>2, <2>3 DEF QueueInv
<1>3. ASSUME NEW g \in Group, Arrive(g) PROVE QueueInv'
  <2>1. /\ arrived' = Append(arrived, g) /\ inputChan' = Append(inputChan, g)
    BY <1>3 DEF Arrive
  <2>2. /\ Len(arrived') = Len(arrived) + 1 /\ Len(inputChan') = Len(inputChan) + 1
        /\ \A i \in 1 .. Len(arrived) : arrived'[i] = arrived[i]
        /\ \A i \in 1 .. Len(inputChan) : inputChan'[i] = inputChan[i]
        /\ arrived'[Len(arrived) + 1] = g /\ inputChan'[Len(inputChan) + 1] = g
    BY <1>1, <2>1, AppendProperties
  <2>3. Received' = Received /\ Received + Len(inputChan) = Len(arrived)
    BY <1>1, <2>2 DEF Received
  <2>4. ASSUME NEW i \in 1 .. Len(inputChan')
        PROVE  inputChan'[i] = arrived'[Received' + i]
    <3>1. CASE i \in 1 .. Len(inputChan)
      <4>1. inputChan[i] = arrived[Received + i] /\ Received + i \in 1 .. Len(arrived)
        BY <1>1, <2>3, <3>1 DEF QueueInv
      <4> QED
        BY <2>2, <2>3, <3>1, <4>1
    <3>2. CASE i = Len(inputChan) + 1
      <4>1. Received' + i = Len(arrived) + 1
        <5>1. Received \in Nat /\ Received' + i = Received + (Len(inputChan) + 1)
          BY <2>3, <3>2 DEF QueueInv
        <5> QED
          BY <1>1, <2>3, <5>1
      <4> QED
        BY <2>2, <3>2, <4>1
    <3> QED
      BY <1>1, <2>2, <3>1, <3>2
  <2> QED
    BY <2>3, <2>4 DEF QueueInv
<1>4. CASE UNCHANGED <<inputChan, arrived>>
  BY <1>4 DEF QueueInv, Received
<1> QED
  BY <1>2, <1>3, <1>4
  DEF vars, Next, TransformLoop, Environment, Start, LoopDone, LoopInputClosed,
      Send, CloseInput, Cancel, TakeEvent, TakeError

(* The counter and the event in hand follow the groups received, and what  *)
(* is forwarded is the event in hand.                                      *)
LEMMA StepOrder == IInv /\ [Next]_vars => (CountInv /\ EventsInOrder)'
<1> SUFFICES ASSUME IInv, [Next]_vars PROVE CountInv' /\ EventsInOrder'
  BY DEF IInv
<1> USE DEF input, output
<1>1. /\ inputChan \in Seq(Group) /\ Len(inputChan) \in Nat
      /\ arrived \in Seq(Group) /\ Len(arrived) \in Nat
      /\ forwarded \in Seq(Event) /\ Len(forwarded) \in Nat
      /\ sequenceID \in Nat /\ Received \in Nat
      /\ Len(event) = IF loopPc = "send" THEN 1 ELSE 0
  BY DEF IInv, TypeOK, QueueInv
<1>2. CASE Receive
  <2>1. /\ arrived' = arrived /\ forwarded' = forwarded /\ loopPc = "select"
        /\ Len(inputChan') = Len(inputChan) - 1 /\ Len(inputChan) > 0
        /\ Head(inputChan) = inputChan[1]
    BY <1>1, <1>2, HeadTailProperties DEF Receive
  <2>2. Received' = Received + 1 /\ Received' \in DOMAIN arrived
    BY <1>1, <2>1 DEF Received
  <2>3. Head(inputChan) = arrived[Received']
    BY <1>1, <2>1, <2>2 DEF IInv, QueueInv
  <2>4. PICK r \in Nat : r = Received'
    BY <1>1, <2>2
  <2>5. /\ NumberOf(Received)' = NumberOf(r) /\ Wanted' = Wanted
        /\ EventOf(Received)' = EventOf(r)
        /\ \A k : EventOf(k)' = EventOf(k)
    BY <2>1, <2>4 DEF NumberOf, EventOf, Wanted
  <2>6. \A n \in DOMAIN forwarded' :
           forwarded'[n].ID = n /\ \E k \in Wanted' : forwarded'[n] = EventOf(k)'
    BY <2>1, <2>5 DEF IInv, EventsInOrder
  <2>7. CASE Head(inputChan) \in NoSyscall
    <3>1. UNCHANGED <<sequenceID, event, loopPc>>
      BY <1>2, <2>7 DEF Receive
    <3>2. NumberOf(r) = NumberOf(Received)
      BY <1>1, <2>2, <2>3, <2>4, <2>7, NumberStep
    <3>3. CountInv'
      BY <2>1, <2>5, <3>1, <3>2 DEF IInv, CountInv
    <3> QED
      BY <2>1, <2>6, <3>1, <3>3 DEF IInv, EventsInOrder
  <2>8. CASE Head(inputChan) \notin NoSyscall
    <3>1. /\ sequenceID' = sequenceID + 1 /\ loopPc' = "send"
          /\ event' = <<[ID |-> sequenceID', group |-> Head(inputChan)]>>
      BY <1>2, <2>8 DEF Receive
    <3>2. sequenceID' = NumberOf(r)
      BY <1>1, <2>2, <2>3, <2>4, <2>8, <3>1, NumberStep DEF IInv, CountInv
    <3>3. CountInv'
      <4>1. r \in Wanted
        BY <2>2, <2>3, <2>4, <2>8 DEF Wanted
      <4>2. event'[1] = EventOf(r)
        BY <2>3, <2>4, <3>1, <3>2 DEF EventOf
      <4> QED
        BY <2>4, <2>5, <3>2, <4>1, <4>2 DEF CountInv
    <3>4. Len(event) = 0 /\ Len(event') = 1
      BY <1>1, <2>1, <3>1
    <3>5. Len(forwarded') + Len(event') = sequenceID'
      BY <1>1, <2>1, <3>1, <3>4 DEF IInv, EventsInOrder
    <3> QED
      BY <2>6, <3>3, <3>5 DEF EventsInOrder
  <2> QED
    BY <2>7, <2>8
<1>3. CASE Send
  <2>1. /\ UNCHANGED <<inputChan, arrived, sequenceID>> /\ loopPc' # "send"
        /\ loopPc = "send" /\ event' = <<>>
    BY <1>3 DEF Send, Forward, GiveUp
  <2>2. Received' = Received /\ Wanted' = Wanted /\ \A k : EventOf(k)' = EventOf(k)
    BY <2>1, NumberFrame DEF Received
  <2>3. CountInv'
    BY <2>1 DEF IInv, CountInv, Received, NumberOf
  <2>4. CASE HasRoom
    <3>1. forwarded' = Append(forwarded, event[1]) /\ loopPc' = "select"
      BY <1>3, <2>4 DEF Send, Forward
    <3>2. /\ Len(forwarded') = Len(forwarded) + 1
          /\ \A n \in 1 .. Len(forwarded) : forwarded'[n] = forwarded[n]
          /\ forwarded'[Len(forwarded) + 1] = event[1]
          /\ DOMAIN forwarded' = 1 .. Len(forwarded) + 1
          /\ DOMAIN forwarded = 1 .. Len(forwarded)
      BY <1>1, <3>1
    <3>3. /\ Received \in Wanted /\ event[1] = EventOf(Received)
          /\ event[1].ID = Len(forwarded) + 1
      <4>1. Received \in Wanted /\ event[1] = EventOf(Received)
        BY <2>1 DEF IInv, CountInv
      <4>2. EventOf(Received).ID = sequenceID
        BY DEF IInv, CountInv, EventOf
      <4>3. Len(forwarded) + 1 = sequenceID
        BY <1>1, <2>1 DEF IInv, EventsInOrder
      <4> QED
        BY <4>1, <4>2, <4>3
    <3>4. Wanted \subseteq Nat
      BY <1>1 DEF Wanted
    <3>5. ASSUME NEW n \in DOMAIN forwarded'
          PROVE  forwarded'[n].ID = n /\ \E k \in Wanted' : forwarded'[n] = EventOf(k)'
      <4>1. CASE n \in 1 .. Len(forwarded)
        <5>1. PICK k \in Wanted : forwarded[n] = EventOf(k)
          BY <3>2, <4>1 DEF IInv, EventsInOrder
        <5>2. forwarded[n].ID = n
          BY <3>2, <4>1 DEF IInv, EventsInOrder
        <5>3. forwarded'[n] = forwarded[n]
          BY <3>2, <4>1
        <5>4. k \in Wanted' /\ EventOf(k)' = EventOf(k)
          BY <2>2, <3>4
        <5> QED
          BY <5>1, <5>2, <5>3, <5>4
      <4>2. CASE n = Len(forwarded) + 1
        BY <1>1, <2>2, <3>2, <3>3, <4>2
      <4> QED
        BY <1>1, <3>2, <4>1, <4>2, SMTT(20)
    <3>6. Len(forwarded') + Len(event') = sequenceID'
      <4>1. Len(event') = 0 /\ Len(event) = 1
        BY <1>1, <2>1
      <4> QED
        BY <1>1, <2>1, <3>2, <4>1 DEF IInv, EventsInOrder
    <3> QED
      BY <2>3, <3>5, <3>6 DEF EventsInOrder
  <2>5. CASE ~HasRoom
    <3>1. forwarded' = forwarded /\ loopPc' = "done"
      BY <1>3, <2>5 DEF Send, GiveUp
    <3> QED
      BY <2>2, <2>3, <3>1 DEF IInv, EventsInOrder
  <2> QED
    BY <2>4, <2>5
<1>4. ASSUME NEW g \in Group, Arrive(g) PROVE CountInv' /\ EventsInOrder'
  <2>1. /\ arrived' = Append(arrived, g) /\ inputChan' = Append(inputChan, g)
        /\ UNCHANGED <<loopPc, sequenceID, event, forwarded>>
    BY <1>4 DEF Arrive
  <2>2. /\ Received' = Received /\ Received \in 0 .. Len(arrived)
    <3>1. Len(arrived') = Len(arrived) + 1 /\ Len(inputChan') = Len(inputChan) + 1
      BY <1>1, <2>1
    <3> QED
      BY <1>1, <3>1 DEF Received
  <2>3. \A k \in 0 .. Len(arrived) : NumberOf(k)' = NumberOf(k)
    BY <1>1, <2>1, NumberKept
  <2>4. ASSUME NEW k \in Wanted
        PROVE  k \in Wanted' /\ EventOf(k)' = EventOf(k)
    <3>1. k \in 1 .. Len(arrived) /\ arrived[k] \notin NoSyscall
      BY <1>1 DEF Wanted
    <3>2. k \in DOMAIN arrived' /\ arrived'[k] = arrived[k]
      BY <1>1, <2>1, <3>1
    <3> QED
      BY <2>3, <3>1, <3>2 DEF Wanted, EventOf
  <2>5. CountInv'
    BY <2>1, <2>2, <2>3, <2>4 DEF IInv, CountInv
  <2> QED
    BY <2>1, <2>4, <2>5 DEF IInv, EventsInOrder
<1>5. ASSUME UNCHANGED <<inputChan, arrived, sequenceID, event, forwarded>>,
             loopPc' # "send", loopPc = "done" => loopPc' = "done"
      PROVE  CountInv' /\ EventsInOrder'
  <2>1. CountInv'
    BY <1>5 DEF IInv, CountInv, Received, NumberOf
  <2> QED
    BY <1>5, <2>1, NumberFrame DEF IInv, EventsInOrder
<1>6. CASE Start \/ LoopDone \/ LoopInputClosed
  <2>1. /\ UNCHANGED <<inputChan, arrived, sequenceID, event, forwarded>>
        /\ loopPc' # "send" /\ loopPc # "done"
    BY <1>6 DEF Start, LoopDone, LoopInputClosed
  <2> QED
    BY <1>5, <2>1
<1>7. CASE UNCHANGED <<inputChan, arrived, sequenceID, event, forwarded, loopPc>>
  <2>1. CountInv'
    BY <1>7 DEF IInv, CountInv, Received, NumberOf, Wanted, EventOf
  <2> QED
    BY <1>7, <2>1, NumberFrame DEF IInv, EventsInOrder
<1> QED
  BY <1>2, <1>3, <1>4, <1>6, <1>7
  DEF vars, Next, TransformLoop, Environment, CloseInput, Cancel, TakeEvent, TakeError

(* The parts together; closed is set by the steps that end the loop. *)
LEMMA StepIInv == IInv /\ [Next]_vars => IInv'
<1> SUFFICES ASSUME IInv, [Next]_vars PROVE IInv'
  OBVIOUS
<1>1. DoneInv'
  BY DEF IInv, DoneInv, vars, input, output, Next, TransformLoop, Environment, Start,
         LoopDone, LoopInputClosed, Receive, Send, Forward, GiveUp, Arrive, CloseInput,
         Cancel, TakeEvent, TakeError
<1> QED
  BY <1>1, StepTypeOK, StepQueue, StepOrder DEF IInv

(* The inductive invariant is an invariant of the transform loop.          *)
LEMMA Invariance == Spec => []IInv
BY InitIInv, StepIInv, PTL DEF Spec

-----------------------------------------------------------------------------
(* The properties.                                                         *)

(* The events forwarded are the groups with a SYSCALL record, in the order *)
(* of their arrival and numbered without a gap.                            *)
THEOREM NoGapInEvents == Spec => []EventsInOrder
<1>1. IInv => EventsInOrder
  BY DEF IInv
<1> QED
  BY <1>1, Invariance, PTL

-----------------------------------------------------------------------------
(* The dispatcher implements LossyChannel.                                 *)

(* The channel is empty and open, and nothing is lost, initially. *)
LEMMA InitRefines == Init => EventChannel!Init
<1> SUFFICES ASSUME Init PROVE EventChannel!Init
  OBVIOUS
<1>1. Len(forwarded) = 0 /\ Len(event) = 0 /\ sequenceID = 0
  BY DEF Init
<1>2. 0 - 0 - 0 = 0
  OBVIOUS
<1> QED
  BY <1>1, <1>2 DEF Init, EventChannel!Init

(* Forward sends, GiveUp loses, TakeEvent receives, LoopDone closes, and   *)
(* all other steps leave the channel as it is: a group that is received    *)
(* adds one to the counter and to the event in hand.                       *)
LEMMA StepRefines == IInv /\ [Next]_vars => [EventChannel!Next]_(EventChannel!channelVars)
<1> SUFFICES ASSUME IInv, [Next]_vars
             PROVE  [EventChannel!Next]_(EventChannel!channelVars)
  OBVIOUS
<1> USE DEF input, output, EventChannel!Next, EventChannel!channelVars
<1>1. /\ sequenceID \in Nat /\ Len(forwarded) \in Nat /\ Len(outputChan) \in Nat
      /\ outputChan \in Seq(Event) /\ forwarded \in Seq(Event)
      /\ Len(event) = IF loopPc = "send" THEN 1 ELSE 0
      /\ Len(outputChan) <= OutCap
      /\ closed => loopPc = "done"
  BY DEF IInv, TypeOK, DoneInv
<1>2. CASE Receive
  <2>1. /\ UNCHANGED <<outputChan, forwarded, closed>> /\ Len(event) = 0
    BY <1>1, <1>2 DEF Receive
  <2>2. sequenceID' - Len(forwarded') - Len(event') = sequenceID - Len(forwarded) - Len(event)
    <3>1. CASE Head(inputChan) \in NoSyscall
      BY <1>2, <2>1, <3>1 DEF Receive
    <3>2. CASE Head(inputChan) \notin NoSyscall
      <4>1. sequenceID' = sequenceID + 1 /\ Len(event') = 1
        BY <1>2, <3>2 DEF Receive
      <4> QED
        BY <1>1, <2>1, <4>1
    <3> QED
      BY <3>1, <3>2
  <2> QED
    BY <2>1, <2>2
<1>3. CASE Send
  <2>1. /\ ~closed /\ Len(event) = 1 /\ Len(event') = 0 /\ sequenceID' = sequenceID
    BY <1>1, <1>3 DEF Send
  <2>2. event[1] \in Event
    <3>1. event \in Seq(Event)
      BY DEF IInv, TypeOK
    <3> QED
      BY <2>1, <3>1, HandHolds
  <2>3. CASE HasRoom
    <3>1. /\ outputChan' = Append(outputChan, event[1])
          /\ forwarded' = Append(forwarded, event[1]) /\ closed' = closed
      BY <1>3, <2>3 DEF Send, Forward
    <3>2. outputChan' # <<>> /\ outputChan' = Append(outputChan, outputChan'[Len(outputChan')])
      BY <1>1, <2>2, <3>1, SendIsLast
    <3>3. Len(forwarded') = Len(forwarded) + 1
      BY <1>1, <2>2, <3>1
    <3>4. sequenceID' - Len(forwarded') - Len(event') = sequenceID - Len(forwarded) - Len(event)
      <4>1. \A a, b \in Nat : a - (b + 1) - 0 = a - b - 1
        OBVIOUS
      <4>2. sequenceID - (Len(forwarded) + 1) - 0 = sequenceID - Len(forwarded) - 1
        BY <1>1, <4>1
      <4> QED
        BY <2>1, <3>3, <4>2
    <3> QED
      BY <2>1, <2>3, <3>1, <3>2, <3>4 DEF HasRoom, EventChannel!Send
  <2>4. CASE ~HasRoom
    <3>1. UNCHANGED <<outputChan, forwarded, closed>> /\ Len(outputChan) = OutCap
      BY <1>1, <1>3, <2>4 DEF Send, GiveUp, HasRoom
    <3>2. sequenceID' - Len(forwarded') - Len(event')
          = sequenceID - Len(forwarded) - Len(event) + 1
      <4>1. \A a, b \in Nat : a - b - 0 = a - b - 1 + 1
        OBVIOUS
      <4>2. sequenceID - Len(forwarded) - 0 = sequenceID - Len(forwarded) - 1 + 1
        BY <1>1, <4>1
      <4> QED
        BY <2>1, <3>1, <4>2
    <3> QED
      BY <2>1, <3>1, <3>2 DEF EventChannel!Lose
  <2> QED
    BY <2>3, <2>4
<1>4. CASE TakeEvent
  BY <1>4 DEF TakeEvent, EventChannel!Receive
<1>5. CASE LoopDone
  BY <1>1, <1>5 DEF LoopDone, EventChannel!Close
<1>6. CASE UNCHANGED <<outputChan, closed, sequenceID, forwarded, event>>
  BY <1>6
<1> QED
  BY <1>2, <1>3, <1>4, <1>5, <1>6
  DEF vars, Next, TransformLoop, Environment, Start, LoopInputClosed, Arrive,
      CloseInput, Cancel, TakeError

(* To the rule engine the dispatcher is a channel that loses an event only *)
(* when it is full, and on which nothing is sent once it is closed.        *)
THEOREM Refinement == Spec => ImplementsChannel
BY InitRefines, StepRefines, Invariance, PTL
DEF Spec, ImplementsChannel, EventChannel!Spec

-----------------------------------------------------------------------------
(* The dispatcher in the agent.                                            *)

USE AgentAssumption

(* What the other stages and main do is what EventDispatcher's environment *)
(* does, or nothing to it.                                                 *)
LEMMA DispatcherStep == [AgentNext]_agentVars => [Next]_vars
<1> SUFFICES ASSUME [AgentNext]_agentVars PROVE [Next]_vars
  OBVIOUS
<1>1. CASE StartDispatcher
  BY <1>1 DEF StartDispatcher, Next
<1>2. CASE CancelContext
  BY <1>2 DEF CancelContext, Next, Environment
<1>3. CASE CollectorStopped
  BY <1>3 DEF CollectorStopped, Next, Environment
<1>4. CASE HandsOff
  BY <1>4 DEF HandsOff, Next, Environment
<1>5. CASE Transforms
  BY <1>5 DEF Transforms, Next
<1>6. CASE EngineReceives
  BY <1>6 DEF EngineReceives, Next, Environment
<1>7. CASE PrintError
  BY <1>7 DEF PrintError, Next, Environment
<1>8. CASE UNCHANGED vars
  BY <1>8
<1> QED
  BY <1>1, <1>2, <1>3, <1>4, <1>5, <1>6, <1>7, <1>8
  DEF agentVars, AgentNext, Main, Stages, StartCollector, LoadRules, StartEngine,
      StartPrinters, Signal, StopCollector, StopTail, Wait, CollectorEnds, Judges,
      Prints, ErrorPrinterEnds

(* Every behaviour of the agent is one of the dispatcher's module. *)
LEMMA DispatcherInAgent == AgentSpec => Spec
<1>1. AgentInit => Init
  BY DEF AgentInit
<1> QED
  BY <1>1, DispatcherStep, PTL DEF AgentSpec, Spec

(* Also in the agent the events are forwarded without a gap.               *)
THEOREM AgentKeepsOrder == AgentSpec => []EventsInOrder
BY DispatcherInAgent, NoGapInEvents

(* Also in the agent the dispatcher is a LossyChannel to the engine.       *)
THEOREM AgentKeepsChannel == AgentSpec => ImplementsChannel
BY DispatcherInAgent, Refinement

-----------------------------------------------------------------------------
(* The events are numbered within the number of groups.                    *)

(* The collector hands off no group twice. *)
GroupsOnce == IsInjective(arrived)

(* Arrive takes a group that has not arrived yet. *)
LEMMA StepOnce == TypeOK /\ GroupsOnce /\ [Next]_vars => GroupsOnce'
<1> SUFFICES ASSUME TypeOK, GroupsOnce, [Next]_vars PROVE GroupsOnce'
  OBVIOUS
<1>1. ASSUME NEW g \in Group, Arrive(g) PROVE GroupsOnce'
  <2>1. /\ arrived' = Append(arrived, g) /\ arrived \in Seq(Group)
        /\ g \notin Range(arrived)
    BY <1>1 DEF Arrive, TypeOK, Range
  <2> QED
    BY <2>1, SendDistinct DEF GroupsOnce
<1>2. CASE arrived' = arrived
  BY <1>2 DEF GroupsOnce
<1> QED
  BY <1>1, <1>2
  DEF vars, input, Next, TransformLoop, Environment, Start, LoopDone, LoopInputClosed,
      Receive, Send, CloseInput, Cancel, TakeEvent, TakeError

(* So no group arrives twice in the agent. *)
LEMMA OnceInAgent == AgentSpec => []GroupsOnce
<1>1. AgentInit => GroupsOnce
  BY DEF AgentInit, Init, GroupsOnce, IsInjective
<1> QED
  BY <1>1, StepOnce, DispatcherInAgent, TypeCorrect, PTL DEF AgentSpec, Spec

(* A group that is to become an event has a number of its own, and there   *)
(* are at most as many numbers as such groups.                             *)
LEMMA NumbersOfWanted ==
  ASSUME arrived \in Seq(Group), NEW k \in Wanted
  PROVE  /\ NumberOf(k) \in Nat \ {0}
         /\ \A j \in Nat : j < k => NumberOf(j) < NumberOf(k)
         /\ GroupsOnce => NumberOf(k) <= Cardinality(Group \ NoSyscall)
<1> DEFINE upTo(j) == {i \in 1 .. j : arrived[i] \notin NoSyscall}
<1>1. k \in 1 .. Len(arrived) /\ arrived[k] \notin NoSyscall /\ Len(arrived) \in Nat
  BY DEF Wanted
<1>2. \A j \in Nat : IsFiniteSet(upTo(j))
  <2> TAKE j \in Nat
  <2>1. IsFiniteSet(1 .. j)
    BY FS_Interval
  <2>2. upTo(j) \in SUBSET (1 .. j)
    OBVIOUS
  <2> HIDE DEF upTo
  <2> QED
    BY <2>1, <2>2, FS_Subset
<1>3. \A j \in Nat : j < k => NumberOf(j) < NumberOf(k)
  <2> SUFFICES ASSUME NEW j \in Nat, j < k PROVE NumberOf(j) < NumberOf(k)
    OBVIOUS
  <2>1. IsFiniteSet(upTo(j)) /\ IsFiniteSet(upTo(k)) /\ k \notin upTo(j)
    BY <1>1, <1>2
  <2>2. upTo(j) \cup {k} \in SUBSET upTo(k)
    BY <1>1
  <2> HIDE DEF upTo
  <2>3. /\ Cardinality(upTo(j) \cup {k}) = Cardinality(upTo(j)) + 1
    BY <2>1, FS_AddElement
  <2>4. Cardinality(upTo(j) \cup {k}) <= Cardinality(upTo(k))
    BY <2>1, <2>2, FS_Subset
  <2>5. Cardinality(upTo(j)) \in Nat /\ Cardinality(upTo(k)) \in Nat
    BY <2>1, FS_CardinalityType
  <2>6. Cardinality(upTo(j)) < Cardinality(upTo(k))
    BY <2>3, <2>4, <2>5
  <2> QED
    BY <2>6 DEF NumberOf, upTo
<1>4. NumberOf(k) \in Nat \ {0}
  <2>1. NumberOf(0) < NumberOf(k) /\ NumberOf(k) \in Nat
    BY <1>1, <1>3, NumberStep
  <2> QED
    BY <2>1, NumberOfNone
<1>5. ASSUME GroupsOnce PROVE NumberOf(k) <= Cardinality(Group \ NoSyscall)
  <2>1. IsFiniteSet(Group \ NoSyscall)
    BY FS_Subset
  <2> DEFINE f == [i \in upTo(k) |-> arrived[i]]
  <2>2. f \in [upTo(k) -> Group \ NoSyscall]
    BY <1>1
  <2>3. \A i, j \in upTo(k) : f[i] = f[j] => i = j
    BY <1>1, <1>5 DEF GroupsOnce, IsInjective
  <2>4. f \in Injection(upTo(k), Group \ NoSyscall)
    BY <2>2, <2>3 DEF Injection, IsInjective
  <2> HIDE DEF f, upTo
  <2>5. Cardinality(upTo(k)) <= Cardinality(Group \ NoSyscall)
    BY <2>1, <2>4, FS_Injection
  <2> QED
    BY <2>5 DEF NumberOf, upTo
<1> QED
  BY <1>3, <1>4, <1>5

-----------------------------------------------------------------------------
(* The engine in the agent: RP is R with the theorems about it.            *)
RP == INSTANCE RuleEngineProofs WITH
  Event <- SysEvent, Matches <- [e \in SysEvent |-> Detects[e.group]],
  InCap <- OutCap, eventStream <- outputChan, streamClosed <- closed,
  arrived <- forwarded, event <- judged

(* The engine's constants in the agent are of the types it assumes. *)
LEMMA EngineAssumption == R!RuleAssumption /\ RP!RuleAssumption
<1>1. ASSUME NEW e \in SysEvent PROVE Detects[e.group] \in SUBSET (1 .. NRules)
  BY DEF SysEvent
<1> QED
  BY <1>1 DEF R!RuleAssumption, R!Rule, RP!RuleAssumption, RP!Rule

(* R and RP define the same types, ... *)
LEMMA SameTypes == R!TypeOK <=> RP!TypeOK
BY DEF R!TypeOK, RP!TypeOK, R!AlertOf, RP!AlertOf, R!Rule, RP!Rule

(* ... the same initial states ... *)
LEMMA SameInit == R!Init => RP!Init
BY DEF R!Init, RP!Init

(* ... and the same steps, ... *)
LEMMA SameStep == [R!Next]_(R!vars) => [RP!Next]_(RP!vars)
<1> USE DEF R!vars, RP!vars, R!stream, RP!stream, R!judging, RP!judging,
            R!printer, RP!printer, R!alerts, RP!alerts
<1>1. R!Engine => RP!Engine
  BY DEF R!Engine, RP!Engine, R!Start, RP!Start, R!EngineDone, RP!EngineDone,
         R!EngineStreamClosed, RP!EngineStreamClosed, R!ReceiveEvent, RP!ReceiveEvent,
         R!PassOver, RP!PassOver, R!Judged, RP!Judged, R!NameRule, RP!NameRule,
         R!RuleNamed, RP!RuleNamed, R!SendAlert, RP!SendAlert, R!Raise, RP!Raise,
         R!NextRule, RP!NextRule, R!Alert, RP!Alert, R!Rule, RP!Rule
<1>2. R!Printer => RP!Printer
  BY DEF R!Printer, RP!Printer, R!PrinterReceive, RP!PrinterReceive,
         R!PrintAlert, RP!PrintAlert, R!PrinterEnd, RP!PrinterEnd
<1>3. R!Environment => RP!Environment
  BY DEF R!Environment, RP!Environment, R!CloseStream, RP!CloseStream,
         R!Cancel, RP!Cancel, R!SendEvent, RP!SendEvent, R!Range, RP!Range
<1> QED
  BY <1>1, <1>2, <1>3 DEF R!Next, RP!Next

(* They count alike. *)
LEMMA SameCount == \A h, items : RP!Count(h, items) = Count(h, items)
BY Zenon DEF RP!Count, Count, RP!Cardinality, Cardinality, RP!IsFiniteSet, IsFiniteSet

(* ... so that what is proved of RP's behaviours holds of R's. *)
LEMMA SameSpec == R!Spec => RP!Spec
BY SameInit, SameStep, PTL DEF R!Spec, RP!Spec

-----------------------------------------------------------------------------
(* The dispatcher and main are the environment of the engine.              *)

(* What the dispatcher sends is an event of the engine, and is new.        *)
LEMMA SentIsNew ==
  ASSUME IInv, GroupsOnce, loopPc = "send"
  PROVE  event[1] \in SysEvent /\ event[1] \notin Range(forwarded)
<1>1. /\ Received \in Wanted /\ event[1] = EventOf(Received) /\ arrived \in Seq(Group)
      /\ sequenceID = NumberOf(Received) /\ Len(event) = 1
  BY DEF IInv, CountInv, TypeOK
<1>2. event[1].ID = NumberOf(Received) /\ event[1].group = arrived[Received]
  BY <1>1 DEF EventOf
<1>3. event[1] \in SysEvent
  <2>1. NumberOf(Received) \in 1 .. Cardinality(Group \ NoSyscall)
    <3>1. IsFiniteSet(Group \ NoSyscall)
      BY FS_Subset
    <3>2. Cardinality(Group \ NoSyscall) \in Nat
      BY <3>1, FS_CardinalityType
    <3>3. /\ NumberOf(Received) \in Nat \ {0}
          /\ NumberOf(Received) <= Cardinality(Group \ NoSyscall)
      BY <1>1, NumbersOfWanted
    <3> QED
      BY <3>2, <3>3
  <2>2. arrived[Received] \in Group \ NoSyscall
    BY <1>1 DEF Wanted
  <2> QED
    BY <1>1, <2>1, <2>2 DEF SysEvent, EventOf
<1>4. event[1] \notin Range(forwarded)
  <2> SUFFICES ASSUME NEW n \in DOMAIN forwarded, forwarded[n] = event[1] PROVE FALSE
    BY DEF Range
  <2>1. n = sequenceID
    BY <1>1, <1>2 DEF IInv, EventsInOrder
  <2>2. Len(forwarded) + 1 = sequenceID
    BY <1>1 DEF IInv, EventsInOrder
  <2>3. n \in 1 .. Len(forwarded) /\ Len(forwarded) \in Nat
    BY DEF IInv, TypeOK
  <2> QED
    BY <2>1, <2>2, <2>3
<1> QED
  BY <1>3, <1>4

(* Every step of the agent is a step of the engine, of the printer or of   *)
(* their environment, or does not concern them.                            *)
LEMMA EngineStep ==
  IInv /\ GroupsOnce /\ [AgentNext]_agentVars => [R!Next]_(R!vars)
<1> SUFFICES ASSUME IInv, GroupsOnce, [AgentNext]_agentVars PROVE [R!Next]_(R!vars)
  OBVIOUS
<1> USE DEF mainVars, engineVars, R!vars, R!stream, R!judging, R!printer, R!alerts
<1>1. CASE StartEngine
  BY <1>1 DEF StartEngine, R!Next, R!Engine
<1>2. CASE CancelContext
  BY <1>2 DEF CancelContext, R!Next, R!Environment
<1>3. CASE EngineReceives
  BY <1>3 DEF EngineReceives, R!Next, R!Engine
<1>4. CASE Judges
  BY <1>4 DEF Judges, R!Next, R!Engine
<1>5. CASE Prints
  BY <1>5 DEF Prints, R!Next
<1>6. CASE Transforms
  <2> USE <1>6 DEF Transforms, input, output
  <2>1. CASE LoopDone
    <3>1. R!CloseStream
      BY <2>1 DEF LoopDone, R!CloseStream, IInv, DoneInv
    <3> QED
      BY <3>1 DEF R!Next, R!Environment
  <2>2. CASE Send /\ HasRoom
    <3>1. event[1] \in SysEvent /\ event[1] \notin Range(forwarded)
      BY <2>2, SentIsNew DEF Send
    <3>2. ~closed
      BY <2>2 DEF Send, IInv, DoneInv
    <3>3. R!SendEvent(event[1])
      BY <2>2, <3>1, <3>2 DEF Send, Forward, HasRoom, R!SendEvent, Range, R!Range
    <3> QED
      BY <3>1, <3>3 DEF R!Next, R!Environment
  <2>3. CASE Send /\ ~HasRoom
    BY <2>3 DEF Send, GiveUp
  <2>4. CASE LoopInputClosed \/ Receive
    BY <2>4 DEF LoopInputClosed, Receive
  <2> QED
    BY <2>1, <2>2, <2>3, <2>4 DEF TransformLoop
<1>7. CASE StartDispatcher \/ CollectorStopped \/ HandsOff \/ PrintError
  BY <1>7 DEF StartDispatcher, Start, CollectorStopped, CloseInput, HandsOff, Arrive,
              PrintError, TakeError, output
<1>8. CASE UNCHANGED <<vars, engineVars>>
  BY <1>8 DEF vars, output
<1> QED
  BY <1>1, <1>2, <1>3, <1>4, <1>5, <1>6, <1>7, <1>8
  DEF agentVars, AgentNext, Main, Stages, StartCollector, LoadRules, StartPrinters,
      Signal, StopCollector, StopTail, Wait, CollectorEnds, ErrorPrinterEnds

(* The engine finds in the agent the environment its own module assumes:   *)
(* each event is sent once, the stream is closed only when the context is  *)
(* done, and nothing else is done to it.                                   *)
THEOREM EnvironmentAsAssumed == AgentSpec => EngineAsSpecified
<1>1. AgentInit => R!Init
  BY DEF AgentInit
<1>2. AgentSpec => []IInv
  BY DispatcherInAgent, Invariance
<1> QED
  BY <1>1, <1>2, EngineStep, OnceInAgent, PTL DEF AgentSpec, EngineAsSpecified, R!Spec

(* So all that is proved about the engine holds in the agent.              *)
LEMMA EngineInAgent == AgentSpec => []RP!IInv
<1>1. AgentSpec => RP!Spec
  BY EnvironmentAsAssumed, SameSpec DEF EngineAsSpecified
<1> QED
  BY <1>1, EngineAssumption, RP!Invariance

-----------------------------------------------------------------------------
(* Types.                                                                  *)

(* The variables main adds keep their types.                               *)
MainTypeOK ==
  /\ mainPc \in {"startCollector", "startDispatcher", "loadRules", "startEngine",
                 "startPrinters", "signal", "cancel", "stopCollector",
                 "waitCollector", "stopTail", "wait", "returned"}
  /\ collectorPc \in {"off", "running", "stopping", "ended"}
  /\ errorPc \in {"off", "select", "done"}
  /\ announced \in Seq({"ErrBufferOverflow"})

(* main has not started anything initially. *)
LEMMA InitMainTypeOK == AgentInit => MainTypeOK
BY EmptySeq DEF AgentInit, MainTypeOK

(* Each statement of main and each step of the error printer keeps them. *)
LEMMA StepMainTypeOK == TypeOK /\ MainTypeOK /\ [AgentNext]_agentVars => MainTypeOK'
<1> SUFFICES ASSUME TypeOK, MainTypeOK, [AgentNext]_agentVars PROVE MainTypeOK'
  OBVIOUS
<1> USE DEF mainVars
<1>1. CASE Main \/ Signal
  BY <1>1 DEF Main, MainGoes, StartCollector, StartDispatcher, LoadRules, StartEngine,
              StartPrinters, Signal, CancelContext, StopCollector, CollectorStopped,
              StopTail, Wait, MainTypeOK
<1>2. CASE PrintError
  <2>1. Head(errChan) \in {"ErrBufferOverflow"}
    BY <1>2, HeadTailProperties DEF PrintError, TakeError, TypeOK
  <2>2. announced' \in Seq({"ErrBufferOverflow"})
    BY <1>2, <2>1, AppendProperties DEF PrintError, MainTypeOK
  <2> QED
    BY <1>2, <2>2 DEF PrintError, MainTypeOK
<1>3. CASE CollectorEnds \/ ErrorPrinterEnds
  BY <1>3 DEF CollectorEnds, ErrorPrinterEnds, MainTypeOK
<1>4. CASE UNCHANGED mainVars
  BY <1>4 DEF MainTypeOK
<1> QED
  BY <1>1, <1>2, <1>3, <1>4
  DEF agentVars, AgentNext, Stages, HandsOff, Transforms, EngineReceives, Judges, Prints

(* Every variable keeps its type, and no channel exceeds its capacity.     *)
THEOREM AgentTypeCorrect == AgentSpec => []AgentTypeOK
<1>1. AgentSpec => []TypeOK
  BY DispatcherInAgent, TypeCorrect
<1>2. AgentSpec => []MainTypeOK
  BY <1>1, InitMainTypeOK, StepMainTypeOK, PTL DEF AgentSpec
<1>3. RP!IInv => R!TypeOK
  BY SameTypes DEF RP!IInv
<1>4. TypeOK /\ R!TypeOK /\ MainTypeOK => AgentTypeOK
  BY DEF AgentTypeOK, MainTypeOK
<1> QED
  BY <1>1, <1>2, <1>3, <1>4, EngineInAgent, PTL

-----------------------------------------------------------------------------
(* From the hand-off to the alert.                                         *)

(* How many events the engine has received. *)
Judgeable == Len(forwarded) - Len(outputChan)

(* What is queued for the engine are the last events forwarded, and the    *)
(* one it has in hand is the one before them.                              *)
EventQueueInv ==
  /\ Judgeable \in Nat
  /\ \A i \in 1 .. Len(outputChan) : outputChan[i] = forwarded[Judgeable + i]
  /\ judged # <<>> => Judgeable >= 1 /\ judged[1] = forwarded[Judgeable]

(* Every alert is about an event received, of which it has the number.     *)
About(a) ==
  /\ a.event.ID \in 1 .. Judgeable /\ a.event = forwarded[a.event.ID]
  /\ a.rule \in Detects[a.event.group]

AlertInv ==
  /\ \A k \in DOMAIN raised : About(raised[k])
  /\ \A k \in DOMAIN dropped : About(dropped[k])
  /\ \A j, k \in DOMAIN raised : j < k => raised[j].event.ID <= raised[k].event.ID

AInv ==
  /\ IInv /\ GroupsOnce
  /\ RP!IInv
  /\ EventQueueInv /\ AlertInv

(* Nothing is queued and no alert has been raised initially. *)
LEMMA InitAlertInv == AgentInit => EventQueueInv /\ AlertInv
<1> SUFFICES ASSUME AgentInit PROVE EventQueueInv /\ AlertInv
  OBVIOUS
<1>1. /\ forwarded = <<>> /\ outputChan = <<>> /\ judged = <<>>
      /\ raised = <<>> /\ dropped = <<>>
  BY DEF AgentInit, Init, R!Init
<1>2. Judgeable = 0 /\ Len(outputChan) = 0
  BY <1>1 DEF Judgeable
<1> QED
  BY <1>1, <1>2 DEF EventQueueInv, AlertInv

(* What the invariants of the two modules say of the variables they share. *)
LEMMA SharedTypes ==
  ASSUME IInv, RP!IInv
  PROVE  /\ forwarded \in Seq(SysEvent) /\ outputChan \in Seq(SysEvent)
         /\ Len(forwarded) \in Nat /\ Len(outputChan) \in Nat
         /\ judged \in Seq(SysEvent)
         /\ Len(judged) = IF enginePc \in {"rules", "name", "send"} THEN 1 ELSE 0
         /\ raised \in Seq(RP!AlertOf) /\ dropped \in Seq(RP!AlertOf)
         /\ \A n \in 1 .. Len(forwarded) : forwarded[n].ID = n
BY DEF IInv, EventsInOrder, RP!IInv, RP!TypeOK

(* The engine receives the first of the queue; what is forwarded goes to   *)
(* its end.                                                                *)
LEMMA StepEventQueue ==
  IInv /\ RP!IInv /\ EventQueueInv /\ [AgentNext]_agentVars
    => /\ EventQueueInv'
       /\ Judgeable <= Judgeable'
       /\ \A n \in 1 .. Len(forwarded) : forwarded'[n] = forwarded[n]
<1> SUFFICES ASSUME IInv, RP!IInv, EventQueueInv, [AgentNext]_agentVars
             PROVE  /\ EventQueueInv'
                    /\ Judgeable <= Judgeable'
                    /\ \A n \in 1 .. Len(forwarded) : forwarded'[n] = forwarded[n]
  OBVIOUS
<1>1. /\ forwarded \in Seq(SysEvent) /\ outputChan \in Seq(SysEvent)
      /\ Len(forwarded) \in Nat /\ Len(outputChan) \in Nat
      /\ Judgeable \in Nat /\ Judgeable + Len(outputChan) = Len(forwarded)
  <2>1. /\ forwarded \in Seq(SysEvent) /\ outputChan \in Seq(SysEvent)
        /\ Len(forwarded) \in Nat /\ Len(outputChan) \in Nat /\ Judgeable \in Nat
    BY SharedTypes DEF EventQueueInv
  <2> QED
    BY <2>1 DEF Judgeable
<1>2. CASE EngineReceives
  <2>1. /\ outputChan # <<>> /\ outputChan' = Tail(outputChan)
        /\ forwarded' = forwarded /\ judged' = <<Head(outputChan)>>
    BY <1>2 DEF EngineReceives, TakeEvent, R!ReceiveEvent
  <2>2. /\ Len(outputChan') = Len(outputChan) - 1 /\ Len(outputChan) >= 1
        /\ \A i \in 1 .. Len(outputChan') : outputChan'[i] = outputChan[i + 1]
        /\ judged'[1] = outputChan[1]
    BY <1>1, <2>1, HeadTailProperties
  <2>3. Judgeable' = Judgeable + 1
    BY <1>1, <2>1, <2>2 DEF Judgeable
  <2>4. /\ judged'[1] = forwarded'[Judgeable']
        /\ \A i \in 1 .. Len(outputChan') : outputChan'[i] = forwarded'[Judgeable' + i]
    BY <1>1, <2>1, <2>2, <2>3 DEF EventQueueInv
  <2> QED
    BY <1>1, <2>1, <2>3, <2>4 DEF EventQueueInv
<1>3. CASE Transforms /\ Send /\ HasRoom
  <2>1. /\ outputChan' = Append(outputChan, event[1])
        /\ forwarded' = Append(forwarded, event[1])
        /\ loopPc = "send" /\ judged' = judged
    BY <1>3 DEF Transforms, Send, Forward, engineVars
  <2>2. event[1] \in Event
    <3>1. event \in Seq(Event) /\ Len(event) = 1
      BY <2>1 DEF IInv, TypeOK
    <3> QED
      BY <3>1, HandHolds
  <2>3. /\ Len(outputChan') = Len(outputChan) + 1 /\ Len(forwarded') = Len(forwarded) + 1
        /\ \A i \in 1 .. Len(outputChan) : outputChan'[i] = outputChan[i]
        /\ \A i \in 1 .. Len(forwarded) : forwarded'[i] = forwarded[i]
        /\ outputChan'[Len(outputChan) + 1] = event[1]
        /\ forwarded'[Len(forwarded) + 1] = event[1]
    BY <1>1, <2>1
  <2>4. Judgeable' = Judgeable
    BY <1>1, <2>3 DEF Judgeable
  <2>5. ASSUME NEW i \in 1 .. Len(outputChan')
        PROVE  outputChan'[i] = forwarded'[Judgeable' + i]
    <3>1. CASE i \in 1 .. Len(outputChan)
      <4>1. Judgeable + i \in 1 .. Len(forwarded)
        BY <1>1, <3>1
      <4> QED
        BY <2>3, <2>4, <3>1, <4>1 DEF EventQueueInv
    <3>2. CASE i = Len(outputChan) + 1
      <4>1. Judgeable + i = Len(forwarded) + 1
        BY <1>1, <3>2, SMTT(20)
      <4> QED
        BY <2>3, <2>4, <3>2, <4>1
    <3> QED
      BY <1>1, <2>3, <3>1, <3>2
  <2>6. judged' # <<>> => Judgeable' >= 1 /\ judged'[1] = forwarded'[Judgeable']
    <3> SUFFICES ASSUME judged # <<>> PROVE Judgeable' >= 1 /\ judged'[1] = forwarded'[Judgeable']
      BY <2>1
    <3>1. Judgeable >= 1 /\ judged[1] = forwarded[Judgeable]
      BY DEF EventQueueInv
    <3>2. Judgeable \in 1 .. Len(forwarded)
      BY <1>1, <3>1
    <3> QED
      BY <2>1, <2>3, <2>4, <3>1, <3>2
  <2> QED
    BY <1>1, <2>3, <2>4, <2>5, <2>6 DEF EventQueueInv
<1>4. ASSUME UNCHANGED <<outputChan, forwarded>>, judged' = judged \/ judged' = <<>>
      PROVE  /\ EventQueueInv'
             /\ Judgeable <= Judgeable'
             /\ \A n \in 1 .. Len(forwarded) : forwarded'[n] = forwarded[n]
  <2>1. Judgeable' = Judgeable
    BY <1>4 DEF Judgeable
  <2> QED
    BY <1>1, <1>4, <2>1 DEF EventQueueInv
<1>5. CASE Judges
  <2>1. UNCHANGED <<outputChan, forwarded>> /\ (judged' = judged \/ judged' = <<>>)
    BY <1>5 DEF Judges, vars, output, R!judging, R!EngineDone, R!EngineStreamClosed,
                R!PassOver, R!Judged, R!NameRule, R!RuleNamed, R!SendAlert, R!NextRule
  <2> QED
    BY <1>4, <2>1
<1>6. CASE Transforms /\ ~(Send /\ HasRoom)
  <2>1. UNCHANGED <<outputChan, forwarded, judged>>
    BY <1>6 DEF Transforms, engineVars, output, TransformLoop, LoopDone, LoopInputClosed,
                Receive, Send, GiveUp
  <2> QED
    BY <1>4, <2>1
<1>7. CASE Prints \/ StartEngine \/ CancelContext
  <2>1. UNCHANGED <<outputChan, forwarded, judged>>
    BY <1>7 DEF Prints, StartEngine, CancelContext, Cancel, vars, output, R!Start, R!Cancel,
                R!Printer, R!PrinterReceive, R!PrintAlert, R!PrinterEnd, R!stream, R!judging
  <2> QED
    BY <1>4, <2>1
<1>8. CASE StartDispatcher \/ CollectorStopped \/ HandsOff \/ PrintError
  <2>1. UNCHANGED <<outputChan, forwarded, judged>>
    BY <1>8 DEF StartDispatcher, Start, CollectorStopped, CloseInput, HandsOff, Arrive,
                PrintError, TakeError, output, engineVars
  <2> QED
    BY <1>4, <2>1
<1>9. CASE UNCHANGED <<vars, engineVars>>
  BY <1>4, <1>9 DEF vars, output, engineVars
<1> QED
  BY <1>2, <1>3, <1>5, <1>6, <1>7, <1>8, <1>9
  DEF agentVars, AgentNext, Main, Stages, StartCollector, LoadRules, StartPrinters,
      Signal, StopCollector, StopTail, Wait, CollectorEnds, ErrorPrinterEnds

(* An alert is about the event received last, and so comes behind those    *)
(* about the events before it.                                             *)
LEMMA StepAlerts ==
  IInv /\ RP!IInv /\ EventQueueInv /\ AlertInv /\ [AgentNext]_agentVars => AlertInv'
<1> SUFFICES ASSUME IInv, RP!IInv, EventQueueInv, AlertInv, [AgentNext]_agentVars
             PROVE  AlertInv'
  OBVIOUS
<1>1. /\ Len(forwarded) \in Nat /\ Len(outputChan) \in Nat /\ Judgeable \in Nat
      /\ Judgeable' \in Nat /\ Judgeable <= Judgeable' /\ Judgeable <= Len(forwarded)
      /\ \A n \in 1 .. Len(forwarded) : forwarded'[n] = forwarded[n]
  <2>1. /\ Len(forwarded) \in Nat /\ Len(outputChan) \in Nat /\ Judgeable \in Nat
    BY SharedTypes DEF EventQueueInv
  <2>2. Judgeable <= Len(forwarded)
    BY <2>1 DEF Judgeable
  <2> QED
    BY <2>1, <2>2, StepEventQueue DEF EventQueueInv
<1>2. ASSUME NEW a, About(a)
      PROVE  /\ a.event.ID \in 1 .. Judgeable' /\ a.event = forwarded'[a.event.ID]
             /\ a.rule \in Detects[a.event.group]
  <2>1. a.event.ID \in 1 .. Len(forwarded) /\ a.event.ID \in 1 .. Judgeable'
    BY <1>1, <1>2, SMTT(20) DEF About
  <2> QED
    BY <1>1, <1>2, <2>1 DEF About
<1>3. CASE UNCHANGED <<raised, dropped>>
  BY <1>2, <1>3 DEF AlertInv, About
<1>4. CASE Judges /\ R!SendAlert
  <2>1. /\ enginePc = "send" /\ UNCHANGED <<forwarded, outputChan>>
    BY <1>4 DEF Judges, vars, output, R!SendAlert
  <2> DEFINE a == [event |-> judged[1], rule |-> rule]
  <2>2. Len(judged) = 1 /\ judged[1] \in SysEvent /\ judged # <<>>
    <3>1. judged \in Seq(SysEvent) /\ Len(judged) = 1
      BY <2>1, SharedTypes
    <3> QED
      BY <3>1, HandHolds
  <2>3. Judgeable \in 1 .. Len(forwarded) /\ judged[1] = forwarded[Judgeable]
    BY <1>1, <2>2 DEF EventQueueInv
  <2>4. judged[1].ID = Judgeable
    BY <2>3, SharedTypes
  <2>5. rule \in Detects[judged[1].group]
    <3>1. rule \in [e \in SysEvent |-> Detects[e.group]][judged[1]]
      BY <2>1 DEF RP!IInv, RP!CountInv
    <3> QED
      BY <2>2, <3>1
  <2>6. Judgeable' = Judgeable
    BY <2>1 DEF Judgeable
  <2>7. About(a)
    BY <1>1, <2>3, <2>4, <2>5 DEF About
  <2>8. \A k \in DOMAIN raised : raised[k].event.ID <= a.event.ID
    BY <1>1, <2>4 DEF AlertInv, About
  <2>9. a \in RP!AlertOf
    <3>1. rule \in RP!Rule
      BY <2>1 DEF RP!IInv, RP!TypeOK
    <3> QED
      BY <2>2, <3>1 DEF RP!AlertOf
  <2>10. ASSUME NEW h \in Seq(RP!AlertOf)
         PROVE  /\ DOMAIN h = 1 .. Len(h) /\ Len(h) \in Nat
                /\ DOMAIN Append(h, a) = 1 .. Len(h) + 1
                /\ \A k \in 1 .. Len(h) : Append(h, a)[k] = h[k]
                /\ Append(h, a)[Len(h) + 1] = a
    <3> HIDE DEF a
    <3> QED
      BY <2>9
  <2>11. raised \in Seq(RP!AlertOf) /\ dropped \in Seq(RP!AlertOf)
    BY SharedTypes
  <2>12. CASE Len(alertChan) < AlertCap
    <3>1. raised' = Append(raised, a) /\ dropped' = dropped
      BY <1>4, <2>12 DEF R!SendAlert, R!Raise, R!Alert
    <3> HIDE DEF a
    <3>2. \A k \in DOMAIN raised' : About(raised'[k])
      BY <2>7, <2>10, <2>11, <3>1 DEF AlertInv
    <3>3. \A j, k \in DOMAIN raised' : j < k => raised'[j].event.ID <= raised'[k].event.ID
      BY <2>8, <2>10, <2>11, <3>1 DEF AlertInv
    <3> QED
      BY <1>2, <3>1, <3>2, <3>3 DEF AlertInv, About
  <2>13. CASE ~(Len(alertChan) < AlertCap)
    <3>1. raised' = raised /\ dropped' = Append(dropped, a)
      BY <1>4, <2>13 DEF R!SendAlert, R!Alert
    <3> HIDE DEF a
    <3>2. \A k \in DOMAIN dropped' : About(dropped'[k])
      BY <2>7, <2>10, <2>11, <3>1 DEF AlertInv
    <3> QED
      BY <1>2, <3>1, <3>2 DEF AlertInv, About
  <2> QED
    BY <2>12, <2>13
<1>5. CASE Judges /\ ~R!SendAlert
  <2>1. UNCHANGED <<raised, dropped>>
    BY <1>5 DEF Judges, R!alerts, R!EngineDone, R!EngineStreamClosed, R!PassOver,
                R!Judged, R!NameRule, R!RuleNamed
  <2> QED
    BY <1>3, <2>1
<1>6. CASE EngineReceives \/ Prints \/ StartEngine \/ CancelContext
  <2>1. UNCHANGED <<raised, dropped>>
    BY <1>6 DEF EngineReceives, Prints, StartEngine, CancelContext, R!alerts, R!Start,
                R!Cancel, R!ReceiveEvent, R!Printer, R!PrinterReceive, R!PrintAlert,
                R!PrinterEnd
  <2> QED
    BY <1>3, <2>1
<1>7. CASE UNCHANGED engineVars
  BY <1>3, <1>7 DEF engineVars
<1> QED
  BY <1>4, <1>5, <1>6, <1>7
  DEF agentVars, AgentNext, Main, Stages, StartCollector, StartDispatcher, LoadRules,
      StartPrinters, Signal, StopCollector, CollectorStopped, StopTail, Wait, HandsOff,
      CollectorEnds, Transforms, PrintError, ErrorPrinterEnds

(* The invariants of the stages and of their composition hold together. *)
LEMMA AgentInvariance == AgentSpec => []AInv
<1>1. AgentSpec => [](IInv /\ GroupsOnce /\ RP!IInv)
  BY DispatcherInAgent, Invariance, OnceInAgent, EngineInAgent, PTL
<1>2. IInv /\ RP!IInv /\ EventQueueInv /\ AlertInv /\ [AgentNext]_agentVars
        => (EventQueueInv /\ AlertInv)'
  BY StepEventQueue, StepAlerts
<1>3. AgentSpec => [](EventQueueInv /\ AlertInv)
  BY <1>1, <1>2, InitAlertInv, PTL DEF AgentSpec
<1> QED
  BY <1>1, <1>3, PTL DEF AInv

(* The n-th event forwarded is the one of the group with number n.         *)
LEMMA EventOfNumber ==
  ASSUME IInv, NEW k \in Wanted, NumberOf(k) \in DOMAIN forwarded
  PROVE  forwarded[NumberOf(k)] = EventOf(k)
<1>1. PICK j \in Wanted : forwarded[NumberOf(k)] = EventOf(j)
  BY DEF IInv, EventsInOrder
<1>2. NumberOf(j) = NumberOf(k)
  <2>1. forwarded[NumberOf(k)].ID = NumberOf(k)
    BY DEF IInv, EventsInOrder
  <2> QED
    BY <1>1, <2>1 DEF EventOf
<1>3. j = k
  <2>1. arrived \in Seq(Group) /\ j \in Nat /\ k \in Nat
    BY DEF IInv, TypeOK, Wanted
  <2>2. /\ j < k => NumberOf(j) < NumberOf(k)
        /\ k < j => NumberOf(k) < NumberOf(j)
        /\ NumberOf(k) \in Nat
    BY <2>1, NumbersOfWanted
  <2> QED
    BY <1>2, <2>1, <2>2
<1> QED
  BY <1>1, <1>3

(* Each group the engine is done with has had its alerts, sent or dropped, *)
(* and no others; and alerts come in the order of the groups.              *)
THEOREM AlertsAreAccounted == AgentSpec => []AlertsAccounted
<1>1. AInv => AlertsAccounted
  <2> SUFFICES ASSUME AInv PROVE AlertsAccounted
    OBVIOUS
  <2>1. /\ IInv /\ RP!IInv /\ EventQueueInv /\ AlertInv
        /\ Len(forwarded) \in Nat /\ Len(outputChan) \in Nat /\ Judgeable \in Nat
        /\ Judgeable + Len(outputChan) = Len(forwarded)
        /\ Len(judged) \in {0, 1}
    <3>1. /\ IInv /\ RP!IInv /\ EventQueueInv /\ AlertInv
      BY DEF AInv
    <3>2. Len(forwarded) \in Nat /\ Len(outputChan) \in Nat /\ Judgeable \in Nat
      BY <3>1, SharedTypes DEF EventQueueInv
    <3>3. Len(judged) \in {0, 1}
      BY <3>1, SharedTypes
    <3> QED
      BY <3>1, <3>2, <3>3 DEF Judgeable
  <2>2. ASSUME NEW k \in Wanted, NumberOf(k) <= Judgeable - Len(judged),
               NEW r \in 1 .. NRules
        PROVE  AlertsOf(NumberOf(k), r) = IF r \in Detects[arrived[k]] THEN 1 ELSE 0
    <3> DEFINE n == NumberOf(k)
               e == forwarded[n]
               about == {[event |-> e, rule |-> r]}
    <3>1. n \in 1 .. Len(forwarded) /\ n \in 1 .. Judgeable
      <4>1. n \in Nat \ {0}
        BY <2>1, NumbersOfWanted DEF IInv, TypeOK
      <4> QED
        BY <2>1, <2>2, <4>1
    <3>2. e \in SysEvent /\ e.ID = n /\ DOMAIN forwarded = 1 .. Len(forwarded)
      <4>1. /\ forwarded \in Seq(SysEvent)
            /\ \A m \in 1 .. Len(forwarded) : forwarded[m].ID = m
        BY <2>1, SharedTypes
      <4> QED
        BY <3>1, <4>1
    <3>3. e.group = arrived[k]
      <4>1. e = EventOf(k)
        BY <2>1, <3>1, <3>2, EventOfNumber
      <4> QED
        BY <4>1 DEF EventOf
    <3>4. RP!JudgedBy(e, r)
      <4>1. e \in RP!Range(forwarded)
        BY <3>1, <3>2 DEF RP!Range
      <4>2. e \notin RP!Range(outputChan)
        <5>0. DOMAIN outputChan = 1 .. Len(outputChan)
          <6>1. outputChan \in Seq(SysEvent)
            BY <2>1, SharedTypes
          <6> QED
            BY <6>1
        <5> SUFFICES ASSUME NEW i \in 1 .. Len(outputChan), outputChan[i] = e PROVE FALSE
          BY <5>0 DEF RP!Range
        <5>1. Judgeable + i \in 1 .. Len(forwarded)
          BY <2>1
        <5>2. e.ID = Judgeable + i
          BY <2>1, <5>1, SharedTypes DEF EventQueueInv
        <5> QED
          BY <2>1, <3>1, <3>2, <5>2
      <4>3. e \notin RP!Range(judged)
        <5> SUFFICES ASSUME e \in RP!Range(judged) PROVE FALSE
          OBVIOUS
        <5>1. judged \in Seq(SysEvent)
          BY <2>1, SharedTypes
        <5>2. Len(judged) = 1 /\ e = judged[1] /\ judged # <<>>
          BY <2>1, <5>1 DEF RP!Range
        <5>3. Judgeable >= 1 /\ e = forwarded[Judgeable]
          BY <2>1, <5>2 DEF EventQueueInv
        <5>4. e.ID = Judgeable
          <6>1. Judgeable \in 1 .. Len(forwarded)
            BY <2>1, <5>3
          <6> QED
            BY <2>1, <5>3, <6>1, SharedTypes
        <5> QED
          BY <2>1, <2>2, <3>2, <5>2, <5>4
      <4> QED
        BY <4>1, <4>2, <4>3 DEF RP!JudgedBy
    <3>5. RP!AlertsOf(e, r) = IF r \in Detects[arrived[k]] THEN 1 ELSE 0
      <4>1. r \in RP!Rule /\ [f \in SysEvent |-> Detects[f.group]][e] = Detects[arrived[k]]
        BY <3>2, <3>3 DEF RP!Rule
      <4> HIDE DEF e, n
      <4> QED
        BY <2>1, <3>2, <3>4, <4>1 DEF RP!IInv, RP!CountInv
    <3>6. ASSUME NEW h \in {raised, dropped}
          PROVE  {j \in DOMAIN h : h[j].event.ID = n /\ h[j].rule = r}
                 = {j \in DOMAIN h : h[j] \in about}
      <4>1. ASSUME NEW j \in DOMAIN h
            PROVE  h[j].event.ID = n /\ h[j].rule = r <=> h[j] \in about
        <5>1. h[j] \in RP!AlertOf
          BY <2>1, SharedTypes
        <5>2. h[j] = [event |-> h[j].event, rule |-> h[j].rule]
          BY <5>1 DEF RP!AlertOf
        <5>3. h[j].event = forwarded[h[j].event.ID]
          BY <2>1 DEF AlertInv, About
        <5> QED
          BY <3>2, <5>2, <5>3
      <4> QED
        BY <4>1
    <3>7. AlertsOf(n, r) = RP!AlertsOf(e, r)
      BY <3>6, SameCount DEF AlertsOf, RP!AlertsOf, Count
    <3> QED
      BY <3>5, <3>7
  <2>3. ASSUME NEW k \in DOMAIN raised
        PROVE  /\ raised[k].event.ID <= Judgeable
               /\ raised[k].rule \in Detects[raised[k].event.group]
    BY <2>1 DEF AlertInv, About
  <2> QED
    BY <2>1, <2>2, <2>3 DEF AlertsAccounted, AlertInv, Judgeable
<1> QED
  BY <1>1, AgentInvariance, PTL
=============================================================================
