--------------------------- MODULE EventDispatcher ---------------------------
(***************************************************************************)
(* The third stage of the agent (dispatcher/event_dispatcher.go): the      *)
(* transform loop numbers each group of records, turns it into an event    *)
(* and passes it to the rule engine.  A group is opaque here; what matters *)
(* is if it has a SYSCALL record.                                          *)
(***************************************************************************)
EXTENDS Naturals, Sequences, FiniteSets

CONSTANTS
  Group,      (* the groups the collector can hand off                      *)
  NoSyscall,  (* the ones without a SYSCALL record                          *)
  InCap,      (* capacity of inputChan, 1000 in the code                    *)
  OutCap,     (* capacity of outputChan, 1000 in the code                   *)
  ErrCap      (* capacity of errChan, 50 in the code                        *)

ASSUME DispatcherAssumption ==
  /\ NoSyscall \subseteq Group
  /\ {InCap, OutCap, ErrCap} \subseteq Nat \ {0}

VARIABLES
  inputChan,    (* groups handed off, not yet received                      *)
  inputClosed,  (* the collector has closed inputChan                       *)
  ctxDone,      (* main has cancelled the context                           *)
  loopPc,       (* where runTransformLoop is                                *)
  sequenceID,   (* the number of the last event                             *)
  event,        (* the event in hand: none or one                           *)
  outputChan,   (* events for the rule engine                               *)
  errChan,      (* errors for the error printer                             *)
  closed,       (* outputChan and errChan are closed                        *)
  arrived,      (* history: the groups put on inputChan                     *)
  forwarded     (* history: the events put on outputChan                    *)

input == <<inputChan, inputClosed, arrived>>
output == <<outputChan, forwarded>>
vars == <<input, ctxDone, loopPc, sequenceID, event, output, errChan, closed>>

Event == [ID : Nat \ {0}, group : Group \ NoSyscall]

Init ==
  /\ inputChan = <<>> /\ inputClosed = FALSE /\ arrived = <<>>
  /\ ctxDone = FALSE
  /\ loopPc = "off"
  /\ sequenceID = 0
  /\ event = <<>>
  /\ outputChan = <<>> /\ forwarded = <<>>
  /\ errChan = <<>>
  /\ closed = FALSE

Start ==
  /\ loopPc = "off"
  /\ loopPc' = "select"
  /\ UNCHANGED <<input, ctxDone, sequenceID, event, output, errChan, closed>>

(* The loop's select, first case: the channels are closed on the way out.  *)
(* Fault: the loop does not return.                                        *)
LoopDoneStays ==
  /\ loopPc = "select"
  /\ ctxDone
  /\ closed' = TRUE
  /\ UNCHANGED <<input, ctxDone, loopPc, sequenceID, event, output, errChan>>

LoopDone ==
  /\ loopPc = "select"
  /\ ctxDone
  /\ closed' = TRUE
  /\ loopPc' = "done"
  /\ UNCHANGED <<input, ctxDone, sequenceID, event, output, errChan>>

(* Second case, !ok: inputChan is closed and drained; the channels are     *)
(* left open.                                                              *)
LoopInputClosed ==
  /\ loopPc = "select"
  /\ inputClosed
  /\ inputChan = <<>>
  /\ loopPc' = "done"
  /\ UNCHANGED <<input, ctxDone, sequenceID, event, output, errChan, closed>>

(* Second case: a group without a SYSCALL record is skipped, any other is  *)
(* numbered and becomes an event.  Fault: a skipped group uses up a number.*)
ReceiveCountsAll ==
  /\ loopPc = "select"
  /\ inputChan # <<>>
  /\ inputChan' = Tail(inputChan)
  /\ sequenceID' = sequenceID + 1
  /\ IF Head(inputChan) \in NoSyscall
     THEN UNCHANGED <<event, loopPc>>
     ELSE /\ event' = <<[ID |-> sequenceID', group |-> Head(inputChan)]>>
          /\ loopPc' = "send"
  /\ UNCHANGED <<inputClosed, arrived, ctxDone, output, errChan, closed>>

Receive ==
  /\ loopPc = "select"
  /\ inputChan # <<>>
  /\ inputChan' = Tail(inputChan)
  /\ IF Head(inputChan) \in NoSyscall
     THEN UNCHANGED <<sequenceID, event, loopPc>>
     ELSE /\ sequenceID' = sequenceID + 1
          /\ event' = <<[ID |-> sequenceID', group |-> Head(inputChan)]>>
          /\ loopPc' = "send"
  /\ UNCHANGED <<inputClosed, arrived, ctxDone, output, errChan, closed>>

(* The event goes to outputChan.  When that is full the event is reported  *)
(* and lost, and the loop returns.  Faults: one event too many; nothing is *)
(* reported; the channels are closed, as on cancellation.                  *)
RoomForOneMore == Len(outputChan) <= OutCap
HasRoom == Len(outputChan) < OutCap

Forward ==
  /\ outputChan' = Append(outputChan, event[1])
  /\ forwarded' = Append(forwarded, event[1])
  /\ loopPc' = "select"
  /\ UNCHANGED <<errChan, closed>>

ReportNothing == UNCHANGED errChan
ReportOverflow ==
  errChan' = IF Len(errChan) < ErrCap THEN Append(errChan, "ErrBufferOverflow")
                                      ELSE errChan

GiveUpClosing == ReportOverflow /\ loopPc' = "done" /\ closed' = TRUE /\ UNCHANGED output
GiveUp == ReportOverflow /\ loopPc' = "done" /\ UNCHANGED <<closed, output>>

Send ==
  /\ loopPc = "send"
  /\ IF HasRoom THEN Forward ELSE GiveUp
  /\ event' = <<>>
  /\ UNCHANGED <<input, ctxDone, sequenceID>>

-----------------------------------------------------------------------------
(* The environment: the collector, main, the rule engine and the error     *)
(* printer.                                                                *)

Arrive(g) ==
  /\ ~inputClosed
  /\ Len(inputChan) < InCap
  /\ \A k \in DOMAIN arrived : arrived[k] # g
  /\ inputChan' = Append(inputChan, g)
  /\ arrived' = Append(arrived, g)
  /\ UNCHANGED <<inputClosed, ctxDone, loopPc, sequenceID, event, output,
                 errChan, closed>>

CloseInput ==
  /\ ~inputClosed
  /\ inputClosed' = TRUE
  /\ UNCHANGED <<inputChan, arrived, ctxDone, loopPc, sequenceID, event, output,
                 errChan, closed>>

Cancel ==
  /\ ~ctxDone
  /\ ctxDone' = TRUE
  /\ UNCHANGED <<input, loopPc, sequenceID, event, output, errChan, closed>>

TakeEvent ==
  /\ outputChan # <<>>
  /\ outputChan' = Tail(outputChan)
  /\ UNCHANGED <<input, ctxDone, loopPc, sequenceID, event, forwarded, errChan,
                 closed>>

TakeError ==
  /\ errChan # <<>>
  /\ errChan' = Tail(errChan)
  /\ UNCHANGED <<input, ctxDone, loopPc, sequenceID, event, output, closed>>

-----------------------------------------------------------------------------
TransformLoop == LoopDone \/ LoopInputClosed \/ Receive \/ Send

Environment == \/ \E g \in Group : Arrive(g)
               \/ CloseInput \/ Cancel \/ TakeEvent \/ TakeError

Next == Start \/ TransformLoop \/ Environment

Spec == Init /\ [][Next]_vars

-----------------------------------------------------------------------------
(* Properties.                                                             *)

TypeOK ==
  /\ inputChan \in Seq(Group) /\ Len(inputChan) <= InCap
  /\ arrived \in Seq(Group)
  /\ loopPc \in {"off", "select", "send", "done"}
  /\ sequenceID \in Nat
  /\ event \in Seq(Event) /\ Len(event) = IF loopPc = "send" THEN 1 ELSE 0
  /\ outputChan \in Seq(Event) /\ Len(outputChan) <= OutCap
  /\ forwarded \in Seq(Event)
  /\ errChan \in Seq({"ErrBufferOverflow"}) /\ Len(errChan) <= ErrCap
  /\ {inputClosed, ctxDone, closed} \subseteq BOOLEAN

(* The positions of the groups that are to become events, and the event of *)
(* each: its number counts these groups, in the order of their arrival.    *)
Wanted == {k \in DOMAIN arrived : arrived[k] \notin NoSyscall}
NumberOf(k) == Cardinality({j \in 1 .. k : arrived[j] \notin NoSyscall})
EventOf(k) == [ID |-> NumberOf(k), group |-> arrived[k]]

(* The rule engine is given the events without a gap: the n-th one is the  *)
(* n-th group with a SYSCALL record and has the number n, however far the  *)
(* loop lags behind the collector; an event is only ever lost as the last  *)
(* one, by the overflow that ends the loop (runTransformLoop).             *)
EventsInOrder ==
  /\ \A n \in DOMAIN forwarded :
       /\ forwarded[n].ID = n
       /\ \E k \in Wanted : forwarded[n] = EventOf(k)
  /\ loopPc # "done" => Len(forwarded) + Len(event) = sequenceID

(* The loop keeps watching its input, as the comment above runTransformLoop*)
(* has it (event_dispatcher.go:50-51): it ends only when it is cancelled or*)
(* its input is closed.                                                    *)
KeepsWatching == loopPc = "done" => ctxDone \/ inputClosed

EventChannel == INSTANCE LossyChannel WITH
  Cap <- OutCap, queue <- outputChan, closed <- closed,
  lost <- sequenceID - Len(forwarded) - Len(event)

(* To the rule engine the dispatcher is a channel that loses an event only *)
(* when it is full, and on which nothing is sent once it is closed.        *)
ImplementsChannel == EventChannel!Spec
=============================================================================
