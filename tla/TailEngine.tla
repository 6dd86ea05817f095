----------------------------- MODULE TailEngine -----------------------------
(***************************************************************************)
(* The first stage of the agent (collector/tail.go): one goroutine follows *)
(* the audit log through the tail library and passes each line on without  *)
(* ever waiting for the collector; Stop ends it and closes the channels.   *)
(*                                                                         *)
(* A line is its number, counted from the end of the log at the time it    *)
(* was opened.  The library offers one line at a time on its Lines channel.*)
(***************************************************************************)
EXTENDS Naturals, Sequences, FiniteSets, Functions

CONSTANTS
  NLines,   (* how many lines auditd appends to the log                     *)
  LineCap,  (* capacity of lineChan, 1000 in the code                       *)
  ErrCap    (* capacity of errChan, 10 in the code                          *)

ASSUME TailAssumption ==
  /\ NLines \in Nat
  /\ {LineCap, ErrCap} \subseteq Nat \ {0}

VARIABLES
  loopPc,        (* where runLoop is                                        *)
  ctxDone,       (* the engine's context is cancelled                       *)
  stopPc,        (* where the caller of Stop is                             *)
  offered,       (* how many lines the library has delivered                *)
  streamClosed,  (* the library has closed its Lines channel                *)
  lineChan,      (* lines for the collector                                 *)
  errChan,       (* errors for the error printer                            *)
  lost,          (* history: the lines dropped                              *)
  taken,         (* history: the lines the collector has received           *)
  reported       (* history: the errors put on errChan                      *)

channels == <<lineChan, errChan>>
library == <<offered, streamClosed>>
history == <<lost, taken, reported>>
vars == <<loopPc, ctxDone, stopPc, library, channels, history>>

Failure == {"ErrLogFileMissing", "ErrPermission"}
Error == Failure \cup {"ErrBufferOverflow"}

Init ==
  /\ loopPc = "off" /\ ctxDone = FALSE /\ stopPc = "idle"
  /\ offered = 0 /\ streamClosed = FALSE
  /\ lineChan = <<>> /\ errChan = <<>>
  /\ lost = {} /\ taken = <<>> /\ reported = <<>>

Start ==
  /\ loopPc = "off"
  /\ loopPc' = "open"
  /\ UNCHANGED <<ctxDone, stopPc, library, channels, history>>

(* The inner select on errChan: an error is dropped when it is full.       *)
Report(err) ==
  IF Len(errChan) < ErrCap
  THEN errChan' = Append(errChan, err) /\ reported' = Append(reported, err)
  ELSE UNCHANGED <<errChan, reported>>

(* tail.TailFile fails: the reason is reported and the loop never begins.  *)
OpenFails(err) ==
  /\ loopPc = "open"
  /\ loopPc' = "done"
  /\ Report(err)
  /\ UNCHANGED <<ctxDone, stopPc, library, lineChan, lost, taken>>

OpenLog ==
  /\ loopPc = "open"
  /\ loopPc' = "select"
  /\ UNCHANGED <<ctxDone, stopPc, library, channels, history>>

(* runLoop's select: the context is done, and the library is stopped; its  *)
(* Lines channel is closed; or a line is received, and passed on or, when  *)
(* lineChan is full, reported and dropped.                                 *)
LoopDone ==
  /\ loopPc = "select"
  /\ ctxDone
  /\ loopPc' = "stopping"
  /\ UNCHANGED <<ctxDone, stopPc, library, channels, history>>

LibraryStopped ==
  /\ loopPc = "stopping"
  /\ loopPc' = "done"
  /\ UNCHANGED <<ctxDone, stopPc, library, channels, history>>

StreamEnds ==
  /\ loopPc = "select"
  /\ streamClosed
  /\ loopPc' = "done"
  /\ UNCHANGED <<ctxDone, stopPc, library, channels, history>>

PassOn ==
  /\ lineChan' = Append(lineChan, offered')
  /\ UNCHANGED <<errChan, lost, reported>>

(* Faults: the send waits for room; the capacity is not looked at; a drop  *)
(* is not reported; the send receives from the library once more.          *)
ReceiveBlocks ==
  /\ loopPc = "select"
  /\ ~streamClosed /\ offered < NLines
  /\ offered' = offered + 1
  /\ IF Len(lineChan) < LineCap
     THEN PassOn /\ UNCHANGED loopPc
     ELSE loopPc' = "stuck" /\ UNCHANGED <<lineChan, errChan, lost, reported>>
  /\ UNCHANGED <<ctxDone, stopPc, streamClosed, taken>>

ReceiveBeyond ==
  /\ loopPc = "select"
  /\ ~streamClosed /\ offered < NLines
  /\ offered' = offered + 1
  /\ PassOn
  /\ UNCHANGED <<loopPc, ctxDone, stopPc, streamClosed, taken>>

ReceiveSilent ==
  /\ loopPc = "select"
  /\ ~streamClosed /\ offered < NLines
  /\ offered' = offered + 1
  /\ IF Len(lineChan) < LineCap
     THEN PassOn
     ELSE lost' = lost \cup {offered'} /\ UNCHANGED <<channels, reported>>
  /\ UNCHANGED <<loopPc, ctxDone, stopPc, streamClosed, taken>>

ReceiveTwice ==
  /\ loopPc = "select"
  /\ ~streamClosed /\ offered + 1 < NLines
  /\ offered' = offered + 2
  /\ IF Len(lineChan) < LineCap
     THEN PassOn
     ELSE /\ lost' = lost \cup {offered'}
          /\ Report("ErrBufferOverflow")
          /\ UNCHANGED lineChan
  /\ UNCHANGED <<loopPc, ctxDone, stopPc, streamClosed, taken>>

Receive ==
  /\ loopPc = "select"
  /\ ~streamClosed /\ offered < NLines
  /\ offered' = offered + 1
  /\ IF Len(lineChan) < LineCap
     THEN PassOn
     ELSE /\ lost' = lost \cup {offered'}
          /\ Report("ErrBufferOverflow")
          /\ UNCHANGED lineChan
  /\ UNCHANGED <<loopPc, ctxDone, stopPc, streamClosed, taken>>

-----------------------------------------------------------------------------
(* Stop cancels the context, waits for the loop, closes both channels.     *)
(* Fault: the loop is not waited for.                                      *)
Stop ==
  /\ stopPc = "idle"
  /\ loopPc # "off"
  /\ ctxDone' = TRUE
  /\ stopPc' = "waiting"
  /\ UNCHANGED <<loopPc, library, channels, history>>

StopCloseEarly ==
  /\ stopPc = "waiting"
  /\ stopPc' = "closed"
  /\ UNCHANGED <<loopPc, ctxDone, library, channels, history>>

StopClose ==
  /\ stopPc = "waiting"
  /\ loopPc = "done"
  /\ stopPc' = "closed"
  /\ UNCHANGED <<loopPc, ctxDone, library, channels, history>>

-----------------------------------------------------------------------------
(* The environment: the library, the collector and the error printer.      *)

CloseStream ==
  /\ loopPc = "select"
  /\ ~streamClosed
  /\ streamClosed' = TRUE
  /\ UNCHANGED <<loopPc, ctxDone, stopPc, offered, channels, history>>

TakeLine ==
  /\ lineChan # <<>>
  /\ lineChan' = Tail(lineChan)
  /\ taken' = Append(taken, Head(lineChan))
  /\ UNCHANGED <<loopPc, ctxDone, stopPc, library, errChan, lost, reported>>

TakeError ==
  /\ errChan # <<>>
  /\ errChan' = Tail(errChan)
  /\ UNCHANGED <<loopPc, ctxDone, stopPc, library, lineChan, history>>

-----------------------------------------------------------------------------
RunLoop == \/ OpenLog \/ LoopDone \/ LibraryStopped \/ StreamEnds \/ Receive
           \/ \E err \in Failure : OpenFails(err)

Environment == CloseStream \/ TakeLine \/ TakeError

Next == Start \/ RunLoop \/ Stop \/ StopClose \/ Environment

Spec == Init /\ [][Next]_vars

(* The goroutine runs when it can, its select does not pass over a ready   *)
(* case for ever, and the library's Stop returns.  Nothing is assumed of   *)
(* the collector and the error printer.                                    *)
Fairness ==
  /\ WF_vars(OpenLog \/ \E err \in Failure : OpenFails(err))
  /\ SF_vars(LoopDone) /\ WF_vars(LibraryStopped) /\ WF_vars(StreamEnds)
  /\ WF_vars(Receive) /\ WF_vars(StopClose)

FairSpec == Spec /\ Fairness

-----------------------------------------------------------------------------
(* Properties.                                                             *)

TypeOK ==
  /\ loopPc \in {"off", "open", "select", "stopping", "done"}
  /\ stopPc \in {"idle", "waiting", "closed"}
  /\ {ctxDone, streamClosed} \subseteq BOOLEAN
  /\ offered \in 0 .. NLines
  /\ lineChan \in Seq(1 .. NLines) /\ Len(lineChan) <= LineCap
  /\ errChan \in Seq(Error) /\ Len(errChan) <= ErrCap
  /\ lost \subseteq 1 .. NLines
  /\ taken \in Seq(1 .. NLines)
  /\ reported \in Seq(Error)

(* However slow the collector is, it gets the lines in the order auditd    *)
(* wrote them and none twice; a line is missing only if it was dropped.    *)
LinesInOrder ==
  LET passedOn == taken \o lineChan
  IN  /\ \A j, k \in DOMAIN passedOn : j < k => passedOn[j] < passedOn[k]
      /\ Range(passedOn) = (1 .. offered) \ lost

(* Once a line has been dropped an overflow has been reported, also when   *)
(* errChan was full at that moment; not one for each line that is dropped  *)
(* (runLoop, 118-132).                                                     *)
LossReported ==
  lost # {} => "ErrBufferOverflow" \in Range(reported)

(* Nothing is sent on the channels once Stop has closed them.              *)
NoSendAfterClose ==
  [][stopPc = "closed" => /\ Len(lineChan') <= Len(lineChan)
                          /\ Len(errChan') <= Len(errChan)]_vars

(* Stop returns also when neither the collector nor the error printer      *)
(* receives any more, as is so when main calls it.                         *)
StopReturns == (stopPc = "waiting") ~> (stopPc = "closed")

LineChannel == INSTANCE LossyChannel WITH
  Cap <- LineCap, queue <- lineChan,
  closed <- (stopPc = "closed"), lost <- Cardinality(lost)

(* To the collector the tail engine is a channel that loses a line only    *)
(* when it is full: reading, dropping and stopping do nothing else to it.  *)
ImplementsChannel == LineChannel!Spec
=============================================================================
