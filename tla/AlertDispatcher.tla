--------------------------- MODULE AlertDispatcher ---------------------------
(***************************************************************************)
(* The fan-out of alerts (dispatcher/alert_dispatcher.go), which main does *)
(* not start yet: each alert is copied twice, once for the response stage  *)
(* and once for the storage stage.                                         *)
(*                                                                         *)
(* What the channels carry are pointers, so the objects they point to are  *)
(* modelled: the events the rule engine sends, each maybe several times,   *)
(* and the copies of the k-th alert received.  Of the content of an object *)
(* only the writes of the consumers are kept (that the engine itself still *)
(* writes to an event it has sent is shown in RuleEngine).  errChan is     *)
(* left out: nothing is ever put on it.                                    *)
(***************************************************************************)
EXTENDS Naturals, Sequences, FiniteSets

CONSTANTS
  Event,        (* the event objects of the rule engine                     *)
  NAlerts,      (* how many alerts the engine sends                         *)
  InCap,        (* capacity of inputChan, 1000 in the code                  *)
  ResponseCap,  (* capacity of responseOut, 500 in the code                 *)
  StorageCap    (* capacity of storageOut, 1000 in the code                 *)

ASSUME AlertAssumption ==
  /\ NAlerts \in Nat
  /\ {InCap, ResponseCap, StorageCap} \subseteq Nat \ {0}

Original(e) == [of |-> "engine", event |-> e]
Copy(side, k) == [of |-> side, alert |-> k]

Side == {"response", "storage"}
Object == {Original(e) : e \in Event} \cup {Copy(s, k) : s \in Side, k \in 1 .. NAlerts}

VARIABLES
  inputChan,    (* alerts sent by the engine, not yet received              *)
  inputClosed,  (* the engine has closed inputChan                          *)
  ctxDone,      (* the context is cancelled                                 *)
  loopPc,       (* where Start's loop is                                    *)
  alert,        (* the alert in hand: none or one                           *)
  received,     (* how many alerts have been received                       *)
  out,          (* responseOut and storageOut                               *)
  closed,       (* both are closed                                          *)
  memory,       (* who has changed the content of each object               *)
  sent,         (* how many alerts the engine has sent                      *)
  dropped,      (* history: how many copies were lost, on each side         *)
  held          (* history: the objects each consumer has been given        *)

input == <<inputChan, inputClosed>>
loop == <<loopPc, alert, received>>
vars == <<input, ctxDone, loop, out, closed, memory, sent, dropped, held>>

Init ==
  /\ inputChan = <<>> /\ inputClosed = FALSE /\ ctxDone = FALSE
  /\ loopPc = "select" /\ alert = <<>> /\ received = 0
  /\ out = [s \in Side |-> <<>>] /\ closed = FALSE
  /\ memory = [o \in Object |-> {}]
  /\ sent = 0
  /\ dropped = [s \in Side |-> 0] /\ held = [s \in Side |-> {}]

-----------------------------------------------------------------------------
(* Start's loop: the context is done, the input is closed and drained, or  *)
(* an alert is received.  Fault: the loop does not return.                 *)
LoopDoneStays ==
  /\ loopPc = "select"
  /\ ctxDone
  /\ closed' = TRUE
  /\ UNCHANGED <<input, ctxDone, loop, out, memory, sent, dropped, held>>

LoopDone ==
  /\ loopPc = "select"
  /\ ctxDone
  /\ closed' = TRUE
  /\ loopPc' = "done"
  /\ UNCHANGED <<input, ctxDone, alert, received, out, memory, sent, dropped, held>>

(* The outputs are left open. *)
LoopInputClosed ==
  /\ loopPc = "select"
  /\ inputClosed
  /\ inputChan = <<>>
  /\ loopPc' = "done"
  /\ UNCHANGED <<input, ctxDone, alert, received, out, closed, memory, sent,
                 dropped, held>>

Receive ==
  /\ loopPc = "select"
  /\ inputChan # <<>>
  /\ alert' = <<Head(inputChan)>>
  /\ inputChan' = Tail(inputChan)
  /\ received' = received + 1
  /\ loopPc' = "copyResponse"
  /\ UNCHANGED <<inputClosed, ctxDone, out, closed, memory, sent, dropped, held>>

(* *alert, as it is at that moment. *)
CopyAlert(side, from, to) ==
  /\ loopPc = from
  /\ memory' = [memory EXCEPT ![Copy(side, received)] = memory[Original(alert[1])]]
  /\ loopPc' = to
  /\ UNCHANGED <<input, ctxDone, alert, received, out, closed, sent, dropped, held>>

CopyResponse == CopyAlert("response", "copyResponse", "copyStorage")
CopyStorage == CopyAlert("storage", "copyStorage", "sendResponse")

(* Each copy is sent, or lost when its channel is full.  Faults: the alert *)
(* itself is sent; a full channel ends the fan-out; the loop waits.        *)
SentOriginal(side) == Original(alert[1])
SentCopy(side) == Copy(side, received)

HasRoom(side, cap) == Len(out[side]) < cap

AfterFullSkip(side, to) == "select"
AfterFull(side, to) == to

LoseWaits(side, to) == loopPc' = loopPc /\ UNCHANGED dropped
Lose(side, to) ==
  /\ dropped' = [dropped EXCEPT ![side] = @ + 1]
  /\ loopPc' = AfterFull(side, to)

SendCopy(side, cap, from, to) ==
  /\ loopPc = from
  /\ IF HasRoom(side, cap)
     THEN /\ out' = [out EXCEPT ![side] = Append(@, SentCopy(side))]
          /\ loopPc' = to
          /\ UNCHANGED dropped
     ELSE Lose(side, to) /\ UNCHANGED out
  /\ UNCHANGED <<input, ctxDone, alert, received, closed, memory, sent, held>>

SendResponse == SendCopy("response", ResponseCap, "sendResponse", "sendStorage")
SendStorage == SendCopy("storage", StorageCap, "sendStorage", "select")

-----------------------------------------------------------------------------
(* The environment.  The engine may send an event again: once for each rule*)
(* it breaks.                                                              *)
SendAlert(e) ==
  /\ ~inputClosed
  /\ sent < NAlerts
  /\ Len(inputChan) < InCap
  /\ inputChan' = Append(inputChan, e)
  /\ sent' = sent + 1
  /\ UNCHANGED <<inputClosed, ctxDone, loop, out, closed, memory, dropped, held>>

CloseInput ==
  /\ ~inputClosed
  /\ inputClosed' = TRUE
  /\ UNCHANGED <<inputChan, ctxDone, loop, out, closed, memory, sent, dropped, held>>

Cancel ==
  /\ ~ctxDone
  /\ ctxDone' = TRUE
  /\ UNCHANGED <<input, loop, out, closed, memory, sent, dropped, held>>

(* A consumer receives an object, and may write to what it holds. *)
Consume(side) ==
  /\ out[side] # <<>>
  /\ held' = [held EXCEPT ![side] = @ \cup {Head(out[side])}]
  /\ out' = [out EXCEPT ![side] = Tail(@)]
  /\ UNCHANGED <<input, ctxDone, loop, closed, memory, sent, dropped>>

Change(side) ==
  /\ \E o \in held[side] : memory' = [memory EXCEPT ![o] = @ \cup {side}]
  /\ UNCHANGED <<input, ctxDone, loop, out, closed, sent, dropped, held>>

-----------------------------------------------------------------------------
Loop == \/ LoopDone \/ LoopInputClosed \/ Receive \/ CopyResponse \/ CopyStorage
        \/ SendResponse \/ SendStorage

Environment == \/ \E e \in Event : SendAlert(e)
               \/ CloseInput \/ Cancel
               \/ \E s \in Side : Consume(s) \/ Change(s)

Next == Loop \/ Environment

(* The loop runs when it can; nothing is assumed of anybody else. *)
Spec == Init /\ [][Next]_vars /\ WF_vars(Loop)

-----------------------------------------------------------------------------
(* Properties.                                                             *)

(* What one side does to the alerts it is given, however late, is seen by  *)
(* nobody else: neither by the other side nor in the engine's events, which*)
(* may be sent again (the copies of Start's loop, alert_dispatcher.go:61). *)
CopiesIsolated ==
  \A o \in Object, s \in Side : s \in memory[o] => o.of = s

(* Between two alerts each side has been sent, or has lost, its own copy of*)
(* every alert received: a slow side never costs the other an alert, and an*)
(* event alerted twice reaches each side twice (the two selects of Start's *)
(* loop).                                                                  *)
Handed(side) ==
  held[side] \cup {out[side][k] : k \in DOMAIN out[side]}

FanOutComplete ==
  loopPc \in {"select", "done"} =>
    \A s \in Side : Cardinality(Handed(s)) + dropped[s] = received

ResponseOut == INSTANCE LossyChannel WITH
  Cap <- ResponseCap, queue <- out["response"], closed <- closed,
  lost <- dropped["response"]

StorageOut == INSTANCE LossyChannel WITH
  Cap <- StorageCap, queue <- out["storage"], closed <- closed,
  lost <- dropped["storage"]

(* Either side is served by a channel of its own that loses an alert only  *)
(* when it is full itself, and on which nothing is sent once it is closed. *)
ImplementsChannels == ResponseOut!Spec /\ StorageOut!Spec

(* Start returns once the context is done, although neither side may ever  *)
(* take an alert again.                                                    *)
CancelEnds == ctxDone ~> loopPc = "done"
=============================================================================
