----------------------------- MODULE RuleEngine -----------------------------
(***************************************************************************)
(* The fourth stage of the agent (rule/engine.go) and the goroutine of     *)
(* main that prints its alerts (cmd/agent/main.go).  The engine judges     *)
(* each event by every rule, in the order the rules were loaded; for each  *)
(* match it writes the rule's name into the event and sends the event, not *)
(* a copy, to alertChan.  The printer holds the same event and reads the   *)
(* name in its own time, with no lock.                                     *)
(*                                                                         *)
(* auditKey is that field, one per event object, as the set of the names   *)
(* it is made of: {0} for the key the dispatcher left in it, {r} for the   *)
(* name of rule r, and two of these while the engine writes the new name   *)
(* over the old, when a reader may see a mixture of the two.               *)
(***************************************************************************)
EXTENDS Naturals, Sequences, FiniteSets, Functions

CONSTANTS
  Event,     (* the events the dispatcher sends                             *)
  NRules,    (* how many rules are loaded                                   *)
  Matches,   (* for each event the rules it matches                         *)
  InCap,     (* capacity of eventStream, 1000 in the code                   *)
  AlertCap   (* capacity of alertChan, 1000 in the code                     *)

Rule == 1 .. NRules

ASSUME RuleAssumption ==
  /\ NRules \in Nat
  /\ Matches \in [Event -> SUBSET Rule]
  /\ {InCap, AlertCap} \subseteq Nat \ {0}

VARIABLES
  eventStream,   (* events sent by the dispatcher, not yet received         *)
  streamClosed,  (* the dispatcher has closed eventStream                   *)
  ctxDone,       (* main has cancelled the context                          *)
  enginePc,      (* where runMatchingLoop and evaluateEvent are             *)
  event,         (* the event being judged: none or one                     *)
  rule,          (* the rule it is judged by next                           *)
  auditKey,      (* the AuditKey field of each event                        *)
  alertChan,     (* the alerts not yet received                             *)
  alertClosed,   (* alertChan is closed                                     *)
  printerPc,     (* where the printer is                                    *)
  alert,         (* the alert it prints: none or one                        *)
  arrived,       (* history: the events sent by the dispatcher              *)
  raised,        (* history: the alerts sent, with the rule that matched    *)
  dropped,       (* history: the ones lost because alertChan was full       *)
  printed        (* history: the alerts printed, with the name read         *)

stream == <<eventStream, streamClosed, arrived>>
judging == <<event, rule>>
printer == <<printerPc, alert, printed>>
alerts == <<alertChan, alertClosed, raised, dropped>>
vars == <<stream, ctxDone, enginePc, judging, auditKey, printer, alerts>>

Init ==
  /\ eventStream = <<>> /\ streamClosed = FALSE /\ arrived = <<>>
  /\ ctxDone = FALSE
  /\ enginePc = "off"
  /\ event = <<>> /\ rule = 1
  /\ auditKey = [e \in Event |-> {0}]
  /\ alertChan = <<>> /\ alertClosed = FALSE /\ raised = <<>> /\ dropped = <<>>
  /\ printerPc = "receive" /\ alert = <<>> /\ printed = <<>>

Start ==
  /\ enginePc = "off"
  /\ enginePc' = "select"
  /\ UNCHANGED <<stream, ctxDone, judging, auditKey, printer, alerts>>

-----------------------------------------------------------------------------
(* runMatchingLoop's select: the context is done, the stream is closed and *)
(* drained, or an event is received.                                       *)

EngineDone ==
  /\ enginePc = "select"
  /\ ctxDone
  /\ alertClosed' = TRUE
  /\ enginePc' = "done"
  /\ UNCHANGED <<stream, ctxDone, judging, auditKey, printer, alertChan, raised,
                 dropped>>

(* alertChan is left open. *)
EngineStreamClosed ==
  /\ enginePc = "select"
  /\ streamClosed
  /\ eventStream = <<>>
  /\ enginePc' = "done"
  /\ UNCHANGED <<stream, ctxDone, judging, auditKey, printer, alerts>>

ReceiveEvent ==
  /\ enginePc = "select"
  /\ eventStream # <<>>
  /\ event' = <<Head(eventStream)>>
  /\ rule' = 1
  /\ eventStream' = Tail(eventStream)
  /\ enginePc' = "rules"
  /\ UNCHANGED <<streamClosed, arrived, ctxDone, auditKey, printer, alerts>>

(* evaluateEvent: the rules the event does not match are passed over.      *)
PassOver ==
  /\ enginePc = "rules"
  /\ rule \in Rule \ Matches[event[1]]
  /\ rule' = rule + 1
  /\ UNCHANGED <<stream, ctxDone, enginePc, event, auditKey, printer, alerts>>

Judged ==
  /\ enginePc = "rules"
  /\ rule > NRules
  /\ event' = <<>>
  /\ enginePc' = "select"
  /\ UNCHANGED <<stream, ctxDone, rule, auditKey, printer, alerts>>

(* A match: the rule's name is written over event.AuditKey, which is not   *)
(* atomic.  Fault: the name is left as it is.                              *)
NameKept ==
  /\ enginePc = "rules"
  /\ rule \in Matches[event[1]]
  /\ enginePc' = "send"
  /\ UNCHANGED <<stream, ctxDone, judging, auditKey, printer, alerts>>

NameRule ==
  /\ enginePc = "rules"
  /\ rule \in Matches[event[1]]
  /\ auditKey' = [auditKey EXCEPT ![event[1]] = @ \cup {rule}]
  /\ enginePc' = "name"
  /\ UNCHANGED <<stream, ctxDone, judging, printer, alerts>>

RuleNamed ==
  /\ enginePc = "name"
  /\ auditKey' = [auditKey EXCEPT ![event[1]] = {rule}]
  /\ enginePc' = "send"
  /\ UNCHANGED <<stream, ctxDone, judging, printer, alerts>>

(* The event goes to alertChan, or is dropped when that is full.           *)
Alert == [event |-> event[1], rule |-> rule]

Raise ==
  /\ alertChan' = Append(alertChan, event[1])
  /\ raised' = Append(raised, Alert)
  /\ UNCHANGED dropped

NextRule ==
  /\ rule' = rule + 1
  /\ enginePc' = "rules"
  /\ UNCHANGED <<stream, ctxDone, event, auditKey, printer, alertClosed>>

(* Faults: the capacity is not looked at; a full alertChan ends the judging*)
(* of the event.                                                           *)
SendBeyond ==
  /\ enginePc = "send"
  /\ Raise
  /\ NextRule

SendOrLeave ==
  /\ enginePc = "send"
  /\ IF Len(alertChan) < AlertCap
     THEN Raise /\ NextRule
     ELSE /\ dropped' = Append(dropped, Alert)
          /\ event' = <<>>
          /\ enginePc' = "select"
          /\ UNCHANGED <<rule, alertChan, raised, stream, ctxDone, auditKey,
                         printer, alertClosed>>

SendAlert ==
  /\ enginePc = "send"
  /\ IF Len(alertChan) < AlertCap
     THEN Raise
     ELSE /\ dropped' = Append(dropped, Alert)
          /\ UNCHANGED <<alertChan, raised>>
  /\ NextRule

-----------------------------------------------------------------------------
(* The printer: it ranges over alertChan until that is closed and drained. *)

PrinterReceive ==
  /\ printerPc = "receive"
  /\ alertChan # <<>>
  /\ alert' = <<Head(alertChan)>>
  /\ alertChan' = Tail(alertChan)
  /\ printerPc' = "print"
  /\ UNCHANGED <<stream, ctxDone, enginePc, judging, auditKey, printed,
                 alertClosed, raised, dropped>>

PrintAlert ==
  /\ printerPc = "print"
  /\ printed' = Append(printed, [event |-> alert[1], name |-> auditKey[alert[1]]])
  /\ alert' = <<>>
  /\ printerPc' = "receive"
  /\ UNCHANGED <<stream, ctxDone, enginePc, judging, auditKey, alerts>>

PrinterEnd ==
  /\ printerPc = "receive"
  /\ alertClosed
  /\ alertChan = <<>>
  /\ printerPc' = "done"
  /\ UNCHANGED <<stream, ctxDone, enginePc, judging, auditKey, alert, printed,
                 alerts>>

-----------------------------------------------------------------------------
(* The environment: main cancels the context, and the dispatcher sends     *)
(* each event once and closes the stream when it finds the context done.   *)

SendEvent(e) ==
  /\ ~streamClosed
  /\ Len(eventStream) < InCap
  /\ e \notin Range(arrived)
  /\ eventStream' = Append(eventStream, e)
  /\ arrived' = Append(arrived, e)
  /\ UNCHANGED <<streamClosed, ctxDone, enginePc, judging, auditKey, printer,
                 alerts>>

CloseStream ==
  /\ ctxDone
  /\ ~streamClosed
  /\ streamClosed' = TRUE
  /\ UNCHANGED <<eventStream, arrived, ctxDone, enginePc, judging, auditKey,
                 printer, alerts>>

Cancel ==
  /\ ~ctxDone
  /\ ctxDone' = TRUE
  /\ UNCHANGED <<stream, enginePc, judging, auditKey, printer, alerts>>

-----------------------------------------------------------------------------
Engine == \/ Start \/ EngineDone \/ EngineStreamClosed \/ ReceiveEvent
          \/ PassOver \/ Judged \/ NameRule \/ RuleNamed \/ SendAlert

Printer == PrinterReceive \/ PrintAlert \/ PrinterEnd

Environment == CloseStream \/ Cancel \/ \E e \in Event : SendEvent(e)

Next == Engine \/ Printer \/ Environment

Spec == Init /\ [][Next]_vars

-----------------------------------------------------------------------------
(* Properties.                                                             *)

AlertOf == [event : Event, rule : Rule]

TypeOK ==
  /\ eventStream \in Seq(Event) /\ Len(eventStream) <= InCap
  /\ arrived \in Seq(Event)
  /\ enginePc \in {"off", "select", "rules", "name", "send", "done"}
  /\ event \in Seq(Event)
  /\ Len(event) = IF enginePc \in {"rules", "name", "send"} THEN 1 ELSE 0
  /\ rule \in 1 .. NRules + 1
  /\ enginePc \in {"name", "send"} => rule \in Rule
  /\ auditKey \in [Event -> SUBSET (0 .. NRules)]
  /\ alertChan \in Seq(Event) /\ Len(alertChan) <= AlertCap
  /\ {raised, dropped} \subseteq Seq(AlertOf)
  /\ printerPc \in {"receive", "print", "done"}
  /\ alert \in Seq(Event)
  /\ Len(alert) = IF printerPc = "print" THEN 1 ELSE 0
  /\ printed \in Seq([event : Event, name : SUBSET (0 .. NRules)])
  /\ {streamClosed, ctxDone, alertClosed} \subseteq BOOLEAN

(* Every event the engine is done with has been judged by every rule, not  *)
(* only up to its first match, its first failed rule or its first alert    *)
(* that was dropped: each rule it matches has raised an alert or has been  *)
(* counted as dropped, exactly once, and no other rule has (evaluateEvent).*)
EventsFullyJudged ==
  \A e \in Range(arrived) \ (Range(eventStream) \cup Range(event)) :
    \A r \in Rule :
      Cardinality({k \in DOMAIN raised : raised[k] = [event |-> e, rule |-> r]})
      + Cardinality({k \in DOMAIN dropped : dropped[k] = [event |-> e, rule |-> r]})
      = IF r \in Matches[e] THEN 1 ELSE 0

(* What the printer reads as the rule of an alert is never the key the     *)
(* dispatcher left in the event nor a rule the event does not match, and   *)
(* no mixture when the event matches one rule only: then nothing is        *)
(* written to an event that has been sent (evaluateEvent).                 *)
PrintedRuleMatches ==
  \A k \in DOMAIN printed :
    printed[k].name # {} /\ printed[k].name \subseteq Matches[printed[k].event]

(* An alert shows the rule that raised it: AuditKey is the rule that was   *)
(* detected, as model/event.go:24 has it.                                  *)
AlertsNameTheirRule ==
  \A k \in DOMAIN printed : printed[k].name = {raised[k].rule}

AlertChannel == INSTANCE LossyChannel WITH
  Cap <- AlertCap, queue <- alertChan, closed <- alertClosed,
  lost <- Len(dropped)

(* To its consumer the engine is a channel that loses an alert only when   *)
(* it is full, and on which nothing is sent once it is closed.             *)
ImplementsChannel == AlertChannel!Spec
=============================================================================
