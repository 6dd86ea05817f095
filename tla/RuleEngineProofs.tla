-------------------------- MODULE RuleEngineProofs --------------------------
(***************************************************************************)
(* Theorems about the rule engine and the alert printer: their type        *)
(* invariant, that every event is judged by every rule, that the printed   *)
(* name is one of a rule the event matches, and that the engine implements *)
(* LossyChannel; for all events, any number of rules and every capacity of *)
(* the two channels.                                                       *)
(***************************************************************************)
EXTENDS RuleEngine, ChannelTheorems

USE RuleAssumption

-----------------------------------------------------------------------------
(* Types.                                                                  *)

(* The types of the initial state. *)
LEMMA InitTypeOK == Init => TypeOK
<1> SUFFICES ASSUME Init PROVE TypeOK
  OBVIOUS
<1>1. /\ eventStream \in Seq(Event) /\ Len(eventStream) <= InCap
      /\ arrived \in Seq(Event) /\ event \in Seq(Event)
      /\ alertChan \in Seq(Event) /\ Len(alertChan) <= AlertCap
      /\ raised \in Seq(AlertOf) /\ dropped \in Seq(AlertOf)
      /\ alert \in Seq(Event)
      /\ printed \in Seq([event : Event, name : SUBSET (0 .. NRules)])
  BY EmptySeq DEF Init
<1>2. /\ enginePc \in {"off", "select", "rules", "name", "send", "done"}
      /\ Len(event) = IF enginePc \in {"rules", "name", "send"} THEN 1 ELSE 0
      /\ enginePc \in {"name", "send"} => rule \in Rule
      /\ printerPc \in {"receive", "print", "done"}
      /\ Len(alert) = IF printerPc = "print" THEN 1 ELSE 0
      /\ {streamClosed, ctxDone, alertClosed} \subseteq BOOLEAN
  BY DEF Init
<1>3. rule \in 1 .. NRules + 1 /\ auditKey \in [Event -> SUBSET (0 .. NRules)]
  BY DEF Init
<1> QED
  BY <1>1, <1>2, <1>3 DEF TypeOK

(* The event that is being judged.                                         *)
LEMMA EventInHand ==
  ASSUME TypeOK, enginePc \in {"rules", "name", "send"}
  PROVE  /\ event[1] \in Event /\ Range(event) = {event[1]}
         /\ Matches[event[1]] \subseteq Rule
<1>1. event \in Seq(Event) /\ Len(event) = 1
  BY DEF TypeOK
<1> QED
  BY <1>1, HandHolds

(* Every step keeps the variables in their types.                          *)
LEMMA StepTypeOK == TypeOK /\ [Next]_vars => TypeOK'
<1> SUFFICES ASSUME TypeOK, [Next]_vars PROVE TypeOK'
  OBVIOUS
<1> USE DEF stream, judging, printer, alerts
<1>1. CASE Start \/ EngineDone \/ EngineStreamClosed
  BY <1>1 DEF Start, EngineDone, EngineStreamClosed, TypeOK
<1>2. CASE ReceiveEvent
  <2>1. /\ Head(eventStream) \in Event /\ eventStream' \in Seq(Event)
        /\ Len(eventStream') <= InCap
    BY <1>2, HeadTailProperties DEF ReceiveEvent, TypeOK
  <2>2. event' \in Seq(Event) /\ Len(event') = 1 /\ rule' = 1 /\ enginePc' = "rules"
    BY <1>2, <2>1 DEF ReceiveEvent
  <2>3. rule' \in 1 .. NRules + 1
    BY <2>2
  <2> QED
    BY <1>2, <2>1, <2>2, <2>3 DEF ReceiveEvent, TypeOK
<1>3. CASE PassOver
  <2>1. rule' \in 1 .. NRules + 1
    BY <1>3 DEF PassOver, Rule
  <2> QED
    BY <1>3, <2>1 DEF PassOver, TypeOK
<1>4. CASE Judged
  <2>1. event' \in Seq(Event) /\ Len(event') = 0
    BY <1>4 DEF Judged
  <2> QED
    BY <1>4, <2>1 DEF Judged, TypeOK
<1>5. CASE NameRule \/ RuleNamed
  <2>1. /\ event[1] \in Event /\ rule \in Rule
        /\ enginePc' \in {"name", "send"}
        /\ UNCHANGED <<stream, ctxDone, judging, printer, alerts>>
    BY <1>5, EventInHand DEF NameRule, RuleNamed, TypeOK
  <2>2. rule \in 0 .. NRules
    BY <2>1 DEF Rule
  <2>3. auditKey' \in [Event -> SUBSET (0 .. NRules)]
    <3>1. auditKey \in [Event -> SUBSET (0 .. NRules)]
      BY DEF TypeOK
    <3>2. CASE NameRule
      <4>1. auditKey[event[1]] \cup {rule} \in SUBSET (0 .. NRules)
        BY <2>1, <2>2, <3>1
      <4> QED
        BY <3>1, <3>2, <4>1 DEF NameRule
    <3>3. CASE RuleNamed
      BY <2>2, <3>1, <3>3 DEF RuleNamed
    <3> QED
      BY <1>5, <3>2, <3>3
  <2>4. enginePc \in {"rules", "name", "send"}
    BY <1>5 DEF NameRule, RuleNamed
  <2> QED
    BY <2>1, <2>3, <2>4 DEF TypeOK
<1>6. CASE SendAlert
  <2>1. /\ event[1] \in Event /\ rule \in Rule /\ enginePc = "send"
        /\ rule' = rule + 1 /\ enginePc' = "rules"
        /\ UNCHANGED <<stream, ctxDone, event, auditKey, printer, alertClosed>>
    BY <1>6, EventInHand DEF SendAlert, NextRule, TypeOK
  <2>2. rule' \in 1 .. NRules + 1
    BY <2>1 DEF Rule
  <2>3. Alert \in AlertOf
    BY <2>1 DEF Alert, AlertOf
  <2>4. /\ alertChan' \in Seq(Event) /\ Len(alertChan') <= AlertCap
        /\ raised' \in Seq(AlertOf) /\ dropped' \in Seq(AlertOf)
    <3>1. CASE Len(alertChan) < AlertCap
      <4>1. /\ alertChan' = Append(alertChan, event[1])
            /\ raised' = Append(raised, Alert) /\ dropped' = dropped
        BY <1>6, <3>1 DEF SendAlert, Raise
      <4> QED
        BY <2>1, <2>3, <3>1, <4>1, AppendProperties DEF TypeOK
    <3>2. CASE ~(Len(alertChan) < AlertCap)
      <4>1. /\ dropped' = Append(dropped, Alert)
            /\ alertChan' = alertChan /\ raised' = raised
        BY <1>6, <3>2 DEF SendAlert
      <4> QED
        BY <2>3, <4>1, AppendProperties DEF TypeOK
    <3> QED
      BY <3>1, <3>2
  <2> QED
    BY <2>1, <2>2, <2>4 DEF TypeOK
<1>7. CASE PrinterReceive
  <2>1. /\ Head(alertChan) \in Event /\ alertChan' \in Seq(Event)
        /\ Len(alertChan') <= AlertCap
    BY <1>7, HeadTailProperties DEF PrinterReceive, TypeOK
  <2>2. alert' \in Seq(Event) /\ Len(alert') = 1 /\ printerPc' = "print"
    BY <1>7, <2>1 DEF PrinterReceive
  <2> QED
    BY <1>7, <2>1, <2>2 DEF PrinterReceive, TypeOK
<1>8. CASE PrintAlert
  <2>1. alert[1] \in Event
    <3>1. alert \in Seq(Event) /\ Len(alert) = 1
      BY <1>8 DEF PrintAlert, TypeOK
    <3> QED
      BY <3>1, HandHolds
  <2>2. [event |-> alert[1], name |-> auditKey[alert[1]]]
        \in [event : Event, name : SUBSET (0 .. NRules)]
    BY <2>1 DEF TypeOK
  <2>3. printed' \in Seq([event : Event, name : SUBSET (0 .. NRules)])
    BY <1>8, <2>2, AppendProperties DEF PrintAlert, TypeOK
  <2>4. alert' \in Seq(Event) /\ Len(alert') = 0 /\ printerPc' = "receive"
    BY <1>8 DEF PrintAlert
  <2> QED
    BY <1>8, <2>3, <2>4 DEF PrintAlert, TypeOK
<1>9. CASE PrinterEnd \/ CloseStream \/ Cancel
  BY <1>9 DEF PrinterEnd, CloseStream, Cancel, TypeOK
<1>10. ASSUME NEW e \in Event, SendEvent(e) PROVE TypeOK'
  <2>1. /\ eventStream' \in Seq(Event) /\ arrived' \in Seq(Event)
        /\ Len(eventStream') <= InCap
    BY <1>10, AppendProperties DEF SendEvent, TypeOK
  <2> QED
    BY <1>10, <2>1 DEF SendEvent, TypeOK
<1>11. CASE UNCHANGED vars
  BY <1>11 DEF vars, TypeOK
<1> QED
  BY <1>1, <1>2, <1>3, <1>4, <1>5, <1>6, <1>7, <1>8, <1>9, <1>10, <1>11
  DEF Next, Engine, Printer, Environment

(* Every variable keeps its type, and neither channel exceeds its capacity.*)
THEOREM TypeCorrect == Spec => []TypeOK
BY InitTypeOK, StepTypeOK, PTL DEF Spec

-----------------------------------------------------------------------------
(* The strengthening that makes EventsFullyJudged inductive.               *)

(* An event is sent once, so it is either queued or in hand, if not judged.*)
StreamInv ==
  /\ IsInjective(eventStream)
  /\ Range(eventStream) \subseteq Range(arrived)
  /\ Range(event) \subseteq Range(arrived) \ Range(eventStream)

(* Rule r has had its say about event e. *)
JudgedBy(e, r) ==
  /\ e \in Range(arrived) \ Range(eventStream)
  /\ e \in Range(event) => r < rule

AlertsOf(e, r) == LET about == {[event |-> e, rule |-> r]}
                  IN  Count(raised, about) + Count(dropped, about)

(* Also for the event in hand, up to the rule that is next, and nothing is *)
(* sent about an event that has not been received.                         *)
CountInv ==
  /\ \A e \in Event, r \in Rule :
       AlertsOf(e, r) = IF r \in Matches[e] /\ JudgedBy(e, r) THEN 1 ELSE 0
  /\ enginePc \in {"name", "send"} => rule \in Matches[event[1]]

-----------------------------------------------------------------------------
(* The strengthening for PrintedRuleMatches: only rules the event matches  *)
(* are written into it, and before it is sent its first key is overwritten.*)
KeyInv ==
  /\ \A e \in Event : auditKey[e] # {} /\ auditKey[e] \subseteq {0} \cup Matches[e]
  /\ \A e \in Range(alertChan) \cup Range(alert) : 0 \notin auditKey[e]
  /\ enginePc = "send" => 0 \notin auditKey[event[1]]

(* alertChan is closed as the engine ends.                                 *)
ClosedInv == alertClosed => enginePc = "done"

IInv == TypeOK /\ StreamInv /\ CountInv /\ KeyInv /\ PrintedRuleMatches /\ ClosedInv

(* No event has arrived and no alert is about anything initially. *)
LEMMA InitIInv == Init => IInv
<1> SUFFICES ASSUME Init PROVE IInv
  OBVIOUS
<1>1. /\ eventStream = <<>> /\ arrived = <<>> /\ event = <<>> /\ alertChan = <<>>
      /\ raised = <<>> /\ dropped = <<>> /\ alert = <<>> /\ printed = <<>>
      /\ enginePc = "off" /\ alertClosed = FALSE /\ auditKey = [e \in Event |-> {0}]
  BY DEF Init
<1>2. Range(<<>>) = {}
  BY DEF Range
<1>3. StreamInv
  BY <1>1, <1>2 DEF StreamInv, IsInjective
<1>4. CountInv
  <2>1. ASSUME NEW e \in Event, NEW r \in Rule PROVE AlertsOf(e, r) = 0
    BY <1>1, CountNone DEF AlertsOf
  <2>2. \A e, r : ~JudgedBy(e, r)
    BY <1>1, <1>2 DEF JudgedBy
  <2> QED
    BY <1>1, <2>1, <2>2 DEF CountInv
<1>5. KeyInv
  BY <1>1, <1>2 DEF KeyInv
<1>6. PrintedRuleMatches
  BY <1>1 DEF PrintedRuleMatches
<1> QED
  BY <1>1, <1>3, <1>4, <1>5, <1>6, InitTypeOK DEF IInv, ClosedInv

(* A received event leaves the queue, in which it stood once.              *)
LEMMA StepStream == TypeOK /\ StreamInv /\ [Next]_vars => StreamInv'
<1> SUFFICES ASSUME TypeOK, StreamInv, [Next]_vars PROVE StreamInv'
  OBVIOUS
<1> USE DEF stream, judging, printer, alerts
<1>1. CASE ReceiveEvent
  <2>1. /\ eventStream' = Tail(eventStream) /\ event' = <<Head(eventStream)>>
        /\ arrived' = arrived /\ eventStream # <<>> /\ eventStream \in Seq(Event)
    BY <1>1 DEF ReceiveEvent, TypeOK
  <2>2. /\ IsInjective(eventStream') /\ Head(eventStream) \notin Range(eventStream')
    BY <2>1, ReceiveDistinct DEF StreamInv
  <2>3. /\ Range(eventStream') \subseteq Range(eventStream)
        /\ Head(eventStream) \in Range(eventStream)
    BY <2>1, ReceiveRange
  <2>4. Range(event') = {Head(eventStream)}
    BY <2>1 DEF Range
  <2> QED
    BY <2>1, <2>2, <2>3, <2>4 DEF StreamInv
<1>2. ASSUME NEW e \in Event, SendEvent(e) PROVE StreamInv'
  <2>1. /\ eventStream' = Append(eventStream, e) /\ arrived' = Append(arrived, e)
        /\ event' = event /\ e \notin Range(arrived)
        /\ eventStream \in Seq(Event) /\ arrived \in Seq(Event)
    BY <1>2 DEF SendEvent, TypeOK
  <2>2. /\ Range(eventStream') = Range(eventStream) \cup {e}
        /\ Range(arrived') = Range(arrived) \cup {e}
    BY <2>1, SendRange
  <2>3. IsInjective(eventStream')
    BY <2>1, SendDistinct DEF StreamInv
  <2> QED
    BY <2>1, <2>2, <2>3 DEF StreamInv
<1>3. CASE Judged
  <2>1. event' = <<>> /\ eventStream' = eventStream /\ arrived' = arrived
    BY <1>3 DEF Judged
  <2>2. Range(event') = {}
    BY <2>1 DEF Range
  <2> QED
    BY <2>1, <2>2 DEF StreamInv
<1>4. CASE UNCHANGED <<eventStream, arrived, event>>
  BY <1>4 DEF StreamInv
<1> QED
  BY <1>1, <1>2, <1>3, <1>4
  DEF vars, Next, Engine, Printer, Environment, Start, EngineDone, EngineStreamClosed,
      PassOver, NameRule, RuleNamed, SendAlert, NextRule, PrinterReceive, PrintAlert,
      PrinterEnd, CloseStream, Cancel

(* A step that neither sends nor drops an alert keeps the counts if what   *)
(* has been judged stays so, and nothing is added that matches.            *)
LEMMA CountsKept ==
  ASSUME CountInv, UNCHANGED <<raised, dropped>>,
         \A e \in Event, r \in Rule :
           r \in Matches[e] => (JudgedBy(e, r)' <=> JudgedBy(e, r)),
         enginePc' \in {"name", "send"} => rule' \in Matches[event'[1]]
  PROVE  CountInv'
<1>1. \A e, r : AlertsOf(e, r)' = AlertsOf(e, r)
  BY DEF AlertsOf
<1> QED
  BY <1>1 DEF CountInv

(* An alert adds one to what is said about its event and its rule only.    *)
LEMMA AlertCounted ==
  ASSUME TypeOK, enginePc = "send", SendAlert
  PROVE  \A e \in Event, r \in Rule :
           AlertsOf(e, r)' = IF e = event[1] /\ r = rule THEN AlertsOf(e, r) + 1
                                                         ELSE AlertsOf(e, r)
<1> TAKE e \in Event, r \in Rule
<1> DEFINE about == {[event |-> e, rule |-> r]}
<1>1. /\ raised \in Seq(AlertOf) /\ dropped \in Seq(AlertOf)
      /\ Alert \in AlertOf
  <2>1. event[1] \in Event /\ rule \in Rule
    BY EventInHand DEF TypeOK
  <2> QED
    BY <2>1 DEF TypeOK, Alert, AlertOf
<1>2. Alert \in about <=> e = event[1] /\ r = rule
  BY DEF Alert
<1>3. /\ Count(raised, about) \in Nat /\ Count(dropped, about) \in Nat
      /\ \A h \in Seq(AlertOf) :
           Count(Append(h, Alert), about)
           = IF Alert \in about THEN Count(h, about) + 1 ELSE Count(h, about)
  <2> HIDE DEF about
  <2> QED
    BY <1>1, CountSend
<1>4. AlertsOf(e, r) = Count(raised, about) + Count(dropped, about)
  BY DEF AlertsOf
<1>5. AlertsOf(e, r)' = Count(raised', about) + Count(dropped', about)
  BY DEF AlertsOf, Count
<1> HIDE DEF about
<1>6. CASE Len(alertChan) < AlertCap
  <2>1. raised' = Append(raised, Alert) /\ dropped' = dropped
    BY <1>6 DEF SendAlert, Raise
  <2> QED
    BY <1>1, <1>2, <1>3, <1>4, <1>5, <2>1
<1>7. CASE ~(Len(alertChan) < AlertCap)
  <2>1. raised' = raised /\ dropped' = Append(dropped, Alert)
    BY <1>7 DEF SendAlert
  <2> QED
    BY <1>1, <1>2, <1>3, <1>4, <1>5, <2>1
<1> QED
  BY <1>6, <1>7

(* Each rule is counted once, when it is done.                             *)
LEMMA StepCount == TypeOK /\ StreamInv /\ CountInv /\ [Next]_vars => CountInv'
<1> SUFFICES ASSUME TypeOK, StreamInv, CountInv, [Next]_vars PROVE CountInv'
  OBVIOUS
<1> USE DEF stream, judging, printer, alerts
<1>1. CASE ReceiveEvent
  <2>1. /\ eventStream' = Tail(eventStream) /\ event' = <<Head(eventStream)>>
        /\ rule' = 1 /\ enginePc' = "rules" /\ enginePc = "select"
        /\ UNCHANGED <<arrived, raised, dropped>>
        /\ eventStream # <<>> /\ eventStream \in Seq(Event)
    BY <1>1 DEF ReceiveEvent, TypeOK
  <2>2. Range(eventStream) = Range(eventStream') \cup {Head(eventStream)}
    BY <2>1, ReceiveRange
  <2>3. Range(event') = {Head(eventStream)}
    BY <2>1 DEF Range
  <2>4. Range(event) = {}
    <3>1. event \in Seq(Event) /\ Len(event) = 0
      BY <2>1 DEF TypeOK
    <3> QED
      BY <3>1, EmptyHand
  <2>5. ASSUME NEW e \in Event, NEW r \in Rule PROVE JudgedBy(e, r)' <=> JudgedBy(e, r)
    <3>1. ~(r < 1)
      BY DEF Rule
    <3> QED
      BY <2>1, <2>2, <2>3, <2>4, <3>1 DEF JudgedBy
  <2> QED
    BY <2>1, <2>5, CountsKept
<1>2. CASE PassOver
  <2>1. /\ rule \in Rule \ Matches[event[1]] /\ rule' = rule + 1
        /\ enginePc' = "rules" /\ enginePc = "rules"
        /\ UNCHANGED <<eventStream, arrived, event, raised, dropped>>
    BY <1>2 DEF PassOver
  <2>2. Range(event) = {event[1]}
    BY <2>1, EventInHand
  <2>3. ASSUME NEW e \in Event, NEW r \in Rule, r \in Matches[e]
        PROVE  JudgedBy(e, r)' <=> JudgedBy(e, r)
    <3>1. e = event[1] => r # rule
      BY <2>1, <2>3
    <3>2. e = event[1] => (r < rule + 1 <=> r < rule)
      BY <2>1, <3>1 DEF Rule
    <3> QED
      BY <2>1, <2>2, <3>2 DEF JudgedBy
  <2> QED
    BY <2>1, <2>3, CountsKept
<1>3. CASE Judged
  <2>1. /\ rule > NRules /\ event' = <<>> /\ rule' = rule
        /\ enginePc' = "select"
        /\ UNCHANGED <<eventStream, arrived, raised, dropped>>
    BY <1>3 DEF Judged
  <2>2. Range(event') = {}
    BY <2>1 DEF Range
  <2>3. \A r \in Rule : r < rule
    BY <2>1 DEF Rule, TypeOK
  <2>4. \A e \in Event, r \in Rule : JudgedBy(e, r)' <=> JudgedBy(e, r)
    BY <2>1, <2>2, <2>3 DEF JudgedBy
  <2> QED
    BY <2>1, <2>4, CountsKept
<1>4. CASE NameRule \/ RuleNamed
  <2>1. /\ UNCHANGED <<eventStream, arrived, event, rule, raised, dropped>>
        /\ rule \in Matches[event[1]]
    BY <1>4 DEF NameRule, RuleNamed, CountInv
  <2>2. \A e \in Event, r \in Rule : JudgedBy(e, r)' <=> JudgedBy(e, r)
    BY <2>1 DEF JudgedBy
  <2> QED
    BY <2>1, <2>2, CountsKept
<1>5. CASE SendAlert
  <2>1. /\ enginePc = "send" /\ rule' = rule + 1 /\ enginePc' = "rules"
        /\ UNCHANGED <<eventStream, arrived, event>>
    BY <1>5 DEF SendAlert, NextRule
  <2>2. /\ rule \in Rule /\ rule \in Matches[event[1]]
        /\ event[1] \in Event /\ Range(event) = {event[1]}
    BY <2>1, EventInHand DEF TypeOK, CountInv
  <2>3. event[1] \in Range(arrived) \ Range(eventStream)
    BY <2>2 DEF StreamInv
  <2>4. ASSUME NEW e \in Event, NEW r \in Rule
        PROVE  AlertsOf(e, r)' = IF r \in Matches[e] /\ JudgedBy(e, r)' THEN 1 ELSE 0
    <3>1. AlertsOf(e, r) = IF r \in Matches[e] /\ JudgedBy(e, r) THEN 1 ELSE 0
      BY DEF CountInv
    <3>2. AlertsOf(e, r)' = IF e = event[1] /\ r = rule THEN AlertsOf(e, r) + 1
                                                        ELSE AlertsOf(e, r)
      BY <1>5, <2>1, AlertCounted
    <3>3. r < rule + 1 <=> r < rule \/ r = rule
      BY <2>2 DEF Rule
    <3>4. ~(rule < rule)
      BY <2>2 DEF Rule
    <3>5. CASE e = event[1] /\ r = rule
      <4>1. ~JudgedBy(e, r) /\ JudgedBy(e, r)'
        BY <2>1, <2>2, <2>3, <3>3, <3>4, <3>5 DEF JudgedBy
      <4> QED
        BY <2>2, <3>1, <3>2, <3>5, <4>1
    <3>6. CASE ~(e = event[1] /\ r = rule)
      <4>1. JudgedBy(e, r)' <=> JudgedBy(e, r)
        BY <2>1, <2>2, <3>3, <3>6 DEF JudgedBy
      <4> QED
        BY <3>1, <3>2, <3>6, <4>1
    <3> QED
      BY <3>5, <3>6
  <2> QED
    BY <2>1, <2>4 DEF CountInv
<1>6. ASSUME NEW e \in Event, SendEvent(e) PROVE CountInv'
  <2>1. /\ eventStream' = Append(eventStream, e) /\ arrived' = Append(arrived, e)
        /\ UNCHANGED <<event, rule, enginePc, raised, dropped>>
        /\ e \notin Range(arrived)
        /\ eventStream \in Seq(Event) /\ arrived \in Seq(Event)
    BY <1>6 DEF SendEvent, TypeOK
  <2>2. /\ Range(eventStream') = Range(eventStream) \cup {e}
        /\ Range(arrived') = Range(arrived) \cup {e}
    BY <2>1, SendRange
  <2>3. \A f \in Event, r \in Rule : JudgedBy(f, r)' <=> JudgedBy(f, r)
    BY <2>1, <2>2 DEF JudgedBy
  <2>4. enginePc' \in {"name", "send"} => rule' \in Matches[event'[1]]
    BY <2>1 DEF CountInv
  <2> QED
    BY <2>1, <2>3, <2>4, CountsKept
<1>7. ASSUME UNCHANGED <<eventStream, arrived, event, rule, raised, dropped>>,
             enginePc' = enginePc \/ enginePc' \in {"select", "done"}
      PROVE  CountInv'
  <2>1. \A f \in Event, r \in Rule : JudgedBy(f, r)' <=> JudgedBy(f, r)
    BY <1>7 DEF JudgedBy
  <2>2. enginePc' \in {"name", "send"} => rule' \in Matches[event'[1]]
    BY <1>7 DEF CountInv
  <2> QED
    BY <1>7, <2>1, <2>2, CountsKept
<1>8. CASE Start \/ EngineDone \/ EngineStreamClosed
  <2>1. /\ UNCHANGED <<eventStream, arrived, event, rule, raised, dropped>>
        /\ enginePc' \in {"select", "done"}
    BY <1>8 DEF Start, EngineDone, EngineStreamClosed
  <2> QED
    BY <1>7, <2>1
<1>9. CASE PrinterReceive \/ PrintAlert \/ PrinterEnd \/ CloseStream \/ Cancel
  <2>1. UNCHANGED <<eventStream, arrived, event, rule, raised, dropped, enginePc>>
    BY <1>9 DEF PrinterReceive, PrintAlert, PrinterEnd, CloseStream, Cancel
  <2> QED
    BY <1>7, <2>1
<1>10. CASE UNCHANGED vars
  BY <1>7, <1>10 DEF vars
<1> QED
  BY <1>1, <1>2, <1>3, <1>4, <1>5, <1>6, <1>8, <1>9, <1>10
  DEF Next, Engine, Printer, Environment

(* The rules written into an event match it, and the first one replaces    *)
(* the dispatcher's key before the event is sent.                          *)
LEMMA StepKeys ==
  TypeOK /\ CountInv /\ KeyInv /\ PrintedRuleMatches /\ [Next]_vars
    => KeyInv' /\ PrintedRuleMatches'
<1> SUFFICES ASSUME TypeOK, CountInv, KeyInv, PrintedRuleMatches, [Next]_vars
             PROVE  KeyInv' /\ PrintedRuleMatches'
  OBVIOUS
<1> USE DEF stream, judging, printer, alerts
<1>1. ASSUME UNCHANGED printed PROVE PrintedRuleMatches'
  BY <1>1 DEF PrintedRuleMatches
<1>2. CASE NameRule \/ RuleNamed
  <2>1. /\ event[1] \in Event /\ rule \in Matches[event[1]] /\ rule \in Rule
        /\ UNCHANGED <<event, printed, alertChan, alert>>
    <3>1. enginePc \in {"rules", "name", "send"}
      BY <1>2 DEF NameRule, RuleNamed
    <3>2. event[1] \in Event
      BY <3>1, EventInHand
    <3>3. rule \in Matches[event[1]]
      BY <1>2 DEF NameRule, RuleNamed, CountInv
    <3> QED
      BY <1>2, <3>2, <3>3 DEF NameRule, RuleNamed
  <2>2. rule # 0
    BY <2>1 DEF Rule
  <2>3. auditKey \in [Event -> SUBSET (0 .. NRules)]
    BY DEF TypeOK
  <2>4. CASE NameRule
    <3>1. /\ enginePc' = "name"
          /\ auditKey' = [auditKey EXCEPT ![event[1]] = @ \cup {rule}]
      BY <2>4 DEF NameRule
    <3>2. \A e \in Event : auditKey'[e] = auditKey[e]
                           \/ (e = event[1] /\ auditKey'[e] = auditKey[e] \cup {rule})
      BY <2>1, <2>3, <3>1
    <3>3. \A e \in Event : auditKey'[e] # {} /\ auditKey'[e] \subseteq {0} \cup Matches[e]
      BY <2>1, <3>2 DEF KeyInv
    <3>4. \A e \in Event : 0 \notin auditKey[e] => 0 \notin auditKey'[e]
      BY <2>2, <3>2
    <3>5. Range(alertChan) \cup Range(alert) \subseteq Event
      BY DEF TypeOK, Range
    <3> QED
      BY <1>1, <2>1, <3>1, <3>3, <3>4, <3>5 DEF KeyInv
  <2>5. CASE RuleNamed
    <3>1. auditKey' = [auditKey EXCEPT ![event[1]] = {rule}]
      BY <2>5 DEF RuleNamed
    <3>2. \A e \in Event : auditKey'[e] = IF e = event[1] THEN {rule} ELSE auditKey[e]
      BY <2>1, <2>3, <3>1
    <3>3. \A e \in Event : auditKey'[e] # {} /\ auditKey'[e] \subseteq {0} \cup Matches[e]
      BY <2>1, <3>2 DEF KeyInv
    <3>4. \A e \in Event : 0 \notin auditKey[e] => 0 \notin auditKey'[e]
      BY <2>2, <3>2
    <3>5. Range(alertChan) \cup Range(alert) \subseteq Event
      BY DEF TypeOK, Range
    <3>6. 0 \notin auditKey'[event'[1]]
      BY <2>1, <2>2, <3>2
    <3> QED
      BY <1>1, <2>1, <3>3, <3>4, <3>5, <3>6 DEF KeyInv
  <2> QED
    BY <1>2, <2>4, <2>5
<1>3. CASE SendAlert
  <2>1. /\ enginePc = "send" /\ enginePc' = "rules"
        /\ UNCHANGED <<auditKey, alert, printed>>
    BY <1>3 DEF SendAlert, NextRule
  <2>2. event[1] \in Event /\ 0 \notin auditKey[event[1]]
    BY <2>1, EventInHand DEF KeyInv
  <2>3. Range(alertChan') \subseteq Range(alertChan) \cup {event[1]}
    <3>1. CASE Len(alertChan) < AlertCap
      <4>1. alertChan' = Append(alertChan, event[1]) /\ alertChan \in Seq(Event)
        BY <1>3, <3>1 DEF SendAlert, Raise, TypeOK
      <4> QED
        BY <2>2, <4>1, SendRange
    <3>2. CASE ~(Len(alertChan) < AlertCap)
      BY <1>3, <3>2 DEF SendAlert
    <3> QED
      BY <3>1, <3>2
  <2> QED
    BY <1>1, <2>1, <2>2, <2>3 DEF KeyInv
<1>4. CASE PrinterReceive
  <2>1. /\ alert' = <<Head(alertChan)>> /\ alertChan' = Tail(alertChan)
        /\ alertChan # <<>> /\ alertChan \in Seq(Event)
        /\ UNCHANGED <<auditKey, event, enginePc, printed>>
    BY <1>4 DEF PrinterReceive, TypeOK
  <2>2. Range(alertChan) = Range(alertChan') \cup {Head(alertChan)}
    BY <2>1, ReceiveRange
  <2>3. Range(alert') = {Head(alertChan)}
    BY <2>1 DEF Range
  <2> QED
    BY <1>1, <2>1, <2>2, <2>3 DEF KeyInv
<1>5. CASE PrintAlert
  <2>1. /\ printed' = Append(printed, [event |-> alert[1], name |-> auditKey[alert[1]]])
        /\ alert' = <<>> /\ printerPc = "print"
        /\ UNCHANGED <<auditKey, event, enginePc, alertChan>>
    BY <1>5 DEF PrintAlert
  <2>2. Range(alert') = {}
    BY <2>1 DEF Range
  <2>3. KeyInv'
    BY <2>1, <2>2 DEF KeyInv
  <2>4. alert[1] \in Event /\ alert[1] \in Range(alert)
    <3>1. alert \in Seq(Event) /\ Len(alert) = 1
      BY <2>1 DEF TypeOK
    <3> QED
      BY <3>1, HandHolds
  <2>5. auditKey[alert[1]] # {} /\ auditKey[alert[1]] \subseteq Matches[alert[1]]
    BY <2>4 DEF KeyInv
  <2>6. printed \in Seq([event : Event, name : SUBSET (0 .. NRules)])
    BY DEF TypeOK
  <2>7. /\ DOMAIN printed' = 1 .. Len(printed) + 1 /\ Len(printed) \in Nat
        /\ DOMAIN printed = 1 .. Len(printed)
        /\ \A k \in 1 .. Len(printed) : printed'[k] = printed[k]
        /\ printed'[Len(printed) + 1] = [event |-> alert[1], name |-> auditKey[alert[1]]]
    BY <2>1, <2>6
  <2>8. PrintedRuleMatches'
    <3> SUFFICES ASSUME NEW k \in DOMAIN printed'
                 PROVE  printed'[k].name # {} /\ printed'[k].name \subseteq Matches[printed'[k].event]
      BY DEF PrintedRuleMatches
    <3>1. CASE k \in 1 .. Len(printed)
      BY <2>7, <3>1 DEF PrintedRuleMatches
    <3>2. CASE k = Len(printed) + 1
      BY <2>5, <2>7, <3>2
    <3> QED
      BY <2>7, <3>1, <3>2
  <2> QED
    BY <2>3, <2>8
<1>6. ASSUME UNCHANGED <<auditKey, alertChan, alert, printed>>,
             enginePc' # "send" \/ UNCHANGED <<enginePc, event>>
      PROVE  KeyInv' /\ PrintedRuleMatches'
  BY <1>1, <1>6 DEF KeyInv
<1>7. CASE \/ Start \/ EngineDone \/ EngineStreamClosed \/ ReceiveEvent \/ PassOver \/ Judged
  <2>1. UNCHANGED <<auditKey, alertChan, alert, printed>> /\ enginePc' # "send"
    BY <1>7 DEF Start, EngineDone, EngineStreamClosed, ReceiveEvent, PassOver, Judged
  <2> QED
    BY <1>6, <2>1
<1>8. CASE PrinterEnd \/ CloseStream \/ Cancel \/ \E e \in Event : SendEvent(e)
  <2>1. UNCHANGED <<auditKey, alertChan, alert, printed, enginePc, event>>
    BY <1>8 DEF PrinterEnd, CloseStream, Cancel, SendEvent
  <2> QED
    BY <1>6, <2>1
<1>9. CASE UNCHANGED vars
  BY <1>6, <1>9 DEF vars
<1> QED
  BY <1>2, <1>3, <1>4, <1>5, <1>7, <1>8, <1>9 DEF Next, Engine, Printer, Environment

(* The parts together; alertClosed is set by the steps that end the engine. *)
LEMMA StepIInv == IInv /\ [Next]_vars => IInv'
<1> SUFFICES ASSUME IInv, [Next]_vars PROVE IInv'
  OBVIOUS
<1>1. ClosedInv'
  BY DEF IInv, ClosedInv, vars, stream, judging, printer, alerts, Next, Engine, Printer,
         Environment, Start, EngineDone, EngineStreamClosed, ReceiveEvent, PassOver,
         Judged, NameRule, RuleNamed, SendAlert, NextRule, PrinterReceive, PrintAlert,
         PrinterEnd, CloseStream, Cancel, SendEvent
<1> QED
  BY <1>1, StepTypeOK, StepStream, StepCount, StepKeys DEF IInv

(* The inductive invariant is an invariant of the engine.                  *)
LEMMA Invariance == Spec => []IInv
BY InitIInv, StepIInv, PTL DEF Spec

-----------------------------------------------------------------------------
(* The properties.                                                         *)

(* Every event the engine is done with has had one alert, sent or dropped, *)
(* of each rule it matches and none of any other.                          *)
THEOREM RulesAllJudge == Spec => []EventsFullyJudged
<1>1. IInv => EventsFullyJudged
  <2> SUFFICES ASSUME IInv,
                      NEW e \in Range(arrived) \ (Range(eventStream) \cup Range(event)),
                      NEW r \in Rule
               PROVE  Cardinality({k \in DOMAIN raised : raised[k] = [event |-> e, rule |-> r]})
                      + Cardinality({k \in DOMAIN dropped : dropped[k] = [event |-> e, rule |-> r]})
                      = IF r \in Matches[e] THEN 1 ELSE 0
    BY DEF EventsFullyJudged
  <2>1. e \in Event
    BY DEF IInv, TypeOK, Range
  <2>2. JudgedBy(e, r)
    BY DEF JudgedBy
  <2>3. AlertsOf(e, r) = IF r \in Matches[e] THEN 1 ELSE 0
    BY <2>1, <2>2 DEF IInv, CountInv
  <2>4. \A h : {k \in DOMAIN h : h[k] = [event |-> e, rule |-> r]}
               = {k \in DOMAIN h : h[k] \in {[event |-> e, rule |-> r]}}
    OBVIOUS
  <2> QED
    BY <2>3, <2>4 DEF AlertsOf, Count
<1> QED
  BY <1>1, Invariance, PTL

(* What is printed as the rule of an alert are rules the event matches.    *)
THEOREM PrintedNamesMatch == Spec => []PrintedRuleMatches
<1>1. IInv => PrintedRuleMatches
  BY DEF IInv
<1> QED
  BY <1>1, Invariance, PTL

-----------------------------------------------------------------------------
(* The engine implements LossyChannel.                                     *)

(* The alert channel is empty and open initially. *)
LEMMA InitRefines == Init => AlertChannel!Init
<1>1. Len(<<>>) = 0
  OBVIOUS
<1> QED
  BY <1>1 DEF Init, AlertChannel!Init

(* SendAlert sends or loses, PrinterReceive receives, EngineDone closes,   *)
(* and all other steps leave the channel as it is.                         *)
LEMMA StepRefines == IInv /\ [Next]_vars => [AlertChannel!Next]_(AlertChannel!channelVars)
<1> SUFFICES ASSUME IInv, [Next]_vars
             PROVE  [AlertChannel!Next]_(AlertChannel!channelVars)
  OBVIOUS
<1> USE DEF stream, judging, printer, alerts, AlertChannel!Next, AlertChannel!channelVars
<1>1. CASE SendAlert
  <2>1. /\ ~alertClosed /\ alertClosed' = alertClosed /\ enginePc = "send"
        /\ alertChan \in Seq(Event) /\ Len(alertChan) <= AlertCap /\ Len(alertChan) \in Nat
        /\ dropped \in Seq(AlertOf)
    BY <1>1 DEF SendAlert, NextRule, IInv, ClosedInv, TypeOK
  <2>2. event[1] \in Event /\ Alert \in AlertOf
    <3>1. event[1] \in Event /\ rule \in Rule
      BY <2>1, EventInHand DEF IInv, TypeOK
    <3> QED
      BY <3>1 DEF Alert, AlertOf
  <2>3. CASE Len(alertChan) < AlertCap
    <3>1. alertChan' = Append(alertChan, event[1]) /\ dropped' = dropped
      BY <1>1, <2>3 DEF SendAlert, Raise
    <3>2. alertChan' # <<>> /\ alertChan' = Append(alertChan, alertChan'[Len(alertChan')])
      BY <2>1, <2>2, <3>1, SendIsLast
    <3> QED
      BY <2>1, <2>3, <3>1, <3>2 DEF AlertChannel!Send
  <2>4. CASE ~(Len(alertChan) < AlertCap)
    <3>1. alertChan' = alertChan /\ dropped' = Append(dropped, Alert)
      BY <1>1, <2>4 DEF SendAlert
    <3>2. Len(dropped') = Len(dropped) + 1 /\ Len(alertChan) = AlertCap
      BY <2>1, <2>2, <2>4, <3>1
    <3> QED
      BY <2>1, <3>1, <3>2 DEF AlertChannel!Lose
  <2> QED
    BY <2>3, <2>4
<1>2. CASE PrinterReceive
  BY <1>2 DEF PrinterReceive, AlertChannel!Receive
<1>3. CASE EngineDone
  BY <1>3 DEF EngineDone, AlertChannel!Close, IInv, ClosedInv
<1>4. CASE UNCHANGED <<alertChan, alertClosed, dropped>>
  BY <1>4
<1> QED
  BY <1>1, <1>2, <1>3, <1>4
  DEF vars, Next, Engine, Printer, Environment, Start, EngineStreamClosed, ReceiveEvent,
      PassOver, Judged, NameRule, RuleNamed, PrintAlert, PrinterEnd, CloseStream,
      Cancel, SendEvent

(* To its consumer the engine is a channel that loses an alert only when   *)
(* it is full, and on which nothing is sent once it is closed.             *)
THEOREM Refinement == Spec => ImplementsChannel
BY InitRefines, StepRefines, Invariance, PTL
DEF Spec, ImplementsChannel, AlertChannel!Spec
=============================================================================
