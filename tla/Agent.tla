-------------------------------- MODULE Agent --------------------------------
(***************************************************************************)
(* The agent from main's point of view (cmd/agent/main.go): main starts    *)
(* the stages, waits for a signal, cancels the context and stops the       *)
(* stages again.  The dispatcher is the one of EventDispatcher, the rule   *)
(* engine and the alert printer are the ones of RuleEngine; the channel    *)
(* between them is the former's outputChan and the latter's eventStream,   *)
(* and the context is shared.  The collector is what AuditdCollector shows *)
(* the dispatcher: it hands off groups until its goroutines have ended,    *)
(* which they do after its Stop is called (AuditdCollector!StopReturns).   *)
(* The tail engine has no effect on the dispatcher; its Stop returns       *)
(* (TailEngine!StopReturns).                                               *)
(***************************************************************************)
EXTENDS EventDispatcher, Functions

CONSTANTS
  NRules,    (* how many rules main loads                                   *)
  Detects,   (* for each group the rules its event matches                  *)
  AlertCap   (* capacity of alertChan, 1000 in the code                     *)

ASSUME AgentAssumption ==
  /\ IsFiniteSet(Group)
  /\ NRules \in Nat
  /\ Detects \in [Group -> SUBSET (1 .. NRules)]
  /\ AlertCap \in Nat \ {0}

VARIABLES
  mainPc,       (* what main does next                                      *)
  collectorPc,  (* the collector's goroutines                               *)
  errorPc,      (* the error printer                                        *)
  announced,    (* history: the errors of the dispatcher it has printed     *)
  enginePc, judged, rule, auditKey, alertChan, alertClosed,
  printerPc, alert, raised, dropped, printed  (* see RuleEngine             *)

SysEvent == [ID : 1 .. Cardinality(Group \ NoSyscall), group : Group \ NoSyscall]

R == INSTANCE RuleEngine WITH
  Event <- SysEvent, Matches <- [e \in SysEvent |-> Detects[e.group]],
  InCap <- OutCap, eventStream <- outputChan, streamClosed <- closed,
  arrived <- forwarded, event <- judged

mainVars == <<mainPc, collectorPc, errorPc, announced>>
engineVars == <<enginePc, judged, rule, auditKey, alertChan, alertClosed,
                raised, dropped, printerPc, alert, printed>>
agentVars == <<vars, mainVars, engineVars>>

AgentInit ==
  /\ Init /\ R!Init
  /\ mainPc = "startCollector"
  /\ collectorPc = "off" /\ errorPc = "off" /\ announced = <<>>

-----------------------------------------------------------------------------
(* main, statement by statement.                                           *)

MainGoes(from, to) == mainPc = from /\ mainPc' = to

StartCollector ==
  /\ MainGoes("startCollector", "startDispatcher")
  /\ collectorPc' = "running"
  /\ UNCHANGED <<vars, engineVars, errorPc, announced>>

StartDispatcher ==
  /\ MainGoes("startDispatcher", "loadRules")
  /\ Start
  /\ UNCHANGED <<engineVars, collectorPc, errorPc, announced>>

(* The rule files are read while the dispatcher already runs. *)
LoadRules ==
  /\ MainGoes("loadRules", "startEngine")
  /\ UNCHANGED <<vars, engineVars, collectorPc, errorPc, announced>>

StartEngine ==
  /\ MainGoes("startEngine", "startPrinters")
  /\ R!Start
  /\ UNCHANGED <<vars, collectorPc, errorPc, announced>>

StartPrinters ==
  /\ MainGoes("startPrinters", "signal")
  /\ errorPc' = "select"
  /\ UNCHANGED <<vars, engineVars, collectorPc, announced>>

Signal ==
  /\ MainGoes("signal", "cancel")
  /\ UNCHANGED <<vars, engineVars, collectorPc, errorPc, announced>>

CancelContext ==
  /\ MainGoes("cancel", "stopCollector")
  /\ Cancel /\ R!Cancel
  /\ UNCHANGED <<collectorPc, errorPc, announced>>

(* auditCollector.Stop: it cancels the collector's own context, waits, and *)
(* closes the channel of the groups.                                       *)
StopCollector ==
  /\ MainGoes("stopCollector", "waitCollector")
  /\ collectorPc' = "stopping"
  /\ UNCHANGED <<vars, engineVars, errorPc, announced>>

CollectorStopped ==
  /\ MainGoes("waitCollector", "stopTail")
  /\ collectorPc = "ended"
  /\ CloseInput
  /\ UNCHANGED <<engineVars, collectorPc, errorPc, announced>>

StopTail ==
  /\ MainGoes("stopTail", "wait")
  /\ UNCHANGED <<vars, engineVars, collectorPc, errorPc, announced>>

(* wg.Wait, then the process ends, with the printers.  Fault: the alert    *)
(* printer is waited for too.                                              *)
WaitForPrinter ==
  /\ MainGoes("wait", "returned")
  /\ loopPc = "done" /\ enginePc = "done" /\ printerPc = "done"
  /\ UNCHANGED <<vars, engineVars, collectorPc, errorPc, announced>>

Wait ==
  /\ MainGoes("wait", "returned")
  /\ loopPc = "done" /\ enginePc = "done"
  /\ UNCHANGED <<vars, engineVars, collectorPc, errorPc, announced>>

Main == \/ StartCollector \/ StartDispatcher \/ LoadRules \/ StartEngine
        \/ StartPrinters \/ CancelContext \/ StopCollector
        \/ CollectorStopped \/ StopTail \/ Wait

-----------------------------------------------------------------------------
(* The collector.                                                          *)

HandsOff ==
  /\ collectorPc \in {"running", "stopping"}
  /\ \E g \in Group : Arrive(g)
  /\ UNCHANGED <<mainVars, engineVars>>

CollectorEnds ==
  /\ collectorPc = "stopping"
  /\ collectorPc' = "ended"
  /\ UNCHANGED <<vars, engineVars, mainPc, errorPc, announced>>

(* The dispatcher, the engine and the alert printer, each as it is by      *)
(* itself.  Fault: the printers start when the agent stops.                *)
Transforms == TransformLoop /\ UNCHANGED <<mainVars, engineVars>>

EngineReceives == R!ReceiveEvent /\ TakeEvent /\ UNCHANGED mainVars

Judges ==
  /\ \/ R!EngineDone \/ R!EngineStreamClosed \/ R!PassOver \/ R!Judged
     \/ R!NameRule \/ R!RuleNamed \/ R!SendAlert
  /\ UNCHANGED <<vars, mainVars>>

StartedLate == mainPc \notin {"startCollector", "startDispatcher", "loadRules",
                              "startEngine", "startPrinters", "signal"}
Started == mainPc \notin {"startCollector", "startDispatcher", "loadRules",
                          "startEngine", "startPrinters"}

Prints == Started /\ R!Printer /\ UNCHANGED <<vars, mainVars>>

(* The error printer: it prints the dispatcher's errors until it finds the *)
(* context done.                                                           *)
PrintError ==
  /\ errorPc = "select"
  /\ TakeError
  /\ announced' = Append(announced, Head(errChan))
  /\ UNCHANGED <<engineVars, mainPc, collectorPc, errorPc>>

ErrorPrinterEnds ==
  /\ errorPc = "select"
  /\ ctxDone
  /\ errorPc' = "done"
  /\ UNCHANGED <<vars, engineVars, mainPc, collectorPc, announced>>

-----------------------------------------------------------------------------
Stages == \/ HandsOff \/ CollectorEnds \/ Transforms \/ EngineReceives
          \/ Judges \/ Prints \/ PrintError \/ ErrorPrinterEnds

AgentNext == mainPc # "returned" /\ (Main \/ Signal \/ Stages)

(* Every goroutine runs when it can.  That a select does not pass over its *)
(* ready cases for ever need not be assumed: the groups run out.  Nothing  *)
(* is assumed of the collector's hand-offs or of the signal.               *)
AgentFairness ==
  /\ WF_agentVars(Main)
  /\ WF_agentVars(CollectorEnds)
  /\ WF_agentVars(Transforms)
  /\ WF_agentVars(EngineReceives \/ Judges)
  /\ WF_agentVars(mainPc # "returned" /\ Prints)
  /\ WF_agentVars(mainPc # "returned" /\ PrintError)

AgentSpec == AgentInit /\ [][AgentNext]_agentVars /\ AgentFairness

-----------------------------------------------------------------------------
(* Properties, beside those of EventDispatcher.                            *)

AgentTypeOK ==
  /\ TypeOK /\ R!TypeOK
  /\ mainPc \in {"startCollector", "startDispatcher", "loadRules", "startEngine",
                 "startPrinters", "signal", "cancel", "stopCollector",
                 "waitCollector", "stopTail", "wait", "returned"}
  /\ collectorPc \in {"off", "running", "stopping", "ended"}
  /\ errorPc \in {"off", "select", "done"}
  /\ announced \in Seq({"ErrBufferOverflow"})

(* How many alerts of rule r about the n-th event have been sent or have   *)
(* been dropped.                                                           *)
AlertsOf(n, r) ==
  Cardinality({k \in DOMAIN raised : raised[k].event.ID = n /\ raised[k].rule = r})
  + Cardinality({k \in DOMAIN dropped : dropped[k].event.ID = n /\ dropped[k].rule = r})

(* From the collector's hand-off to the alert: the n-th group with a       *)
(* SYSCALL record that the engine is done with has had one alert, sent or  *)
(* dropped, of each rule it matches and none of any other; there is none   *)
(* about a group the engine has not received; and alerts come in the order *)
(* of the groups.  So what a shutdown or an overflow loses of a rule's     *)
(* matches is the last of them, never one in the middle.                   *)
AlertsAccounted ==
  LET received == Len(forwarded) - Len(outputChan)
  IN  /\ \A k \in Wanted : NumberOf(k) <= received - Len(judged) =>
           \A r \in 1 .. NRules :
             AlertsOf(NumberOf(k), r) = IF r \in Detects[arrived[k]] THEN 1 ELSE 0
      /\ \A k \in DOMAIN raised : /\ raised[k].event.ID <= received
                                  /\ raised[k].rule \in Detects[raised[k].event.group]
      /\ \A j, k \in DOMAIN raised :
           j < k => raised[j].event.ID <= raised[k].event.ID

(* The dispatcher and main are the environment RuleEngine assumes: each    *)
(* event is sent once, the stream is closed only when the context is done, *)
(* and nothing else is done to it.                                         *)
EngineAsSpecified == R!Spec

(* After the signal main returns, whatever is queued, also when the        *)
(* dispatcher has ended by an overflow and when the engine leaves alertChan*)
(* open because it finds the stream closed before the context done         *)
(* (engine.go:75-82).                                                      *)
ShutdownEnds == (mainPc = "cancel") ~> (mainPc = "returned")

(* If the dispatcher gives up while the agent runs, the error printer says *)
(* so, also when it happens before the printers are started.               *)
OverflowAnnounced == (loopPc = "done" /\ ~ctxDone) ~> (announced # <<>> \/ ctxDone)

(* A group that matches a rule is printed, also when it comes while main   *)
(* still loads the rules, unless the agent is told to stop, the dispatcher *)
(* has given up, or alertChan was full.                                    *)
DetectionsPrinted ==
  \A g \in Group \ NoSyscall :
    (Detects[g] # {} /\ \E k \in DOMAIN arrived : arrived[k] = g) ~>
      \/ \E k \in DOMAIN printed : printed[k].event.group = g
      \/ \E k \in DOMAIN dropped : dropped[k].event.group = g
      \/ ctxDone
      \/ loopPc = "done"
=============================================================================
