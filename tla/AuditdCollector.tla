--------------------------- MODULE AuditdCollector ---------------------------
(***************************************************************************)
(* The second stage of the agent (collector/auditd.go): the assembler      *)
(* goroutine joins the record lines of one audit event into a group, the   *)
(* cleaner goroutine evicts groups that stopped growing, and Stop ends     *)
(* both and closes the channels.  pendingMap is shared by the goroutines   *)
(* under mapMutex.                                                         *)
(*                                                                         *)
(* A record line is its audit ID and its position in what auditd writes    *)
(* for that event; a group is the set of positions it was parsed from.     *)
(* Time is counted in clock units: a group's age saturates just above      *)
(* Minute, the only boundary the code compares it with.                    *)
(***************************************************************************)
EXTENDS Naturals, Sequences, Functions, AuditRecords

CONSTANTS
  Id,       (* the audit event IDs seen in the log                          *)
  Log,      (* the lines auditd writes for each event, in order             *)
  LineCap,  (* capacity of lineChan, 1000 in the code                       *)
  OutCap,   (* capacity of outputChan, 1000 in the code                     *)
  ErrCap,   (* capacity of errChan, 50 in the code                          *)
  Minute,   (* a group unchanged for longer than this is evicted            *)
  Period    (* the cleaner's ticker fires every Period units                *)

(* A line as the parsers see it: its record type ("OTHER" for the ones     *)
(* identifyRecordType does not know), the key= field (SYSCALL lines), if   *)
(* an audit ID can be extracted, and if an EXECVE line gives a number of   *)
(* arguments and lists them without a gap.                                 *)
AuditLine == [type : RecordType \cup {"OTHER"}, key : STRING,
              hasId : BOOLEAN, wellFormed : BOOLEAN]

ASSUME LogAssumption == Log \in [Id -> Seq(AuditLine)]

(* auditd writes one SYSCALL record per event.                             *)
ASSUME SyscallAssumption ==
  \A id \in Id : \A p, q \in DOMAIN Log[id] :
    Log[id][p].type = "SYSCALL" /\ Log[id][q].type = "SYSCALL" => p = q

(* PROCTITLE is the last record it writes for an event.                    *)
ASSUME TitleAssumption ==
  \A id \in Id : \A p, q \in DOMAIN Log[id] :
    /\ Log[id][p].type = "PROCTITLE"
    /\ Log[id][q].hasId /\ Log[id][q].type \in RecordType
    => q <= p

ASSUME BoundsAssumption ==
  /\ {LineCap, OutCap, ErrCap, Period} \subseteq Nat \ {0}
  /\ Minute \in Nat

VARIABLES
  lineChan,     (* lines read by the tail engine, not yet by the assembler  *)
  lineClosed,   (* lineChan has been closed                                 *)
  pendingMap,   (* audit ID -> group being assembled                        *)
  mapMutex,     (* who holds the mutex                                      *)
  assemblePc,   (* where runAssembleLoop is                                 *)
  line,         (* the line processLine works on: none or one               *)
  cleanerPc,    (* where runMapCleanerLoop is                               *)
  stale,        (* the entries the running sweep has still to evict         *)
  phase, tick,  (* the cleaner's ticker and its one-place channel           *)
  outputChan,   (* groups ready for the dispatcher                          *)
  errChan,      (* errors ready for the error printer                       *)
  ctxDone,      (* the collector's context is cancelled                     *)
  stopPc,       (* where the caller of Stop is                              *)
  tailed,       (* how many lines of each event the tail engine has read    *)
  handed,       (* history: the groups found complete, per event            *)
  gone          (* history: the lines of each event no group will ever hold *)

chans == <<outputChan, errChan>>
ticker == <<phase, tick>>
stopVars == <<ctxDone, stopPc>>
tailVars == <<lineClosed, tailed>>
cleanerVars == <<cleanerPc, stale>>
history == <<handed, gone>>
vars == <<lineChan, tailVars, pendingMap, mapMutex, assemblePc, line,
          cleanerVars, ticker, chans, stopVars, history>>

-----------------------------------------------------------------------------
(* Lines and groups.                                                       *)

LineOf(l) == Log[l.id][l.pos]

Line == {l \in [id : Id, pos : Nat \ {0}] : l.pos \in DOMAIN Log[l.id]}

(* A line processLine stores: it has an audit ID and a known record type.  *)
IsRecord(l) == LineOf(l).hasId /\ LineOf(l).type \in RecordType

(* An EXECVE line parseExecveRecord has something to report about.         *)
Malformed(l) == LineOf(l).type = "EXECVE" /\ ~LineOf(l).wellFormed

(* Ages beyond Minute are all treated alike, so they are one value.        *)
Age == 0 .. Minute + 1

Group == [lines : SUBSET (Nat \ {0}), age : Age, fresh : BOOLEAN]

(* What goes to the dispatcher and to the error printer.                   *)
SentGroup == [id : Id, lines : SUBSET (Nat \ {0})]
Report == [err : {"ErrInvalidFragment", "ErrBufferOverflow", "ErrMissingRequired"},
           id : Id]

(* The record types for which the group of the event holds a record.       *)
Present(id, lines) == {Log[id][p].type : p \in lines}

(* group.Key, which is always the key of the SYSCALL record last stored.   *)
KeysOf(id, lines) ==
  {Log[id][p].key : p \in {q \in lines : Log[id][q].type = "SYSCALL"}}

(* Faults: the key is taken for the whole test; the last record of the     *)
(* event is not waited for.                                                *)
CompleteOnKey(id, lines) == KeysOf(id, lines) \cap DOMAIN EventTypeOf # {}
CompleteUntitled(id, lines) ==
  \E key \in KeysOf(id, lines) :
    IsReadyToAssemble(key, Present(id, lines) \cup {"PROCTITLE"})

Complete(id, lines) ==
  \E key \in KeysOf(id, lines) : IsReadyToAssemble(key, Present(id, lines))

Error(err, id) == [err |-> err, id |-> id]

(* The select with a default around a channel send: a full channel drops   *)
(* what is sent.  Fault: one element too many.                             *)
TrySendBeyond(chan, cap, x) == IF Len(chan) <= cap THEN Append(chan, x) ELSE chan
TrySend(chan, cap, x) == IF Len(chan) < cap THEN Append(chan, x) ELSE chan

(* delete(c.pendingMap, id).  Fault: it is missing. *)
RemoveNothing(id) == pendingMap
Remove(id) == Restrict(pendingMap, DOMAIN pendingMap \ {id})

-----------------------------------------------------------------------------
Init ==
  /\ lineChan = <<>>
  /\ lineClosed = FALSE
  /\ pendingMap = [id \in {} |-> 0]
  /\ mapMutex = "free"
  /\ assemblePc = "off"
  /\ line = <<>>
  /\ cleanerPc = "off"
  /\ stale = {}
  /\ phase = 0
  /\ tick = FALSE
  /\ outputChan = <<>>
  /\ errChan = <<>>
  /\ ctxDone = FALSE
  /\ stopPc = "idle"
  /\ tailed = [id \in Id |-> 0]
  /\ handed = [id \in Id |-> {}]
  /\ gone = [id \in Id |-> {}]

(* Start spawns the assembler and the cleaner. *)
Start ==
  /\ assemblePc = "off"
  /\ assemblePc' = "select"
  /\ cleanerPc' = "starting"
  /\ UNCHANGED <<lineChan, tailVars, pendingMap, mapMutex, line, stale,
                 ticker, chans, stopVars, history>>

(* runAssembleLoop's select, first case: the context is done. *)
AssembleDone ==
  /\ assemblePc = "select"
  /\ ctxDone
  /\ assemblePc' = "done"
  /\ UNCHANGED <<lineChan, tailVars, pendingMap, mapMutex, line, cleanerVars,
                 ticker, chans, stopVars, history>>

(* Second case, !ok: the tail engine has closed a channel since drained. *)
AssembleClosed ==
  /\ assemblePc = "select"
  /\ lineClosed
  /\ lineChan = <<>>
  /\ assemblePc' = "done"
  /\ UNCHANGED <<lineChan, tailVars, pendingMap, mapMutex, line, cleanerVars,
                 ticker, chans, stopVars, history>>

(* Second case: a line is received.  processLine reports one without an    *)
(* audit ID, ignores one of another record type, and otherwise goes on to  *)
(* lock the map.                                                           *)
AssembleReceive ==
  /\ assemblePc = "select"
  /\ lineChan # <<>>
  /\ lineChan' = Tail(lineChan)
  /\ LET l == Head(lineChan)
     IN  /\ errChan' = IF LineOf(l).hasId
                       THEN errChan
                       ELSE TrySend(errChan, ErrCap,
                                    Error("ErrInvalidFragment", l.id))
         /\ IF IsRecord(l)
            THEN line' = <<l>> /\ assemblePc' = "lock"
            ELSE UNCHANGED <<line, assemblePc>>
  /\ UNCHANGED <<tailVars, pendingMap, mapMutex, cleanerVars, ticker,
                 outputChan, stopVars, history>>

(* The lookup of the group of the event: empty when there is none.         *)
(* Fault: the group in the map is never looked up.                         *)
LookupAnew(id) == {}
Lookup(id) == IF id \in DOMAIN pendingMap THEN pendingMap[id].lines ELSE {}

(* processLine up to the readiness test: with the mutex held, the record   *)
(* goes into the group of its event, created when there is none.  PATH     *)
(* records accumulate, any other type replaces what the group held of it.  *)
(* An EXECVE line with arguments missing is reported and stored.           *)
StoreRecord ==
  /\ assemblePc = "lock"
  /\ mapMutex = "free"
  /\ mapMutex' = "assembler"
  /\ LET l        == line[1]
         held     == Lookup(l.id)
         replaced == {p \in held : /\ LineOf(l).type # "PATH"
                                   /\ Log[l.id][p].type = LineOf(l).type}
         group    == [lines |-> (held \ replaced) \cup {l.pos}, age |-> 0,
                      fresh |-> cleanerPc # "starting"]
     IN  /\ pendingMap' = [id \in DOMAIN pendingMap \cup {l.id} |->
                             IF id = l.id THEN group ELSE pendingMap[id]]
         /\ gone' = [gone EXCEPT ![l.id] = @ \cup replaced]
         /\ errChan' = IF Malformed(l)
                       THEN TrySend(errChan, ErrCap,
                                    Error("ErrInvalidFragment", l.id))
                       ELSE errChan
  /\ assemblePc' = "check"
  /\ UNCHANGED <<lineChan, tailVars, line, cleanerVars, ticker, outputChan,
                 stopVars, handed>>

(* A complete group leaves the map for outputChan, or is reported and lost *)
(* when outputChan is full.                                                *)
SendGroup(id, lines) ==
  /\ pendingMap' = Remove(id)
  /\ handed' = [handed EXCEPT ![id] = @ \cup {lines}]
  /\ outputChan' = TrySend(outputChan, OutCap, [id |-> id, lines |-> lines])
  /\ errChan' = IF Len(outputChan) < OutCap
                THEN errChan
                ELSE TrySend(errChan, ErrCap, Error("ErrBufferOverflow", id))

LineDone ==
  /\ line' = <<>>
  /\ assemblePc' = "select"
  /\ UNCHANGED <<lineChan, tailVars, cleanerVars, ticker, stopVars, gone>>

(* Faults: completeness is only looked at when a PROCTITLE record comes;   *)
(* the send waits for room, with the mutex held.                           *)
HandOffAtTitle ==
  /\ assemblePc = "check"
  /\ LET id    == line[1].id
         lines == Lookup(id)
     IN  IF Complete(id, lines) /\ LineOf(line[1]).type = "PROCTITLE"
         THEN SendGroup(id, lines)
         ELSE UNCHANGED <<pendingMap, handed, chans>>
  /\ mapMutex' = "free"
  /\ LineDone

HandOffBlocks ==
  /\ assemblePc = "check"
  /\ LET id    == line[1].id
         lines == Lookup(id)
     IN  IF Complete(id, lines)
         THEN Len(outputChan) < OutCap /\ SendGroup(id, lines)
         ELSE UNCHANGED <<pendingMap, handed, chans>>
  /\ mapMutex' = "free"
  /\ LineDone

(* processLine from the readiness test to the deferred unlock.             *)
HandOff ==
  /\ assemblePc = "check"
  /\ LET id    == line[1].id
         lines == Lookup(id)
     IN  IF Complete(id, lines)
         THEN SendGroup(id, lines)
         ELSE UNCHANGED <<pendingMap, handed, chans>>
  /\ mapMutex' = "free"
  /\ LineDone

-----------------------------------------------------------------------------
(* runMapCleanerLoop.  Its startTime is taken when the goroutine first     *)
(* runs, which may be after the assembler has stored records.              *)
CleanerStart ==
  /\ cleanerPc = "starting"
  /\ cleanerPc' = "select"
  /\ UNCHANGED <<lineChan, tailVars, pendingMap, mapMutex, assemblePc, line,
                 stale, ticker, chans, stopVars, history>>

CleanerDone ==
  /\ cleanerPc = "select"
  /\ ctxDone
  /\ cleanerPc' = "done"
  /\ UNCHANGED <<lineChan, tailVars, pendingMap, mapMutex, assemblePc, line,
                 stale, ticker, chans, stopVars, history>>

CleanerTick ==
  /\ cleanerPc = "select"
  /\ tick
  /\ tick' = FALSE
  /\ cleanerPc' = "lock"
  /\ UNCHANGED <<lineChan, tailVars, pendingMap, mapMutex, assemblePc, line,
                 stale, phase, chans, stopVars, history>>

(* Lock the map and read the clock: what is stale is settled here.         *)
(* Faults: the map is not locked; groups that are not to be reported are   *)
(* kept.                                                                   *)
SweepUnlocked ==
  /\ cleanerPc = "lock"
  /\ stale' = {id \in DOMAIN pendingMap : pendingMap[id].age > Minute}
  /\ cleanerPc' = "sweep"
  /\ UNCHANGED <<lineChan, tailVars, pendingMap, mapMutex, assemblePc, line,
                 ticker, chans, stopVars, history>>

SweepReported ==
  /\ cleanerPc = "lock"
  /\ mapMutex = "free"
  /\ mapMutex' = "cleaner"
  /\ stale' = {id \in DOMAIN pendingMap :
                 pendingMap[id].age > Minute /\ pendingMap[id].fresh}
  /\ cleanerPc' = "sweep"
  /\ UNCHANGED <<lineChan, tailVars, pendingMap, assemblePc, line, ticker,
                 chans, stopVars, history>>

SweepBegin ==
  /\ cleanerPc = "lock"
  /\ mapMutex = "free"
  /\ mapMutex' = "cleaner"
  /\ stale' = {id \in DOMAIN pendingMap : pendingMap[id].age > Minute}
  /\ cleanerPc' = "sweep"
  /\ UNCHANGED <<lineChan, tailVars, pendingMap, assemblePc, line, ticker,
                 chans, stopVars, history>>

(* One turn of the loop over the map, in any order.  Only a group updated  *)
(* after the cleaner's startTime is reported.                              *)
Evict(id) ==
  /\ cleanerPc = "sweep"
  /\ id \in stale \cap DOMAIN pendingMap
  /\ stale' = stale \ {id}
  /\ errChan' = IF pendingMap[id].fresh
                THEN TrySend(errChan, ErrCap, Error("ErrMissingRequired", id))
                ELSE errChan
  /\ gone' = [gone EXCEPT ![id] = @ \cup Lookup(id)]
  /\ pendingMap' = Remove(id)
  /\ UNCHANGED <<lineChan, tailVars, mapMutex, assemblePc, line, cleanerPc,
                 ticker, outputChan, stopVars, handed>>

SweepEnd ==
  /\ cleanerPc = "sweep"
  /\ stale \cap DOMAIN pendingMap = {}
  /\ stale' = {}
  /\ mapMutex' = "free"
  /\ cleanerPc' = "select"
  /\ UNCHANGED <<lineChan, tailVars, pendingMap, assemblePc, line, ticker,
                 chans, stopVars, history>>

-----------------------------------------------------------------------------
(* Stop cancels the context, waits for both goroutines, closes the         *)
(* channels ("closed").                                                    *)
Stop ==
  /\ stopPc = "idle"
  /\ assemblePc # "off"
  /\ ctxDone' = TRUE
  /\ stopPc' = "waiting"
  /\ UNCHANGED <<lineChan, tailVars, pendingMap, mapMutex, assemblePc, line,
                 cleanerVars, ticker, chans, history>>

(* Fault: only the assembler is waited for. *)
StopCloseEarly ==
  /\ stopPc = "waiting"
  /\ assemblePc = "done"
  /\ stopPc' = "closed"
  /\ UNCHANGED <<lineChan, tailVars, pendingMap, mapMutex, assemblePc, line,
                 cleanerVars, ticker, chans, ctxDone, history>>

StopClose ==
  /\ stopPc = "waiting"
  /\ assemblePc = "done"
  /\ cleanerPc = "done"
  /\ stopPc' = "closed"
  /\ UNCHANGED <<lineChan, tailVars, pendingMap, mapMutex, assemblePc, line,
                 cleanerVars, ticker, chans, ctxDone, history>>

-----------------------------------------------------------------------------
(* The environment: the clock, the tail engine, the two consumers.         *)

(* A unit of time passes: the groups age, and at the end of a period the   *)
(* ticker leaves a tick unless one is still there.                         *)
ClockTick ==
  /\ pendingMap' = [id \in DOMAIN pendingMap |->
                      [pendingMap[id] EXCEPT
                         !.age = IF @ > Minute THEN @ ELSE @ + 1]]
  /\ IF cleanerPc \in {"off", "starting", "done"}
     THEN UNCHANGED ticker
     ELSE /\ phase' = (phase + 1) % Period
          /\ tick' = (tick \/ phase' = 0)
  /\ UNCHANGED <<lineChan, tailVars, mapMutex, assemblePc, line, cleanerVars,
                 chans, stopVars, history>>

NextLine(id) == [id |-> id, pos |-> tailed[id] + 1]

(* The tail engine reads the next line of an event and forwards it, or     *)
(* loses it when lineChan is full.                                         *)
ReadLine(id) ==
  /\ ~lineClosed
  /\ tailed[id] < Len(Log[id])
  /\ tailed' = [tailed EXCEPT ![id] = @ + 1]
  /\ lineChan' = TrySend(lineChan, LineCap, NextLine(id))
  /\ gone' = IF Len(lineChan) < LineCap \/ ~IsRecord(NextLine(id))
             THEN gone
             ELSE [gone EXCEPT ![id] = @ \cup {NextLine(id).pos}]
  /\ UNCHANGED <<lineClosed, pendingMap, mapMutex, assemblePc, line,
                 cleanerVars, ticker, chans, stopVars, handed>>

CloseLines ==
  /\ ~lineClosed
  /\ lineClosed' = TRUE
  /\ UNCHANGED <<lineChan, tailed, pendingMap, mapMutex, assemblePc, line,
                 cleanerVars, ticker, chans, stopVars, history>>

TakeGroup ==
  /\ outputChan # <<>>
  /\ outputChan' = Tail(outputChan)
  /\ UNCHANGED <<lineChan, tailVars, pendingMap, mapMutex, assemblePc, line,
                 cleanerVars, ticker, errChan, stopVars, history>>

TakeError ==
  /\ errChan # <<>>
  /\ errChan' = Tail(errChan)
  /\ UNCHANGED <<lineChan, tailVars, pendingMap, mapMutex, assemblePc, line,
                 cleanerVars, ticker, outputChan, stopVars, history>>

-----------------------------------------------------------------------------
Assembler == \/ AssembleDone \/ AssembleClosed \/ AssembleReceive
             \/ StoreRecord \/ HandOff

Cleaner == \/ CleanerStart \/ CleanerDone \/ CleanerTick
           \/ SweepBegin \/ SweepEnd \/ \E id \in Id : Evict(id)

Environment == \/ ClockTick \/ CloseLines \/ TakeGroup \/ TakeError
               \/ \E id \in Id : ReadLine(id)

Next == Start \/ Assembler \/ Cleaner \/ Stop \/ StopClose \/ Environment

Spec == Init /\ [][Next]_vars

(* What the Go runtime guarantees: a goroutine that can run runs, a select *)
(* does not pass over a ready case forever, a mutex is not withheld from a *)
(* waiter forever, and time passes.  Nothing is assumed of auditd, of the  *)
(* tail engine, of the consumers or of the caller of Stop.                 *)
Fairness ==
  /\ WF_vars(AssembleReceive) /\ WF_vars(AssembleClosed)
  /\ SF_vars(AssembleDone)
  /\ SF_vars(StoreRecord) /\ WF_vars(HandOff)
  /\ WF_vars(CleanerStart) /\ SF_vars(CleanerDone) /\ SF_vars(CleanerTick)
  /\ SF_vars(SweepBegin) /\ WF_vars(SweepEnd)
  /\ \A id \in Id : WF_vars(Evict(id))
  /\ WF_vars(StopClose)
  /\ WF_vars(ClockTick)

FairSpec == Spec /\ Fairness

-----------------------------------------------------------------------------
(* Properties.                                                             *)

TypeOK ==
  /\ lineChan \in Seq(Line) /\ Len(lineChan) <= LineCap
  /\ lineClosed \in BOOLEAN
  /\ DOMAIN pendingMap \subseteq Id
  /\ \A id \in DOMAIN pendingMap : pendingMap[id] \in Group
  /\ mapMutex \in {"free", "assembler", "cleaner"}
  /\ assemblePc \in {"off", "select", "lock", "check", "done"}
  /\ line \in Seq(Line)
  /\ Len(line) = IF assemblePc \in {"lock", "check"} THEN 1 ELSE 0
  /\ cleanerPc \in {"off", "starting", "select", "lock", "sweep", "done"}
  /\ stale \subseteq Id
  /\ phase \in 0 .. Period - 1
  /\ tick \in BOOLEAN
  /\ outputChan \in Seq(SentGroup) /\ Len(outputChan) <= OutCap
  /\ errChan \in Seq(Report) /\ Len(errChan) <= ErrCap
  /\ ctxDone \in BOOLEAN
  /\ stopPc \in {"idle", "waiting", "closed"}
  /\ tailed \in [Id -> Nat]
  /\ handed \in [Id -> SUBSET SUBSET (Nat \ {0})]
  /\ gone \in [Id -> SUBSET (Nat \ {0})]

(* Where the records of an event may be. *)
Queued(id) == {l.pos : l \in {m \in Range(lineChan) : m.id = id /\ IsRecord(m)}}
InHand(id) == IF assemblePc = "lock" /\ line[1].id = id THEN {line[1].pos} ELSE {}
Pending(id) == IF id \in DOMAIN pendingMap THEN pendingMap[id].lines ELSE {}
Handed(id) == UNION handed[id]
ReadRecords(id) == {p \in 1 .. tailed[id] : IsRecord([id |-> id, pos |-> p])}

(* Every record the tail engine has read is still on its way to the map,   *)
(* in the map, in a group handed off, or known to be lost: neither the     *)
(* cleaner running between two records of an event nor a late record makes *)
(* one disappear (processLine, runMapCleanerLoop).                         *)
NoRecordVanishes ==
  \A id \in Id :
    ReadRecords(id) \subseteq Queued(id) \cup InHand(id) \cup Pending(id)
                              \cup Handed(id) \cup gone[id]

(* However the records of an event arrive and however the sweeps fall      *)
(* between them, the dispatcher is given the event at most once: a record  *)
(* that comes after the group left the map starts a group that can never   *)
(* be completed (processLine, lines 132-140 and 172-181).                  *)
AtMostOnce ==
  \A id \in Id : \A g, h \in handed[id] : g = h

(* No complete group waits in the map: the record that completes a group   *)
(* is the one that sends it, whatever the order of the records.            *)
NoCompleteGroupWaits ==
  \A id \in DOMAIN pendingMap :
    Complete(id, pendingMap[id].lines) => assemblePc = "check" /\ line[1].id = id

(* Where the records required of the event include the one auditd writes   *)
(* last, PROCTITLE, the group handed off is the whole event but for lines  *)
(* that were lost on the way.                                              *)
HandedWhole(id) ==
  \A g \in handed[id] :
    {p \in DOMAIN Log[id] : IsRecord([id |-> id, pos |-> p])}
      \subseteq g \cup gone[id]

TitledEventsWhole ==
  \A id \in Id :
    (\A key \in KeysOf(id, DOMAIN Log[id]) :
       ~IsReadyToAssemble(key, RecordType \ {"PROCTITLE"}))
      => HandedWhole(id)

(* The same for every event: TestProcessLineNetworkConnectMapping          *)
(* (auditd_test.go:26-76) expects of a network_connect event a group with  *)
(* the CWD and PATH records that follow its SOCKADDR record.               *)
AllEventsWhole == \A id \in Id : HandedWhole(id)

(* A group leaves the map by being handed off, or else when no record of   *)
(* its event has been stored for more than a minute: the sweep's look at   *)
(* UpdatedAt and its delete are one critical section.                      *)
OnlyStaleEvicted ==
  [][\A id \in DOMAIN pendingMap \ DOMAIN pendingMap' :
       handed'[id] # handed[id] \/ pendingMap[id].age > Minute]_vars

(* Once Stop has closed the channels nothing is sent on them.              *)
NoSendAfterClose ==
  [][stopPc = "closed" => /\ Len(outputChan') <= Len(outputChan)
                          /\ Len(errChan') <= Len(errChan)]_vars

(* Stop returns: neither goroutine is kept from its context check by the   *)
(* mutex, by the channels or by the other.                                 *)
StopReturns == (stopPc = "waiting") ~> (stopPc = "closed")

(* No group stays in the map for ever, also those whose key is unknown and *)
(* those begun by a late record, while the collector runs.                 *)
GroupsLeave ==
  \A id \in Id : (id \in DOMAIN pendingMap) ~> (id \notin DOMAIN pendingMap \/ ctxDone)

(* An event whose required records have all been read is handed off, if    *)
(* none of its lines is lost and the collector is not stopped.             *)
CompleteEventsHanded ==
  \A id \in Id :
    Complete(id, ReadRecords(id)) ~>
      \/ handed[id] # {} \/ gone[id] # {}
      \/ assemblePc = "off" \/ ctxDone \/ lineClosed

-----------------------------------------------------------------------------
(* The collector implements EventAssembly: what an event has collected is  *)
(* what its group in the map holds.                                        *)
EventKey(id) ==
  LET keys == KeysOf(id, DOMAIN Log[id])
  IN  IF keys = {} THEN "" ELSE CHOOSE key \in keys : TRUE

Assembly == INSTANCE EventAssembly WITH
  Event     <- Id,
  KeyOf     <- [id \in Id |-> EventKey(id)],
  held      <- [id \in Id |-> Present(id, Pending(id))],
  delivered <- {id \in Id : handed[id] # {}}

(* Every step of the collector is a step of EventAssembly or changes       *)
(* nothing it sees.                                                        *)
ImplementsAssembly == Assembly!Spec
=============================================================================
