------------------------ MODULE AuditdCollectorProofs ------------------------
(***************************************************************************)
(* Theorems about the collector: its type invariant, the safety properties *)
(* of AuditdCollector and that it implements EventAssembly, for every log, *)
(* every capacity, every period and every eviction age.                    *)
(***************************************************************************)
EXTENDS AuditdCollector, ChannelTheorems

-----------------------------------------------------------------------------
(* Channels.                                                               *)

(* A send that drops keeps a bounded channel bounded.                      *)
LEMMA TrySendBounded ==
  ASSUME NEW S, NEW chan \in Seq(S), NEW cap \in Nat, Len(chan) <= cap,
         NEW x \in S
  PROVE  /\ TrySend(chan, cap, x) \in Seq(S)
         /\ Len(TrySend(chan, cap, x)) <= cap
  BY DEF TrySend

-----------------------------------------------------------------------------
(* The strengthening that makes the properties inductive.                  *)

(* The mutex is held exactly in the two critical sections.                 *)
MutexInv ==
  /\ mapMutex = "assembler" <=> assemblePc = "check"
  /\ mapMutex = "cleaner" <=> cleanerPc = "sweep"
  /\ assemblePc = "off" => cleanerPc = "off"

(* What a sweep has still to evict is in the map, and still stale.         *)
SweepInv ==
  /\ cleanerPc # "sweep" => stale = {}
  /\ \A id \in stale : id \in DOMAIN pendingMap /\ pendingMap[id].age > Minute

(* The line at hand is a record; after it is stored its group is in the map.*)
HandInv ==
  /\ assemblePc \in {"lock", "check"} => IsRecord(line[1])
  /\ assemblePc = "check" => line[1].id \in DOMAIN pendingMap

BaseInv == TypeOK /\ MutexInv /\ SweepInv /\ HandInv

USE BoundsAssumption, LogAssumption

(* The line at hand, while there is one.                                   *)
LEMMA LineAtHand ==
  ASSUME TypeOK, assemblePc \in {"lock", "check"}
  PROVE  /\ line[1] \in Line /\ line[1].id \in Id /\ line[1].pos \in Nat \ {0}
         /\ line[1].pos \in DOMAIN Log[line[1].id]
<1>1. line[1] \in Line
  <2>1. line \in Seq(Line) /\ 1 \in 1 .. Len(line)
    BY DEF TypeOK
  <2> QED
    BY <2>1, ElementOfSeq
<1> QED
  BY <1>1 DEF Line

(* Nothing has happened initially.                                         *)
LEMMA InitBase == Init => BaseInv
<1> SUFFICES ASSUME Init PROVE BaseInv
  OBVIOUS
<1>1. /\ lineChan \in Seq(Line) /\ Len(lineChan) <= LineCap
      /\ line \in Seq(Line) /\ Len(line) = 0
      /\ outputChan \in Seq(SentGroup) /\ Len(outputChan) <= OutCap
      /\ errChan \in Seq(Report) /\ Len(errChan) <= ErrCap
  BY EmptySeq DEF Init
<1>2. DOMAIN pendingMap = {} /\ stale = {}
  BY DEF Init
<1>3. /\ tailed \in [Id -> Nat]
      /\ handed \in [Id -> SUBSET SUBSET (Nat \ {0})]
      /\ gone \in [Id -> SUBSET (Nat \ {0})]
      /\ phase \in 0 .. Period - 1
  BY DEF Init
<1>4. TypeOK
  <2>1. Len(line) = IF assemblePc \in {"lock", "check"} THEN 1 ELSE 0
    BY <1>1 DEF Init
  <2> QED
    BY <1>1, <1>2, <1>3, <2>1 DEF Init, TypeOK
<1>5. MutexInv /\ SweepInv /\ HandInv
  BY <1>2 DEF Init, MutexInv, SweepInv, HandInv
<1> QED
  BY <1>4, <1>5 DEF BaseInv

(* Every step keeps the variables in their types.                          *)
LEMMA StepTypeOK == BaseInv /\ [Next]_vars => TypeOK'
<1> SUFFICES ASSUME BaseInv, [Next]_vars PROVE TypeOK'
  OBVIOUS
<1> USE DEF BaseInv, tailVars, cleanerVars, ticker, chans, stopVars, history
<1>1. CASE Start
  BY <1>1 DEF Start, TypeOK, MutexInv
<1>2. CASE AssembleDone
  BY <1>2 DEF AssembleDone, TypeOK
<1>3. CASE AssembleClosed
  BY <1>3 DEF AssembleClosed, TypeOK
<1>4. CASE AssembleReceive
  <2> DEFINE l == Head(lineChan)
  <2>1. /\ l \in Line /\ Tail(lineChan) \in Seq(Line)
        /\ Len(Tail(lineChan)) <= LineCap
    BY <1>4, HeadTailProperties DEF AssembleReceive, TypeOK
  <2>2. /\ errChan' \in Seq(Report)
        /\ Len(errChan') <= ErrCap
    <3>1. Error("ErrInvalidFragment", l.id) \in Report
      BY <2>1 DEF Error, Report, Line
    <3> QED
      BY <1>4, <3>1, TrySendBounded DEF AssembleReceive, TypeOK
  <2>3. /\ line' \in Seq(Line)
        /\ Len(line') = IF assemblePc' \in {"lock", "check"} THEN 1 ELSE 0
        /\ assemblePc' \in {"off", "select", "lock", "check", "done"}
    <3>1. CASE IsRecord(l)
      <4>1. line' = <<l>> /\ assemblePc' = "lock"
        BY <1>4, <3>1 DEF AssembleReceive
      <4> HIDE DEF l
      <4> QED
        BY <2>1, <4>1
    <3>2. CASE ~IsRecord(l)
      BY <1>4, <3>2 DEF AssembleReceive, TypeOK
    <3> QED
      BY <3>1, <3>2
  <2> QED
    BY <1>4, <2>1, <2>2, <2>3 DEF AssembleReceive, TypeOK
<1>5. CASE StoreRecord
  <2> DEFINE l == line[1]
  <2>1. l \in Line /\ l.id \in Id /\ l.pos \in Nat \ {0}
    BY <1>5, LineAtHand DEF StoreRecord
  <2>2. Lookup(l.id) \subseteq Nat \ {0}
    BY DEF Lookup, TypeOK, Group
  <2>3. /\ errChan' \in Seq(Report)
        /\ Len(errChan') <= ErrCap
    <3>1. Error("ErrInvalidFragment", l.id) \in Report
      BY <2>1 DEF Error, Report
    <3> QED
      BY <1>5, <3>1, TrySendBounded DEF StoreRecord, TypeOK
  <2>4. /\ DOMAIN pendingMap' \subseteq Id
        /\ \A id \in DOMAIN pendingMap' : pendingMap'[id] \in Group
    <3> DEFINE held     == Lookup(l.id)
               replaced == {p \in held : /\ LineOf(l).type # "PATH"
                                         /\ Log[l.id][p].type = LineOf(l).type}
               group    == [lines |-> (held \ replaced) \cup {l.pos}, age |-> 0,
                            fresh |-> cleanerPc # "starting"]
    <3>1. group \in Group
      BY <2>1, <2>2 DEF Group, Age
    <3>2. pendingMap' = [id \in DOMAIN pendingMap \cup {l.id} |->
                           IF id = l.id THEN group ELSE pendingMap[id]]
      BY <1>5 DEF StoreRecord
    <3> HIDE DEF group
    <3> QED
      BY <2>1, <3>1, <3>2 DEF TypeOK
  <2>5. gone' \in [Id -> SUBSET (Nat \ {0})]
    BY <1>5, <2>1, <2>2 DEF StoreRecord, TypeOK
  <2> QED
    BY <1>5, <2>3, <2>4, <2>5 DEF StoreRecord, TypeOK
<1>6. CASE HandOff
  <2> DEFINE id == line[1].id
             lines == Lookup(id)
  <2>1. id \in Id /\ lines \subseteq Nat \ {0}
    <3>1. id \in Id
      BY <1>6, LineAtHand DEF HandOff
    <3> QED
      BY <3>1 DEF TypeOK, Lookup, Group
  <2>2. CASE Complete(id, lines)
    <3>1. /\ Error("ErrBufferOverflow", id) \in Report
          /\ [id |-> id, lines |-> lines] \in SentGroup
      BY <2>1 DEF Error, Report, SentGroup
    <3>2. /\ outputChan' \in Seq(SentGroup)
          /\ Len(outputChan') <= OutCap
      <4> HIDE DEF id, lines
      <4>1. outputChan' = TrySend(outputChan, OutCap, [id |-> id, lines |-> lines])
        BY <1>6, <2>2 DEF HandOff, SendGroup, id, lines
      <4> QED
        BY <3>1, <4>1, TrySendBounded DEF TypeOK
    <3>3. /\ errChan' \in Seq(Report)
          /\ Len(errChan') <= ErrCap
      <4> HIDE DEF id, lines
      <4>1. errChan' = IF Len(outputChan) < OutCap THEN errChan
                       ELSE TrySend(errChan, ErrCap, Error("ErrBufferOverflow", id))
        BY <1>6, <2>2 DEF HandOff, SendGroup, id, lines
      <4> QED
        BY <3>1, <4>1, TrySendBounded DEF TypeOK
    <3>4. /\ DOMAIN pendingMap' \subseteq Id
          /\ \A i \in DOMAIN pendingMap' : pendingMap'[i] \in Group
      BY <1>6, <2>2 DEF HandOff, SendGroup, Remove, Restrict, TypeOK
    <3>5. handed' \in [Id -> SUBSET SUBSET (Nat \ {0})]
      <4>1. handed' = [handed EXCEPT ![id] = @ \cup {lines}]
        BY <1>6, <2>2 DEF HandOff, SendGroup
      <4> HIDE DEF id, lines
      <4> QED
        BY <2>1, <4>1 DEF TypeOK
    <3> QED
      BY <1>6, <3>2, <3>3, <3>4, <3>5, SMTT(20) DEF HandOff, LineDone, TypeOK
  <2>3. CASE ~Complete(id, lines)
    BY <1>6, <2>3 DEF HandOff, LineDone, TypeOK
  <2> QED
    BY <2>2, <2>3
<1>7. CASE CleanerStart
  BY <1>7 DEF CleanerStart, TypeOK
<1>8. CASE CleanerDone
  BY <1>8 DEF CleanerDone, TypeOK
<1>9. CASE CleanerTick
  BY <1>9 DEF CleanerTick, TypeOK
<1>10. CASE SweepBegin
  BY <1>10 DEF SweepBegin, TypeOK
<1>11. CASE SweepEnd
  BY <1>11 DEF SweepEnd, TypeOK
<1>12. ASSUME NEW id \in Id, Evict(id) PROVE TypeOK'
  <2>1. Lookup(id) \subseteq Nat \ {0}
    BY DEF Lookup, TypeOK, Group
  <2>2. /\ errChan' \in Seq(Report)
        /\ Len(errChan') <= ErrCap
    <3>1. Error("ErrMissingRequired", id) \in Report
      BY DEF Error, Report
    <3> QED
      BY <1>12, <3>1, TrySendBounded DEF Evict, TypeOK
  <2>3. /\ DOMAIN pendingMap' \subseteq Id
        /\ \A i \in DOMAIN pendingMap' : pendingMap'[i] \in Group
    BY <1>12 DEF Evict, Remove, Restrict, TypeOK
  <2>4. gone' \in [Id -> SUBSET (Nat \ {0})]
    BY <1>12, <2>1 DEF Evict, TypeOK
  <2> QED
    BY <1>12, <2>2, <2>3, <2>4 DEF Evict, TypeOK
<1>13. CASE Stop
  BY <1>13 DEF Stop, TypeOK
<1>14. CASE StopClose
  BY <1>14 DEF StopClose, TypeOK
<1>15. CASE ClockTick
  <2>1. ASSUME NEW id \in DOMAIN pendingMap'
        PROVE  pendingMap'[id] \in Group
    <3>1. /\ id \in DOMAIN pendingMap
          /\ pendingMap'[id] = [pendingMap[id] EXCEPT
                                 !.age = IF @ > Minute THEN @ ELSE @ + 1]
      BY <1>15 DEF ClockTick
    <3>2. pendingMap[id] \in Group /\ pendingMap[id].age \in Age
      BY <3>1 DEF TypeOK, Group
    <3>3. (IF pendingMap[id].age > Minute
           THEN pendingMap[id].age ELSE pendingMap[id].age + 1) \in Age
      BY <3>2 DEF Age
    <3> QED
      BY <3>1, <3>2, <3>3 DEF Group
  <2>2. phase' \in 0 .. Period - 1 /\ tick' \in BOOLEAN
    <3>1. Period \in Nat \ {0} /\ phase \in Nat
      BY DEF TypeOK
    <3>2. (phase + 1) % Period \in 0 .. Period - 1
      BY <3>1
    <3>3. CASE cleanerPc \in {"off", "starting", "done"}
      BY <1>15, <3>3 DEF ClockTick, TypeOK
    <3>4. CASE cleanerPc \notin {"off", "starting", "done"}
      <4>1. phase' = (phase + 1) % Period /\ tick' = (tick \/ phase' = 0)
        BY <1>15, <3>4 DEF ClockTick
      <4>2. tick' \in BOOLEAN
        BY <4>1
      <4> QED
        BY <3>2, <4>1, <4>2
    <3> QED
      BY <3>3, <3>4
  <2> QED
    BY <1>15, <2>1, <2>2 DEF ClockTick, TypeOK
<1>16. CASE CloseLines
  BY <1>16 DEF CloseLines, TypeOK
<1>17. CASE TakeGroup
  BY <1>17, HeadTailProperties DEF TakeGroup, TypeOK
<1>18. CASE TakeError
  BY <1>18, HeadTailProperties DEF TakeError, TypeOK
<1>19. ASSUME NEW id \in Id, ReadLine(id) PROVE TypeOK'
  <2>1. tailed[id] \in Nat /\ tailed[id] + 1 \in DOMAIN Log[id]
    BY <1>19 DEF ReadLine, TypeOK
  <2>2. NextLine(id) \in Line
    BY <2>1 DEF NextLine, Line
  <2>3. lineChan' \in Seq(Line) /\ Len(lineChan') <= LineCap
    BY <1>19, <2>2, TrySendBounded DEF ReadLine, TypeOK
  <2>4. gone' \in [Id -> SUBSET (Nat \ {0})]
    <3>1. gone \in [Id -> SUBSET (Nat \ {0})] /\ NextLine(id).pos \in Nat \ {0}
      BY <2>1 DEF TypeOK, NextLine
    <3>2. gone' = gone \/ gone' = [gone EXCEPT ![id] = @ \cup {NextLine(id).pos}]
      BY <1>19 DEF ReadLine
    <3> QED
      BY <3>1, <3>2
  <2>5. tailed' \in [Id -> Nat]
    <3>1. tailed \in [Id -> Nat] /\ tailed' = [tailed EXCEPT ![id] = @ + 1]
      BY <1>19 DEF ReadLine, TypeOK
    <3> QED
      BY <3>1
  <2> QED
    BY <1>19, <2>3, <2>4, <2>5, SMTT(20) DEF ReadLine, TypeOK
<1>20. CASE UNCHANGED vars
  BY <1>20 DEF vars, TypeOK
<1> QED
  BY <1>1, <1>2, <1>3, <1>4, <1>5, <1>6, <1>7, <1>8, <1>9, <1>10, <1>11,
     <1>12, <1>13, <1>14, <1>15, <1>16, <1>17, <1>18, <1>19, <1>20
  DEF Next, Assembler, Cleaner, Environment

(* Every step keeps the mutex with its holder, the sweep's entries in the  *)
(* map and the line at hand a record.                                      *)
LEMMA StepBase == BaseInv /\ [Next]_vars => BaseInv'
<1> SUFFICES ASSUME BaseInv, [Next]_vars PROVE BaseInv'
  OBVIOUS
<1>1. TypeOK'
  BY StepTypeOK
<1>2. MutexInv'
  BY DEF BaseInv, MutexInv, TypeOK, vars, Next, Assembler, Cleaner, Environment,
     Start, AssembleDone, AssembleClosed, AssembleReceive, StoreRecord, HandOff,
     LineDone, CleanerStart, CleanerDone, CleanerTick, SweepBegin, SweepEnd,
     Evict, Stop, StopClose, ClockTick, CloseLines, TakeGroup, TakeError,
     ReadLine, tailVars, cleanerVars, ticker, chans, stopVars, history
<1>3. SweepInv'
  <2> USE DEF BaseInv, SweepInv, tailVars, cleanerVars, ticker, chans, stopVars,
              history
  <2>1. CASE StoreRecord
    <3>1. stale = {} /\ stale' = {}
      BY <2>1 DEF StoreRecord, MutexInv
    <3> QED
      BY <3>1
  <2>2. CASE HandOff
    <3>1. stale = {} /\ stale' = {}
      BY <2>2 DEF HandOff, LineDone, MutexInv
    <3> QED
      BY <3>1
  <2>3. ASSUME NEW id \in Id, Evict(id) PROVE SweepInv'
    BY <2>3 DEF Evict, Remove, Restrict
  <2>4. CASE ClockTick
    <3>1. ASSUME NEW id \in stale
          PROVE  id \in DOMAIN pendingMap' /\ pendingMap'[id].age > Minute
      <4>1. /\ id \in DOMAIN pendingMap' /\ pendingMap[id] \in Group
            /\ pendingMap'[id] = [pendingMap[id] EXCEPT
                                   !.age = IF @ > Minute THEN @ ELSE @ + 1]
        BY <2>4, <3>1 DEF ClockTick, TypeOK
      <4>2. pendingMap'[id].age = pendingMap[id].age
        BY <4>1, <3>1 DEF Group
      <4> QED
        BY <4>1, <4>2, <3>1
    <3> QED
      BY <2>4, <3>1 DEF ClockTick
  <2>5. CASE SweepBegin \/ SweepEnd
    BY <2>5 DEF SweepBegin, SweepEnd
  <2>6. CASE CleanerStart \/ CleanerDone \/ CleanerTick \/ Start
    BY <2>6 DEF CleanerStart, CleanerDone, CleanerTick, Start, MutexInv
  <2>7. CASE UNCHANGED <<pendingMap, cleanerPc, stale>>
    BY <2>7
  <2> QED
    BY <2>1, <2>2, <2>3, <2>4, <2>5, <2>6, <2>7
    DEF vars, Next, Assembler, Cleaner, Environment, AssembleDone,
        AssembleClosed, AssembleReceive, Stop, StopClose, CloseLines,
        TakeGroup, TakeError, ReadLine
<1>4. HandInv'
  <2> USE DEF BaseInv, HandInv, tailVars, cleanerVars, ticker, chans, stopVars,
              history
  <2>1. CASE AssembleReceive
    <3>1. assemblePc' = "select" \/
            (assemblePc' = "lock" /\ line'[1] = Head(lineChan)
             /\ IsRecord(Head(lineChan)))
      BY <2>1 DEF AssembleReceive
    <3> QED
      BY <3>1 DEF IsRecord, LineOf
  <2>2. CASE StoreRecord
    BY <2>2 DEF StoreRecord, IsRecord, LineOf
  <2>3. CASE HandOff
    BY <2>3 DEF HandOff, LineDone
  <2>4. ASSUME NEW id \in Id, Evict(id) PROVE HandInv'
    BY <2>4 DEF Evict, MutexInv, IsRecord, LineOf
  <2>5. CASE ClockTick
    BY <2>5 DEF ClockTick, IsRecord, LineOf
  <2>6. CASE AssembleDone \/ AssembleClosed \/ Start
    BY <2>6 DEF AssembleDone, AssembleClosed, Start
  <2>7. CASE UNCHANGED <<pendingMap, assemblePc, line>>
    BY <2>7 DEF IsRecord, LineOf
  <2> QED
    BY <2>1, <2>2, <2>3, <2>4, <2>5, <2>6, <2>7
    DEF vars, Next, Assembler, Cleaner, Environment, CleanerStart, CleanerDone,
        CleanerTick, SweepBegin, SweepEnd, Stop, StopClose, CloseLines,
        TakeGroup, TakeError, ReadLine
<1> QED
  BY <1>1, <1>2, <1>3, <1>4 DEF BaseInv

(* The collector never leaves the types of its variables; in particular no *)
(* channel ever holds more than its capacity.                              *)
THEOREM TypeCorrect == Spec => []TypeOK
<1>1. Init => BaseInv
  BY InitBase
<1>2. BaseInv /\ [Next]_vars => BaseInv'
  BY StepBase
<1>3. BaseInv => TypeOK
  BY DEF BaseInv
<1> QED
  BY <1>1, <1>2, <1>3, PTL DEF Spec

-----------------------------------------------------------------------------
(* A record is in one place.                                               *)

(* The lines in lineChan and the record waiting for the mutex.             *)
OnTheWay == Range(lineChan) \cup (IF assemblePc = "lock" THEN {line[1]} ELSE {})

Kept(id) == Pending(id) \cup Handed(id)

(* No line is twice in lineChan; a line of the map or of a group handed    *)
(* off has been read and is not on its way any more; and what was handed   *)
(* off is not in the map.                                                  *)
PlaceInv ==
  /\ \A id \in Id : tailed[id] <= Len(Log[id])
  /\ IsInjective(lineChan)
  /\ assemblePc = "lock" => line[1] \notin Range(lineChan)
  /\ \A l \in OnTheWay : l.pos <= tailed[l.id]
  /\ \A id \in Id : \A p \in Kept(id) :
       p \in 1 .. tailed[id] /\ [id |-> id, pos |-> p] \notin OnTheWay
  /\ \A id \in Id : Pending(id) \cap Handed(id) = {}

(* Every group handed off has the SYSCALL record of its event.             *)
SyscallInv ==
  \A id \in Id : \A g \in handed[id] :
    \E p \in g \cap DOMAIN Log[id] : Log[id][p].type = "SYSCALL"

DoneInv == stopPc = "closed" => assemblePc = "done" /\ cleanerPc = "done"

IInv == /\ BaseInv /\ PlaceInv /\ SyscallInv
        /\ AtMostOnce /\ NoCompleteGroupWaits /\ DoneInv

(* The inductive invariant holds initially, where no event is in the map.  *)
LEMMA InitIInv == Init => IInv
<1> SUFFICES ASSUME Init PROVE IInv
  OBVIOUS
<1>1. lineChan = <<>> /\ Range(lineChan) = {} /\ assemblePc = "off"
  BY DEF Init, Range
<1>2. \A id \in Id : Pending(id) = {} /\ handed[id] = {} /\ Handed(id) = {}
  BY DEF Init, Pending, Handed
<1>3. PlaceInv
  <2>1. IsInjective(lineChan)
    BY <1>1 DEF IsInjective
  <2>2. \A id \in Id : tailed[id] <= Len(Log[id])
    BY DEF Init
  <2> QED
    BY <1>1, <1>2, <2>1, <2>2 DEF PlaceInv, OnTheWay, Kept
<1>4. SyscallInv /\ AtMostOnce
  BY <1>2 DEF SyscallInv, AtMostOnce
<1>5. NoCompleteGroupWaits /\ DoneInv
  BY DEF Init, NoCompleteGroupWaits, DoneInv
<1> QED
  BY <1>3, <1>4, <1>5, InitBase DEF IInv

(* What each action that touches the map leaves in it.                     *)
LEMMA StoredGroup ==
  ASSUME BaseInv, StoreRecord
  PROVE  /\ \A id \in Id : id # line[1].id => Pending(id)' = Pending(id)
         /\ Pending(line[1].id)' \subseteq Pending(line[1].id) \cup {line[1].pos}
         /\ line[1].pos \in Pending(line[1].id)'
         /\ Pending(line[1].id) \ Pending(line[1].id)' \subseteq gone'[line[1].id]
         /\ \A id \in Id : gone[id] \subseteq gone'[id]
<1> DEFINE l        == line[1]
           replaced == {p \in Lookup(l.id) : /\ LineOf(l).type # "PATH"
                                             /\ Log[l.id][p].type = LineOf(l).type}
           group    == [lines |-> (Lookup(l.id) \ replaced) \cup {l.pos}, age |-> 0,
                        fresh |-> cleanerPc # "starting"]
<1>1. l.id \in Id
  BY LineAtHand DEF StoreRecord, BaseInv
<1>2. /\ pendingMap' = [id \in DOMAIN pendingMap \cup {l.id} |->
                          IF id = l.id THEN group ELSE pendingMap[id]]
      /\ gone' = [gone EXCEPT ![l.id] = @ \cup replaced]
  BY DEF StoreRecord
<1>3. Pending(l.id) = Lookup(l.id)
  BY DEF Pending, Lookup
<1>4. l.id \in DOMAIN pendingMap' /\ pendingMap'[l.id] = group
  BY <1>2
<1>5. Pending(l.id)' = (Lookup(l.id) \ replaced) \cup {l.pos}
  <2>1. l' = l
    BY DEF StoreRecord
  <2>2. (IF l.id \in DOMAIN pendingMap' THEN pendingMap'[l.id].lines ELSE {}) =
        (Lookup(l.id) \ replaced) \cup {l.pos}
    BY <1>4
  <2> QED
    BY <2>1, <2>2 DEF Pending
<1>6. \A id \in Id : id # l.id => Pending(id)' = Pending(id)
  BY <1>2 DEF Pending
<1>7. gone \in [Id -> SUBSET (Nat \ {0})]
  BY DEF BaseInv, TypeOK
<1> HIDE DEF replaced, group
<1>8. replaced \subseteq gone'[l.id] /\ \A id \in Id : gone[id] \subseteq gone'[id]
  BY <1>1, <1>2, <1>7
<1> QED
  BY <1>3, <1>5, <1>6, <1>8

(* The same of HandOff: a complete group leaves the map, any other stays.  *)
LEMMA HandedGroup ==
  ASSUME BaseInv, HandOff, NEW id \in Id
  PROVE  /\ id # line[1].id \/ ~Complete(id, Pending(id)) =>
              /\ Pending(id)' = Pending(id)
              /\ handed'[id] = handed[id]
              /\ id \in DOMAIN pendingMap <=> id \in DOMAIN pendingMap'
         /\ id = line[1].id /\ Complete(id, Pending(id)) =>
              /\ Pending(id)' = {}
              /\ id \notin DOMAIN pendingMap'
              /\ handed'[id] = handed[id] \cup {Pending(id)}
<1>1. line[1].id \in Id
  BY LineAtHand DEF HandOff, BaseInv
<1>2. Pending(line[1].id) = Lookup(line[1].id)
  BY DEF Pending, Lookup
<1>3. CASE ~Complete(line[1].id, Lookup(line[1].id))
  <2>1. UNCHANGED <<pendingMap, handed>>
    BY <1>3 DEF HandOff
  <2> QED
    BY <1>2, <1>3, <2>1 DEF Pending
<1>4. CASE Complete(line[1].id, Lookup(line[1].id))
  <2>1. /\ pendingMap' = Remove(line[1].id)
        /\ handed' = [handed EXCEPT ![line[1].id] = @ \cup {Lookup(line[1].id)}]
    BY <1>4 DEF HandOff, SendGroup
  <2>2. handed \in [Id -> SUBSET SUBSET (Nat \ {0})]
    BY DEF BaseInv, TypeOK
  <2>3. handed'[id] = IF id = line[1].id THEN handed[id] \cup {Lookup(id)} ELSE handed[id]
    BY <1>1, <2>1, <2>2
  <2>4. /\ DOMAIN pendingMap' = DOMAIN pendingMap \ {line[1].id}
        /\ \A e \in DOMAIN pendingMap' : pendingMap'[e] = pendingMap[e]
    BY <2>1 DEF Remove, Restrict
  <2> QED
    BY <1>2, <1>4, <2>3, <2>4 DEF Pending
<1> QED
  BY <1>3, <1>4

(* The same of Evict: only the group evicted leaves the map.               *)
LEMMA EvictedGroup ==
  ASSUME BaseInv, NEW e \in Id, Evict(e), NEW id \in Id
  PROVE  /\ id # e => Pending(id)' = Pending(id) /\ gone'[id] = gone[id]
         /\ id = e => Pending(id)' = {} /\ gone'[id] = gone[id] \cup Pending(id)
<1>1. /\ pendingMap' = Remove(e)
      /\ gone' = [gone EXCEPT ![e] = @ \cup Lookup(e)]
  BY DEF Evict
<1>2. gone \in [Id -> SUBSET (Nat \ {0})]
  BY DEF BaseInv, TypeOK
<1> QED
  BY <1>1, <1>2 DEF Pending, Lookup, Remove, Restrict

(* The same of ClockTick: groups only age.                                 *)
LEMMA AgedGroup ==
  ASSUME BaseInv, ClockTick, NEW id \in Id
  PROVE  Pending(id)' = Pending(id)
<1>1. CASE id \in DOMAIN pendingMap
  <2>1. /\ id \in DOMAIN pendingMap' /\ pendingMap[id] \in Group
        /\ pendingMap'[id] = [pendingMap[id] EXCEPT
                               !.age = IF @ > Minute THEN @ ELSE @ + 1]
    BY <1>1 DEF ClockTick, BaseInv, TypeOK
  <2>2. pendingMap'[id].lines = pendingMap[id].lines
    BY <2>1 DEF Group
  <2> QED
    BY <1>1, <2>1, <2>2 DEF Pending
<1>2. CASE id \notin DOMAIN pendingMap
  BY <1>2 DEF ClockTick, Pending
<1> QED
  BY <1>1, <1>2

(* An action that puts nothing on the way and nothing in the map or the    *)
(* groups handed off keeps each record in one place.                       *)
LEMMA NothingNew ==
  ASSUME BaseInv, PlaceInv,
         UNCHANGED tailed,
         IsInjective(lineChan)',
         (assemblePc = "lock" => line[1] \notin Range(lineChan))',
         OnTheWay' \subseteq OnTheWay,
         \A id \in Id : /\ Kept(id)' \subseteq Kept(id)
                        /\ Pending(id)' \cap Handed(id)' = {}
  PROVE  PlaceInv'
BY DEF PlaceInv

(* Every step leaves each record in one place.                             *)
LEMMA StepPlace == BaseInv /\ PlaceInv /\ [Next]_vars => PlaceInv'
<1> SUFFICES ASSUME BaseInv, PlaceInv, [Next]_vars PROVE PlaceInv'
  OBVIOUS
<1> USE DEF tailVars, cleanerVars, ticker, chans, stopVars, history
<1>1. CASE AssembleReceive
  <2>1. /\ Head(lineChan) \in Range(lineChan)
        /\ Range(lineChan) = Range(Tail(lineChan)) \cup {Head(lineChan)}
        /\ IsInjective(Tail(lineChan))
        /\ Head(lineChan) \notin Range(Tail(lineChan))
    BY <1>1, ReceiveRange, ReceiveDistinct
    DEF AssembleReceive, BaseInv, TypeOK, PlaceInv
  <2>2. /\ lineChan' = Tail(lineChan)
        /\ UNCHANGED <<tailed, pendingMap, handed>>
        /\ \/ assemblePc' = "select"
           \/ assemblePc' = "lock" /\ line'[1] = Head(lineChan)
    BY <1>1 DEF AssembleReceive
  <2>3. OnTheWay' \subseteq OnTheWay
    BY <2>1, <2>2 DEF OnTheWay
  <2>4. \A id \in Id : Pending(id)' = Pending(id) /\ Handed(id)' = Handed(id)
    BY <2>2 DEF Pending, Handed
  <2> QED
    BY <2>1, <2>2, <2>3, <2>4, NothingNew DEF Kept, PlaceInv
<1>2. CASE StoreRecord
  <2>1. /\ line[1] \in OnTheWay /\ line[1] \notin Range(lineChan)
        /\ line[1].id \in Id /\ line[1].pos \in 1 .. tailed[line[1].id]
        /\ line[1] = [id |-> line[1].id, pos |-> line[1].pos]
    <3>1. /\ line[1] \in Line /\ line[1].id \in Id
          /\ line[1].pos \in Nat \ {0}
      BY <1>2, LineAtHand DEF StoreRecord, BaseInv
    <3>2. line[1] = [id |-> line[1].id, pos |-> line[1].pos]
      BY <3>1 DEF Line
    <3>3. line[1].pos <= tailed[line[1].id] /\ tailed[line[1].id] \in Nat
      BY <1>2, <3>1 DEF StoreRecord, PlaceInv, OnTheWay, BaseInv, TypeOK
    <3> QED
      BY <1>2, <3>1, <3>2, <3>3 DEF StoreRecord, OnTheWay, PlaceInv
  <2>2. OnTheWay' = Range(lineChan) /\ UNCHANGED <<lineChan, tailed, handed, line>>
    BY <1>2 DEF StoreRecord, OnTheWay
  <2>3. ASSUME NEW id \in Id, NEW p \in Kept(id)'
        PROVE  p \in 1 .. tailed[id] /\ [id |-> id, pos |-> p] \notin OnTheWay'
    <3>1. p \in Kept(id) \/ (id = line[1].id /\ p = line[1].pos)
      BY <1>2, <2>2, StoredGroup DEF Kept, Handed
    <3>2. CASE p \in Kept(id)
      BY <2>2, <3>2 DEF PlaceInv, OnTheWay
    <3>3. CASE id = line[1].id /\ p = line[1].pos
      BY <2>1, <2>2, <3>3
    <3> QED
      BY <3>1, <3>2, <3>3
  <2>4. ASSUME NEW id \in Id PROVE Pending(id)' \cap Handed(id)' = {}
    <3>1. Handed(id)' = Handed(id) /\ Pending(id) \cap Handed(id) = {}
      BY <2>2 DEF Handed, PlaceInv
    <3>2. CASE id # line[1].id
      BY <1>2, <3>1, <3>2, StoredGroup
    <3>3. CASE id = line[1].id
      <4>1. line[1].pos \notin Handed(id)
        BY <2>1, <3>3 DEF PlaceInv, Kept
      <4>2. Pending(id)' \subseteq Pending(id) \cup {line[1].pos}
        BY <1>2, <2>2, <3>3, StoredGroup DEF Pending
      <4> QED
        BY <3>1, <4>1, <4>2
    <3> QED
      BY <3>2, <3>3
  <2> QED
    BY <1>2, <2>2, <2>3, <2>4 DEF PlaceInv, OnTheWay, StoreRecord
<1>3. CASE HandOff
  <2>1. UNCHANGED <<lineChan, tailed>> /\ assemblePc' = "select"
    BY <1>3 DEF HandOff, LineDone
  <2>2. OnTheWay' \subseteq OnTheWay
    BY <2>1 DEF OnTheWay
  <2>3. ASSUME NEW id \in Id
        PROVE  Kept(id)' \subseteq Kept(id) /\ Pending(id)' \cap Handed(id)' = {}
    <3>1. CASE id # line[1].id \/ ~Complete(id, Pending(id))
      BY <1>3, <3>1, HandedGroup DEF Kept, Handed, PlaceInv
    <3>2. CASE id = line[1].id /\ Complete(id, Pending(id))
      BY <1>3, <3>2, HandedGroup DEF Kept, Handed
    <3> QED
      BY <3>1, <3>2
  <2> QED
    BY <2>1, <2>2, <2>3, NothingNew DEF PlaceInv
<1>4. ASSUME NEW e \in Id, Evict(e) PROVE PlaceInv'
  <2>1. UNCHANGED <<lineChan, tailed, assemblePc, line, handed>>
    BY <1>4 DEF Evict
  <2>2. \A id \in Id : Pending(id)' \subseteq Pending(id) /\ Handed(id)' = Handed(id)
    BY <1>4, <2>1, EvictedGroup DEF Handed
  <2> QED
    BY <2>1, <2>2, NothingNew DEF PlaceInv, OnTheWay, Kept
<1>5. CASE ClockTick
  <2>1. UNCHANGED <<lineChan, tailed, assemblePc, line, handed>>
    BY <1>5 DEF ClockTick
  <2>2. \A id \in Id : Pending(id)' = Pending(id) /\ Handed(id)' = Handed(id)
    BY <1>5, <2>1, AgedGroup DEF Handed
  <2> QED
    BY <2>1, <2>2, NothingNew DEF PlaceInv, OnTheWay, Kept
<1>6. ASSUME NEW e \in Id, ReadLine(e) PROVE PlaceInv'
  <2> DEFINE l == NextLine(e)
  <2>1. /\ UNCHANGED <<pendingMap, handed, assemblePc, line>>
        /\ tailed' = [tailed EXCEPT ![e] = @ + 1]
        /\ lineChan' = TrySend(lineChan, LineCap, l)
        /\ tailed[e] < Len(Log[e])
    BY <1>6 DEF ReadLine
  <2>2. /\ tailed \in [Id -> Nat] /\ Len(Log[e]) \in Nat
        /\ lineChan \in Seq(Line)
    BY DEF BaseInv, TypeOK
  <2>3. l \in Line /\ l.id = e /\ l.pos = tailed[e] + 1
    <3>1. tailed[e] + 1 \in DOMAIN Log[e]
      BY <2>1, <2>2
    <3> QED
      BY <2>2, <3>1 DEF NextLine, Line
  <2>4. l \notin OnTheWay
    BY <2>2, <2>3 DEF PlaceInv
  <2>5. OnTheWay' \subseteq OnTheWay \cup {l}
    BY <2>1, <2>2, <2>3, SendRange DEF OnTheWay, TrySend
  <2>6. \A id \in Id : /\ Kept(id)' = Kept(id) /\ Pending(id)' = Pending(id)
                       /\ Handed(id)' = Handed(id)
    BY <2>1 DEF Kept, Pending, Handed
  <2>7. \A id \in Id : tailed'[id] \in Nat /\ tailed[id] <= tailed'[id]
    BY <2>1, <2>2
  <2>8. \A id \in Id : tailed'[id] <= Len(Log[id])
    BY <2>1, <2>2 DEF PlaceInv
  <2>9. IsInjective(lineChan)' /\ (assemblePc = "lock" => line[1] \notin Range(lineChan))'
    <3>1. l \notin Range(lineChan)
      BY <2>4 DEF OnTheWay
    <3>2. IsInjective(lineChan')
      BY <2>1, <2>2, <2>3, <3>1, SendDistinct DEF TrySend, PlaceInv
    <3>3. assemblePc = "lock" => line[1] # l
      BY <2>4 DEF OnTheWay
    <3>4. Range(lineChan') \subseteq Range(lineChan) \cup {l}
      BY <2>1, <2>2, <2>3, SendRange DEF TrySend
    <3> QED
      BY <2>1, <3>2, <3>3, <3>4 DEF PlaceInv
  <2>10. \A m \in OnTheWay' : m.pos <= tailed'[m.id]
    <3>1. tailed'[e] = tailed[e] + 1
      BY <2>1, <2>2
    <3>2. ASSUME NEW m \in OnTheWay PROVE m.pos <= tailed'[m.id]
      <4>1. m \in Line
        BY <2>2, LineAtHand DEF OnTheWay, Range, BaseInv
      <4>2. m.id \in Id /\ m.pos \in Nat
        BY <4>1 DEF Line
      <4> QED
        BY <2>2, <2>7, <4>2 DEF PlaceInv
    <3>3. l.pos <= tailed'[l.id]
      BY <2>2, <2>3, <3>1
    <3> QED
      BY <2>5, <3>2, <3>3
  <2>11. ASSUME NEW id \in Id, NEW p \in Kept(id)'
         PROVE  p \in 1 .. tailed'[id] /\ [id |-> id, pos |-> p] \notin OnTheWay'
    <3>1. p \in 1 .. tailed[id] /\ [id |-> id, pos |-> p] \notin OnTheWay
      BY <2>6 DEF PlaceInv
    <3>2. [id |-> id, pos |-> p] # l
      <4>1. SUFFICES ASSUME id = e PROVE p # tailed[e] + 1
        BY <2>3
      <4> QED
        BY <2>2, <3>1, <4>1
    <3> QED
      BY <2>2, <2>5, <2>7, <3>1, <3>2
  <2> QED
    BY <2>6, <2>8, <2>9, <2>10, <2>11 DEF PlaceInv
<1>7. CASE Start \/ AssembleDone \/ AssembleClosed
  <2>1. /\ UNCHANGED <<lineChan, tailed, pendingMap, handed>>
        /\ assemblePc' \in {"select", "done"}
    BY <1>7 DEF Start, AssembleDone, AssembleClosed
  <2> QED
    BY <2>1, NothingNew DEF PlaceInv, OnTheWay, Kept, Pending, Handed
<1>8. CASE UNCHANGED <<lineChan, tailed, pendingMap, assemblePc, line, handed>>
  BY <1>8, NothingNew DEF PlaceInv, OnTheWay, Kept, Pending, Handed
<1> QED
  BY <1>1, <1>2, <1>3, <1>4, <1>5, <1>6, <1>7, <1>8
  DEF vars, Next, Assembler, Cleaner, Environment, CleanerStart, CleanerDone,
      CleanerTick, SweepBegin, SweepEnd, Stop, StopClose, CloseLines,
      TakeGroup, TakeError

(* A complete group has the SYSCALL record of its event, since its key is  *)
(* that record's.                                                          *)
LEMMA CompleteHasSyscall ==
  ASSUME NEW id \in Id, NEW lines, Complete(id, lines)
  PROVE  \E p \in lines : Log[id][p].type = "SYSCALL"
BY DEF Complete, KeysOf

(* A group handed off is new, and the first of its event: its SYSCALL      *)
(* record, the only one, is in no group handed off before.                 *)
LEMMA FirstOfItsEvent ==
  ASSUME IInv, NEW id \in Id, Complete(id, Pending(id))
  PROVE  handed[id] = {}
<1>1. PICK p \in Pending(id) : Log[id][p].type = "SYSCALL"
  BY CompleteHasSyscall
<1>2. p \in DOMAIN Log[id]
  <2>1. p \in 1 .. tailed[id] /\ tailed[id] <= Len(Log[id])
    BY <1>1 DEF IInv, PlaceInv, Kept
  <2> QED
    BY <2>1 DEF IInv, BaseInv, TypeOK
<1>3. SUFFICES ASSUME NEW g \in handed[id] PROVE FALSE
  OBVIOUS
<1>4. PICK q \in g \cap DOMAIN Log[id] : Log[id][q].type = "SYSCALL"
  BY <1>3 DEF IInv, SyscallInv
<1>5. p = q
  BY <1>1, <1>2, <1>4, SyscallAssumption
<1>6. q \in Handed(id)
  BY <1>3, <1>4 DEF Handed
<1> QED
  BY <1>1, <1>5, <1>6 DEF IInv, PlaceInv

(* handed only changes when a complete group leaves the map.               *)
LEMMA HandedChange ==
  ASSUME IInv, [Next]_vars, NEW id \in Id
  PROVE  \/ handed'[id] = handed[id]
         \/ /\ HandOff /\ id = line[1].id
            /\ Complete(id, Pending(id)) /\ handed[id] = {}
            /\ handed'[id] = {Pending(id)}
<1>1. CASE HandOff
  BY <1>1, HandedGroup, FirstOfItsEvent DEF IInv
<1>2. CASE UNCHANGED handed
  BY <1>2
<1> QED
  BY <1>1, <1>2
  DEF vars, history, Next, Assembler, Cleaner, Environment, Start, AssembleDone,
      AssembleClosed, AssembleReceive, StoreRecord, CleanerStart, CleanerDone,
      CleanerTick, SweepBegin, SweepEnd, Evict, Stop, StopClose, ClockTick,
      ReadLine, CloseLines, TakeGroup, TakeError

(* Every step leaves the SYSCALL record of an event in one place and at    *)
(* most one group handed off per event: only HandOff adds one, and then    *)
(* the event's SYSCALL record has been in no group handed off before.      *)
LEMMA StepOnce == IInv /\ [Next]_vars => SyscallInv' /\ AtMostOnce'
<1> SUFFICES ASSUME IInv, [Next]_vars PROVE SyscallInv' /\ AtMostOnce'
  OBVIOUS
<1>1. ASSUME NEW id \in Id, NEW g \in handed'[id]
      PROVE  \E p \in g \cap DOMAIN Log[id] : Log[id][p].type = "SYSCALL"
  <2>1. CASE handed'[id] = handed[id]
    BY <1>1, <2>1 DEF IInv, SyscallInv
  <2>2. CASE Complete(id, Pending(id)) /\ handed'[id] = {Pending(id)}
    <3>1. PICK p \in Pending(id) : Log[id][p].type = "SYSCALL"
      BY <2>2, CompleteHasSyscall
    <3>2. p \in 1 .. tailed[id] /\ tailed[id] <= Len(Log[id])
      BY <3>1 DEF IInv, PlaceInv, Kept
    <3>3. p \in DOMAIN Log[id]
      BY <3>2 DEF IInv, BaseInv, TypeOK
    <3> QED
      BY <1>1, <2>2, <3>1, <3>3
  <2> QED
    BY <2>1, <2>2, HandedChange
<1>2. ASSUME NEW id \in Id, NEW g \in handed'[id], NEW h \in handed'[id]
      PROVE  g = h
  <2>1. CASE handed'[id] = handed[id]
    BY <1>2, <2>1 DEF IInv, AtMostOnce
  <2>2. CASE handed'[id] = {Pending(id)}
    BY <1>2, <2>2
  <2> QED
    BY <2>1, <2>2, HandedChange
<1> QED
  BY <1>1, <1>2 DEF SyscallInv, AtMostOnce

(* The record that completes a group sends it before the mutex is free.    *)
LEMMA StepNoCompleteGroupWaits ==
  BaseInv /\ NoCompleteGroupWaits /\ [Next]_vars => NoCompleteGroupWaits'
<1> SUFFICES ASSUME BaseInv, NoCompleteGroupWaits, [Next]_vars,
                    NEW id \in DOMAIN pendingMap', Complete(id, pendingMap'[id].lines)
             PROVE  assemblePc' = "check" /\ line'[1].id = id
  BY DEF NoCompleteGroupWaits, Complete, KeysOf, Present
<1>0. id \in Id
  BY StepTypeOK DEF TypeOK
<1>1. pendingMap'[id].lines = Pending(id)'
  BY DEF Pending
<1>2. ASSUME Pending(id)' = Pending(id), id \in DOMAIN pendingMap
      PROVE  assemblePc = "check" /\ line[1].id = id
  BY <1>1, <1>2 DEF NoCompleteGroupWaits, Pending
<1>3. CASE StoreRecord
  <2>1. assemblePc = "lock" /\ assemblePc' = "check" /\ line' = line
    BY <1>3 DEF StoreRecord
  <2>2. CASE id # line[1].id
    <3>1. id \in DOMAIN pendingMap
      BY <1>3, <2>2 DEF StoreRecord
    <3> QED
      BY <1>0, <1>2, <1>3, <2>1, <2>2, <3>1, StoredGroup
  <2> QED
    BY <2>1, <2>2
<1>4. CASE HandOff
  <2>1. CASE id # line[1].id \/ ~Complete(id, Pending(id))
    BY <1>0, <1>1, <1>2, <1>4, <2>1, HandedGroup
  <2>2. CASE id = line[1].id /\ Complete(id, Pending(id))
    BY <1>0, <1>4, <2>2, HandedGroup
  <2> QED
    BY <2>1, <2>2
<1>5. ASSUME NEW e \in Id, Evict(e)
      PROVE  assemblePc' = "check" /\ line'[1].id = id
  <2>1. id # e /\ id \in DOMAIN pendingMap /\ UNCHANGED <<assemblePc, line>>
    BY <1>5 DEF Evict, Remove, Restrict
  <2> QED
    BY <1>0, <1>2, <1>5, <2>1, EvictedGroup
<1>6. CASE ClockTick
  BY <1>0, <1>2, <1>6, AgedGroup DEF ClockTick
<1>7. CASE /\ UNCHANGED pendingMap
           /\ UNCHANGED <<assemblePc, line>> \/ assemblePc # "check"
  BY <1>2, <1>7 DEF Pending
<1> QED
  BY <1>3, <1>4, <1>5, <1>6, <1>7
  DEF vars, history, Next, Assembler, Cleaner, Environment, Start, AssembleDone,
      AssembleClosed, AssembleReceive, CleanerStart, CleanerDone,
      CleanerTick, SweepBegin, SweepEnd, Stop, StopClose,
      ReadLine, CloseLines, TakeGroup, TakeError

(* A goroutine that has ended does not run again.                          *)
LEMMA StepDone == BaseInv /\ DoneInv /\ [Next]_vars => DoneInv'
BY DEF DoneInv, BaseInv, TypeOK, vars, Next, Assembler, Cleaner, Environment,
   Start, AssembleDone, AssembleClosed, AssembleReceive, StoreRecord, HandOff,
   LineDone, CleanerStart, CleanerDone, CleanerTick, SweepBegin, SweepEnd,
   Evict, Stop, StopClose, ClockTick, CloseLines, TakeGroup, TakeError,
   ReadLine, tailVars, cleanerVars, ticker, chans, stopVars, history

(* The inductive step, part by part.                                       *)
LEMMA StepIInv == IInv /\ [Next]_vars => IInv'
BY StepBase, StepPlace, StepOnce, StepNoCompleteGroupWaits, StepDone DEF IInv

(* The inductive invariant is an invariant of the collector.               *)
LEMMA Invariance == Spec => []IInv
BY InitIInv, StepIInv, PTL DEF Spec

(* An event is handed to the dispatcher at most once, however its lines    *)
(* arrive and wherever the sweeps fall between them.                       *)
THEOREM EventsHandedOnce == Spec => []AtMostOnce
<1>1. IInv => AtMostOnce
  BY DEF IInv
<1> QED
  BY <1>1, Invariance, PTL

(* No complete group is left in the map.                                   *)
THEOREM CompleteGroupsSent == Spec => []NoCompleteGroupWaits
<1>1. IInv => NoCompleteGroupWaits
  BY DEF IInv
<1> QED
  BY <1>1, Invariance, PTL

(* An event the cleaner evicts has been silent for more than a minute, and *)
(* only the cleaner and the hand-off take events out of the map.           *)
THEOREM EvictionsAreStale == Spec => OnlyStaleEvicted
<1>1. IInv /\ [Next]_vars =>
        [\A id \in DOMAIN pendingMap \ DOMAIN pendingMap' :
           handed'[id] # handed[id] \/ pendingMap[id].age > Minute]_vars
  <2> SUFFICES ASSUME IInv, Next,
                      NEW id \in DOMAIN pendingMap, id \notin DOMAIN pendingMap'
               PROVE  handed'[id] # handed[id] \/ pendingMap[id].age > Minute
    OBVIOUS
  <2>0. id \in Id
    BY DEF IInv, BaseInv, TypeOK
  <2>1. CASE HandOff
    <3>1. id = line[1].id /\ Complete(id, Pending(id))
      BY <2>0, <2>1, HandedGroup DEF IInv
    <3>2. handed[id] = {} /\ handed'[id] = handed[id] \cup {Pending(id)}
      BY <2>0, <2>1, <3>1, HandedGroup, FirstOfItsEvent DEF IInv
    <3> QED
      BY <3>2
  <2>2. ASSUME NEW e \in Id, Evict(e) PROVE pendingMap[id].age > Minute
    <3>1. id = e /\ e \in stale
      BY <2>2 DEF Evict, Remove, Restrict
    <3> QED
      BY <3>1 DEF IInv, BaseInv, SweepInv
  <2>3. CASE StoreRecord
    BY <2>3 DEF StoreRecord
  <2>4. CASE ClockTick
    BY <2>4 DEF ClockTick
  <2>5. CASE UNCHANGED pendingMap
    BY <2>5
  <2> QED
    BY <2>1, <2>2, <2>3, <2>4, <2>5
    DEF Next, Assembler, Cleaner, Environment, Start, AssembleDone,
        AssembleClosed, AssembleReceive, CleanerStart, CleanerDone,
        CleanerTick, SweepBegin, SweepEnd, Stop, StopClose, ReadLine,
        CloseLines, TakeGroup, TakeError
<1> QED
  BY <1>1, Invariance, PTL DEF Spec, OnlyStaleEvicted

(* Stop closes the channels after the last send on them.                   *)
THEOREM ClosedChannelsQuiet == Spec => NoSendAfterClose
<1>1. IInv /\ [Next]_vars =>
        [stopPc = "closed" => /\ Len(outputChan') <= Len(outputChan)
                              /\ Len(errChan') <= Len(errChan)]_vars
  <2> SUFFICES ASSUME IInv, Next, stopPc = "closed"
               PROVE  /\ Len(outputChan') <= Len(outputChan)
                      /\ Len(errChan') <= Len(errChan)
    OBVIOUS
  <2> USE DEF chans
  <2>1. assemblePc = "done" /\ cleanerPc = "done"
    BY DEF IInv, DoneInv
  <2>2. /\ outputChan \in Seq(SentGroup) /\ Len(outputChan) \in Nat
        /\ errChan \in Seq(Report) /\ Len(errChan) \in Nat
    BY LenProperties DEF IInv, BaseInv, TypeOK
  <2>3. CASE TakeGroup
    <3>1. outputChan' = Tail(outputChan) /\ errChan' = errChan /\ outputChan # <<>>
      BY <2>3 DEF TakeGroup
    <3>2. Len(outputChan') = Len(outputChan) - 1
      BY <2>2, <3>1, HeadTailProperties
    <3> QED
      BY <2>2, <3>1, <3>2
  <2>4. CASE TakeError
    <3>1. errChan' = Tail(errChan) /\ outputChan' = outputChan /\ errChan # <<>>
      BY <2>4 DEF TakeError
    <3>2. Len(errChan') = Len(errChan) - 1
      BY <2>2, <3>1, HeadTailProperties
    <3> QED
      BY <2>2, <3>1, <3>2
  <2>5. CASE UNCHANGED chans
    BY <2>2, <2>5
  <2> QED
    BY <2>1, <2>3, <2>4, <2>5
    DEF Next, Assembler, Cleaner, Environment, Start, AssembleDone,
        AssembleClosed, AssembleReceive, StoreRecord, HandOff, CleanerStart,
        CleanerDone, CleanerTick, SweepBegin, SweepEnd, Evict, Stop, StopClose,
        ClockTick, ReadLine, CloseLines
<1> QED
  BY <1>1, Invariance, PTL DEF Spec, NoSendAfterClose

-----------------------------------------------------------------------------
(* No record vanishes.                                                     *)

Somewhere(id) == Queued(id) \cup InHand(id) \cup Pending(id) \cup Handed(id) \cup gone[id]

(* Where each action moves records to.                                     *)
LEMMA RecordsMove ==
  ASSUME BaseInv, [Next]_vars, NEW id \in Id
  PROVE  Somewhere(id) \subseteq Somewhere(id)'
<1> USE DEF tailVars, cleanerVars, ticker, chans, stopVars, history
<1>1. CASE AssembleReceive
  <2>1. UNCHANGED <<pendingMap, handed, gone>> /\ assemblePc = "select"
    BY <1>1 DEF AssembleReceive
  <2>2. Queued(id) \subseteq Queued(id)' \cup InHand(id)'
    <3>1. /\ Range(lineChan) = Range(lineChan') \cup {Head(lineChan)}
          /\ Head(lineChan) \in Range(lineChan)
      BY <1>1, ReceiveRange DEF AssembleReceive, BaseInv, TypeOK
    <3>2. IsRecord(Head(lineChan)) =>
            assemblePc' = "lock" /\ line'[1] = Head(lineChan)
      BY <1>1 DEF AssembleReceive
    <3>3. ASSUME NEW m \in Range(lineChan), m.id = id, IsRecord(m)
          PROVE  m.pos \in Queued(id)' \cup InHand(id)'
      <4>1. CASE m \in Range(lineChan')
        BY <3>3, <4>1 DEF Queued, IsRecord, LineOf
      <4>2. CASE m = Head(lineChan)
        BY <3>2, <3>3, <4>2 DEF InHand
      <4> QED
        BY <3>1, <4>1, <4>2
    <3> QED
      BY <3>3 DEF Queued
  <2>3. InHand(id) = {}
    BY <2>1 DEF InHand
  <2> QED
    BY <2>1, <2>2, <2>3 DEF Somewhere, Pending, Handed
<1>2. CASE StoreRecord
  <2>1. UNCHANGED <<lineChan, handed, line>> /\ assemblePc = "lock"
    BY <1>2 DEF StoreRecord
  <2>2. Queued(id)' = Queued(id) /\ Handed(id)' = Handed(id)
    BY <2>1 DEF Queued, Handed, IsRecord, LineOf
  <2>3. gone[id] \subseteq gone'[id]
    BY <1>2, StoredGroup
  <2>4. CASE id # line[1].id
    <3>1. InHand(id) = {} /\ Pending(id)' = Pending(id)
      BY <1>2, <2>1, <2>4, StoredGroup DEF InHand
    <3> QED
      BY <2>2, <2>3, <3>1 DEF Somewhere
  <2>5. CASE id = line[1].id
    <3>1. InHand(id) = {line[1].pos}
      BY <2>1, <2>5 DEF InHand
    <3>2. line[1].pos \in Pending(id)' /\ Pending(id) \ Pending(id)' \subseteq gone'[id]
      BY <1>2, <2>1, <2>5, StoredGroup DEF Pending
    <3> QED
      BY <2>2, <2>3, <3>1, <3>2 DEF Somewhere
  <2> QED
    BY <2>4, <2>5
<1>3. CASE HandOff
  <2>1. UNCHANGED <<lineChan, gone>> /\ assemblePc = "check"
    BY <1>3 DEF HandOff, LineDone
  <2>2. Queued(id)' = Queued(id) /\ InHand(id) = {}
    BY <2>1 DEF Queued, InHand, IsRecord, LineOf
  <2>3. Pending(id) \cup Handed(id) \subseteq Pending(id)' \cup Handed(id)'
    <3>1. CASE id # line[1].id \/ ~Complete(id, Pending(id))
      BY <1>3, <3>1, HandedGroup DEF Handed
    <3>2. CASE id = line[1].id /\ Complete(id, Pending(id))
      BY <1>3, <3>2, HandedGroup DEF Handed
    <3> QED
      BY <3>1, <3>2
  <2> QED
    BY <2>1, <2>2, <2>3 DEF Somewhere
<1>4. ASSUME NEW e \in Id, Evict(e) PROVE Somewhere(id) \subseteq Somewhere(id)'
  <2>1. UNCHANGED <<lineChan, assemblePc, line, handed>>
    BY <1>4 DEF Evict
  <2>2. Pending(id) \cup gone[id] \subseteq Pending(id)' \cup gone'[id]
    BY <1>4, EvictedGroup
  <2> QED
    BY <2>1, <2>2 DEF Somewhere, Queued, InHand, Handed, IsRecord, LineOf
<1>5. CASE ClockTick
  <2>1. UNCHANGED <<lineChan, assemblePc, line, handed, gone>>
    BY <1>5 DEF ClockTick
  <2> QED
    BY <1>5, <2>1, AgedGroup DEF Somewhere, Queued, InHand, Handed, IsRecord, LineOf
<1>6. ASSUME NEW e \in Id, ReadLine(e) PROVE Somewhere(id) \subseteq Somewhere(id)'
  <2>1. /\ UNCHANGED <<pendingMap, assemblePc, line, handed>>
        /\ lineChan' = TrySend(lineChan, LineCap, NextLine(e))
        /\ tailed[e] + 1 \in DOMAIN Log[e]
    BY <1>6 DEF ReadLine, BaseInv, TypeOK
  <2>2. NextLine(e) \in Line /\ lineChan \in Seq(Line)
    <3>1. tailed[e] \in Nat
      BY DEF BaseInv, TypeOK
    <3>2. NextLine(e) \in Line
      BY <2>1, <3>1 DEF NextLine, Line
    <3> QED
      BY <3>2 DEF BaseInv, TypeOK
  <2>3. Range(lineChan) \subseteq Range(lineChan')
    BY <2>1, <2>2, SendRange DEF TrySend
  <2>4. Queued(id) \subseteq Queued(id)'
    BY <2>3 DEF Queued, IsRecord, LineOf
  <2>5. gone[id] \subseteq gone'[id]
    BY <1>6 DEF ReadLine, BaseInv, TypeOK
  <2> QED
    BY <2>1, <2>4, <2>5 DEF Somewhere, InHand, Pending, Handed
<1>7. CASE /\ UNCHANGED <<lineChan, pendingMap, line, handed, gone>>
           /\ assemblePc # "lock" \/ assemblePc' = assemblePc
  BY <1>7 DEF Somewhere, Queued, InHand, Pending, Handed, IsRecord, LineOf
<1> QED
  BY <1>1, <1>2, <1>3, <1>4, <1>5, <1>6, <1>7
  DEF vars, Next, Assembler, Cleaner, Environment, Start, AssembleDone,
      AssembleClosed, CleanerStart, CleanerDone, CleanerTick, SweepBegin,
      SweepEnd, Stop, StopClose, CloseLines, TakeGroup, TakeError

(* Only the tail engine reads lines, and it queues the record it reads or  *)
(* loses it.                                                               *)
LEMMA RecordsRead ==
  ASSUME BaseInv, [Next]_vars, NEW id \in Id
  PROVE  ReadRecords(id)' \subseteq ReadRecords(id) \cup Somewhere(id)'
<1>1. ASSUME NEW e \in Id, ReadLine(e)
      PROVE  ReadRecords(id)' \subseteq ReadRecords(id) \cup Somewhere(id)'
  <2>1. /\ tailed' = [tailed EXCEPT ![e] = @ + 1]
        /\ tailed[e] + 1 \in DOMAIN Log[e]
        /\ tailed \in [Id -> Nat]
        /\ lineChan \in Seq(Line)
        /\ gone \in [Id -> SUBSET (Nat \ {0})]
    BY <1>1, SMTT(20) DEF ReadLine, BaseInv, TypeOK
  <2>2. CASE id # e
    BY <2>1, <2>2 DEF ReadRecords, IsRecord, LineOf
  <2>3. CASE id = e
    <3>1. ReadRecords(id)' \subseteq ReadRecords(id) \cup
            (IF IsRecord(NextLine(e)) THEN {tailed[e] + 1} ELSE {})
      BY <2>1, <2>3 DEF ReadRecords, IsRecord, LineOf, NextLine
    <3>2. IsRecord(NextLine(e)) => tailed[e] + 1 \in Somewhere(id)'
      <4>1. SUFFICES ASSUME IsRecord(NextLine(e))
                     PROVE  tailed[e] + 1 \in Somewhere(id)'
        OBVIOUS
      <4>2. CASE Len(lineChan) < LineCap
        <5>1. lineChan' = Append(lineChan, NextLine(e))
          BY <1>1, <4>2 DEF ReadLine, TrySend
        <5>2. NextLine(e) \in Line
          BY <2>1 DEF NextLine, Line
        <5>3. NextLine(e) \in Range(lineChan')
          BY <2>1, <5>1, <5>2, SendRange
        <5>4. NextLine(e).id = id /\ NextLine(e).pos = tailed[e] + 1
          BY <2>3 DEF NextLine
        <5>5. NextLine(e).pos \in
                {l.pos : l \in {m \in Range(lineChan') : m.id = id /\ IsRecord(m)}}
          BY <4>1, <5>3, <5>4
        <5>6. tailed[e] + 1 \in Queued(id)'
          BY <5>4, <5>5 DEF Queued, IsRecord, LineOf
        <5> QED
          BY <5>6 DEF Somewhere
      <4>3. CASE ~(Len(lineChan) < LineCap)
        <5>1. gone' = [gone EXCEPT ![e] = @ \cup {NextLine(e).pos}]
          BY <1>1, <4>1, <4>3 DEF ReadLine
        <5>2. tailed[e] + 1 \in gone'[id]
          BY <2>1, <2>3, <5>1 DEF NextLine
        <5> QED
          BY <5>2 DEF Somewhere
      <4> QED
        BY <4>2, <4>3
    <3> QED
      BY <3>1, <3>2
  <2> QED
    BY <2>2, <2>3
<1>2. CASE UNCHANGED tailed
  BY <1>2 DEF ReadRecords, IsRecord, LineOf
<1> QED
  BY <1>1, <1>2
  DEF vars, tailVars, Next, Assembler, Cleaner, Environment, Start, AssembleDone,
      AssembleClosed, AssembleReceive, StoreRecord, HandOff, LineDone,
      CleanerStart, CleanerDone, CleanerTick, SweepBegin, SweepEnd, Evict, Stop,
      StopClose, ClockTick, CloseLines, TakeGroup, TakeError

(* Every record the tail engine has read is queued, at hand, in the map,   *)
(* in a group handed off, or accounted for as lost.                        *)
THEOREM NothingVanishes == Spec => []NoRecordVanishes
<1>1. Init => NoRecordVanishes
  <2> SUFFICES ASSUME Init, NEW id \in Id PROVE ReadRecords(id) = {}
    BY DEF NoRecordVanishes
  <2>1. 1 .. tailed[id] = {}
    BY DEF Init
  <2> QED
    BY <2>1 DEF ReadRecords
<1>2. BaseInv /\ NoRecordVanishes /\ [Next]_vars => NoRecordVanishes'
  <2> SUFFICES ASSUME BaseInv, NoRecordVanishes, [Next]_vars, NEW id \in Id
               PROVE  ReadRecords(id)' \subseteq Somewhere(id)'
    BY DEF NoRecordVanishes, Somewhere
  <2>1. ReadRecords(id) \subseteq Somewhere(id)
    BY DEF NoRecordVanishes, Somewhere
  <2> QED
    BY <2>1, RecordsMove, RecordsRead
<1>3. IInv => BaseInv
  BY DEF IInv
<1> QED
  BY <1>1, <1>2, <1>3, Invariance, PTL DEF Spec

-----------------------------------------------------------------------------
(* Events that end with a PROCTITLE are handed off whole.                  *)

(* Lines reach the map in the order auditd wrote them: the queued lines of *)
(* an event come in order, after the one waiting for the mutex, and all    *)
(* lines on the way come after those in the map or handed off.             *)
OrderInv ==
  /\ \A i, j \in DOMAIN lineChan :
       i < j /\ lineChan[i].id = lineChan[j].id => lineChan[i].pos < lineChan[j].pos
  /\ assemblePc = "lock" =>
       \A m \in Range(lineChan) : m.id = line[1].id => line[1].pos < m.pos
  /\ \A m \in OnTheWay : \A p \in Kept(m.id) : p < m.pos

(* Nothing is on the way initially.                                        *)
LEMMA InitOrder == Init => OrderInv
<1> SUFFICES ASSUME Init PROVE OrderInv
  OBVIOUS
<1>1. lineChan = <<>> /\ DOMAIN lineChan = {} /\ Range(lineChan) = {} /\ assemblePc = "off"
  BY DEF Init, Range
<1> QED
  BY <1>1 DEF OrderInv, OnTheWay

(* Steps that neither queue a line nor keep a new one.                     *)
LEMMA OrderFrame ==
  ASSUME OrderInv, lineChan' = lineChan,
         assemblePc' = "lock" => assemblePc = "lock" /\ line' = line,
         \A m \in OnTheWay : Kept(m.id)' \subseteq Kept(m.id)
  PROVE  OrderInv'
<1>1. OnTheWay' \subseteq OnTheWay
  BY DEF OnTheWay
<1>2. ASSUME NEW m \in OnTheWay', NEW p \in Kept(m.id)' PROVE p < m.pos
  BY <1>1, <1>2 DEF OrderInv
<1> QED
  BY <1>2 DEF OrderInv

(* The tail engine reads the lines of an event in order, and lineChan is   *)
(* first in, first out.                                                    *)
LEMMA StepOrder ==
  BaseInv /\ PlaceInv /\ OrderInv /\ [Next]_vars => OrderInv'
<1> SUFFICES ASSUME BaseInv, PlaceInv, OrderInv, [Next]_vars PROVE OrderInv'
  OBVIOUS
<1> USE DEF tailVars, cleanerVars, ticker, chans, stopVars, history
<1>0. /\ \A m \in OnTheWay : m \in Line /\ m.id \in Id
      /\ lineChan \in Seq(Line) /\ tailed \in [Id -> Nat]
      /\ DOMAIN lineChan = 1 .. Len(lineChan) /\ Len(lineChan) \in Nat
  <2>1. /\ lineChan \in Seq(Line) /\ tailed \in [Id -> Nat]
        /\ DOMAIN lineChan = 1 .. Len(lineChan) /\ Len(lineChan) \in Nat
    BY DEF BaseInv, TypeOK
  <2>2. Range(lineChan) \subseteq Line
    BY <2>1 DEF Range
  <2>3. assemblePc = "lock" => line[1] \in Line
    BY LineAtHand DEF BaseInv
  <2>4. \A m \in Line : m.id \in Id
    BY DEF Line
  <2> QED
    BY <2>1, <2>2, <2>3, <2>4 DEF OnTheWay
<1>1. CASE AssembleReceive
  <2>1. /\ Range(lineChan) = Range(Tail(lineChan)) \cup {Head(lineChan)}
        /\ Len(Tail(lineChan)) = Len(lineChan) - 1
        /\ \A i \in 1 .. Len(lineChan) - 1 : Tail(lineChan)[i] = lineChan[i + 1]
        /\ DOMAIN Tail(lineChan) = 1 .. Len(lineChan) - 1
        /\ Head(lineChan) = lineChan[1]
        /\ Len(lineChan) \in Nat \ {0}
    BY <1>0, <1>1, ReceiveRange, HeadTailProperties, LenProperties DEF AssembleReceive
  <2>2. /\ lineChan' = Tail(lineChan)
        /\ UNCHANGED <<pendingMap, handed>> /\ assemblePc = "select"
        /\ \/ assemblePc' = "select"
           \/ assemblePc' = "lock" /\ line'[1] = Head(lineChan)
    BY <1>1 DEF AssembleReceive
  <2>3. OnTheWay' \subseteq OnTheWay
    BY <2>1, <2>2 DEF OnTheWay
  <2>4. \A id : Kept(id)' = Kept(id)
    BY <2>2 DEF Kept, Pending, Handed
  <2>5. ASSUME NEW i \in DOMAIN lineChan', NEW j \in DOMAIN lineChan',
               i < j, lineChan'[i].id = lineChan'[j].id
        PROVE  lineChan'[i].pos < lineChan'[j].pos
    <3>1. /\ i \in 1 .. Len(lineChan) - 1 /\ j \in 1 .. Len(lineChan) - 1
          /\ lineChan'[i] = lineChan[i + 1] /\ lineChan'[j] = lineChan[j + 1]
      BY <2>1, <2>2, <2>5
    <3>2. i + 1 \in DOMAIN lineChan /\ j + 1 \in DOMAIN lineChan /\ i + 1 < j + 1
      BY <1>0, <2>5, <3>1
    <3> QED
      BY <2>5, <3>1, <3>2 DEF OrderInv
  <2>6. ASSUME NEW m \in Range(lineChan'), m.id = Head(lineChan).id
        PROVE  Head(lineChan).pos < m.pos
    <3>1. PICK i \in 1 .. Len(lineChan) - 1 : m = lineChan[i + 1]
      BY <2>1, <2>2, <2>6 DEF Range
    <3>2. 1 \in DOMAIN lineChan /\ i + 1 \in DOMAIN lineChan /\ 1 < i + 1
      BY <1>0, <2>1, <3>1
    <3> QED
      BY <2>1, <2>6, <3>1, <3>2 DEF OrderInv
  <2> QED
    BY <2>2, <2>3, <2>4, <2>5, <2>6 DEF OrderInv
<1>2. CASE StoreRecord
  <2>1. /\ UNCHANGED <<lineChan, handed, line>>
        /\ assemblePc = "lock" /\ assemblePc' = "check"
        /\ line[1] \in OnTheWay /\ OnTheWay' = Range(lineChan)
        /\ line[1].pos \in Nat
    BY <1>2, LineAtHand DEF StoreRecord, OnTheWay, BaseInv
  <2>2. ASSUME NEW m \in Range(lineChan), NEW p \in Kept(m.id)' PROVE p < m.pos
    <3>1. m \in OnTheWay /\ m.id \in Id
      BY <1>0 DEF OnTheWay
    <3>2. p \in Kept(m.id) \/ (m.id = line[1].id /\ p = line[1].pos)
      BY <1>2, <2>1, <2>2, <3>1, StoredGroup DEF Kept, Handed
    <3> QED
      BY <2>1, <3>1, <3>2 DEF OrderInv
  <2> QED
    BY <2>1, <2>2 DEF OrderInv
<1>3. CASE HandOff
  <2>1. UNCHANGED lineChan /\ assemblePc' = "select"
    BY <1>3 DEF HandOff, LineDone
  <2>2. ASSUME NEW id \in Id PROVE Kept(id)' \subseteq Kept(id)
    <3>1. CASE id # line[1].id \/ ~Complete(id, Pending(id))
      BY <1>3, <3>1, HandedGroup DEF Kept, Handed
    <3>2. CASE id = line[1].id /\ Complete(id, Pending(id))
      BY <1>3, <3>2, HandedGroup DEF Kept, Handed
    <3> QED
      BY <3>1, <3>2
  <2> QED
    BY <1>0, <2>1, <2>2, OrderFrame
<1>4. ASSUME NEW e \in Id, Evict(e) PROVE OrderInv'
  <2>1. UNCHANGED <<lineChan, assemblePc, line, handed>>
    BY <1>4 DEF Evict
  <2>2. \A id \in Id : Kept(id)' \subseteq Kept(id)
    BY <1>4, <2>1, EvictedGroup DEF Kept, Handed
  <2> QED
    BY <1>0, <2>1, <2>2, OrderFrame
<1>5. CASE ClockTick
  <2>1. UNCHANGED <<lineChan, assemblePc, line, handed>>
    BY <1>5 DEF ClockTick
  <2>2. \A id \in Id : Kept(id)' \subseteq Kept(id)
    BY <1>5, <2>1, AgedGroup DEF Kept, Handed
  <2> QED
    BY <1>0, <2>1, <2>2, OrderFrame
<1>6. ASSUME NEW e \in Id, ReadLine(e) PROVE OrderInv'
  <2> DEFINE l == NextLine(e)
  <2>1. /\ UNCHANGED <<pendingMap, handed, assemblePc, line>>
        /\ lineChan' = TrySend(lineChan, LineCap, l)
        /\ tailed[e] < Len(Log[e])
    BY <1>6 DEF ReadLine
  <2>2. /\ l \in Line /\ l.id = e /\ l.pos = tailed[e] + 1 /\ tailed[e] \in Nat
    <3>1. tailed[e] + 1 \in DOMAIN Log[e]
      BY <1>0, <2>1
    <3> QED
      BY <1>0, <3>1 DEF NextLine, Line
  <2>3. ASSUME NEW m \in OnTheWay, m.id = e PROVE m.pos < l.pos
    BY <1>0, <2>2, <2>3 DEF PlaceInv, Line
  <2>4. ASSUME NEW p \in Kept(e) PROVE p < l.pos
    <3>1. p \in 1 .. tailed[e]
      BY DEF PlaceInv
    <3> QED
      BY <2>2, <3>1
  <2>5. \A id : Kept(id)' = Kept(id)
    BY <2>1 DEF Kept, Pending, Handed
  <2>6. CASE lineChan' = lineChan
    BY <2>1, <2>5, <2>6, OrderFrame
  <2>7. CASE lineChan' = Append(lineChan, l)
    <3>1. /\ DOMAIN lineChan' = (1 .. Len(lineChan)) \cup {Len(lineChan) + 1}
          /\ \A i \in 1 .. Len(lineChan) : lineChan'[i] = lineChan[i]
          /\ lineChan'[Len(lineChan) + 1] = l
      <4> HIDE DEF l
      <4> QED
        BY <1>0, <2>2, <2>7
    <3>2. Range(lineChan') = Range(lineChan) \cup {l}
      BY <1>0, <2>2, <2>7, SendRange
    <3>3. \A i \in 1 .. Len(lineChan) : lineChan[i] \in OnTheWay
      BY <1>0 DEF OnTheWay, Range
    <3> HIDE DEF l
    <3>4. ASSUME NEW i \in DOMAIN lineChan', NEW j \in DOMAIN lineChan',
                 i < j, lineChan'[i].id = lineChan'[j].id
          PROVE  lineChan'[i].pos < lineChan'[j].pos
      <4>1. i \in 1 .. Len(lineChan)
        BY <1>0, <3>1, <3>4
      <4>2. CASE j \in 1 .. Len(lineChan)
        BY <1>0, <3>1, <3>4, <4>1, <4>2 DEF OrderInv
      <4>3. CASE j = Len(lineChan) + 1
        BY <2>2, <2>3, <3>1, <3>3, <3>4, <4>1, <4>3
      <4> QED
        BY <3>1, <4>2, <4>3
    <3>5. assemblePc = "lock" => \A m \in Range(lineChan') :
                                   m.id = line[1].id => line[1].pos < m.pos
      <4>1. assemblePc = "lock" => line[1] \in OnTheWay
        BY DEF OnTheWay
      <4> QED
        BY <2>2, <2>3, <3>2, <4>1 DEF OrderInv
    <3>6. OnTheWay' = OnTheWay \cup {l}
      BY <2>1, <3>2 DEF OnTheWay
    <3> QED
      BY <2>1, <2>2, <2>4, <2>5, <3>4, <3>5, <3>6 DEF OrderInv
  <2> QED
    BY <2>1, <2>6, <2>7 DEF TrySend
<1>7. CASE /\ UNCHANGED <<lineChan, pendingMap, line, handed>>
           /\ assemblePc' # "lock" \/ assemblePc' = assemblePc
  <2>1. \A id : Kept(id)' = Kept(id)
    BY <1>7 DEF Kept, Pending, Handed
  <2> QED
    BY <1>7, <2>1, OrderFrame
<1> QED
  BY <1>1, <1>2, <1>3, <1>4, <1>5, <1>6, <1>7
  DEF vars, Next, Assembler, Cleaner, Environment, Start, AssembleDone,
      AssembleClosed, CleanerStart, CleanerDone, CleanerTick, SweepBegin,
      SweepEnd, Stop, StopClose, CloseLines, TakeGroup, TakeError

(* What is lost stays lost.                                                *)
LEMMA LossesStay ==
  ASSUME BaseInv, [Next]_vars, NEW id \in Id
  PROVE  gone[id] \subseteq gone'[id]
<1>1. CASE StoreRecord
  BY <1>1, StoredGroup
<1>2. ASSUME NEW e \in Id, Evict(e) PROVE gone[id] \subseteq gone'[id]
  BY <1>2, EvictedGroup
<1>3. ASSUME NEW e \in Id, ReadLine(e) PROVE gone[id] \subseteq gone'[id]
  BY <1>3 DEF ReadLine, BaseInv, TypeOK
<1>4. CASE UNCHANGED gone
  BY <1>4
<1> QED
  BY <1>1, <1>2, <1>3, <1>4
  DEF vars, history, Next, Assembler, Cleaner, Environment, Start, AssembleDone,
      AssembleClosed, AssembleReceive, HandOff, LineDone, CleanerStart, CleanerDone,
      CleanerTick, SweepBegin, SweepEnd, Stop, StopClose, ClockTick, CloseLines,
      TakeGroup, TakeError

(* The event cannot do without its PROCTITLE record.                       *)
Titled(id) ==
  \A key \in KeysOf(id, DOMAIN Log[id]) :
    ~IsReadyToAssemble(key, RecordType \ {"PROCTITLE"})

(* A complete group of such an event holds its PROCTITLE.                  *)
LEMMA CompleteHasTitle ==
  ASSUME NEW id \in Id, Titled(id), NEW lines \in SUBSET DOMAIN Log[id],
         Complete(id, lines)
  PROVE  \E p \in lines : Log[id][p].type = "PROCTITLE"
<1>1. PICK key \in KeysOf(id, lines) : IsReadyToAssemble(key, Present(id, lines))
  BY DEF Complete
<1>2. key \in KeysOf(id, DOMAIN Log[id])
  BY <1>1 DEF KeysOf
<1>3. ~IsReadyToAssemble(key, RecordType \ {"PROCTITLE"})
  BY <1>2 DEF Titled
<1>4. key \in DOMAIN EventTypeOf /\ EventRecords[EventTypeOf[key]] \subseteq RecordType
  BY <1>1 DEF IsReadyToAssemble, EventRecords, EventTypeOf, RecordType
<1>5. "PROCTITLE" \in Present(id, lines)
  BY <1>1, <1>3, <1>4 DEF IsReadyToAssemble
<1> QED
  BY <1>5 DEF Present

(* When the group with the PROCTITLE is handed off, all records of the     *)
(* event have been read, none is on its way, and none was handed off       *)
(* before: each is in the group or lost.                                   *)
LEMMA StepWhole ==
  IInv /\ OrderInv /\ NoRecordVanishes /\ TitledEventsWhole /\ [Next]_vars
    => TitledEventsWhole'
<1> SUFFICES ASSUME IInv, OrderInv, NoRecordVanishes, TitledEventsWhole, [Next]_vars,
                    NEW id \in Id, Titled(id), NEW g \in handed'[id],
                    NEW q \in DOMAIN Log[id], IsRecord([id |-> id, pos |-> q])
             PROVE  q \in g \cup gone'[id]
  BY DEF TitledEventsWhole, HandedWhole, Titled, IsRecord, LineOf, KeysOf
<1>1. BaseInv /\ gone[id] \subseteq gone'[id]
  BY LossesStay DEF IInv
<1>2. CASE handed'[id] = handed[id]
  BY <1>1, <1>2 DEF TitledEventsWhole, HandedWhole, Titled
<1>3. CASE /\ HandOff /\ id = line[1].id
           /\ Complete(id, Pending(id)) /\ handed[id] = {}
           /\ handed'[id] = {Pending(id)}
  <2>1. /\ Pending(id) \subseteq 1 .. tailed[id] /\ tailed[id] <= Len(Log[id])
        /\ tailed[id] \in Nat /\ Len(Log[id]) \in Nat /\ DOMAIN Log[id] = 1 .. Len(Log[id])
    <3>1. Pending(id) \subseteq 1 .. tailed[id] /\ tailed[id] <= Len(Log[id])
      BY DEF IInv, PlaceInv, Kept
    <3>2. tailed[id] \in Nat
      BY <1>1 DEF BaseInv, TypeOK
    <3>3. Log[id] \in Seq(AuditLine)
      OBVIOUS
    <3> QED
      BY <3>1, <3>2, <3>3
  <2>2. PICK p \in Pending(id) : Log[id][p].type = "PROCTITLE"
    <3>1. Pending(id) \in SUBSET DOMAIN Log[id]
      BY <2>1
    <3> QED
      BY <1>3, <3>1, CompleteHasTitle
  <2>3. p \in DOMAIN Log[id] /\ p <= tailed[id] /\ p \in Nat
    BY <2>1, <2>2
  <2>4. q <= p /\ q \in Nat
    <3>1. Log[id][q].hasId /\ Log[id][q].type \in RecordType
      BY DEF IsRecord, LineOf
    <3> QED
      BY <2>1, <2>2, <2>3, <3>1, TitleAssumption
  <2>5. q \in ReadRecords(id)
    BY <2>1, <2>3, <2>4 DEF ReadRecords
  <2>6. q \notin Queued(id)
    <3>1. SUFFICES ASSUME NEW m \in Range(lineChan), m.id = id, q = m.pos PROVE FALSE
      BY DEF Queued
    <3>2. m \in OnTheWay /\ p \in Kept(m.id)
      BY <2>2, <3>1 DEF OnTheWay, Kept
    <3>3. p < q
      BY <3>1, <3>2 DEF OrderInv
    <3> QED
      BY <2>3, <2>4, <3>3
  <2>7. InHand(id) = {} /\ Handed(id) = {}
    BY <1>3 DEF HandOff, InHand, Handed
  <2>8. q \in Pending(id) \cup gone[id]
    BY <2>5, <2>6, <2>7 DEF NoRecordVanishes
  <2> QED
    BY <1>1, <1>3, <2>8
<1> QED
  BY <1>2, <1>3, HandedChange

(* Where the records required of an event include its PROCTITLE, the group *)
(* handed off is the whole event but for lines known to be lost, whatever  *)
(* lines of other events come between and wherever the sweeps fall.        *)
THEOREM TitledWhole == Spec => []TitledEventsWhole
<1>1. Init => TitledEventsWhole
  BY DEF Init, TitledEventsWhole, HandedWhole
<1>2. IInv /\ OrderInv /\ [Next]_vars => OrderInv'
  BY StepOrder DEF IInv
<1> QED
  BY <1>1, <1>2, InitOrder, StepWhole, Invariance, NothingVanishes, PTL DEF Spec

-----------------------------------------------------------------------------
(* The collector implements EventAssembly.                                 *)

(* The key a complete group is judged by is the key of its event.          *)
LEMMA CompleteIsReady ==
  ASSUME IInv, NEW id \in Id, Complete(id, Pending(id))
  PROVE  IsReadyToAssemble(EventKey(id), Present(id, Pending(id)))
<1>1. PICK key \in KeysOf(id, Pending(id)) :
        IsReadyToAssemble(key, Present(id, Pending(id)))
  BY DEF Complete
<1>2. PICK p \in Pending(id) : Log[id][p].type = "SYSCALL" /\ Log[id][p].key = key
  BY <1>1 DEF KeysOf
<1>3. p \in DOMAIN Log[id]
  <2>1. p \in 1 .. tailed[id] /\ tailed[id] <= Len(Log[id])
    BY <1>2 DEF IInv, PlaceInv, Kept
  <2> QED
    BY <2>1 DEF IInv, BaseInv, TypeOK
<1>4. KeysOf(id, DOMAIN Log[id]) = {key}
  BY <1>2, <1>3, SyscallAssumption DEF KeysOf
<1>5. EventKey(id) = key
  BY <1>4 DEF EventKey
<1> QED
  BY <1>1, <1>5

(* Storing a record adds its type to what is held of the event.            *)
LEMMA StoreIsCollect ==
  ASSUME IInv, StoreRecord
  PROVE  /\ LineOf(line[1]).type \in RecordType
         /\ Present(line[1].id, Pending(line[1].id)') =
              Present(line[1].id, Pending(line[1].id)) \cup {LineOf(line[1]).type}
<1> DEFINE l        == line[1]
           replaced == {p \in Lookup(l.id) : /\ LineOf(l).type # "PATH"
                                             /\ Log[l.id][p].type = LineOf(l).type}
           group    == [lines |-> (Lookup(l.id) \ replaced) \cup {l.pos}, age |-> 0,
                        fresh |-> cleanerPc # "starting"]
<1>1. LineOf(l).type \in RecordType
  BY DEF StoreRecord, IInv, BaseInv, HandInv, IsRecord
<1>2. pendingMap' = [id \in DOMAIN pendingMap \cup {l.id} |->
                       IF id = l.id THEN group ELSE pendingMap[id]]
      /\ line' = line
  BY DEF StoreRecord
<1>3. l.id \in DOMAIN pendingMap' /\ pendingMap'[l.id] = group
  BY <1>2
<1>4. Pending(l.id)' = (Pending(l.id) \ replaced) \cup {l.pos}
  BY <1>2, <1>3 DEF Pending, Lookup
<1>5. \A p \in replaced : Log[l.id][p].type = LineOf(l).type
  OBVIOUS
<1> HIDE DEF replaced
<1> QED
  BY <1>1, <1>4, <1>5 DEF Present, LineOf

(* Nothing is collected or delivered initially.                            *)
LEMMA InitRefines == Init => Assembly!Init
<1> SUFFICES ASSUME Init PROVE Assembly!Init
  OBVIOUS
<1>1. \A id \in Id : Pending(id) = {} /\ handed[id] = {}
  BY DEF Init, Pending
<1> QED
  BY <1>1 DEF Assembly!Init, Present

(* Every step of the collector maps to a step of EventAssembly or to a     *)
(* stutter: StoreRecord collects, HandOff delivers or changes nothing,     *)
(* Evict gives up, and the other actions change nothing EventAssembly      *)
(* sees.                                                                   *)
LEMMA StepRefines == IInv /\ [Next]_vars => [Assembly!Next]_(Assembly!vars)
<1> SUFFICES ASSUME IInv, [Next]_vars PROVE [Assembly!Next]_(Assembly!vars)
  OBVIOUS
<1> DEFINE heldNow    == [id \in Id |-> Present(id, Pending(id))]
           heldNext   == [id \in Id |-> Present(id, Pending(id)')]
           handedNow  == {id \in Id : handed[id] # {}}
           handedNext == {id \in Id : handed'[id] # {}}
<1>0. /\ heldNow = [id \in Id |-> Present(id, Pending(id))]
      /\ heldNext = [id \in Id |-> Present(id, Pending(id)')]
  OBVIOUS
<1>1. CASE StoreRecord
  <2>1. PICK e \in Id, type \in RecordType :
          e = line[1].id /\ type = LineOf(line[1]).type
    BY <1>1, LineAtHand, StoreIsCollect DEF StoreRecord, IInv, BaseInv
  <2>2. handed' = handed /\ line' = line
    BY <1>1 DEF StoreRecord
  <2>3. heldNext = [heldNow EXCEPT ![e] = @ \cup {type}]
    BY <1>1, <2>1, <2>2, StoreIsCollect, StoredGroup DEF IInv
  <2>4. Assembly!Collect(e, type)
    BY <2>2, <2>3 DEF Assembly!Collect, Present
  <2> QED
    BY <2>4 DEF Assembly!Next, Assembly!RecordType, RecordType
<1>2. CASE HandOff
  <2>1. PICK e \in Id : e = line[1].id
    BY <1>2, LineAtHand DEF HandOff, IInv, BaseInv
  <2>2. CASE Complete(e, Pending(e))
    <3>1. handed[e] = {} /\ IsReadyToAssemble(EventKey(e), Present(e, Pending(e)))
      BY <2>2, FirstOfItsEvent, CompleteIsReady
    <3>0. \A id \in Id :
            /\ id # e => Pending(id)' = Pending(id) /\ handed'[id] = handed[id]
            /\ id = e => Pending(id)' = {} /\ handed'[id] = handed[id] \cup {Pending(id)}
      <4>1. BaseInv
        BY DEF IInv
      <4> QED
        BY <1>2, <2>1, <2>2, <4>1, HandedGroup
    <3>2. heldNext = [heldNow EXCEPT ![e] = {}]
      <4>1. Present(e, {}) = {}
        BY DEF Present
      <4> QED
        BY <3>0, <4>1
    <3>3. handedNext = handedNow \cup {e}
      BY <3>0
    <3>4. e \notin handedNow
      BY <3>1
    <3>5. Assembly!IsReadyToAssemble([id \in Id |-> EventKey(id)][e], heldNow[e])
      <4>1. Assembly!IsReadyToAssemble(EventKey(e), Present(e, Pending(e)))
        BY <3>1, Zenon
        DEF IsReadyToAssemble, EventTypeOf, EventRecords,
            Assembly!IsReadyToAssemble, Assembly!EventTypeOf, Assembly!EventRecords
      <4> QED
        BY <4>1, Zenon
    <3> HIDE DEF handedNow, handedNext
    <3>6. Assembly!Deliver(e)
      BY <3>2, <3>3, <3>4, <3>5 DEF Assembly!Deliver, handedNow, handedNext, Present
    <3> QED
      BY <3>6 DEF Assembly!Next
  <2>3. CASE ~Complete(e, Pending(e))
    <3>1. \A i \in Id : Pending(i)' = Pending(i) /\ handed'[i] = handed[i]
      BY <1>2, <2>1, <2>3, HandedGroup DEF IInv
    <3> QED
      BY <3>1 DEF Assembly!vars, Present
  <2> QED
    BY <2>2, <2>3
<1>3. ASSUME NEW e \in Id, Evict(e) PROVE [Assembly!Next]_(Assembly!vars)
  <2>1. handedNext = handedNow
    BY <1>3 DEF Evict
  <2>2. heldNext = [heldNow EXCEPT ![e] = {}]
    BY <1>3, EvictedGroup DEF Present, IInv
  <2>3. Assembly!GiveUp(e)
    BY <2>1, <2>2 DEF Assembly!GiveUp, Present
  <2> QED
    BY <2>3 DEF Assembly!Next
<1>4. CASE ClockTick
  <2>1. \A i \in Id : Pending(i)' = Pending(i) /\ handed'[i] = handed[i]
    BY <1>4, AgedGroup DEF ClockTick, IInv, history
  <2> QED
    BY <2>1 DEF Assembly!vars, Present
<1>5. CASE UNCHANGED <<pendingMap, handed>>
  BY <1>5 DEF Assembly!vars, Present, Pending
<1> QED
  BY <1>1, <1>2, <1>3, <1>4, <1>5
  DEF vars, history, Next, Assembler, Cleaner, Environment, Start, AssembleDone,
      AssembleClosed, AssembleReceive, CleanerStart, CleanerDone, CleanerTick,
      SweepBegin, SweepEnd, Stop, StopClose, ReadLine, CloseLines, TakeGroup,
      TakeError

(* The collector delivers each event at most once and only complete,       *)
(* through every interleaving of assembler, cleaner, Stop and consumers.   *)
THEOREM Refinement == Spec => ImplementsAssembly
<1>1. Init => Assembly!Init
  BY InitRefines
<1>2. IInv /\ [Next]_vars => [Assembly!Next]_(Assembly!vars)
  BY StepRefines
<1> QED
  BY <1>1, <1>2, Invariance, PTL DEF Spec, ImplementsAssembly, Assembly!Spec

=============================================================================
