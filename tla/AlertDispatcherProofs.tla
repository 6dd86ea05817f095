------------------------ MODULE AlertDispatcherProofs ------------------------
(***************************************************************************)
(* Theorems about the fan-out of alerts: that what one side does to its    *)
(* copies stays its own, that the fan-out is complete, and that each side  *)
(* is served by a LossyChannel; for all events, any number of alerts and   *)
(* every capacity of the three channels.                                   *)
(***************************************************************************)
EXTENDS AlertDispatcher, ChannelTheorems

USE AlertAssumption

-----------------------------------------------------------------------------
(* The objects: an original is no copy, and the copies made for one alert  *)
(* are not those made for another.                                         *)

(* The engine's own object is an object, and no side's copy. *)
LEMMA Originals == \A e \in Event : Original(e) \in Object /\ Original(e).of \notin Side
BY DEF Original, Object, Side

(* A copy is an object of its side, and another one for each alert. *)
LEMMA Copies ==
  \A s \in Side, k \in 1 .. NAlerts :
    /\ Copy(s, k) \in Object /\ Copy(s, k).of = s
    /\ \A j \in 1 .. NAlerts : Copy(s, j) = Copy(s, k) => j = k
BY DEF Copy, Object

-----------------------------------------------------------------------------
(* The inductive invariant.                                                *)

Capacity(s) == IF s = "response" THEN ResponseCap ELSE StorageCap

Busy == {"copyResponse", "copyStorage", "sendResponse", "sendStorage"}

(* Types.  Every alert received was sent, which bounds their number. *)
TypeInv ==
  /\ inputChan \in Seq(Event)
  /\ loopPc \in {"select", "done"} \cup Busy
  /\ alert \in Seq(Event)
  /\ received \in Nat /\ received + Len(inputChan) = sent /\ sent <= NAlerts
  /\ loopPc \in Busy => Len(alert) = 1 /\ received >= 1
  /\ out \in [Side -> Seq(Object)]
  /\ \A s \in Side : Len(out[s]) <= Capacity(s)
  /\ memory \in [Object -> SUBSET Side]
  /\ dropped \in [Side -> Nat]
  /\ held \in [Side -> SUBSET Object]
  /\ closed \in BOOLEAN

(* The alert in hand has not been sent to side s, nor been lost. *)
Pending(s) == loopPc \in Busy \ (IF s = "response" THEN {"sendStorage"} ELSE {})

(* How many of the alerts side s has had, or has lost. *)
Served(s) == IF Pending(s) THEN received - 1 ELSE received

(* A side is given its own copies, of alerts that are its turn.            *)
HandedInv ==
  \A s \in Side :
    /\ IsFiniteSet(Handed(s))
    /\ \A o \in Handed(s) : \E k \in 1 .. Served(s) : o = Copy(s, k)

(* At any point of the fan-out, not only between two alerts.               *)
ServedInv ==
  \A s \in Side : Cardinality(Handed(s)) + dropped[s] = Served(s)

(* The outputs are closed as the loop ends.                                *)
DoneInv == closed => loopPc = "done"

IInv == TypeInv /\ HandedInv /\ ServedInv /\ CopiesIsolated /\ DoneInv

(* What a side has had is what it holds and what is queued for it. *)
LEMMA HandedIs == \A s : Handed(s) = held[s] \cup Range(out[s])
BY DEF Handed, Range

(* Nothing has been received, copied or handed out initially. *)
LEMMA InitIInv == Init => IInv
<1> SUFFICES ASSUME Init PROVE IInv
  OBVIOUS
<1>1. TypeInv
  <2>1. /\ inputChan \in Seq(Event) /\ Len(inputChan) = 0
        /\ alert \in Seq(Event) /\ out \in [Side -> Seq(Object)]
        /\ \A s \in Side : Len(out[s]) = 0
    BY EmptySeq DEF Init
  <2>2. /\ memory \in [Object -> SUBSET Side] /\ dropped \in [Side -> Nat]
        /\ held \in [Side -> SUBSET Object] /\ closed \in BOOLEAN
        /\ loopPc \in {"select", "done"} \cup Busy /\ loopPc \notin Busy
    BY DEF Init, Busy
  <2>3. received = 0 /\ sent = 0
    BY DEF Init
  <2>4. \A s \in Side : 0 <= Capacity(s)
    BY DEF Capacity
  <2> QED
    BY <2>1, <2>2, <2>3, <2>4 DEF TypeInv
<1>2. \A s \in Side : Handed(s) = {} /\ Served(s) = 0 /\ dropped[s] = 0
  <2>1. Range(<<>>) = {}
    BY DEF Range
  <2> QED
    BY <2>1, HandedIs DEF Init, Served, Pending, Busy
<1>3. HandedInv /\ ServedInv
  BY <1>2, FS_EmptySet DEF HandedInv, ServedInv
<1>4. CopiesIsolated /\ DoneInv
  BY DEF Init, CopiesIsolated, DoneInv
<1> QED
  BY <1>1, <1>3, <1>4 DEF IInv

-----------------------------------------------------------------------------
(* What the steps do.                                                      *)

(* In the middle of the fan-out there is an alert in hand, and its copies  *)
(* are objects.                                                            *)
LEMMA AlertInHand ==
  ASSUME TypeInv, loopPc \in Busy
  PROVE  /\ alert[1] \in Event /\ Original(alert[1]) \in Object
         /\ received \in 1 .. NAlerts
         /\ \A s \in Side : Copy(s, received) \in Object
<1>1. alert \in Seq(Event) /\ Len(alert) = 1
  BY DEF TypeInv
<1>2. alert[1] \in Event
  BY <1>1, HandHolds
<1>3. received \in 1 .. NAlerts
  <2>1. Len(inputChan) \in Nat /\ received \in Nat /\ received >= 1
        /\ received + Len(inputChan) <= NAlerts
    BY DEF TypeInv
  <2> QED
    BY <2>1
<1> QED
  BY <1>2, <1>3, Originals, Copies

(* A send appends the side's copy to its output or, when that is full,     *)
(* counts it as lost; nothing else of either side changes.                 *)
Sent(s) ==
  /\ \/ /\ Len(out[s]) < Capacity(s)
        /\ out' = [out EXCEPT ![s] = Append(@, Copy(s, received))]
        /\ dropped' = dropped
     \/ /\ Len(out[s]) = Capacity(s)
        /\ out' = out
        /\ dropped' = [dropped EXCEPT ![s] = @ + 1]
  /\ loopPc \in Busy /\ loopPc' \in {"select"} \cup Busy
  /\ Pending(s) /\ ~Pending(s)'
  /\ \A t \in Side \ {s} : Pending(t)' = Pending(t)
  /\ UNCHANGED <<inputChan, alert, received, closed, memory, sent, held>>

(* SendResponse and SendStorage are such sends. *)
LEMMA SendsAre == TypeInv /\ (SendResponse \/ SendStorage) => \E s \in Side : Sent(s)
<1> SUFFICES ASSUME TypeInv, SendResponse \/ SendStorage
             PROVE  \E s \in Side : Sent(s)
  OBVIOUS
<1>1. ASSUME NEW s \in Side, NEW from \in Busy, NEW to \in {"select"} \cup Busy,
             SendCopy(s, Capacity(s), from, to),
             from \notin (IF s = "response" THEN {"sendStorage"} ELSE {}),
             to \notin Busy \ (IF s = "response" THEN {"sendStorage"} ELSE {}),
             \A t \in Side \ {s} :
               (to \in Busy \ (IF t = "response" THEN {"sendStorage"} ELSE {}))
               = (from \in Busy \ (IF t = "response" THEN {"sendStorage"} ELSE {}))
      PROVE  Sent(s)
  <2>1. /\ loopPc = from
        /\ UNCHANGED <<inputChan, alert, received, closed, memory, sent, held>>
    BY <1>1 DEF SendCopy, input
  <2>2. CASE HasRoom(s, Capacity(s))
    <3>1. /\ out' = [out EXCEPT ![s] = Append(@, Copy(s, received))]
          /\ loopPc' = to /\ dropped' = dropped /\ Len(out[s]) < Capacity(s)
      BY <1>1, <2>2 DEF SendCopy, SentCopy, HasRoom
    <3> QED
      BY <1>1, <2>1, <3>1 DEF Sent, Pending
  <2>3. CASE ~HasRoom(s, Capacity(s))
    <3>1. /\ dropped' = [dropped EXCEPT ![s] = @ + 1]
          /\ loopPc' = to /\ out' = out
      BY <1>1, <2>3 DEF SendCopy, Lose, AfterFull
    <3>2. Len(out[s]) = Capacity(s)
      <4>1. /\ out[s] \in Seq(Object) /\ Len(out[s]) <= Capacity(s)
            /\ ~(Len(out[s]) < Capacity(s)) /\ Capacity(s) \in Nat
        BY <2>3 DEF HasRoom, TypeInv, Capacity
      <4>2. Len(out[s]) \in Nat
        BY <4>1
      <4> QED
        BY <4>1, <4>2
    <3> QED
      BY <1>1, <2>1, <3>1, <3>2 DEF Sent, Pending
  <2> QED
    BY <2>2, <2>3
<1>2. CASE SendResponse
  <2>1. SendCopy("response", Capacity("response"), "sendResponse", "sendStorage")
    BY <1>2 DEF SendResponse, Capacity
  <2>2. Sent("response")
    BY <1>1, <2>1 DEF Side, Busy
  <2> QED
    BY <2>2 DEF Side
<1>3. CASE SendStorage
  <2>1. SendCopy("storage", Capacity("storage"), "sendStorage", "select")
    BY <1>3 DEF SendStorage, Capacity
  <2>2. Sent("storage")
    BY <1>1, <2>1 DEF Side, Busy
  <2> QED
    BY <2>2 DEF Side
<1> QED
  BY <1>2, <1>3

(* Copying fills one copy of the alert in hand, and both sides go on       *)
(* waiting for theirs.                                                     *)
Copied(s) ==
  /\ loopPc \in Busy /\ loopPc' \in Busy
  /\ \A t \in Side : Pending(t) /\ Pending(t)'
  /\ memory' = [memory EXCEPT ![Copy(s, received)] = memory[Original(alert[1])]]
  /\ UNCHANGED <<inputChan, alert, received, out, closed, sent, dropped, held>>

(* CopyResponse and CopyStorage are such copyings. *)
LEMMA CopyingIs == CopyResponse \/ CopyStorage => \E s \in Side : Copied(s)
<1>1. CopyResponse => Copied("response")
  BY DEF CopyResponse, CopyAlert, Copied, Pending, Busy, Side, input
<1>2. CopyStorage => Copied("storage")
  BY DEF CopyStorage, CopyAlert, Copied, Pending, Busy, Side, input
<1> QED
  BY <1>1, <1>2 DEF Side

-----------------------------------------------------------------------------
(* Every step keeps the invariant.                                         *)

(* Types: one case per action. *)
LEMMA StepTypeInv == TypeInv /\ [Next]_vars => TypeInv'
<1> SUFFICES ASSUME TypeInv, [Next]_vars PROVE TypeInv'
  OBVIOUS
<1> USE DEF input, loop
<1>1. CASE LoopDone \/ LoopInputClosed
  BY <1>1 DEF LoopDone, LoopInputClosed, TypeInv, Busy
<1>2. CASE Receive
  <2>1. /\ Head(inputChan) \in Event /\ inputChan' \in Seq(Event)
        /\ Len(inputChan') = Len(inputChan) - 1 /\ Len(inputChan) \in Nat
    BY <1>2, HeadTailProperties DEF Receive, TypeInv
  <2>2. alert' \in Seq(Event) /\ Len(alert') = 1
    BY <1>2, <2>1 DEF Receive
  <2>3. /\ received' = received + 1 /\ sent' = sent /\ received' \in Nat /\ received' >= 1
        /\ received' + Len(inputChan') = sent'
    BY <1>2, <2>1 DEF Receive, TypeInv
  <2>4. loopPc' \in {"select", "done"} \cup Busy
    BY <1>2 DEF Receive, Busy
  <2> QED
    BY <1>2, <2>1, <2>2, <2>3, <2>4 DEF Receive, TypeInv
<1>3. CASE CopyResponse \/ CopyStorage
  <2>1. PICK s \in Side : Copied(s)
    BY <1>3, CopyingIs
  <2>2. /\ Original(alert[1]) \in Object /\ Copy(s, received) \in Object
    BY <2>1, AlertInHand DEF Copied
  <2>3. memory' \in [Object -> SUBSET Side]
    BY <2>1, <2>2 DEF Copied, TypeInv
  <2> QED
    BY <2>1, <2>3 DEF Copied, TypeInv
<1>4. CASE SendResponse \/ SendStorage
  <2>1. PICK s \in Side : Sent(s)
    BY <1>4, SendsAre
  <2>2. Copy(s, received) \in Object
    BY <2>1, AlertInHand DEF Sent
  <2>3. out \in [Side -> Seq(Object)] /\ dropped \in [Side -> Nat]
    BY DEF TypeInv
  <2>4. /\ out' \in [Side -> Seq(Object)] /\ dropped' \in [Side -> Nat]
        /\ \A t \in Side : Len(out'[t]) <= Capacity(t)
    <3>1. CASE /\ Len(out[s]) < Capacity(s)
               /\ out' = [out EXCEPT ![s] = Append(@, Copy(s, received))]
               /\ dropped' = dropped
      <4>1. /\ Append(out[s], Copy(s, received)) \in Seq(Object)
            /\ Len(Append(out[s], Copy(s, received))) = Len(out[s]) + 1
            /\ Len(out[s]) \in Nat /\ Capacity(s) \in Nat
        BY <2>2, <2>3, AppendProperties DEF Capacity
      <4>2. out' \in [Side -> Seq(Object)]
        BY <2>3, <3>1, <4>1
      <4>3. Len(out'[s]) <= Capacity(s)
        BY <2>3, <3>1, <4>1
      <4>4. \A t \in Side \ {s} : out'[t] = out[t]
        BY <2>3, <3>1
      <4> QED
        BY <2>3, <3>1, <4>2, <4>3, <4>4 DEF TypeInv
    <3>2. CASE /\ out' = out
               /\ dropped' = [dropped EXCEPT ![s] = @ + 1]
      BY <2>3, <3>2 DEF TypeInv
    <3> QED
      BY <2>1, <3>1, <3>2 DEF Sent
  <2>5. loopPc \in Busy /\ loopPc' \in {"select", "done"} \cup Busy
    BY <2>1 DEF Sent
  <2> QED
    BY <2>1, <2>4, <2>5 DEF Sent, TypeInv
<1>5. ASSUME NEW e \in Event, SendAlert(e) PROVE TypeInv'
  <2>1. /\ inputChan' = Append(inputChan, e) /\ sent' = sent + 1 /\ sent < NAlerts
        /\ UNCHANGED <<loop, out, closed, memory, dropped, held>>
    BY <1>5 DEF SendAlert
  <2>2. /\ inputChan' \in Seq(Event) /\ Len(inputChan') = Len(inputChan) + 1
        /\ Len(inputChan) \in Nat
    BY <2>1, AppendProperties DEF TypeInv
  <2>3. received' + Len(inputChan') = sent' /\ sent' <= NAlerts
    BY <2>1, <2>2 DEF TypeInv
  <2> QED
    BY <2>1, <2>2, <2>3 DEF TypeInv
<1>6. CASE CloseInput \/ Cancel
  BY <1>6 DEF CloseInput, Cancel, TypeInv
<1>7. ASSUME NEW s \in Side, Consume(s) PROVE TypeInv'
  <2>1. /\ out[s] \in Seq(Object) /\ out[s] # <<>>
        /\ out \in [Side -> Seq(Object)] /\ held \in [Side -> SUBSET Object]
    BY <1>7 DEF Consume, TypeInv
  <2>2. /\ Head(out[s]) \in Object /\ Tail(out[s]) \in Seq(Object)
        /\ Len(Tail(out[s])) = Len(out[s]) - 1 /\ Len(out[s]) \in Nat
    BY <2>1, HeadTailProperties
  <2>3. /\ out' \in [Side -> Seq(Object)] /\ held' \in [Side -> SUBSET Object]
        /\ out'[s] = Tail(out[s]) /\ \A t \in Side \ {s} : out'[t] = out[t]
    BY <1>7, <2>1, <2>2 DEF Consume
  <2>4. \A t \in Side : Len(out'[t]) <= Capacity(t)
    <3>1. Len(out[s]) - 1 <= Capacity(s)
      BY <2>2 DEF TypeInv, Capacity
    <3> QED
      BY <2>2, <2>3, <3>1 DEF TypeInv
  <2> QED
    BY <1>7, <2>3, <2>4 DEF Consume, TypeInv
<1>8. ASSUME NEW s \in Side, Change(s) PROVE TypeInv'
  <2>1. PICK o \in held[s] : memory' = [memory EXCEPT ![o] = @ \cup {s}]
    BY <1>8 DEF Change
  <2>2. memory' \in [Object -> SUBSET Side]
    BY <2>1 DEF TypeInv
  <2> QED
    BY <1>8, <2>2 DEF Change, TypeInv
<1>9. CASE UNCHANGED vars
  BY <1>9 DEF vars, TypeInv
<1> QED
  BY <1>1, <1>2, <1>3, <1>4, <1>5, <1>6, <1>7, <1>8, <1>9 DEF Next, Loop, Environment

(* A step that gives a side nothing keeps what is said of that side.       *)
LEMMA NothingHanded ==
  ASSUME NEW s \in Side, HandedInv, ServedInv,
         Handed(s)' = Handed(s), dropped'[s] = dropped[s], Served(s)' = Served(s)
  PROVE  /\ IsFiniteSet(Handed(s))' /\ Cardinality(Handed(s))' + dropped'[s] = Served(s)'
         /\ \A o \in Handed(s)' : \E k \in 1 .. Served(s)' : o = Copy(s, k)
BY DEF HandedInv, ServedInv

(* Only a send gives a side something, or loses it, and just then the alert *)
(* stops being pending for that side.                                     *)
LEMMA StepHanded == IInv /\ [Next]_vars => (HandedInv /\ ServedInv)'
<1> SUFFICES ASSUME IInv, [Next]_vars, NEW s \in Side
             PROVE  /\ IsFiniteSet(Handed(s))' /\ Cardinality(Handed(s))' + dropped'[s] = Served(s)'
                    /\ \A o \in Handed(s)' : \E k \in 1 .. Served(s)' : o = Copy(s, k)
  BY DEF HandedInv, ServedInv
<1> USE DEF input, loop
<1>1. /\ TypeInv /\ HandedInv /\ ServedInv /\ received \in Nat
      /\ out \in [Side -> Seq(Object)] /\ dropped \in [Side -> Nat]
      /\ held \in [Side -> SUBSET Object]
  BY DEF IInv, TypeInv
<1>2. ASSUME UNCHANGED <<out, held, dropped, received>>, Pending(s)' = Pending(s)
      PROVE  /\ IsFiniteSet(Handed(s))' /\ Cardinality(Handed(s))' + dropped'[s] = Served(s)'
             /\ \A o \in Handed(s)' : \E k \in 1 .. Served(s)' : o = Copy(s, k)
  <2>1. Handed(s)' = Handed(s)
    BY <1>2 DEF Handed
  <2>2. Served(s)' = Served(s)
    BY <1>2 DEF Served
  <2>3. dropped'[s] = dropped[s]
    BY <1>2
  <2> QED
    BY <1>1, <2>1, <2>2, <2>3, NothingHanded
<1>3. CASE LoopDone \/ LoopInputClosed
  <2>1. UNCHANGED <<out, held, dropped, received>> /\ Pending(s)' = Pending(s)
    BY <1>3 DEF LoopDone, LoopInputClosed, Pending, Busy
  <2> QED
    BY <1>2, <2>1
<1>4. CASE Receive
  <2>1. /\ UNCHANGED <<out, held, dropped>> /\ received' = received + 1
        /\ ~Pending(s) /\ Pending(s)'
    BY <1>4 DEF Receive, Pending, Busy
  <2>2. Served(s)' = Served(s)
    BY <1>1, <2>1 DEF Served
  <2>3. Handed(s)' = Handed(s) /\ dropped'[s] = dropped[s]
    BY <2>1 DEF Handed
  <2> QED
    BY <1>1, <2>2, <2>3, NothingHanded
<1>5. CASE CopyResponse \/ CopyStorage
  <2>1. PICK t \in Side : Copied(t)
    BY <1>5, CopyingIs
  <2>2. Pending(s)' = Pending(s)
    BY <2>1 DEF Copied, Pending
  <2> QED
    BY <1>2, <2>1, <2>2 DEF Copied
<1>6. CASE SendResponse \/ SendStorage
  <2>1. PICK t \in Side : Sent(t)
    BY <1>1, <1>6, SendsAre
  <2>2. UNCHANGED <<received, held>>
    BY <2>1 DEF Sent
  <2>3. CASE t # s
    <3>1. /\ Pending(s)' = Pending(s) /\ out'[s] = out[s] /\ dropped'[s] = dropped[s]
      BY <1>1, <2>1, <2>3 DEF Sent
    <3>2. Served(s)' = Served(s) /\ Handed(s)' = Handed(s)
      BY <2>2, <3>1 DEF Served, Handed
    <3> QED
      BY <1>1, <3>1, <3>2, NothingHanded
  <2>4. CASE t = s
    <3>1. /\ Served(s) = received - 1 /\ Served(s)' = received
          /\ received \in 1 .. NAlerts
      BY <1>1, <2>1, <2>2, <2>4, AlertInHand DEF Sent, Served
    <3>2. Served(s)' = Served(s) + 1 /\ Served(s) \in Nat
      BY <1>1, <3>1
    <3>3. /\ IsFiniteSet(Handed(s)) /\ Cardinality(Handed(s)) + dropped[s] = Served(s)
          /\ \A o \in Handed(s) : \E k \in 1 .. Served(s) : o = Copy(s, k)
          /\ Cardinality(Handed(s)) \in Nat /\ dropped[s] \in Nat
      BY <1>1, FS_CardinalityType DEF HandedInv, ServedInv
    <3>4. CASE /\ out' = [out EXCEPT ![s] = Append(@, Copy(s, received))]
               /\ dropped' = dropped
      <4>1. out'[s] = Append(out[s], Copy(s, received)) /\ out[s] \in Seq(Object)
        BY <1>1, <3>4
      <4>2. Copy(s, received) \in Object
        BY <1>1, <2>1, AlertInHand DEF Sent
      <4>3. Range(out'[s]) = Range(out[s]) \cup {Copy(s, received)}
        BY <4>1, <4>2, SendRange
      <4>4. Handed(s)' = Handed(s) \cup {Copy(s, received)}
        <5>1. Handed(s) = held[s] \cup Range(out[s])
          BY HandedIs
        <5>2. Handed(s)' = held'[s] \cup Range(out'[s])
          BY HandedIs DEF Handed, Range
        <5> QED
          BY <2>2, <4>3, <5>1, <5>2
      <4>5. Copy(s, received) \notin Handed(s)
        <5> SUFFICES ASSUME NEW k \in 1 .. Served(s), Copy(s, received) = Copy(s, k)
                     PROVE  FALSE
          BY <3>3
        <5>1. k \in 1 .. NAlerts /\ k # received
          BY <3>1
        <5> QED
          BY <3>1, <5>1, Copies
      <4>6. /\ IsFiniteSet(Handed(s)')
            /\ Cardinality(Handed(s)') = Cardinality(Handed(s)) + 1
        BY <3>3, <4>4, <4>5, FS_AddElement
      <4>7. Cardinality(Handed(s)') + dropped'[s] = Served(s)'
        BY <3>2, <3>3, <3>4, <4>6
      <4>8. ASSUME NEW o \in Handed(s)' PROVE \E k \in 1 .. Served(s)' : o = Copy(s, k)
        <5>1. CASE o = Copy(s, received)
          <6>1. received \in 1 .. Served(s)'
            BY <3>1
          <6> QED
            BY <5>1, <6>1
        <5>2. CASE o \in Handed(s)
          <6>1. PICK k \in 1 .. Served(s) : o = Copy(s, k)
            BY <3>3, <5>2
          <6>2. k \in 1 .. Served(s)'
            BY <3>2
          <6> QED
            BY <6>1, <6>2
        <5> QED
          BY <4>4, <5>1, <5>2
      <4> QED
        BY <4>6, <4>7, <4>8
    <3>5. CASE /\ out' = out
               /\ dropped' = [dropped EXCEPT ![s] = @ + 1]
      <4>1. Handed(s)' = Handed(s) /\ dropped'[s] = dropped[s] + 1
        BY <1>1, <2>2, <3>5 DEF Handed
      <4>2. Cardinality(Handed(s)') + dropped'[s] = Served(s)'
        BY <3>2, <3>3, <4>1
      <4>3. \A k \in 1 .. Served(s) : k \in 1 .. Served(s)'
        BY <3>2
      <4> QED
        BY <3>3, <4>1, <4>2, <4>3
    <3> QED
      BY <2>1, <2>4, <3>4, <3>5 DEF Sent
  <2> QED
    BY <2>3, <2>4
<1>7. ASSUME NEW e \in Event, SendAlert(e)
      PROVE  /\ IsFiniteSet(Handed(s))' /\ Cardinality(Handed(s))' + dropped'[s] = Served(s)'
             /\ \A o \in Handed(s)' : \E k \in 1 .. Served(s)' : o = Copy(s, k)
  BY <1>2, <1>7 DEF SendAlert, Pending
<1>8. CASE CloseInput \/ Cancel
  BY <1>2, <1>8 DEF CloseInput, Cancel, Pending
<1>9. ASSUME NEW t \in Side, Consume(t)
      PROVE  /\ IsFiniteSet(Handed(s))' /\ Cardinality(Handed(s))' + dropped'[s] = Served(s)'
             /\ \A o \in Handed(s)' : \E k \in 1 .. Served(s)' : o = Copy(s, k)
  <2>1. /\ out[t] # <<>> /\ out[t] \in Seq(Object)
        /\ held' = [held EXCEPT ![t] = @ \cup {Head(out[t])}]
        /\ out' = [out EXCEPT ![t] = Tail(@)]
        /\ UNCHANGED <<dropped, received, loopPc>>
    BY <1>1, <1>9 DEF Consume
  <2>2. Range(out[t]) = Range(Tail(out[t])) \cup {Head(out[t])}
    BY <2>1, ReceiveRange
  <2>3. held'[s] \cup Range(out'[s]) = held[s] \cup Range(out[s])
    <3>1. CASE t = s
      <4>1. held'[s] = held[s] \cup {Head(out[s])} /\ out'[s] = Tail(out[s])
        BY <1>1, <2>1, <3>1
      <4> QED
        BY <2>2, <3>1, <4>1
    <3>2. CASE t # s
      <4>1. held'[s] = held[s] /\ out'[s] = out[s]
        BY <1>1, <2>1, <3>2
      <4> QED
        BY <4>1
    <3> QED
      BY <3>1, <3>2
  <2>4. Handed(s)' = Handed(s)
    <3>1. Handed(s)' = held'[s] \cup Range(out'[s])
      BY DEF Handed, Range
    <3> QED
      BY <2>3, <3>1, HandedIs
  <2>5. Served(s)' = Served(s)
    BY <2>1 DEF Served, Pending
  <2> QED
    BY <1>1, <2>1, <2>4, <2>5, NothingHanded
<1>10. CASE \E t \in Side : Change(t)
  BY <1>2, <1>10 DEF Change, Pending
<1>11. CASE UNCHANGED vars
  BY <1>2, <1>11 DEF vars, Pending
<1> QED
  BY <1>3, <1>4, <1>5, <1>6, <1>7, <1>8, <1>9, <1>10, <1>11 DEF Next, Loop, Environment

(* A copy starts as the content of an original, to which no side has ever  *)
(* written, and a side writes to its own copies only.                      *)
LEMMA StepIsolated == IInv /\ [Next]_vars => CopiesIsolated'
<1> SUFFICES ASSUME IInv, [Next]_vars PROVE CopiesIsolated'
  OBVIOUS
<1> USE DEF input, loop
<1>1. TypeInv /\ memory \in [Object -> SUBSET Side]
  BY DEF IInv, TypeInv
<1>2. CASE CopyResponse \/ CopyStorage
  <2>1. PICK t \in Side : Copied(t)
    BY <1>2, CopyingIs
  <2>2. alert[1] \in Event /\ Original(alert[1]) \in Object
    BY <1>1, <2>1, AlertInHand DEF Copied
  <2>3. Original(alert[1]).of \notin Side
    BY <2>2, Originals
  <2>4. memory[Original(alert[1])] = {}
    BY <1>1, <2>2, <2>3 DEF IInv, CopiesIsolated
  <2>5. \A o \in Object : memory'[o] = memory[o] \/ memory'[o] = {}
    BY <1>1, <2>1, <2>4 DEF Copied
  <2> QED
    BY <2>5 DEF IInv, CopiesIsolated
<1>3. ASSUME NEW t \in Side, Change(t) PROVE CopiesIsolated'
  <2>1. PICK o \in held[t] : memory' = [memory EXCEPT ![o] = @ \cup {t}]
    BY <1>3 DEF Change
  <2>2. o \in Handed(t)
    BY HandedIs
  <2>3. PICK k \in 1 .. Served(t) : o = Copy(t, k)
    BY <2>2 DEF IInv, HandedInv
  <2>4. o.of = t
    BY <2>3 DEF Copy
  <2>5. \A p \in Object : memory'[p] = memory[p] \/ (p = o /\ memory'[p] = memory[p] \cup {t})
    BY <1>1, <2>1
  <2> QED
    BY <2>4, <2>5 DEF IInv, CopiesIsolated
<1>4. CASE memory' = memory
  BY <1>4 DEF IInv, CopiesIsolated
<1> QED
  BY <1>2, <1>3, <1>4
  DEF vars, Next, Loop, Environment, LoopDone, LoopInputClosed, Receive, SendResponse,
      SendStorage, SendCopy, SendAlert, CloseInput, Cancel, Consume

(* The loop closes its outputs as it ends. *)
LEMMA StepDone == DoneInv /\ [Next]_vars => DoneInv'
BY DEF DoneInv, vars, input, loop, Next, Loop, Environment, LoopDone, LoopInputClosed,
       Receive, CopyResponse, CopyStorage, CopyAlert, SendResponse, SendStorage, SendCopy,
       SendAlert, CloseInput, Cancel, Consume, Change, Lose, AfterFull

(* The parts together. *)
LEMMA StepIInv == IInv /\ [Next]_vars => IInv'
BY StepTypeInv, StepHanded, StepIsolated, StepDone DEF IInv

(* The inductive invariant is an invariant of the fan-out.                 *)
LEMMA Invariance == Spec => []IInv
BY InitIInv, StepIInv, PTL DEF Spec

-----------------------------------------------------------------------------
(* The properties.                                                         *)

(* What one side does to its copies is seen by nobody else.                *)
THEOREM CopiesKeptApart == Spec => []CopiesIsolated
<1>1. IInv => CopiesIsolated
  BY DEF IInv
<1> QED
  BY <1>1, Invariance, PTL

(* Between two alerts each side has had, or has lost, its copy of every    *)
(* alert received.                                                         *)
THEOREM BothSidesServed == Spec => []FanOutComplete
<1>1. IInv => FanOutComplete
  BY DEF IInv, FanOutComplete, ServedInv, Served, Pending, Busy
<1> QED
  BY <1>1, Invariance, PTL

-----------------------------------------------------------------------------
(* Each side is served by a LossyChannel.                                  *)

(* Both outputs are empty and open initially. *)
LEMMA InitRefines == Init => ResponseOut!Init /\ StorageOut!Init
BY DEF Init, ResponseOut!Init, StorageOut!Init, Side

(* What a step does to the output of one side.                             *)
SideStep(s) ==
  \/ /\ ~closed /\ Len(out[s]) < Capacity(s) /\ out'[s] # <<>>
     /\ out'[s] = Append(out[s], out'[s][Len(out'[s])])
     /\ closed' = closed /\ dropped'[s] = dropped[s]
  \/ /\ ~closed /\ Len(out[s]) = Capacity(s) /\ dropped'[s] = dropped[s] + 1
     /\ out'[s] = out[s] /\ closed' = closed
  \/ /\ out[s] # <<>> /\ out'[s] = Tail(out[s])
     /\ closed' = closed /\ dropped'[s] = dropped[s]
  \/ /\ ~closed /\ closed' /\ out'[s] = out[s] /\ dropped'[s] = dropped[s]
  \/ out'[s] = out[s] /\ closed' = closed /\ dropped'[s] = dropped[s]

(* A send is a send or a loss to its own side and nothing to the other. *)
LEMMA StepOfSide == IInv /\ [Next]_vars => \A s \in Side : SideStep(s)
<1> SUFFICES ASSUME IInv, [Next]_vars, NEW s \in Side PROVE SideStep(s)
  OBVIOUS
<1> USE DEF input, loop
<1>1. /\ TypeInv /\ out \in [Side -> Seq(Object)] /\ dropped \in [Side -> Nat]
      /\ closed \in BOOLEAN /\ (closed => loopPc = "done")
  BY DEF IInv, TypeInv, DoneInv
<1>2. CASE SendResponse \/ SendStorage
  <2>1. PICK t \in Side : Sent(t)
    BY <1>1, <1>2, SendsAre
  <2>2. ~closed /\ closed' = closed
    BY <1>1, <2>1 DEF Sent, Busy
  <2>3. CASE t # s
    BY <1>1, <2>1, <2>2, <2>3 DEF Sent, SideStep
  <2>4. CASE t = s
    <3>1. CASE /\ Len(out[s]) < Capacity(s)
               /\ out' = [out EXCEPT ![s] = Append(@, Copy(s, received))]
               /\ dropped' = dropped
      <4>1. out'[s] = Append(out[s], Copy(s, received)) /\ out[s] \in Seq(Object)
        BY <1>1, <3>1
      <4>2. Copy(s, received) \in Object
        BY <1>1, <2>1, AlertInHand DEF Sent
      <4>3. out'[s] # <<>> /\ out'[s] = Append(out[s], out'[s][Len(out'[s])])
        BY <4>1, <4>2, SendIsLast
      <4> QED
        BY <2>2, <3>1, <4>3 DEF SideStep
    <3>2. CASE /\ Len(out[s]) = Capacity(s)
               /\ out' = out
               /\ dropped' = [dropped EXCEPT ![s] = @ + 1]
      BY <1>1, <2>2, <3>2 DEF SideStep
    <3> QED
      BY <2>1, <2>4, <3>1, <3>2 DEF Sent
  <2> QED
    BY <2>3, <2>4
<1>3. ASSUME NEW t \in Side, Consume(t) PROVE SideStep(s)
  BY <1>1, <1>3 DEF Consume, SideStep
<1>4. CASE LoopDone
  BY <1>1, <1>4 DEF LoopDone, SideStep
<1>5. CASE UNCHANGED <<out, closed, dropped>>
  BY <1>5 DEF SideStep
<1> QED
  BY <1>2, <1>3, <1>4, <1>5
  DEF vars, Next, Loop, Environment, LoopInputClosed, Receive, CopyResponse, CopyStorage,
      CopyAlert, SendAlert, CloseInput, Cancel, Change

(* Each such step is one of LossyChannel's or a stutter. *)
LEMMA StepRefines ==
  IInv /\ [Next]_vars => /\ [ResponseOut!Next]_(ResponseOut!channelVars)
                         /\ [StorageOut!Next]_(StorageOut!channelVars)
<1> SUFFICES ASSUME IInv, [Next]_vars
             PROVE  /\ [ResponseOut!Next]_(ResponseOut!channelVars)
                    /\ [StorageOut!Next]_(StorageOut!channelVars)
  OBVIOUS
<1>1. closed' \in BOOLEAN
  BY StepTypeInv DEF IInv, TypeInv
<1>2. SideStep("response") /\ Capacity("response") = ResponseCap
  BY StepOfSide DEF Side, Capacity
<1>3. [ResponseOut!Next]_(ResponseOut!channelVars)
  BY <1>1, <1>2
  DEF SideStep, ResponseOut!Next, ResponseOut!channelVars, ResponseOut!Send,
      ResponseOut!Lose, ResponseOut!Receive, ResponseOut!Close
<1>4. SideStep("storage") /\ Capacity("storage") = StorageCap
  BY StepOfSide DEF Side, Capacity
<1>5. [StorageOut!Next]_(StorageOut!channelVars)
  BY <1>1, <1>4
  DEF SideStep, StorageOut!Next, StorageOut!channelVars, StorageOut!Send,
      StorageOut!Lose, StorageOut!Receive, StorageOut!Close
<1> QED
  BY <1>3, <1>5

(* A slow side loses only what it has no room for itself, and neither side *)
(* is sent anything once the outputs are closed.                           *)
THEOREM Refinement == Spec => ImplementsChannels
BY InitRefines, StepRefines, Invariance, PTL
DEF Spec, ImplementsChannels, ResponseOut!Spec, StorageOut!Spec
=============================================================================
