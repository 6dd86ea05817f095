------------------------- MODULE EventBuilderProofs -------------------------
(***************************************************************************)
(* Theorems about the building of an event, for all events auditd can      *)
(* write about: that the parent's name is one its process number has stood *)
(* for, whatever that comes to mean; that numbers are read as they were    *)
(* written, and each field as itself; that a file event names the file it  *)
(* is about, in any number and order of PATH records; that a connection    *)
(* has the address the program gave; that the command line is the          *)
(* program's; and that ptrace requests are named by their numbers.         *)
(***************************************************************************)
EXTENDS EventBuilder, SequenceTheorems, WellFoundedInduction, TLAPS

-----------------------------------------------------------------------------
(* The parent's name.                                                      *)

(* The building of an event never forgets a field of it.                   *)
EventInv ==
  /\ DOMAIN event = DOMAIN NoEvent
  /\ pc \in {"store", "base", "exe", "comm", "cmdline", "enrich", "done"}

(* The enrichments set neither the parent's name nor who did it.           *)
LEMMA EnrichKeeps ==
  ASSUME NEW e, NEW g, DOMAIN e = DOMAIN NoEvent
  PROVE  LET enriched == EnrichEventByKey(e, g)
         IN  /\ DOMAIN enriched = DOMAIN NoEvent
             /\ enriched.ParentImage = e.ParentImage
             /\ <<enriched.PID, enriched.PPID>> = <<e.PID, e.PPID>>
             /\ <<enriched.UID, enriched.EUID>> = <<e.UID, e.EUID>>
             /\ <<enriched.GID, enriched.EGID>> = <<e.GID, e.EGID>>
             /\ enriched.ImagePath = e.ImagePath
<1> DEFINE typed == [e EXCEPT !.Type = EventTypeOf[g.Key],
                              !.CommandLine = CleanCommandLine(g.Execve)]
           Kept(x) == /\ DOMAIN x = DOMAIN NoEvent
                      /\ x.ParentImage = e.ParentImage /\ x.ImagePath = e.ImagePath
                      /\ <<x.PID, x.PPID>> = <<e.PID, e.PPID>>
                      /\ <<x.UID, x.EUID>> = <<e.UID, e.EUID>>
                      /\ <<x.GID, x.EGID>> = <<e.GID, e.EGID>>
<1>1. Kept(typed) /\ Kept([e EXCEPT !.Type = "Unknown"])
  OBVIOUS
<1> HIDE DEF typed
<1>2. Kept(EnrichNetworkConnect(typed, g))
  BY <1>1 DEF EnrichNetworkConnect
<1>3. Kept(EnrichPrivilegeEscalation(typed, g))
  BY <1>1 DEF EnrichPrivilegeEscalation
<1>4. Kept(EnrichProcessAccess(typed, g))
  BY <1>1 DEF EnrichProcessAccess
<1>5. Kept(BindPathFields(typed, g))
  BY <1>1 DEF BindPathFields
<1>6. Kept(EnrichEventByKey(e, g))
  BY <1>1, <1>2, <1>3, <1>4, <1>5 DEF EnrichEventByKey, typed
<1> QED
  BY <1>6

(* What buildBaseEvent makes has all the fields, and no parent's name yet. *)
LEMMA BaseHas ==
  ASSUME NEW g
  PROVE  /\ DOMAIN BaseEvent(g) = DOMAIN NoEvent
         /\ BaseEvent(g).ParentImage = Empty
BY DEF BaseEvent, NoEvent

(* While the name is looked up there is none yet, and the number has stood *)
(* for what it stands for now; what has been read of a process the number  *)
(* has stood for throughout was empty.  Then the name is one of those read,*)
(* and the one that process goes by.                                       *)
ParentInv ==
  /\ pc \in {"exe", "comm", "cmdline"} => event.ParentImage = Empty /\ parent \in stood
  /\ pc \in {"comm", "cmdline"} => \A p \in stood : stood = {p} => p.exe = Empty
  /\ pc = "cmdline" => \A p \in stood : stood = {p} => p.comm = Empty
  /\ pc \in {"enrich", "done"} /\ event.PPID \in Int /\ event.PPID > 0 =>
       /\ event.ParentImage # Empty =>
            \E p \in stood : event.ParentImage \in {p.exe, p.comm, p.argv0}
       /\ \A p \in stood : stood = {p} => event.ParentImage = NameOf(p)

(* Nothing is looked up before the event is built.                         *)
LEMMA InitParent == Init => EventInv /\ ParentInv /\ fact \in Fact
BY DEF Init, EventInv, ParentInv

(* A read that gives a name ends the search with it, any other is followed *)
(* by the next; a change adds a second thing the number has stood for.     *)
LEMMA StepParent ==
  EventInv /\ ParentInv /\ fact \in Fact /\ [Next]_vars
    => (EventInv /\ ParentInv /\ fact \in Fact)'
<1> SUFFICES ASSUME EventInv, ParentInv, fact \in Fact, [Next]_vars
             PROVE  EventInv' /\ ParentInv' /\ fact' \in Fact
  OBVIOUS
<1>1. CASE StoreRecord
  BY <1>1 DEF StoreRecord, EventInv, ParentInv
<1>2. CASE BuildBaseEvent
  <2>1. /\ event' = BaseEvent(group) /\ stood' = {parent} /\ parent' = parent
        /\ fact' = fact
        /\ pc' = IF event'.PPID <= 0 THEN "enrich" ELSE "exe"
    BY <1>2 DEF BuildBaseEvent
  <2>2. DOMAIN event' = DOMAIN NoEvent /\ event'.ParentImage = Empty
    BY <2>1, BaseHas
  <2>3. pc' = "enrich" => ~(event'.PPID \in Int /\ event'.PPID > 0)
    BY <2>1
  <2> QED
    BY <2>1, <2>2, <2>3 DEF EventInv, ParentInv
<1>3. ASSUME NEW from \in {"exe", "comm", "cmdline"}, NEW text,
             NEW otherwise \in {"comm", "cmdline", "enrich"},
             Try(from, text, otherwise)
      PROVE  /\ EventInv' /\ fact' = fact /\ UNCHANGED <<parent, stood>>
             /\ pc = from
             /\ \/ text = Empty /\ pc' = otherwise /\ event' = event
                \/ text # Empty /\ pc' = "enrich" /\ event'.ParentImage = text
  <2>1. "ParentImage" \in DOMAIN event
    BY DEF EventInv, NoEvent
  <2> QED
    BY <1>3, <2>1 DEF Try, EventInv
<1>4. CASE ReadExe
  <2>1. Try("exe", parent.exe, "comm")
    BY <1>4 DEF ReadExe
  <2>2. /\ EventInv' /\ fact' = fact /\ UNCHANGED <<parent, stood>>
        /\ pc = "exe"
        /\ \/ parent.exe = Empty /\ pc' = "comm" /\ event' = event
           \/ parent.exe # Empty /\ pc' = "enrich" /\ event'.ParentImage = parent.exe
    BY <1>3, <2>1
  <2> QED
    BY <2>2 DEF ParentInv, NameOf
<1>5. CASE ReadComm
  <2>1. Try("comm", parent.comm, "cmdline")
    BY <1>5 DEF ReadComm
  <2>2. /\ EventInv' /\ fact' = fact /\ UNCHANGED <<parent, stood>>
        /\ pc = "comm"
        /\ \/ parent.comm = Empty /\ pc' = "cmdline" /\ event' = event
           \/ parent.comm # Empty /\ pc' = "enrich" /\ event'.ParentImage = parent.comm
    BY <1>3, <2>1
  <2> QED
    BY <2>2 DEF ParentInv, NameOf
<1>6. CASE ReadCmdline
  <2>1. Try("cmdline", parent.argv0, "enrich")
    BY <1>6 DEF ReadCmdline
  <2>2. /\ EventInv' /\ fact' = fact /\ UNCHANGED <<parent, stood>>
        /\ pc = "cmdline" /\ pc' = "enrich"
        /\ event'.ParentImage = parent.argv0
    BY <1>3, <2>1 DEF ParentInv
  <2> QED
    BY <2>2 DEF ParentInv, NameOf
<1>7. CASE Enrich
  <2>1. /\ event' = EnrichEventByKey(event, group) /\ pc = "enrich" /\ pc' = "done"
        /\ UNCHANGED <<fact, stood>>
    BY <1>7 DEF Enrich
  <2>2. /\ DOMAIN event' = DOMAIN NoEvent /\ event'.ParentImage = event.ParentImage
        /\ event'.PPID = event.PPID
    BY <2>1, EnrichKeeps DEF EventInv
  <2> QED
    BY <2>1, <2>2 DEF EventInv, ParentInv
<1>8. CASE ParentChanges
  <2>1. /\ UNCHANGED <<fact, pc, event>> /\ parent' # parent
        /\ stood' = IF pc \in {"exe", "comm", "cmdline"} THEN stood \cup {parent'} ELSE stood
    BY <1>8 DEF ParentChanges
  <2>2. CASE pc \in {"exe", "comm", "cmdline"}
    <3>1. parent \in stood' /\ parent' \in stood' /\ ~\E p \in stood' : stood' = {p}
      BY <2>1, <2>2 DEF ParentInv
    <3> QED
      BY <2>1, <2>2, <3>1 DEF EventInv, ParentInv
  <2>3. CASE pc \notin {"exe", "comm", "cmdline"}
    BY <2>1, <2>3 DEF EventInv, ParentInv
  <2> QED
    BY <2>2, <2>3
<1>9. CASE UNCHANGED vars
  BY <1>9 DEF vars, EventInv, ParentInv
<1> QED
  BY <1>1, <1>2, <1>4, <1>5, <1>6, <1>7, <1>8, <1>9 DEF Next

-----------------------------------------------------------------------------
(* Induction.  A set of numbers has a least one, and a predicate is the set*)
(* of the numbers it holds for: so nothing here takes an operator.         *)

(* A set of numbers has a least one.                                       *)
LEMMA LeastIs ==
  ASSUME NEW I \in SUBSET Nat, I # {}
  PROVE  Min(I) \in I /\ \A i \in I : Min(I) <= i
<1>1. PICK m \in I : \A i \in I : ~(<<i, m>> \in OpToRel(<, Nat))
  BY NatLessThanWellFounded, WFMin
<1>2. \A i \in I : m <= i
  <2> SUFFICES ASSUME NEW i \in I PROVE m <= i
    OBVIOUS
  <2>1. ~(i < m)
    BY <1>1 DEF OpToRel
  <2> QED
    BY <2>1
<1> QED
  BY <1>2 DEF Min

(* Induction, for a set of numbers.                                        *)
LEMMA Inductive ==
  ASSUME NEW S, 0 \in S, \A n \in Nat : n \in S => n + 1 \in S
  PROVE  Nat \subseteq S
<1> DEFINE missing == Nat \ S
<1> SUFFICES ASSUME missing # {} PROVE FALSE
  OBVIOUS
<1>1. PICK m \in missing : \A i \in missing : m <= i
  <2>1. missing \in SUBSET Nat
    OBVIOUS
  <2> HIDE DEF missing
  <2> QED
    BY <2>1, LeastIs
<1>2. m - 1 \in Nat /\ (m - 1) + 1 = m /\ ~(m <= m - 1)
  BY <1>1
<1> QED
  BY <1>1, <1>2

(* Induction over all smaller numbers.                                     *)
LEMMA Progressive ==
  ASSUME NEW S, \A n \in Nat : (\A m \in 0 .. n - 1 : m \in S) => n \in S
  PROVE  Nat \subseteq S
<1> DEFINE missing == Nat \ S
<1> SUFFICES ASSUME missing # {} PROVE FALSE
  OBVIOUS
<1>1. PICK m \in missing : \A i \in missing : m <= i
  <2>1. missing \in SUBSET Nat
    OBVIOUS
  <2> HIDE DEF missing
  <2> QED
    BY <2>1, LeastIs
<1>2. \A i \in 0 .. m - 1 : i \in Nat /\ ~(m <= i)
  BY <1>1
<1> QED
  BY <1>1, <1>2

(* The greatest element of a set of indices.                               *)
LEMMA GreatestIs ==
  ASSUME NEW n \in Nat, NEW s \in SUBSET (1 .. n + 1), n + 1 \in s
  PROVE  Max(s) = n + 1
<1>1. \A y \in s : n + 1 >= y
  OBVIOUS
<1>2. \A x \in s : (\A y \in s : x >= y) => x = n + 1
  OBVIOUS
<1> QED
  BY <1>1, <1>2 DEF Max

(* A set of indices has a greatest one.                                   *)
LEMMA MaxIn ==
  ASSUME NEW n \in Nat, NEW s \in SUBSET (1 .. n), s # {}
  PROVE  Max(s) \in s /\ \A x \in s : x <= Max(s)
<1> DEFINE I == {n - x : x \in s}
<1>1. I \in SUBSET Nat /\ I # {}
  <2>1. \A x \in s : n - x \in Nat
    OBVIOUS
  <2> QED
    BY <2>1
<1> HIDE DEF I
<1>2. PICK m \in I : \A i \in I : m <= i
  BY <1>1, LeastIs
<1>3. PICK x \in s : m = n - x
  BY DEF I
<1>4. \A y \in s : n - y \in I
  BY DEF I
<1>5. \A y \in s : y <= x
  <2> SUFFICES ASSUME NEW y \in s PROVE y <= x
    OBVIOUS
  <2>1. m <= n - y
    BY <1>2, <1>4
  <2> QED
    BY <1>3, <2>1
<1> QED
  BY <1>3, <1>5 DEF Max

(* A fold's recursion over sets of indices has a solution.                 *)
Folds(iter, n, base, step) ==
  \A s \in SUBSET (1 .. n) :
     iter[s] = IF s = {} THEN base ELSE step[Max(s)][iter[s \ {Max(s)}]]

LEMMA IterExists ==
  ASSUME NEW n \in Nat, NEW X, NEW base \in X, NEW step \in [1 .. n -> [X -> X]]
  PROVE  \E iter \in [SUBSET (1 .. n) -> X] : Folds(iter, n, base, step)
<1> DEFINE Solves(iter, k) ==
             \A s \in SUBSET (1 .. k) :
                iter[s] = IF s = {} THEN base ELSE step[Max(s)][iter[s \ {Max(s)}]]
           S == {k \in Nat : k <= n => \E iter \in [SUBSET (1 .. k) -> X] : Solves(iter, k)}
<1>1. 0 \in S
  <2> DEFINE iter == [s \in SUBSET (1 .. 0) |-> base]
  <2>1. 1 .. 0 = {}
    OBVIOUS
  <2>2. iter \in [SUBSET (1 .. 0) -> X] /\ Solves(iter, 0)
    BY <2>1
  <2> HIDE DEF iter, Solves
  <2> QED
    BY <2>2
<1>2. ASSUME NEW k \in Nat, k \in S
      PROVE  k + 1 \in S
  <2> HIDE DEF Solves
  <2>0. k + 1 \in Nat
    OBVIOUS
  <2> SUFFICES ASSUME k + 1 <= n
               PROVE  \E iter \in [SUBSET (1 .. k + 1) -> X] : Solves(iter, k + 1)
    BY <2>0
  <2> USE DEF Solves
  <2>1. k <= n
    OBVIOUS
  <2>2. PICK old \in [SUBSET (1 .. k) -> X] : Solves(old, k)
    BY <1>2, <2>1
  <2> DEFINE iter == [s \in SUBSET (1 .. k + 1) |->
                        IF k + 1 \in s THEN step[k + 1][old[s \ {k + 1}]] ELSE old[s]]
  <2>3. \A s \in SUBSET (1 .. k + 1) : s \ {k + 1} \in SUBSET (1 .. k)
    OBVIOUS
  <2>4. \A s \in SUBSET (1 .. k) : s \in SUBSET (1 .. k + 1) /\ k + 1 \notin s
    OBVIOUS
  <2>5. \A s \in SUBSET (1 .. k + 1) : k + 1 \notin s => s \in SUBSET (1 .. k)
    BY <2>3
  <2>6. iter \in [SUBSET (1 .. k + 1) -> X]
    <3> SUFFICES ASSUME NEW s \in SUBSET (1 .. k + 1) PROVE iter[s] \in X
      OBVIOUS
    <3>1. CASE k + 1 \in s
      <4>1. old[s \ {k + 1}] \in X
        BY <2>2, <2>3
      <4>2. k + 1 \in 1 .. n /\ step[k + 1] \in [X -> X]
        BY <4>1
      <4> QED
        BY <3>1, <4>2
    <3>2. CASE k + 1 \notin s
      BY <2>2, <2>5, <3>2
    <3> QED
      BY <3>1, <3>2
  <2>7. ASSUME NEW s \in SUBSET (1 .. k + 1)
        PROVE  iter[s] = IF s = {} THEN base ELSE step[Max(s)][iter[s \ {Max(s)}]]
    <3>1. CASE k + 1 \in s
      <4>1. Max(s) = k + 1
        BY <3>1, GreatestIs
      <4>2. iter[s] = step[k + 1][old[s \ {k + 1}]]
        BY <3>1
      <4>3. iter[s \ {k + 1}] = old[s \ {k + 1}]
        BY <2>3, <2>4
      <4> HIDE DEF iter
      <4> QED
        BY <3>1, <4>1, <4>2, <4>3
    <3>2. CASE k + 1 \notin s
      <4>1. s \in SUBSET (1 .. k)
        BY <2>5, <3>2
      <4>2. iter[s] = old[s] /\ iter[s \ {Max(s)}] = old[s \ {Max(s)}]
        BY <2>4, <4>1
      <4> HIDE DEF iter
      <4> QED
        BY <2>2, <4>1, <4>2
    <3> QED
      BY <3>1, <3>2
  <2>8. Solves(iter, k + 1)
    BY <2>7
  <2> HIDE DEF iter, Solves
  <2> QED
    BY <2>6, <2>8
<1> HIDE DEF S
<1>3. n \in S
  BY <1>1, <1>2, Inductive
<1> HIDE DEF Solves
<1>4. \E iter \in [SUBSET (1 .. n) -> X] : Solves(iter, n)
  BY <1>3 DEF S
<1> QED
  BY <1>4 DEF Solves, Folds

(* The indices up to the next one.                                         *)
LEMMA PrefixIs ==
  ASSUME NEW i \in Nat
  PROVE  /\ 1 .. i + 1 # {} /\ Max(1 .. i + 1) = i + 1
         /\ (1 .. i + 1) \ {i + 1} = 1 .. i
<1>1. Max(1 .. i + 1) = i + 1
  BY GreatestIs
<1> QED
  BY <1>1

(* What a fold has come to after so many elements.                         *)
FoldsIn(iter, n, X, base, step) ==
  /\ iter[{}] = base
  /\ \A s \in SUBSET (1 .. n) : s # {} /\ iter[s \ {Max(s)}] \in X =>
        iter[s] = step[Max(s)][iter[s \ {Max(s)}]]

Accumulates(after, n, base, step) ==
  /\ after[0] = base
  /\ \A i \in 0 .. n - 1 : after[i + 1] = step[i + 1][after[i]]

LEMMA FoldAfter ==
  ASSUME NEW n \in Nat, NEW X, NEW base \in X, NEW step \in [1 .. n -> [X -> X]],
         NEW iter, FoldsIn(iter, n, X, base, step)
  PROVE  \E after \in [0 .. n -> X] :
            Accumulates(after, n, base, step) /\ after[n] = iter[1 .. n]
<1> DEFINE S == {i \in Nat : i <= n => iter[1 .. i] \in X}
           after == [i \in 0 .. n |-> iter[1 .. i]]
<1>1. iter[1 .. 0] = base
  <2>1. 1 .. 0 = {}
    OBVIOUS
  <2> QED
    BY <2>1 DEF FoldsIn
<1>2. ASSUME NEW i \in 0 .. n - 1, iter[1 .. i] \in X
      PROVE  iter[1 .. i + 1] = step[i + 1][iter[1 .. i]] /\ iter[1 .. i + 1] \in X
  <2> DEFINE s == 1 .. i + 1
  <2>1. s \in SUBSET (1 .. n) /\ i \in Nat /\ i + 1 \in 1 .. n
    OBVIOUS
  <2>2. s # {} /\ Max(s) = i + 1 /\ s \ {Max(s)} = 1 .. i
    BY <2>1, PrefixIs
  <2> HIDE DEF s
  <2>3. iter[s] = step[i + 1][iter[1 .. i]]
    BY <1>2, <2>1, <2>2 DEF FoldsIn
  <2>4. step[i + 1] \in [X -> X]
    BY <2>1
  <2> QED
    BY <1>2, <2>3, <2>4 DEF s
<1>3. \A i \in 0 .. n : iter[1 .. i] \in X
  <2>1. 0 \in S
    BY <1>1
  <2>2. ASSUME NEW i \in Nat, i \in S PROVE i + 1 \in S
    <3>1. i + 1 <= n => iter[1 .. i] \in X /\ i \in 0 .. n - 1
      BY <2>2
    <3>2. i + 1 <= n => iter[1 .. i + 1] \in X
      BY <1>2, <3>1
    <3>3. i + 1 \in Nat
      OBVIOUS
    <3> QED
      BY <3>2, <3>3
  <2> HIDE DEF S
  <2>3. Nat \subseteq S
    BY <2>1, <2>2, Inductive
  <2> QED
    BY <2>3 DEF S
<1>4. /\ after \in [0 .. n -> X]
      /\ after[0] = base /\ after[n] = iter[1 .. n]
  BY <1>1, <1>3
<1>5. \A i \in 0 .. n - 1 : after[i + 1] = step[i + 1][after[i]]
  <2> SUFFICES ASSUME NEW i \in 0 .. n - 1 PROVE after[i + 1] = step[i + 1][after[i]]
    OBVIOUS
  <2>1. i \in 0 .. n /\ i + 1 \in 0 .. n
    OBVIOUS
  <2> QED
    BY <1>2, <1>3, <2>1
<1> HIDE DEF after
<1> QED
  BY <1>4, <1>5 DEF Accumulates

(* The value of a sequence of digits, which is a fold.                     *)
Counts(v, base, ds) ==
  /\ v[0] = 0
  /\ \A i \in 0 .. Len(ds) - 1 : v[i + 1] = base * v[i] + ds[i + 1]

(* What a number has come to after so many digits.                         *)
LEMMA ValueAfter ==
  ASSUME NEW base \in Nat, NEW ds \in Seq(Nat)
  PROVE  \E v \in [0 .. Len(ds) -> Nat] :
            Counts(v, base, ds) /\ v[Len(ds)] = ValueIn(base, ds)
<1> DEFINE n == Len(ds)
           Body(f) == [s \in SUBSET (1 .. n) |->
                         IF s = {} THEN 0
                         ELSE base * f[s \ {Max(s)}] + ds[Max(s)]]
           F == CHOOSE f : f = Body(f)
           step == [k \in 1 .. n |-> [x \in Nat |-> base * x + ds[k]]]
           N == Nat
<1>1. n \in Nat /\ DOMAIN ds = 1 .. n /\ \A k \in 1 .. n : ds[k] \in Nat
  OBVIOUS
<1>2. ValueIn(base, ds) = F[1 .. n]
  BY <1>1 DEF ValueIn, FoldLeft, MapThenFoldSet
<1> HIDE DEF n
<1>3. /\ step \in [1 .. n -> [Nat -> Nat]]
      /\ \A k \in 1 .. n, x \in Nat : step[k][x] = base * x + ds[k]
  <2>1. \A x \in Nat : base * x \in Nat
    OBVIOUS
  <2> QED
    BY <1>1, <2>1
<1> HIDE DEF step, N
<1>4. PICK iter \in [SUBSET (1 .. n) -> N] : Folds(iter, n, 0, step)
  <2>1. 0 \in N /\ step \in [1 .. n -> [N -> N]]
    BY <1>3 DEF N
  <2> QED
    BY <1>1, <2>1, IterExists
<1>5. ASSUME NEW s \in SUBSET (1 .. n), s # {}
      PROVE  Max(s) \in 1 .. n /\ s \ {Max(s)} \in SUBSET (1 .. n)
  BY <1>1, <1>5, MaxIn
<1>6. F = Body(F)
  <2>1. \A s \in SUBSET (1 .. n) : iter[s] = Body(iter)[s]
    BY <1>3, <1>4, <1>5 DEF Folds, N
  <2> HIDE DEF Body
  <2>2. Body(iter) = [s \in SUBSET (1 .. n) |-> Body(iter)[s]]
    BY DEF Body
  <2>3. iter = Body(iter)
    BY <1>4, <2>1, <2>2
  <2> QED
    BY <2>3
<1> HIDE DEF F
<1>7. F[{}] = 0
  BY <1>6
<1>8. FoldsIn(F, n, N, 0, step)
  <2>1. ASSUME NEW s \in SUBSET (1 .. n), s # {}, F[s \ {Max(s)}] \in N
        PROVE  F[s] = step[Max(s)][F[s \ {Max(s)}]]
    <3>1. Max(s) \in 1 .. n
      BY <1>5, <2>1
    <3>2. F[s] = base * F[s \ {Max(s)}] + ds[Max(s)]
      BY <1>6, <2>1
    <3> HIDE DEF Body
    <3> QED
      BY <1>3, <2>1, <3>1, <3>2 DEF N
  <2> HIDE DEF Body
  <2> QED
    BY <1>7, <2>1 DEF FoldsIn
<1> HIDE DEF Body
<1>9. PICK after \in [0 .. n -> N] :
         Accumulates(after, n, 0, step) /\ after[n] = F[1 .. n]
  <2>1. 0 \in N /\ step \in [1 .. n -> [N -> N]]
    BY <1>3 DEF N
  <2> QED
    BY <1>1, <1>8, <2>1, FoldAfter
<1>10. \A i \in 0 .. n - 1 : after[i + 1] = base * after[i] + ds[i + 1]
  <2> SUFFICES ASSUME NEW i \in 0 .. n - 1
               PROVE  after[i + 1] = base * after[i] + ds[i + 1]
    OBVIOUS
  <2>1. i \in 0 .. n /\ i + 1 \in 1 .. n
    BY <1>1
  <2> QED
    BY <1>3, <1>9, <2>1 DEF N, Accumulates
<1> QED
  BY <1>2, <1>9, <1>10 DEF N, n, Accumulates, Counts

(* It is determined by the digits.                                         *)
LEMMA ValueIs ==
  ASSUME NEW base \in Nat, NEW ds \in Seq(Nat), NEW v,
         Counts(v, base, ds)
  PROVE  ValueIn(base, ds) = v[Len(ds)]
<1> DEFINE n == Len(ds)
<1>1. PICK w \in [0 .. n -> Nat] : Counts(w, base, ds) /\ w[n] = ValueIn(base, ds)
  BY ValueAfter
<1>2. n \in Nat
  OBVIOUS
<1> HIDE DEF n
<1> DEFINE S == {i \in Nat : i <= n => v[i] = w[i]}
<1>3. 0 \in S
  BY <1>1 DEF Counts
<1>4. ASSUME NEW i \in Nat, i \in S PROVE i + 1 \in S
  <2>1. i + 1 <= n => i \in 0 .. n - 1 /\ v[i] = w[i]
    BY <1>2, <1>4
  <2>2. i + 1 <= n => v[i + 1] = w[i + 1]
    BY <1>1, <2>1 DEF n, Counts
  <2>3. i + 1 \in Nat
    OBVIOUS
  <2> QED
    BY <2>2, <2>3
<1> HIDE DEF S
<1>5. n \in S
  BY <1>2, <1>3, <1>4, Inductive
<1> QED
  BY <1>1, <1>2, <1>5 DEF S, n

(* The value of one digit, and of a number with one more digit.            *)
LEMMA ValueOfDigit ==
  ASSUME NEW base \in Nat, NEW d \in Nat
  PROVE  ValueIn(base, <<d>>) = d
<1> DEFINE ds == <<d>>
           v == [i \in 0 .. 1 |-> IF i = 0 THEN 0 ELSE d]
<1>1. ds \in Seq(Nat) /\ Len(ds) = 1 /\ ds[1] = d
  OBVIOUS
<1>2. v[0] = 0 /\ v[1] = d /\ base * 0 = 0
  OBVIOUS
<1> HIDE DEF ds, v
<1>3. Counts(v, base, ds)
  <2> SUFFICES ASSUME NEW i \in 0 .. Len(ds) - 1
               PROVE  v[i + 1] = base * v[i] + ds[i + 1]
    BY <1>2 DEF Counts
  <2>1. i = 0
    BY <1>1
  <2> QED
    BY <1>1, <1>2, <2>1
<1>4. ValueIn(base, ds) = v[Len(ds)]
  BY <1>1, <1>3, ValueIs
<1> QED
  BY <1>1, <1>2, <1>4 DEF ds

LEMMA ValueOfAppend ==
  ASSUME NEW base \in Nat, NEW ds \in Seq(Nat), NEW d \in Nat
  PROVE  /\ ValueIn(base, ds) \in Nat
         /\ ValueIn(base, Append(ds, d)) = base * ValueIn(base, ds) + d
<1> DEFINE n == Len(ds)
           more == Append(ds, d)
<1>1. /\ n \in Nat /\ more \in Seq(Nat) /\ Len(more) = n + 1
      /\ more[n + 1] = d /\ \A i \in 1 .. n : more[i] = ds[i]
  OBVIOUS
<1> HIDE DEF more
<1>2. PICK v \in [0 .. Len(more) -> Nat] :
         Counts(v, base, more) /\ v[Len(more)] = ValueIn(base, more)
  BY <1>1, ValueAfter
<1> HIDE DEF n
<1>3. \A i \in 0 .. n : v[i + 1] = base * v[i] + more[i + 1]
  <2>1. 0 .. Len(more) - 1 = 0 .. n
    BY <1>1
  <2> QED
    BY <1>2, <2>1 DEF Counts
<1>4. Counts(v, base, ds)
  <2> SUFFICES ASSUME NEW i \in 0 .. n - 1
               PROVE  v[i + 1] = base * v[i] + ds[i + 1]
    BY <1>2 DEF Counts, n
  <2>1. i \in 0 .. n /\ i + 1 \in 1 .. n
    BY <1>1
  <2> QED
    BY <1>1, <1>3, <2>1
<1>5. ValueIn(base, ds) = v[n]
  BY <1>4, ValueIs DEF n
<1>6. v[n + 1] = base * v[n] + more[n + 1] /\ v[n] \in Nat
  BY <1>1, <1>2, <1>3
<1> QED
  BY <1>1, <1>2, <1>5, <1>6 DEF more

(* What is kept of the texts read so far.                                  *)
Keeps(v, texts) ==
  /\ v[0] = <<>>
  /\ \A i \in 0 .. Len(texts) - 1 :
       v[i + 1] = IF texts[i + 1] = Empty THEN v[i] ELSE Append(v[i], texts[i + 1])

LEMMA KeptAfter ==
  ASSUME NEW T, NEW texts \in Seq(T)
  PROVE  \E v \in [0 .. Len(texts) -> Seq(T)] :
            Keeps(v, texts) /\ v[Len(texts)] = NonEmptyOf(texts)
<1> DEFINE n == Len(texts)
           Body(f) == [s \in SUBSET (1 .. n) |->
                         IF s = {} THEN <<>>
                         ELSE IF texts[Max(s)] = Empty THEN f[s \ {Max(s)}]
                         ELSE Append(f[s \ {Max(s)}], texts[Max(s)])]
           F == CHOOSE f : f = Body(f)
           step == [k \in 1 .. n |->
                      [x \in Seq(T) |-> IF texts[k] = Empty THEN x ELSE Append(x, texts[k])]]
           X == Seq(T)
           none == <<>>
<1>1. n \in Nat /\ DOMAIN texts = 1 .. n /\ \A k \in 1 .. n : texts[k] \in T
  OBVIOUS
<1>2. NonEmptyOf(texts) = F[1 .. n]
  BY <1>1 DEF NonEmptyOf, FoldLeft, MapThenFoldSet
<1> HIDE DEF n
<1>3. /\ step \in [1 .. n -> [Seq(T) -> Seq(T)]]
      /\ \A k \in 1 .. n, x \in Seq(T) :
           step[k][x] = IF texts[k] = Empty THEN x ELSE Append(x, texts[k])
  <2>1. \A k \in 1 .. n, x \in Seq(T) : Append(x, texts[k]) \in Seq(T)
    BY <1>1
  <2> QED
    BY <2>1
<1> HIDE DEF step, X, none
<1>4. PICK iter \in [SUBSET (1 .. n) -> X] : Folds(iter, n, none, step)
  <2>1. none \in X /\ step \in [1 .. n -> [X -> X]]
    BY <1>3 DEF X, none
  <2> QED
    BY <1>1, <2>1, IterExists
<1>5. ASSUME NEW s \in SUBSET (1 .. n), s # {}
      PROVE  Max(s) \in 1 .. n /\ s \ {Max(s)} \in SUBSET (1 .. n)
  BY <1>1, <1>5, MaxIn
<1>6. F = Body(F)
  <2>1. \A s \in SUBSET (1 .. n) : iter[s] = Body(iter)[s]
    BY <1>3, <1>4, <1>5 DEF Folds, X, none
  <2> HIDE DEF Body
  <2>2. Body(iter) = [s \in SUBSET (1 .. n) |-> Body(iter)[s]]
    BY DEF Body
  <2>3. iter = Body(iter)
    BY <1>4, <2>1, <2>2
  <2> QED
    BY <2>3
<1> HIDE DEF F
<1>7. F[{}] = <<>>
  BY <1>6
<1>8. FoldsIn(F, n, X, none, step)
  <2>1. ASSUME NEW s \in SUBSET (1 .. n), s # {}, F[s \ {Max(s)}] \in X
        PROVE  F[s] = step[Max(s)][F[s \ {Max(s)}]]
    <3>1. Max(s) \in 1 .. n
      BY <1>5, <2>1
    <3>2. F[s] = IF texts[Max(s)] = Empty THEN F[s \ {Max(s)}]
                 ELSE Append(F[s \ {Max(s)}], texts[Max(s)])
      BY <1>6, <2>1
    <3> HIDE DEF Body
    <3> QED
      BY <1>3, <2>1, <3>1, <3>2 DEF X
  <2> HIDE DEF Body
  <2> QED
    BY <1>7, <2>1 DEF FoldsIn, none
<1> HIDE DEF Body
<1>9. PICK after \in [0 .. n -> X] :
         Accumulates(after, n, none, step) /\ after[n] = F[1 .. n]
  <2>1. none \in X /\ step \in [1 .. n -> [X -> X]]
    BY <1>3 DEF X, none
  <2>2. n \in Nat
    BY <1>1
  <2> QED
    BY <1>8, <2>1, <2>2, FoldAfter
<1>10. \A i \in 0 .. n - 1 :
         after[i + 1] = IF texts[i + 1] = Empty THEN after[i]
                        ELSE Append(after[i], texts[i + 1])
  <2> SUFFICES ASSUME NEW i \in 0 .. n - 1
               PROVE  after[i + 1] = IF texts[i + 1] = Empty THEN after[i]
                                     ELSE Append(after[i], texts[i + 1])
    OBVIOUS
  <2>1. i \in 0 .. n /\ i + 1 \in 1 .. n
    BY <1>1
  <2> QED
    BY <1>3, <1>9, <2>1 DEF X, Accumulates
<1> QED
  BY <1>2, <1>9, <1>10 DEF X, n, none, Accumulates, Keeps

(* Texts none of which is empty are all kept.                              *)
LEMMA AllKept ==
  ASSUME NEW T, NEW texts \in Seq(T), \A k \in DOMAIN texts : texts[k] # Empty
  PROVE  NonEmptyOf(texts) = texts
<1> DEFINE n == Len(texts)
<1>1. n \in Nat /\ DOMAIN texts = 1 .. n
  OBVIOUS
<1>2. PICK v \in [0 .. n -> Seq(T)] : Keeps(v, texts) /\ v[n] = NonEmptyOf(texts)
  BY KeptAfter
<1> HIDE DEF n
<1> DEFINE S == {i \in Nat : i <= n => v[i] = SubSeq(texts, 1, i)}
<1>3. 0 \in S
  <2>1. SubSeq(texts, 1, 0) = <<>>
    OBVIOUS
  <2> QED
    BY <1>2, <2>1 DEF Keeps
<1>4. ASSUME NEW i \in Nat, i \in S PROVE i + 1 \in S
  <2> SUFFICES ASSUME i + 1 <= n PROVE v[i + 1] = SubSeq(texts, 1, i + 1)
    OBVIOUS
  <2>1. i \in 0 .. n - 1 /\ i + 1 \in 1 .. n /\ v[i] = SubSeq(texts, 1, i)
    BY <1>1, <1>4
  <2>2. v[i + 1] = Append(v[i], texts[i + 1])
    BY <1>1, <1>2, <2>1 DEF Keeps, n
  <2>3. Append(SubSeq(texts, 1, i), texts[i + 1]) = SubSeq(texts, 1, i + 1)
    BY <1>1, <2>1 DEF n
  <2> QED
    BY <2>1, <2>2, <2>3
<1> HIDE DEF S
<1>5. n \in S
  BY <1>1, <1>3, <1>4, Inductive
<1>6. SubSeq(texts, 1, n) = texts
  BY DEF n
<1> QED
  BY <1>1, <1>2, <1>5, <1>6 DEF S

(* A first text that is not empty stays the first.                         *)
LEMMA FirstKept ==
  ASSUME NEW T, NEW texts \in Seq(T), Len(texts) >= 1, texts[1] # Empty
  PROVE  Len(NonEmptyOf(texts)) >= 1 /\ NonEmptyOf(texts)[1] = texts[1]
<1> DEFINE n == Len(texts)
<1>1. n \in Nat /\ n >= 1
  OBVIOUS
<1>2. PICK v \in [0 .. n -> Seq(T)] : Keeps(v, texts) /\ v[n] = NonEmptyOf(texts)
  BY KeptAfter
<1>3. \A i \in 0 .. n - 1 :
        v[i + 1] = IF texts[i + 1] = Empty THEN v[i] ELSE Append(v[i], texts[i + 1])
  BY <1>2 DEF Keeps
<1>4. \A i \in 1 .. n : texts[i] \in T
  OBVIOUS
<1> HIDE DEF n
<1> DEFINE S == {i \in Nat : i + 1 <= n => Len(v[i + 1]) >= 1 /\ v[i + 1][1] = texts[1]}
<1>5. 0 \in S
  <2>1. v[1] = Append(v[0], texts[1]) /\ v[0] = <<>>
    <3>1. 0 \in 0 .. n - 1 /\ 0 + 1 = 1
      BY <1>1
    <3> QED
      BY <1>2, <1>3, <3>1 DEF Keeps
  <2>2. Append(<<>>, texts[1]) = <<texts[1]>>
    OBVIOUS
  <2> QED
    BY <2>1, <2>2
<1>6. ASSUME NEW i \in Nat, i \in S PROVE i + 1 \in S
  <2> SUFFICES ASSUME (i + 1) + 1 <= n
               PROVE  Len(v[(i + 1) + 1]) >= 1 /\ v[(i + 1) + 1][1] = texts[1]
    OBVIOUS
  <2>1. i + 1 \in 0 .. n - 1 /\ i + 1 \in 0 .. n /\ (i + 1) + 1 \in 1 .. n
    BY <1>1
  <2>2. v[i + 1] \in Seq(T) /\ Len(v[i + 1]) >= 1 /\ v[i + 1][1] = texts[1]
    BY <1>1, <1>2, <1>6, <2>1
  <2>3. v[(i + 1) + 1] = v[i + 1] \/ v[(i + 1) + 1] = Append(v[i + 1], texts[(i + 1) + 1])
    BY <1>3, <2>1
  <2> DEFINE w == v[i + 1]
             t == texts[(i + 1) + 1]
  <2>4. w \in Seq(T) /\ Len(w) \in Nat /\ Len(w) >= 1 /\ w[1] = texts[1] /\ t \in T
    BY <1>4, <2>1, <2>2
  <2>5. v[(i + 1) + 1] = w \/ v[(i + 1) + 1] = Append(w, t)
    BY <2>3
  <2> HIDE DEF w, t, S
  <2>6. Len(Append(w, t)) >= 1 /\ Append(w, t)[1] = w[1]
    BY <2>4
  <2> QED
    BY <2>4, <2>5, <2>6
<1> HIDE DEF S
<1>7. n - 1 \in S
  <2>1. n - 1 \in Nat
    BY <1>1
  <2> QED
    BY <1>5, <1>6, <2>1, Inductive
<1>8. (n - 1) + 1 = n
  BY <1>1
<1> QED
  BY <1>1, <1>2, <1>7, <1>8 DEF S

-----------------------------------------------------------------------------
(* The digits auditd writes for a number, which are a recursive function.  *)

(* Division by the bases in use.                                           *)
LEMMA Divided ==
  ASSUME NEW base \in {10, 16}, NEW m \in Nat
  PROVE  /\ m \div base \in Nat /\ m % base \in 0 .. base - 1
         /\ base * (m \div base) + (m % base) = m
         /\ m >= base => m \div base < m
<1>1. CASE base = 10
  BY <1>1
<1>2. CASE base = 16
  BY <1>2
<1> QED
  BY <1>1, <1>2

(* The digits of the numbers up to one.                                    *)
DigitsUpTo(g, base, k) ==
  \A m \in 0 .. k :
     g[m] = IF m < base THEN <<m>> ELSE Append(g[m \div base], m % base)

LEMMA DigitsExist ==
  ASSUME NEW base \in {10, 16}, NEW k \in Nat
  PROVE  \E g : DigitsUpTo(g, base, k)
<1> DEFINE S == {i \in Nat : \E g : DigitsUpTo(g, base, i)}
<1>1. 0 \in S
  <2>1. DigitsUpTo([m \in 0 .. 0 |-> <<m>>], base, 0)
    BY DEF DigitsUpTo
  <2> QED
    BY <2>1
<1>2. ASSUME NEW i \in Nat, i \in S PROVE i + 1 \in S
  <2>1. PICK g : DigitsUpTo(g, base, i)
    BY <1>2
  <2> DEFINE h == [m \in 0 .. i + 1 |->
                     IF m < base THEN <<m>> ELSE Append(g[m \div base], m % base)]
  <2>2. ASSUME NEW m \in 0 .. i + 1, ~(m < base)
        PROVE  h[m \div base] = g[m \div base]
    <3>1. m \div base \in 0 .. i
      BY <2>2, Divided
    <3> QED
      BY <2>1, <3>1 DEF DigitsUpTo
  <2>3. DigitsUpTo(h, base, i + 1)
    <3>1. \A m \in 0 .. i + 1 :
             h[m] = IF m < base THEN <<m>> ELSE Append(g[m \div base], m % base)
      OBVIOUS
    <3> HIDE DEF h
    <3> QED
      BY <2>2, <3>1 DEF DigitsUpTo
  <2> HIDE DEF h
  <2> QED
    BY <2>3
<1> HIDE DEF S
<1>3. k \in S
  BY <1>1, <1>2, Inductive
<1> QED
  BY <1>3 DEF S

LEMMA DigitsAgree ==
  ASSUME NEW base \in {10, 16}, NEW j \in Nat, NEW k \in Nat, NEW g, NEW h,
         DigitsUpTo(g, base, j), DigitsUpTo(h, base, k)
  PROVE  \A m \in Nat : m <= j /\ m <= k => g[m] = h[m]
<1> DEFINE S == {m \in Nat : m <= j /\ m <= k => g[m] = h[m]}
<1>1. ASSUME NEW m \in Nat, \A i \in 0 .. m - 1 : i \in S PROVE m \in S
  <2> SUFFICES ASSUME m <= j, m <= k PROVE g[m] = h[m]
    OBVIOUS
  <2>1. /\ g[m] = IF m < base THEN <<m>> ELSE Append(g[m \div base], m % base)
        /\ h[m] = IF m < base THEN <<m>> ELSE Append(h[m \div base], m % base)
    BY DEF DigitsUpTo
  <2>2. ~(m < base) => g[m \div base] = h[m \div base]
    <3> SUFFICES ASSUME ~(m < base) PROVE g[m \div base] = h[m \div base]
      OBVIOUS
    <3>1. m \div base \in 0 .. m - 1
      BY Divided
    <3> QED
      BY <1>1, <3>1
  <2> QED
    BY <2>1, <2>2
<1> HIDE DEF S
<1>2. Nat \subseteq S
  BY <1>1, Progressive
<1> QED
  BY <1>2 DEF S

(* auditd writes the last digit behind those of the rest.                  *)
LEMMA DigitsAre ==
  ASSUME NEW base \in {10, 16}, NEW n \in Nat
  PROVE  DigitsIn(base, n) =
           IF n < base THEN <<n>> ELSE Append(DigitsIn(base, n \div base), n % base)
<1> DEFINE Body(f) == [m \in Nat |->
                         IF m < base THEN <<m>> ELSE Append(f[m \div base], m % base)]
           F == CHOOSE f : f = Body(f)
           Some(m) == CHOOSE g : DigitsUpTo(g, base, m)
           G == [m \in Nat |-> Some(m)[m]]
<1>1. \A m \in Nat : DigitsIn(base, m) = F[m]
  BY DEF DigitsIn
<1>2. \A m \in Nat : DigitsUpTo(Some(m), base, m)
  BY DigitsExist
<1> HIDE DEF Some
<1>3. ASSUME NEW m \in Nat PROVE G[m] = Body(G)[m]
  <2>1. G[m] = IF m < base THEN <<m>> ELSE Append(Some(m)[m \div base], m % base)
    BY <1>2 DEF DigitsUpTo
  <2>2. ~(m < base) => Some(m)[m \div base] = G[m \div base]
    <3> SUFFICES ASSUME ~(m < base) PROVE Some(m)[m \div base] = Some(m \div base)[m \div base]
      BY Divided
    <3>1. m \div base \in Nat /\ m \div base <= m
      BY Divided
    <3> QED
      BY <1>2, <3>1, DigitsAgree
  <2> HIDE DEF G
  <2> QED
    BY <2>1, <2>2
<1>4. F = Body(F)
  <2>1. G = [m \in Nat |-> G[m]]
    OBVIOUS
  <2> HIDE DEF G
  <2>2. G = Body(G)
    BY <1>3, <2>1
  <2> QED
    BY <2>2
<1> HIDE DEF F
<1>5. F[n] = IF n < base THEN <<n>> ELSE Append(F[n \div base], n % base)
  BY <1>4
<1> QED
  BY <1>1, <1>5, Divided

(* A number is read as it was written.                                     *)
LEMMA NumberReadBack ==
  ASSUME NEW base \in {10, 16}, NEW n \in Nat
  PROVE  /\ DigitsIn(base, n) \in Seq(0 .. base - 1)
         /\ ValueIn(base, DigitsIn(base, n)) = n
<1> DEFINE D == 0 .. base - 1
           S == {m \in Nat : /\ DigitsIn(base, m) \in Seq(D)
                             /\ ValueIn(base, DigitsIn(base, m)) = m}
<1>1. base \in Nat /\ D \subseteq Nat
  OBVIOUS
<1>2. ASSUME NEW m \in Nat, \A i \in 0 .. m - 1 : i \in S PROVE m \in S
  <2>1. CASE m < base
    <3>1. DigitsIn(base, m) = <<m>> /\ m \in D
      BY <2>1, DigitsAre
    <3>2. <<m>> \in Seq(D)
      BY <3>1
    <3>3. ValueIn(base, <<m>>) = m
      BY <1>1, ValueOfDigit
    <3> QED
      BY <3>1, <3>2, <3>3
  <2>2. CASE ~(m < base)
    <3> DEFINE q == m \div base
               r == m % base
               ds == DigitsIn(base, q)
    <3>1. /\ q \in 0 .. m - 1 /\ r \in D /\ base * q + r = m
      BY <2>2, Divided
    <3>2. DigitsIn(base, m) = Append(ds, r)
      BY <2>2, DigitsAre
    <3> HIDE DEF q, r
    <3>3. ds \in Seq(D) /\ ValueIn(base, ds) = q
      BY <1>2, <3>1
    <3> HIDE DEF ds
    <3>4. Append(ds, r) \in Seq(D)
      BY <3>1, <3>3
    <3>5. ValueIn(base, Append(ds, r)) = base * ValueIn(base, ds) + r
      <4>1. ds \in Seq(Nat) /\ r \in Nat
        BY <1>1, <3>1, <3>3
      <4> QED
        BY <1>1, <4>1, ValueOfAppend
    <3>6. ValueIn(base, Append(ds, r)) = m
      <4>1. base * ValueIn(base, ds) + r = base * q + r
        BY <3>3
      <4> QED
        BY <3>1, <3>5, <4>1, Zenon
    <3> QED
      BY <3>2, <3>4, <3>6 DEF D
  <2> QED
    BY <2>1, <2>2
<1> HIDE DEF S
<1>3. Nat \subseteq S
  BY <1>2, Progressive
<1> QED
  BY <1>3 DEF S

-----------------------------------------------------------------------------
(* The fields of a record.                                                 *)

(* A field that alone has its key is found, and one that is not there is   *)
(* read as empty.                                                          *)
LEMMA FieldFound ==
  ASSUME NEW line, NEW key, Len(line.fields) \in Nat,
         NEW k \in 1 .. Len(line.fields), line.fields[k].key = key,
         \A i \in 1 .. Len(line.fields) : line.fields[i].key = key => i = k
  PROVE  StringField(line, key) = line.fields[k].text
<1> DEFINE At == {i \in 1 .. Len(line.fields) : HasKey(line.fields[i], key)}
<1>1. At = {k} /\ k \in Nat
  BY DEF HasKey
<1>2. Min({k}) = k
  BY <1>1, LeastIs
<1>3. SelectInSeq(line.fields, LAMBDA field : HasKey(field, key)) = k
  BY <1>1, <1>2 DEF SelectInSeq
<1>4. k # 0
  OBVIOUS
<1> QED
  BY <1>3, <1>4 DEF StringField

LEMMA FieldMissing ==
  ASSUME NEW line, NEW key,
         \A i \in 1 .. Len(line.fields) : line.fields[i].key # key
  PROVE  StringField(line, key) = Empty
<1>1. {i \in 1 .. Len(line.fields) : HasKey(line.fields[i], key)} = {}
  BY DEF HasKey
<1>2. SelectInSeq(line.fields, LAMBDA field : HasKey(field, key)) = 0
  BY <1>1 DEF SelectInSeq
<1> QED
  BY <1>2 DEF StringField

(* A number is read back from its field.                                   *)
LEMMA NumberRead ==
  ASSUME NEW line, NEW key, NEW n \in Nat,
         StringField(line, key) = Number(key, n).text
  PROVE  IntField(line, key) = n
<1> DEFINE ds == DigitsIn(10, n)
<1>1. ds \in Seq(0 .. 9) /\ ValueIn(10, ds) = n
  <2>1. 10 - 1 = 9
    OBVIOUS
  <2> QED
    BY <2>1, NumberReadBack
<1> HIDE DEF ds
<1>2. Number(key, n).text = Digits(ds)
  BY DEF Number, Field, Written, Digits, ds
<1>3. Digits(ds).kind = "digits" /\ Digits(ds).digits = ds
  BY DEF Digits
<1>4. IsDecimal(Digits(ds))
  <2>1. \A k \in DOMAIN ds : ds[k] \in 0 .. 9
    BY <1>1
  <2>2. \A k \in DOMAIN ds : ds[k] < 10
    BY <2>1
  <2> QED
    BY <1>3, <2>2 DEF IsDecimal
<1> QED
  BY <1>1, <1>2, <1>3, <1>4 DEF IntField

(* Where the parts of a concatenation stand.                               *)
LEMMA PartsStand ==
  ASSUME NEW m \in Nat, NEW n \in Nat, NEW c, NEW s, NEW t,
         \A i \in 1 .. m + n : c[i] = IF i <= m THEN s[i] ELSE t[i - m]
  PROVE  /\ \A i \in 1 .. m : c[i] = s[i]
         /\ \A k \in 1 .. n : c[m + k] = t[k]
<1>1. ASSUME NEW i \in 1 .. m
      PROVE  c[i] = s[i]
  <2>1. i \in 1 .. m + n /\ i <= m
    OBVIOUS
  <2> QED
    BY <2>1
<1>2. ASSUME NEW k \in 1 .. n
      PROVE  c[m + k] = t[k]
  <2>1. m + k \in 1 .. m + n /\ ~(m + k <= m) /\ (m + k) - m = k
    OBVIOUS
  <2> QED
    BY <2>1
<1> QED
  BY <1>1, <1>2

(* Where the fields of a SYSCALL record stand.                             *)
Registers(f) ==
  [k \in DOMAIN f.registers |-> Field(ArgKey[k], Digits(DigitsIn(16, f.registers[k])))]

Rest(f) ==
  <<Number("ppid", f.ppid), Number("pid", f.pid), Number("auid", f.auid),
    Number("uid", f.uid), Number("gid", f.gid), Number("euid", f.euid),
    Number("egid", f.egid), Field("exe", f.exe), Field("key", Word(f.key)),
    Field("SYSCALL", f.syscall)>>

RestKeys == <<"ppid", "pid", "auid", "uid", "gid", "euid", "egid", "exe", "key", "SYSCALL">>

LEMMA SyscallLaid ==
  ASSUME NEW f \in Fact
  PROVE  LET fields == SyscallLine(f).fields
             r      == Len(f.registers)
         IN  /\ r \in 2 .. 4 /\ Len(fields) = r + 11
             /\ fields[1] = Field("success", f.success)
             /\ \A k \in 1 .. r : fields[1 + k] = Registers(f)[k]
             /\ \A j \in 1 .. 10 : fields[(1 + r) + j] = Rest(f)[j]
<1> DEFINE first == Field("success", f.success)
           head == <<first>>
           regs == Registers(f)
           rest == Rest(f)
           r == Len(f.registers)
           S == {first} \cup Range(regs) \cup Range(rest)
           begin == head \o regs
           fields == SyscallLine(f).fields
<1>1. fields = begin \o rest
  BY DEF SyscallLine, Record, Registers, Rest
<1>2. r \in 2 .. 4 /\ DOMAIN f.registers = 1 .. r
  BY FactAssumption
<1>3. DOMAIN regs = 1 .. r /\ regs = [k \in 1 .. r |-> regs[k]]
  BY <1>2 DEF Registers
<1>4. Len(rest) = 10 /\ DOMAIN rest = 1 .. 10 /\ rest = [k \in 1 .. 10 |-> rest[k]]
  BY DEF Rest
<1> HIDE DEF first, regs, rest, r, fields
<1>5. /\ first \in S /\ \A k \in 1 .. r : regs[k] \in S
      /\ \A k \in 1 .. 10 : rest[k] \in S
  BY <1>3, <1>4 DEF Range
<1> HIDE DEF S
<1>6. regs \in Seq(S) /\ Len(regs) = r
  <2>1. r \in Nat
    BY <1>2
  <2>2. regs = [k \in 1 .. r |-> regs[k]] /\ \A k \in 1 .. r : regs[k] \in S
    BY <1>3, <1>5
  <2>3. regs \in Seq(S)
    BY <2>1, <2>2, IsASeq
  <2> QED
    BY <1>3, <2>1, <2>3
<1>7. rest \in Seq(S)
  BY <1>4, <1>5, IsASeq
<1>8. head \in Seq(S) /\ Len(head) = 1 /\ head[1] = first
  BY <1>5
<1> HIDE DEF head
<1>9. /\ begin \in Seq(S) /\ Len(begin) = 1 + r
      /\ \A k \in 1 .. 1 : begin[k] = head[k]
      /\ \A k \in 1 .. r : begin[1 + k] = regs[k]
  <2>1. head \in Seq(S) /\ regs \in Seq(S)
    BY <1>6, <1>8
  <2>2. /\ begin \in Seq(S) /\ Len(begin) = Len(head) + Len(regs)
        /\ \A i \in 1 .. Len(head) + Len(regs) :
             begin[i] = IF i <= Len(head) THEN head[i] ELSE regs[i - Len(head)]
    BY <2>1, ConcatProperties
  <2> HIDE DEF begin
  <2>3. \A i \in 1 .. 1 + r : begin[i] = IF i <= 1 THEN head[i] ELSE regs[i - 1]
    BY <1>6, <1>8, <2>2
  <2>4. r \in Nat /\ 1 \in Nat
    BY <1>2
  <2> QED
    BY <1>6, <1>8, <2>2, <2>3, <2>4, PartsStand
<1> HIDE DEF begin
<1>10. /\ Len(fields) = (1 + r) + 10
       /\ \A k \in 1 .. 1 + r : fields[k] = begin[k]
       /\ \A j \in 1 .. 10 : fields[(1 + r) + j] = rest[j]
  <2> DEFINE whole == begin \o rest
  <2>1. /\ Len(whole) = Len(begin) + Len(rest)
        /\ \A i \in 1 .. Len(begin) + Len(rest) :
             whole[i] = IF i <= Len(begin) THEN begin[i] ELSE rest[i - Len(begin)]
    BY <1>7, <1>9, ConcatProperties
  <2>2. whole = fields
    BY <1>1
  <2> HIDE DEF whole
  <2>3. \A i \in 1 .. (1 + r) + 10 :
          fields[i] = IF i <= 1 + r THEN begin[i] ELSE rest[i - (1 + r)]
    BY <1>4, <1>9, <2>1, <2>2
  <2>4. 1 + r \in Nat /\ 10 \in Nat
    BY <1>2
  <2>5. /\ \A k \in 1 .. 1 + r : fields[k] = begin[k]
        /\ \A j \in 1 .. 10 : fields[(1 + r) + j] = rest[j]
    BY <2>3, <2>4, PartsStand
  <2> QED
    BY <1>4, <1>9, <2>1, <2>2, <2>5
<1>11. fields[1] = first
  <2>1. 1 \in 1 .. 1 + r
    BY <1>2
  <2> QED
    BY <1>8, <1>9, <1>10, <2>1
<1>12. \A k \in 1 .. r : fields[1 + k] = regs[k]
  <2> SUFFICES ASSUME NEW k \in 1 .. r PROVE fields[1 + k] = regs[k]
    OBVIOUS
  <2>1. 1 + k \in 1 .. 1 + r
    BY <1>2
  <2> QED
    BY <1>9, <1>10, <2>1
<1>13. Len(fields) = r + 11
  BY <1>2, <1>10
<1> QED
  BY <1>2, <1>10, <1>11, <1>12, <1>13 DEF fields, r, first, regs, rest

(* No two of them have the same key.                                       *)
LEMMA RestIs ==
  ASSUME NEW f
  PROVE  /\ \A j \in 1 .. 10 : Rest(f)[j].key = RestKeys[j]
         /\ \A i, j \in 1 .. 10 : RestKeys[i] = RestKeys[j] => i = j
         /\ \A j \in 1 .. 10 :
              RestKeys[j] \in {"ppid", "pid", "auid", "uid", "gid", "euid", "egid", "exe",
                               "key", "SYSCALL"}
<1>1. \A j \in 1 .. 10 : j \in {1, 2, 3, 4, 5, 6, 7, 8, 9, 10}
  OBVIOUS
<1>2. \A j \in {1, 2, 3, 4, 5, 6, 7, 8, 9, 10} : Rest(f)[j].key = RestKeys[j]
  BY DEF Rest, RestKeys, Number, Field
<1>3. \A i, j \in {1, 2, 3, 4, 5, 6, 7, 8, 9, 10} : RestKeys[i] = RestKeys[j] => i = j
  BY DEF RestKeys
<1>4. \A j \in {1, 2, 3, 4, 5, 6, 7, 8, 9, 10} :
        RestKeys[j] \in {"ppid", "pid", "auid", "uid", "gid", "euid", "egid", "exe",
                         "key", "SYSCALL"}
  BY DEF RestKeys
<1> QED
  BY <1>1, <1>2, <1>3, <1>4

LEMMA SyscallKeys ==
  ASSUME NEW f \in Fact, NEW i \in 1 .. Len(SyscallLine(f).fields)
  PROVE  LET r == Len(f.registers)
             key == SyscallLine(f).fields[i].key
         IN  \/ i = 1 /\ key = "success"
             \/ \E k \in 1 .. r : i = 1 + k /\ k \in DOMAIN ArgKey /\ key = ArgKey[k]
             \/ \E j \in 1 .. 10 : i = (1 + r) + j /\ key = RestKeys[j]
<1> DEFINE fields == SyscallLine(f).fields
           r == Len(f.registers)
<1>1. /\ r \in 2 .. 4 /\ Len(fields) = r + 11
      /\ fields[1] = Field("success", f.success)
      /\ \A k \in 1 .. r : fields[1 + k] = Registers(f)[k]
      /\ \A j \in 1 .. 10 : fields[(1 + r) + j] = Rest(f)[j]
  BY SyscallLaid
<1>2. \A k \in 1 .. r : Registers(f)[k].key = ArgKey[k] /\ k \in DOMAIN ArgKey
  <2>1. DOMAIN f.registers = 1 .. r
    BY FactAssumption
  <2>2. DOMAIN ArgKey = 1 .. Len(ArgKey) /\ Len(ArgKey) \in Nat /\ Len(ArgKey) >= 6
    BY ArgKeyAssumption
  <2> HIDE DEF r
  <2>3. r \in 2 .. 4
    BY <1>1
  <2>4. ASSUME NEW k \in 1 .. r PROVE Registers(f)[k].key = ArgKey[k]
    BY <2>1, <2>4 DEF Registers, Field
  <2>5. \A k \in 1 .. r : k \in DOMAIN ArgKey
    BY <2>2, <2>3
  <2> QED
    BY <2>4, <2>5
<1>3. Field("success", f.success).key = "success"
  BY DEF Field
<1> HIDE DEF fields, r
<1>4. i = 1 \/ i - 1 \in 1 .. r \/ i - (1 + r) \in 1 .. 10
  <2>1. i \in 1 .. r + 11
    BY <1>1 DEF fields
  <2> QED
    BY <1>1, <2>1
<1>5. CASE i = 1
  BY <1>1, <1>3, <1>5 DEF fields, r
<1>6. CASE i - 1 \in 1 .. r
  <2>1. i = 1 + (i - 1)
    BY <1>1
  <2>2. fields[i] = Registers(f)[i - 1]
    BY <1>1, <1>6, <2>1
  <2> QED
    BY <1>2, <1>6, <2>1, <2>2 DEF fields, r
<1>7. CASE i - (1 + r) \in 1 .. 10
  <2>1. i = (1 + r) + (i - (1 + r))
    BY <1>1
  <2>2. fields[i] = Rest(f)[i - (1 + r)]
    BY <1>1, <1>7, <2>1
  <2>3. fields[i].key = RestKeys[i - (1 + r)]
    BY <1>7, <2>2, RestIs
  <2> QED
    BY <1>7, <2>1, <2>3 DEF fields, r
<1> QED
  BY <1>4, <1>5, <1>6, <1>7

(* So each is read as it was written, and a register that is not there as  *)
(* empty.                                                                  *)
LEMMA RestRead ==
  ASSUME NEW f \in Fact, NEW j \in 1 .. 10
  PROVE  StringField(SyscallLine(f), RestKeys[j]) = Rest(f)[j].text
<1> DEFINE line == SyscallLine(f)
           r == Len(f.registers)
           n == (1 + r) + j
<1>1. /\ r \in 2 .. 4 /\ Len(line.fields) = r + 11
      /\ line.fields[n] = Rest(f)[j]
  BY SyscallLaid
<1> HIDE DEF r
<1>2. n \in 1 .. Len(line.fields) /\ Len(line.fields) \in Nat
  <2>1. r + 11 \in Nat /\ n \in 1 .. r + 11
    BY <1>1
  <2> QED
    BY <1>1, <2>1
<1>3. line.fields[n].key = RestKeys[j]
  BY <1>1, RestIs
<1>4. ASSUME NEW i \in 1 .. Len(line.fields), line.fields[i].key = RestKeys[j]
      PROVE  i = n
  <2>1. RestKeys[j] # "success" /\ \A k \in DOMAIN ArgKey : ArgKey[k] # RestKeys[j]
    BY RestIs, ArgKeyAssumption
  <2>2. \E m \in 1 .. 10 : i = (1 + r) + m /\ line.fields[i].key = RestKeys[m]
    BY <1>4, <2>1, SyscallKeys DEF r
  <2> QED
    BY <1>4, <2>2, RestIs DEF r
<1> HIDE DEF line, n
<1>5. StringField(line, RestKeys[j]) = line.fields[n].text
  BY <1>2, <1>3, <1>4, FieldFound
<1> QED
  BY <1>1, <1>5 DEF line

LEMMA RegisterRead ==
  ASSUME NEW f \in Fact, NEW k \in 1 .. 6
  PROVE  StringField(SyscallLine(f), ArgKey[k]) =
           IF k \in DOMAIN f.registers THEN Digits(DigitsIn(16, f.registers[k])) ELSE Empty
<1> DEFINE line == SyscallLine(f)
           r == Len(f.registers)
<1>1. /\ r \in 2 .. 4 /\ Len(line.fields) = r + 11
      /\ \A m \in 1 .. r : line.fields[1 + m] = Registers(f)[m]
  BY SyscallLaid
<1>2. DOMAIN f.registers = 1 .. r /\ k \in DOMAIN ArgKey
  BY FactAssumption, ArgKeyAssumption
<1>3. ASSUME NEW i \in 1 .. Len(line.fields), line.fields[i].key = ArgKey[k]
      PROVE  k \in 1 .. r /\ i = 1 + k
  <2>1. ArgKey[k] # "success" /\ \A j \in 1 .. 10 : RestKeys[j] # ArgKey[k]
    BY <1>2, RestIs, ArgKeyAssumption
  <2>2. \E m \in 1 .. r : i = 1 + m /\ m \in DOMAIN ArgKey /\ line.fields[i].key = ArgKey[m]
    BY <1>3, <2>1, SyscallKeys
  <2> QED
    BY <1>2, <1>3, <2>2, ArgKeyAssumption
<1>4. Len(line.fields) \in Nat
  BY <1>1
<1> HIDE DEF line, r
<1>5. CASE k \in 1 .. r
  <2>1. 1 + k \in 1 .. Len(line.fields) /\ line.fields[1 + k] = Registers(f)[k]
    BY <1>1, <1>5
  <2>2. Registers(f)[k] = Field(ArgKey[k], Digits(DigitsIn(16, f.registers[k])))
    BY <1>2, <1>5 DEF Registers
  <2>3. line.fields[1 + k].key = ArgKey[k]
    BY <2>1, <2>2 DEF Field
  <2>4. StringField(line, ArgKey[k]) = line.fields[1 + k].text
    BY <1>3, <1>4, <2>1, <2>3, FieldFound
  <2>5. Registers(f)[k].text = Digits(DigitsIn(16, f.registers[k]))
    BY <2>2 DEF Field, Written, Digits
  <2> QED
    BY <1>2, <1>5, <2>1, <2>4, <2>5 DEF line
<1>6. CASE k \notin 1 .. r
  <2>1. \A i \in 1 .. Len(line.fields) : line.fields[i].key # ArgKey[k]
    BY <1>3, <1>6
  <2>2. StringField(line, ArgKey[k]) = Empty
    BY <2>1, FieldMissing
  <2> QED
    BY <1>2, <1>6, <2>2 DEF line
<1> QED
  BY <1>5, <1>6

(* parseSyscallRecord reads what auditd wrote.                             *)
LEMMA SyscallRead ==
  ASSUME NEW f \in Fact
  PROVE  LET s == SyscallRecord(SyscallLine(f))
         IN  /\ s.Args = NonEmptyOf([k \in 1 .. 6 |->
                           IF k \in DOMAIN f.registers
                           THEN Digits(DigitsIn(16, f.registers[k])) ELSE Empty])
             /\ s.PID = f.pid /\ s.PPID = f.ppid /\ s.UID = f.uid /\ s.EUID = f.euid
             /\ s.GID = f.gid /\ s.EGID = f.egid /\ s.Exe = Written(f.exe)
             /\ s.Key.word = f.key
<1> DEFINE line == SyscallLine(f)
           s == SyscallRecord(line)
<1>1. ASSUME NEW j \in 1 .. 10 PROVE StringField(line, RestKeys[j]) = Rest(f)[j].text
  BY RestRead
<1>2. ASSUME NEW k \in 1 .. 6
      PROVE  StringField(line, ArgKey[k]) =
               IF k \in DOMAIN f.registers THEN Digits(DigitsIn(16, f.registers[k])) ELSE Empty
  BY RegisterRead
<1> HIDE DEF line
<1>3. /\ StringField(line, "ppid") = Number("ppid", f.ppid).text
      /\ StringField(line, "pid") = Number("pid", f.pid).text
      /\ StringField(line, "uid") = Number("uid", f.uid).text
      /\ StringField(line, "gid") = Number("gid", f.gid).text
      /\ StringField(line, "euid") = Number("euid", f.euid).text
      /\ StringField(line, "egid") = Number("egid", f.egid).text
      /\ StringField(line, "exe") = Field("exe", f.exe).text
      /\ StringField(line, "key") = Field("key", Word(f.key)).text
  <2>1. /\ RestKeys[1] = "ppid" /\ RestKeys[2] = "pid" /\ RestKeys[4] = "uid"
        /\ RestKeys[5] = "gid" /\ RestKeys[6] = "euid" /\ RestKeys[7] = "egid"
        /\ RestKeys[8] = "exe" /\ RestKeys[9] = "key"
    BY DEF RestKeys
  <2>2. /\ Rest(f)[1] = Number("ppid", f.ppid) /\ Rest(f)[2] = Number("pid", f.pid)
        /\ Rest(f)[4] = Number("uid", f.uid) /\ Rest(f)[5] = Number("gid", f.gid)
        /\ Rest(f)[6] = Number("euid", f.euid) /\ Rest(f)[7] = Number("egid", f.egid)
        /\ Rest(f)[8] = Field("exe", f.exe) /\ Rest(f)[9] = Field("key", Word(f.key))
    BY DEF Rest
  <2>3. /\ 1 \in 1 .. 10 /\ 2 \in 1 .. 10 /\ 4 \in 1 .. 10 /\ 5 \in 1 .. 10
        /\ 6 \in 1 .. 10 /\ 7 \in 1 .. 10 /\ 8 \in 1 .. 10 /\ 9 \in 1 .. 10
    OBVIOUS
  <2> QED
    BY <1>1, <2>1, <2>2, <2>3
<1>4. {f.pid, f.ppid, f.auid, f.uid, f.gid, f.euid, f.egid} \subseteq Nat
  BY FactAssumption
<1>5. /\ IntField(line, "ppid") = f.ppid /\ IntField(line, "pid") = f.pid
      /\ IntField(line, "uid") = f.uid /\ IntField(line, "gid") = f.gid
      /\ IntField(line, "euid") = f.euid /\ IntField(line, "egid") = f.egid
  BY <1>3, <1>4, NumberRead
<1>6. Field("exe", f.exe).text = Written(f.exe) /\ Field("key", Word(f.key)).text = Word(f.key)
  BY DEF Field, Written, Word
<1>7. Word(f.key).word = f.key
  BY DEF Word
<1>8. [k \in 1 .. 6 |-> StringField(line, ArgKey[k])]
        = [k \in 1 .. 6 |-> IF k \in DOMAIN f.registers
                            THEN Digits(DigitsIn(16, f.registers[k])) ELSE Empty]
  BY <1>2
<1>9. /\ s.Args = NonEmptyOf([k \in 1 .. 6 |-> StringField(line, ArgKey[k])])
      /\ s.PID = IntField(line, "pid") /\ s.PPID = IntField(line, "ppid")
      /\ s.UID = IntField(line, "uid") /\ s.EUID = IntField(line, "euid")
      /\ s.GID = IntField(line, "gid") /\ s.EGID = IntField(line, "egid")
      /\ s.Exe = StringField(line, "exe") /\ s.Key = StringField(line, "key")
  BY DEF SyscallRecord
<1> HIDE DEF s
<1>10. s.Args = NonEmptyOf([k \in 1 .. 6 |->
                  IF k \in DOMAIN f.registers
                  THEN Digits(DigitsIn(16, f.registers[k])) ELSE Empty])
  BY <1>8, <1>9
<1> QED
  BY <1>3, <1>5, <1>6, <1>7, <1>9, <1>10 DEF s, line

-----------------------------------------------------------------------------
(* The lines of an event: the PATH records come after the records of other *)
(* types and before the PROCTITLE, which is the last.                      *)

PathLine(f, k) ==
  Record("PATH", <<Field("name", f.paths[k].name),
                   Field("nametype", Word(f.paths[k].nametype))>>)

TitleLine(f) ==
  Record("PROCTITLE",
    <<Field("proctitle", IF Len(f.title) = 1 THEN f.title[1] ELSE Encoded(f.title))>>)

PathOf(f, k) ==
  [Name |-> Written(f.paths[k].name), NameType |-> Word(f.paths[k].nametype)]

(* parsePathRecord reads what auditd wrote.                                *)
LEMMA PathParsed ==
  ASSUME NEW f, NEW k
  PROVE  PathRecord(PathLine(f, k)) = PathOf(f, k)
<1> DEFINE line == PathLine(f, k)
           At(key) == {i \in 1 .. Len(line.fields) : HasKey(line.fields[i], key)}
<1>1. /\ line.fields = <<Field("name", f.paths[k].name),
                         Field("nametype", Word(f.paths[k].nametype))>>
      /\ Len(line.fields) = 2 /\ 1 .. 2 = {1, 2}
      /\ line.fields[1] = Field("name", f.paths[k].name)
      /\ line.fields[2] = Field("nametype", Word(f.paths[k].nametype))
  BY DEF PathLine, Record
<1>2. At("name") = {1} /\ At("nametype") = {2}
  BY <1>1 DEF HasKey, Field
<1>3. Min({1}) = 1 /\ Min({2}) = 2
  BY LeastIs
<1>4. /\ SelectInSeq(line.fields, LAMBDA field : HasKey(field, "name")) = 1
      /\ SelectInSeq(line.fields, LAMBDA field : HasKey(field, "nametype")) = 2
  BY <1>2, <1>3 DEF SelectInSeq
<1>5. /\ StringField(line, "name") = Written(f.paths[k].name)
      /\ StringField(line, "nametype") = Written(Word(f.paths[k].nametype))
  BY <1>1, <1>4 DEF StringField, Field
<1>6. Written(Word(f.paths[k].nametype)) = Word(f.paths[k].nametype)
  BY DEF Written, Word
<1> QED
  BY <1>5, <1>6 DEF PathRecord, PathOf

(* What auditd writes before the PATH records.                             *)
Before(f) ==
  <<SyscallLine(f)>>
  \o [part \in DOMAIN f.argv |-> ExecveLine(f, part)]
  \o [k \in DOMAIN f.addr |-> AddressLine(f.addr[k])]
  \o <<Record("CWD", <<Field("cwd", f.cwd)>>)>>

(* None of them is a PATH or PROCTITLE record, the first is the SYSCALL    *)
(* record, the EXECVE records follow it, and the SOCKADDR records are of   *)
(* the event's addresses.                                                  *)
LEMMA BeforeIs ==
  ASSUME NEW f \in Fact
  PROVE  /\ Len(Before(f)) \in Nat
         /\ Before(f) \in Seq(Range(Before(f)))
         /\ \A k \in 1 .. Len(Before(f)) :
              /\ Before(f)[k].type \in {"SYSCALL", "EXECVE", "SOCKADDR", "CWD"}
              /\ Before(f)[k].type = "SYSCALL" => Before(f)[k] = SyscallLine(f)
              /\ Before(f)[k].type = "EXECVE" =>
                   \E part \in DOMAIN f.argv : Before(f)[k] = ExecveLine(f, part)
              /\ Before(f)[k].type = "SOCKADDR" =>
                   \E j \in DOMAIN f.addr : Before(f)[k] = AddressLine(f.addr[j])
         /\ \A part \in DOMAIN f.argv : /\ 1 + part \in 1 .. Len(Before(f))
                                        /\ Before(f)[1 + part] = ExecveLine(f, part)
<1> DEFINE first == SyscallLine(f)
           execve == [part \in DOMAIN f.argv |-> ExecveLine(f, part)]
           sockaddr == [k \in DOMAIN f.addr |-> AddressLine(f.addr[k])]
           cwd == Record("CWD", <<Field("cwd", f.cwd)>>)
           S == {first, cwd} \cup Range(execve) \cup Range(sockaddr)
           Right(x) ==
             /\ x.type \in {"SYSCALL", "EXECVE", "SOCKADDR", "CWD"}
             /\ x.type = "SYSCALL" => x = SyscallLine(f)
             /\ x.type = "EXECVE" => \E part \in DOMAIN f.argv : x = ExecveLine(f, part)
             /\ x.type = "SOCKADDR" => \E j \in DOMAIN f.addr : x = AddressLine(f.addr[j])
<1>1. Right(first) /\ Right(cwd)
  <2>1. first.type = "SYSCALL" /\ cwd.type = "CWD"
    BY DEF SyscallLine, Record
  <2> HIDE DEF cwd
  <2> QED
    BY <2>1
<1>2. /\ \A part : ExecveLine(f, part).type = "EXECVE"
      /\ \A k : AddressLine(f.addr[k]).type = "SOCKADDR"
  BY DEF ExecveLine, AddressLine, Record
<1>3. \A k \in DOMAIN execve : Right(execve[k])
  BY <1>2
<1>4. \A k \in DOMAIN sockaddr : Right(sockaddr[k])
  BY <1>2
<1>5. /\ DOMAIN execve = 1 .. Len(f.argv) /\ Len(f.argv) \in Nat
      /\ DOMAIN sockaddr = 1 .. Len(f.addr) /\ Len(f.addr) \in Nat
  BY FactAssumption
<1>6. execve = [k \in 1 .. Len(f.argv) |-> execve[k]]
  BY <1>5
<1>7. sockaddr = [k \in 1 .. Len(f.addr) |-> sockaddr[k]]
  BY <1>5
<1>8. Before(f) = ((<<first>> \o execve) \o sockaddr) \o <<cwd>>
  BY DEF Before
<1>9. \A part \in DOMAIN f.argv : part \in 1 .. Len(f.argv) /\ execve[part] = ExecveLine(f, part)
  BY <1>5
<1> HIDE DEF first, execve, sockaddr, cwd, Right
<1>10. \A k \in 1 .. Len(f.argv) : execve[k] \in S
  BY <1>5 DEF Range
<1>11. \A k \in 1 .. Len(f.addr) : sockaddr[k] \in S
  BY <1>5 DEF Range
<1>12. \A x \in S : Right(x)
  BY <1>1, <1>3, <1>4 DEF Range
<1>13. first \in S /\ cwd \in S
  OBVIOUS
<1> HIDE DEF S
<1> DEFINE head == <<first>>
           begin == head \o execve
           more == begin \o sockaddr
           last == <<cwd>>
<1>14. execve \in Seq(S) /\ Len(execve) = Len(f.argv)
  <2>1. execve \in Seq(S)
    BY <1>5, <1>6, <1>10, IsASeq
  <2> QED
    BY <1>5, <2>1
<1>15. sockaddr \in Seq(S)
  BY <1>5, <1>7, <1>11, IsASeq
<1>16. head \in Seq(S) /\ Len(head) = 1 /\ last \in Seq(S)
  BY <1>13
<1> HIDE DEF head, last
<1>17. /\ begin \in Seq(S) /\ Len(begin) = 1 + Len(f.argv)
       /\ \A k \in 1 .. Len(f.argv) : begin[1 + k] = execve[k]
  <2>1. execve \in Seq(S) /\ head \in Seq(S)
    BY <1>14, <1>16
  <2>2. /\ begin \in Seq(S) /\ Len(begin) = Len(head) + Len(execve)
        /\ \A i \in 1 .. Len(head) + Len(execve) :
             begin[i] = IF i <= Len(head) THEN head[i] ELSE execve[i - Len(head)]
    BY <2>1, ConcatProperties
  <2> HIDE DEF begin
  <2>3. \A i \in 1 .. 1 + Len(f.argv) :
          begin[i] = IF i <= 1 THEN head[i] ELSE execve[i - 1]
    BY <1>14, <1>16, <2>2
  <2> QED
    BY <1>5, <1>14, <1>16, <2>2, <2>3, PartsStand
<1> HIDE DEF begin
<1>18. /\ more \in Seq(S) /\ Len(more) >= 1 + Len(f.argv)
       /\ \A k \in 1 .. 1 + Len(f.argv) : more[k] = begin[k]
  <2>1. begin \in Seq(S) /\ sockaddr \in Seq(S)
    BY <1>15, <1>17
  <2>2. /\ more \in Seq(S) /\ Len(more) = Len(begin) + Len(sockaddr)
        /\ \A i \in 1 .. Len(begin) + Len(sockaddr) :
             more[i] = IF i <= Len(begin) THEN begin[i] ELSE sockaddr[i - Len(begin)]
    BY <2>1, ConcatProperties
  <2> HIDE DEF more
  <2>3. Len(begin) \in Nat /\ Len(sockaddr) \in Nat
    BY <1>15, <1>17
  <2>4. ASSUME NEW k \in 1 .. 1 + Len(f.argv)
        PROVE  more[k] = begin[k]
    <3>1. k \in 1 .. Len(begin) + Len(sockaddr) /\ k <= Len(begin)
      BY <1>5, <1>17, <2>3
    <3> QED
      BY <2>2, <3>1
  <2> QED
    BY <1>5, <1>17, <2>2, <2>3, <2>4
<1> HIDE DEF more
<1>19. /\ Before(f) \in Seq(S) /\ Len(Before(f)) >= 1 + Len(f.argv)
       /\ \A k \in 1 .. 1 + Len(f.argv) : Before(f)[k] = more[k]
  <2> DEFINE whole == more \o last
  <2>1. /\ whole \in Seq(S) /\ Len(whole) = Len(more) + Len(last)
        /\ \A i \in 1 .. Len(more) + Len(last) :
             whole[i] = IF i <= Len(more) THEN more[i] ELSE last[i - Len(more)]
    BY <1>16, <1>18, ConcatProperties
  <2>2. whole = Before(f)
    BY <1>8 DEF more, begin, head, last
  <2> HIDE DEF whole
  <2>3. Len(more) \in Nat /\ Len(last) \in Nat
    BY <1>16, <1>18
  <2> QED
    BY <1>5, <1>18, <2>1, <2>2, <2>3
<1>20. \A k \in 1 .. Len(Before(f)) : Right(Before(f)[k])
  BY <1>12, <1>19
<1>21. ASSUME NEW part \in DOMAIN f.argv
       PROVE  /\ 1 + part \in 1 .. Len(Before(f))
              /\ Before(f)[1 + part] = ExecveLine(f, part)
  <2>1. part \in 1 .. Len(f.argv) /\ 1 + part \in 1 .. 1 + Len(f.argv)
    BY <1>5, <1>9
  <2>2. Before(f)[1 + part] = execve[part]
    BY <1>17, <1>18, <1>19, <2>1
  <2>3. 1 + part \in 1 .. Len(Before(f))
    BY <1>5, <1>19, <2>1
  <2> QED
    BY <1>9, <2>2, <2>3
<1>22. Len(Before(f)) \in Nat /\ Before(f) \in Seq(Range(Before(f)))
  BY <1>19 DEF Range
<1> QED
  BY <1>20, <1>21, <1>22 DEF Right

(* Where each record stands.                                               *)
LEMMA LinesAre ==
  ASSUME NEW f \in Fact
  PROVE  LET a == Len(Before(f))
             b == Len(f.paths)
         IN  /\ a \in Nat /\ b \in Nat
             /\ Len(Lines(f)) = a + b + 1
             /\ \A k \in 1 .. a :
                  /\ Lines(f)[k] = Before(f)[k]
                  /\ Lines(f)[k].type \in {"SYSCALL", "EXECVE", "SOCKADDR", "CWD"}
             /\ \A k \in 1 .. b : Lines(f)[a + k] = PathLine(f, k)
             /\ Lines(f)[a + b + 1] = TitleLine(f)
             /\ Lines(f)[a + b + 1].type = "PROCTITLE"
<1> DEFINE before == Before(f)
           a == Len(before)
           b == Len(f.paths)
           paths == [k \in DOMAIN f.paths |-> PathLine(f, k)]
           title == TitleLine(f)
           S == Range(before) \cup Range(paths) \cup {title}
<1>1. Lines(f) = (before \o paths) \o <<title>>
  BY DEF Lines, Before, PathLine, TitleLine
<1>2. title.type = "PROCTITLE"
  BY DEF TitleLine, Record
<1>3. DOMAIN paths = 1 .. b /\ b \in Nat /\ \A k \in 1 .. b : paths[k] = PathLine(f, k)
  BY FactAssumption
<1>4. /\ a \in Nat /\ before \in Seq(Range(before))
      /\ \A k \in 1 .. a : before[k].type \in {"SYSCALL", "EXECVE", "SOCKADDR", "CWD"}
  BY BeforeIs
<1>5. paths = [k \in 1 .. b |-> paths[k]]
  BY <1>3
<1> HIDE DEF before, paths, title
<1>6. \A k \in 1 .. b : paths[k] \in S
  BY <1>3 DEF Range
<1>7. title \in S /\ Range(before) \subseteq S
  OBVIOUS
<1> HIDE DEF S
<1>8. paths \in Seq(S) /\ Len(paths) = b
  <2>1. paths \in Seq(S)
    BY <1>3, <1>5, <1>6, IsASeq
  <2> QED
    BY <2>1, <1>3
<1>9. before \in Seq(S)
  BY <1>4, <1>7
<1> HIDE DEF a, b
<1>10. /\ before \o paths \in Seq(S) /\ Len(before \o paths) = a + b
       /\ \A i \in 1 .. a + b :
            (before \o paths)[i] = IF i <= a THEN before[i] ELSE paths[i - a]
  <2>1. Len(before) = a
    BY DEF a
  <2>2. /\ before \o paths \in Seq(S)
        /\ Len(before \o paths) = Len(before) + Len(paths)
        /\ \A i \in 1 .. Len(before) + Len(paths) :
             (before \o paths)[i] = IF i <= Len(before) THEN before[i]
                                   ELSE paths[i - Len(before)]
    BY <1>8, <1>9, ConcatProperties
  <2> QED
    BY <2>1, <2>2, <1>8
<1> DEFINE all == before \o paths
<1> HIDE DEF all
<1>11. <<title>> \in Seq(S) /\ Len(<<title>>) = 1
  BY <1>7
<1>12. /\ Len(Lines(f)) = a + b + 1
       /\ \A i \in 1 .. a + b + 1 :
            Lines(f)[i] = IF i <= a + b THEN (before \o paths)[i]
                          ELSE <<title>>[i - (a + b)]
  <2>1. all \in Seq(S) /\ Len(all) = a + b /\ Lines(f) = all \o <<title>>
    BY <1>1, <1>10 DEF all
  <2>2. /\ Len(all \o <<title>>) = Len(all) + Len(<<title>>)
        /\ \A i \in 1 .. Len(all) + Len(<<title>>) :
             (all \o <<title>>)[i] = IF i <= Len(all) THEN all[i]
                                    ELSE <<title>>[i - Len(all)]
    BY <2>1, <1>11, ConcatProperties
  <2> QED
    BY <2>1, <2>2, <1>11 DEF all
<1>13. \A k \in 1 .. a : Lines(f)[k] = before[k]
  BY <1>3, <1>4, <1>10, <1>12
<1>14. \A k \in 1 .. b : Lines(f)[a + k] = paths[k]
  <2> SUFFICES ASSUME NEW k \in 1 .. b
               PROVE  Lines(f)[a + k] = paths[k]
    OBVIOUS
  <2>1. a + k \in 1 .. a + b /\ ~(a + k <= a) /\ (a + k) - a = k
    BY <1>3, <1>4
  <2> QED
    BY <2>1, <1>3, <1>4, <1>10, <1>12
<1>15. Lines(f)[a + b + 1] = title
  <2>1. /\ a + b + 1 \in 1 .. a + b + 1 /\ ~(a + b + 1 <= a + b)
        /\ (a + b + 1) - (a + b) = 1
    BY <1>3, <1>4
  <2> QED
    BY <2>1, <1>12
<1> QED
  BY <1>2, <1>3, <1>4, <1>12, <1>13, <1>14, <1>15 DEF a, b, before, title

(* The record of each type is what auditd wrote for it.                    *)
LEMMA LineIs ==
  ASSUME NEW f \in Fact, NEW n \in 1 .. Len(Lines(f))
  PROVE  /\ Lines(f)[n].type = "SYSCALL" => Lines(f)[n] = SyscallLine(f)
         /\ Lines(f)[n].type = "EXECVE" =>
              \E part \in DOMAIN f.argv : Lines(f)[n] = ExecveLine(f, part)
         /\ Lines(f)[n].type = "SOCKADDR" =>
              \E j \in DOMAIN f.addr : Lines(f)[n] = AddressLine(f.addr[j])
         /\ Lines(f)[n].type = "PROCTITLE" => Lines(f)[n] = TitleLine(f)
<1> DEFINE a == Len(Before(f))
           b == Len(f.paths)
<1>1. /\ a \in Nat /\ b \in Nat /\ Len(Lines(f)) = a + b + 1
      /\ \A k \in 1 .. a :
           /\ Lines(f)[k] = Before(f)[k]
           /\ Lines(f)[k].type \in {"SYSCALL", "EXECVE", "SOCKADDR", "CWD"}
      /\ \A k \in 1 .. b : Lines(f)[a + k] = PathLine(f, k)
      /\ Lines(f)[a + b + 1] = TitleLine(f)
      /\ Lines(f)[a + b + 1].type = "PROCTITLE"
  BY LinesAre
<1>2. \A k \in 1 .. a :
        /\ Before(f)[k].type = "SYSCALL" => Before(f)[k] = SyscallLine(f)
        /\ Before(f)[k].type = "EXECVE" =>
             \E part \in DOMAIN f.argv : Before(f)[k] = ExecveLine(f, part)
        /\ Before(f)[k].type = "SOCKADDR" =>
             \E j \in DOMAIN f.addr : Before(f)[k] = AddressLine(f.addr[j])
  BY BeforeIs
<1>3. \A k : PathLine(f, k).type = "PATH"
  BY DEF PathLine, Record
<1> HIDE DEF a, b
<1>4. CASE n <= a
  BY <1>1, <1>2, <1>4
<1>5. CASE n > a /\ n <= a + b
  <2>1. n - a \in 1 .. b /\ n = a + (n - a)
    BY <1>1, <1>5
  <2>2. Lines(f)[n] = PathLine(f, n - a)
    BY <1>1, <2>1
  <2> QED
    BY <1>3, <2>2
<1>6. CASE n = a + b + 1
  BY <1>1, <1>6
<1> QED
  BY <1>1, <1>4, <1>5, <1>6

-----------------------------------------------------------------------------
(* The paths in the group.                                                 *)

(* How many PATH records there are before the n-th line.                   *)
Stored(f, n) ==
  LET a == Len(Before(f))
      b == Len(f.paths)
  IN  IF n <= a + 1 THEN 0 ELSE IF n <= a + b + 1 THEN n - 1 - a ELSE b

PathsOf(f, n) == [k \in 1 .. n |-> PathOf(f, k)]

(* The group has the paths of the lines that were read, in their order, and*)
(* the title only when all were read.  It is only built from when it is    *)
(* ready, and what is built has no target until the end.                   *)
GroupInv ==
  /\ fact \in Fact
  /\ next \in 1 .. Len(Lines(fact)) + 1
  /\ DOMAIN group = DOMAIN NoGroup
  /\ group.Paths = PathsOf(fact, Stored(fact, next))
  /\ group.ProcTitle # <<>> => next = Len(Lines(fact)) + 1
  /\ pc # "store" => IsReadyToAssemble(group.Key, PresentIn(group))
  /\ pc # "done" => event.TargetFile = Empty

(* What the storing of a line does to the group.                           *)
LEMMA StoreIs ==
  ASSUME NEW g, NEW line,
         DOMAIN g = DOMAIN NoGroup, line.type \in RecordType
  PROVE  /\ DOMAIN Store(g, line) = DOMAIN NoGroup
         /\ Store(g, line).Paths =
              IF line.type = "PATH" THEN Append(g.Paths, PathRecord(line)) ELSE g.Paths
         /\ Store(g, line).ProcTitle =
              IF line.type = "PROCTITLE" THEN <<ProcTitleRecord(line)>> ELSE g.ProcTitle
         /\ Store(g, line).Syscall =
              IF line.type = "SYSCALL" THEN <<SyscallRecord(line)>> ELSE g.Syscall
         /\ Store(g, line).Key =
              IF line.type = "SYSCALL" THEN SyscallRecord(line).Key.word ELSE g.Key
         /\ Store(g, line).Execve =
              IF line.type = "EXECVE" THEN <<ExecveRecord(line)>> ELSE g.Execve
         /\ Store(g, line).SockAddr =
              IF line.type = "SOCKADDR" THEN <<SockAddrRecord(line)>> ELSE g.SockAddr
<1>1. /\ "Paths" \in DOMAIN g /\ "ProcTitle" \in DOMAIN g /\ "Syscall" \in DOMAIN g
      /\ "Key" \in DOMAIN g /\ "Execve" \in DOMAIN g /\ "Cwd" \in DOMAIN g
      /\ "SockAddr" \in DOMAIN g
  BY DEF NoGroup
<1>2. CASE line.type = "SYSCALL"
  BY <1>1, <1>2 DEF Store
<1>3. CASE line.type = "EXECVE"
  BY <1>1, <1>3 DEF Store
<1>4. CASE line.type = "CWD"
  BY <1>1, <1>4 DEF Store
<1>5. CASE line.type = "PATH"
  BY <1>1, <1>5 DEF Store
<1>6. CASE line.type = "PROCTITLE"
  BY <1>1, <1>6 DEF Store
<1>7. CASE line.type = "SOCKADDR"
  BY <1>1, <1>7 DEF Store
<1> QED
  BY <1>2, <1>3, <1>4, <1>5, <1>6, <1>7 DEF RecordType

(* One more line read is at most one more path.                            *)
LEMMA LineStored ==
  ASSUME NEW f \in Fact, NEW n \in 1 .. Len(Lines(f)), NEW g,
         DOMAIN g = DOMAIN NoGroup,
         g.Paths = PathsOf(f, Stored(f, n)), g.ProcTitle = <<>>
  PROVE  LET stored == Store(g, Lines(f)[n])
         IN  /\ DOMAIN stored = DOMAIN NoGroup
             /\ stored.Paths = PathsOf(f, Stored(f, n + 1))
             /\ stored.ProcTitle # <<>> => n = Len(Lines(f))
<1> DEFINE a == Len(Before(f))
           b == Len(f.paths)
           line == Lines(f)[n]
<1>1. /\ a \in Nat /\ b \in Nat /\ Len(Lines(f)) = a + b + 1
      /\ \A k \in 1 .. a :
           Lines(f)[k].type \in {"SYSCALL", "EXECVE", "SOCKADDR", "CWD"}
      /\ \A k \in 1 .. b : Lines(f)[a + k] = PathLine(f, k)
      /\ Lines(f)[a + b + 1].type = "PROCTITLE"
  BY LinesAre
<1>2. \A m : Stored(f, m) = IF m <= a + 1 THEN 0 ELSE IF m <= a + b + 1 THEN m - 1 - a ELSE b
  BY DEF Stored
<1> HIDE DEF a, b, line
<1>3. n \in Nat /\ n >= 1 /\ n <= a + b + 1
  BY <1>1
<1>4. CASE n <= a
  <2>1. line.type \in RecordType \ {"PATH", "PROCTITLE"}
    BY <1>1, <1>3, <1>4 DEF line, RecordType
  <2>2. Stored(f, n) = 0 /\ Stored(f, n + 1) = 0
    BY <1>1, <1>2, <1>3, <1>4
  <2> QED
    BY <2>1, <2>2, StoreIs DEF line
<1>5. CASE n > a /\ n <= a + b
  <2>1. PICK k \in 1 .. b : n = a + k
    <3>1. n - a \in 1 .. b /\ n = a + (n - a)
      BY <1>1, <1>3, <1>5
    <3> QED
      BY <3>1
  <2>2. line = PathLine(f, k)
    BY <1>1, <2>1 DEF line
  <2>3. line.type = "PATH" /\ PathRecord(line) = PathOf(f, k)
    BY <2>2, PathParsed DEF PathLine, Record
  <2>4. Stored(f, n) = k - 1 /\ Stored(f, n + 1) = k
    BY <1>1, <1>2, <1>3, <1>5, <2>1
  <2>5. Append(PathsOf(f, k - 1), PathOf(f, k)) = PathsOf(f, k)
    <3>1. k - 1 \in Nat /\ (k - 1) + 1 = k
      BY <1>1, <2>1
    <3> QED
      BY <3>1 DEF PathsOf
  <2>6. /\ DOMAIN Store(g, line) = DOMAIN NoGroup
        /\ Store(g, line).Paths = Append(g.Paths, PathOf(f, k))
        /\ Store(g, line).ProcTitle = <<>>
    <3>1. line.type \in RecordType /\ line.type # "PROCTITLE"
      BY <2>3 DEF RecordType
    <3>2. /\ DOMAIN Store(g, line) = DOMAIN NoGroup
          /\ Store(g, line).Paths =
               IF line.type = "PATH" THEN Append(g.Paths, PathRecord(line)) ELSE g.Paths
          /\ Store(g, line).ProcTitle =
               IF line.type = "PROCTITLE" THEN <<ProcTitleRecord(line)>> ELSE g.ProcTitle
      BY <3>1, StoreIs
    <3> QED
      BY <2>3, <3>1, <3>2
  <2> QED
    BY <2>4, <2>5, <2>6 DEF line
<1>6. CASE n = a + b + 1
  <2>1. line.type = "PROCTITLE"
    BY <1>1, <1>6 DEF line
  <2>2. Stored(f, n) = b /\ Stored(f, n + 1) = b
    BY <1>1, <1>2, <1>3, <1>6
  <2>3. DOMAIN Store(g, line) = DOMAIN NoGroup /\ Store(g, line).Paths = g.Paths
    BY <2>1, StoreIs DEF RecordType
  <2> QED
    BY <1>1, <1>6, <2>2, <2>3 DEF line
<1>7. n <= a \/ (n > a /\ n <= a + b) \/ n = a + b + 1
  BY <1>1, <1>3
<1> QED
  BY <1>4, <1>5, <1>6, <1>7

(* Before the first line there is nothing.                                 *)
LEMMA InitGroup == Init => GroupInv
<1> SUFFICES ASSUME Init PROVE GroupInv
  OBVIOUS
<1>1. /\ fact \in Fact /\ next = 1 /\ group = NoGroup /\ pc = "store"
      /\ event = NoEvent
  BY DEF Init
<1>2. Len(Before(fact)) \in Nat /\ Len(Lines(fact)) \in Nat
  BY <1>1, LinesAre
<1>3. Stored(fact, 1) = 0
  BY <1>2 DEF Stored
<1>4. PathsOf(fact, 0) = <<>>
  BY DEF PathsOf
<1>5. /\ NoGroup.Paths = <<>> /\ NoGroup.ProcTitle = <<>>
      /\ NoEvent.TargetFile = Empty
  BY DEF NoGroup, NoEvent
<1> QED
  BY <1>1, <1>2, <1>3, <1>4, <1>5 DEF GroupInv

(* Only StoreRecord changes the group, and only Enrich sets the target.    *)
LEMMA StepGroup ==
  EventInv /\ GroupInv /\ [Next]_vars => GroupInv'
<1> SUFFICES ASSUME EventInv, GroupInv, [Next]_vars
             PROVE  GroupInv'
  OBVIOUS
<1>1. CASE StoreRecord
  <2>1. /\ pc = "store" /\ next <= Len(Lines(fact))
        /\ group' = Store(group, Lines(fact)[next]) /\ next' = next + 1
        /\ pc' = IF IsReadyToAssemble(group'.Key, PresentIn(group')) THEN "base" ELSE "store"
        /\ fact' = fact /\ event' = event
    BY <1>1 DEF StoreRecord
  <2>2. /\ fact \in Fact /\ Len(Lines(fact)) \in Nat
        /\ next \in 1 .. Len(Lines(fact)) + 1
    BY LinesAre DEF GroupInv
  <2>3. next \in 1 .. Len(Lines(fact)) /\ next # Len(Lines(fact)) + 1
    BY <2>1, <2>2
  <2>4. group.ProcTitle = <<>>
    BY <2>3 DEF GroupInv
  <2>5. /\ DOMAIN group' = DOMAIN NoGroup
        /\ group'.Paths = PathsOf(fact, Stored(fact, next + 1))
        /\ group'.ProcTitle # <<>> => next = Len(Lines(fact))
    BY <2>1, <2>2, <2>3, <2>4, LineStored DEF GroupInv
  <2>6. next + 1 \in 1 .. Len(Lines(fact)) + 1
    BY <2>2, <2>3
  <2>7. event'.TargetFile = Empty
    BY <2>1 DEF GroupInv
  <2>8. pc' # "store" => IsReadyToAssemble(group'.Key, PresentIn(group'))
    BY <2>1
  <2> QED
    BY <2>1, <2>2, <2>5, <2>6, <2>7, <2>8 DEF GroupInv, PresentIn
<1>2. ASSUME UNCHANGED <<fact, next, group>>, pc # "store",
             pc' # "done" => event'.TargetFile = Empty
      PROVE  GroupInv'
  <2>1. IsReadyToAssemble(group.Key, PresentIn(group))
    BY <1>2 DEF GroupInv
  <2> QED
    BY <1>2, <2>1 DEF GroupInv, PresentIn
<1>3. CASE BuildBaseEvent
  <2>1. UNCHANGED <<fact, next, group>> /\ pc = "base" /\ event' = BaseEvent(group)
    BY <1>3 DEF BuildBaseEvent
  <2>2. BaseEvent(group).TargetFile = Empty
    BY DEF BaseEvent, NoEvent
  <2> QED
    BY <1>2, <2>1, <2>2
<1>4. ASSUME NEW from \in {"exe", "comm", "cmdline"}, NEW text, NEW otherwise,
             Try(from, text, otherwise)
      PROVE  GroupInv'
  <2>1. /\ UNCHANGED <<fact, next, group>> /\ pc = from
        /\ event' = event \/ event' = [event EXCEPT !.ParentImage = text]
    BY <1>4 DEF Try
  <2>2. "TargetFile" \in DOMAIN event
    BY DEF EventInv, NoEvent
  <2>3. event'.TargetFile = event.TargetFile
    BY <2>1, <2>2
  <2>4. event.TargetFile = Empty
    BY <2>1 DEF GroupInv
  <2> QED
    BY <1>2, <2>1, <2>3, <2>4
<1>5. CASE ReadExe
  BY <1>4, <1>5 DEF ReadExe
<1>6. CASE ReadComm
  BY <1>4, <1>6 DEF ReadComm
<1>7. CASE ReadCmdline
  BY <1>4, <1>7 DEF ReadCmdline
<1>8. CASE Enrich
  <2>1. UNCHANGED <<fact, next, group>> /\ pc = "enrich" /\ pc' = "done"
    BY <1>8 DEF Enrich
  <2> QED
    BY <1>2, <2>1
<1>9. CASE ParentChanges
  <2>1. UNCHANGED <<fact, next, group, pc, event>>
    BY <1>9 DEF ParentChanges
  <2> QED
    BY <2>1 DEF GroupInv, PresentIn
<1>10. CASE UNCHANGED vars
  <2>1. UNCHANGED <<fact, next, group, pc, event>>
    BY <1>10 DEF vars
  <2> QED
    BY <2>1 DEF GroupInv, PresentIn
<1> QED
  BY <1>1, <1>3, <1>5, <1>6, <1>7, <1>8, <1>9, <1>10 DEF Next

-----------------------------------------------------------------------------
(* The selection of the target.                                            *)

NamesIn(f, nametypes) ==
  {Written(f.paths[k].name) :
     k \in {j \in DOMAIN f.paths : f.paths[j].nametype \in nametypes}}

(* selectTargetPath finds what TargetRead asks for, in any order of the    *)
(* records.                                                                *)
LEMMA SelectedIsTarget ==
  ASSUME NEW f \in Fact, NEW type \in DOMAIN PreferredNameType
  PROVE  LET path    == SelectTargetPath(type, PathsOf(f, Len(f.paths)))
             wanted  == NamesIn(f, {PreferredNameType[type]})
             others  == NamesIn(f, NameTypes \ {"PARENT"}) \ {Empty}
             parents == NamesIn(f, {"PARENT"}) \ {Empty}
         IN  (IF path = <<>> THEN Empty ELSE path[1].Name)
               \in IF wanted # {} THEN wanted
                   ELSE IF others # {} THEN others
                   ELSE IF parents # {} THEN parents ELSE {Empty}
<1> DEFINE b == Len(f.paths)
           paths == PathsOf(f, b)
           kind == PreferredNameType[type]
           wanted == NamesIn(f, {kind})
           others == NamesIn(f, NameTypes \ {"PARENT"}) \ {Empty}
           parents == NamesIn(f, {"PARENT"}) \ {Empty}
           W == FirstPath(paths, LAMBDA p : p.NameType = Word(kind))
           O == FirstPath(paths, IsTarget)
           N == FirstPath(paths, IsNamed)
<1>1. /\ b \in Nat /\ DOMAIN f.paths = 1 .. b
      /\ \A k \in 1 .. b : f.paths[k].nametype \in NameTypes
  <2>1. f.paths \in Seq(PathItem)
    BY FactAssumption
  <2>2. \A x \in PathItem : x.nametype \in NameTypes
    BY DEF PathItem
  <2> HIDE DEF b
  <2>3. b \in Nat /\ DOMAIN f.paths = 1 .. b /\ \A k \in 1 .. b : f.paths[k] \in PathItem
    BY <2>1 DEF b
  <2> QED
    BY <2>2, <2>3
<1>2. /\ Len(paths) = b
      /\ \A k \in 1 .. b : /\ paths[k].Name = Written(f.paths[k].name)
                           /\ paths[k].NameType = Word(f.paths[k].nametype)
  BY <1>1 DEF PathsOf, PathOf
<1>3. \A x, y : Word(x) = Word(y) => x = y
  BY DEF Word
<1>4. \A I \in SUBSET (1 .. b) : I # {} => Min(I) \in I /\ Min(I) # 0
  <2> SUFFICES ASSUME NEW I \in SUBSET (1 .. b), I # {}
               PROVE  Min(I) \in I /\ Min(I) # 0
    OBVIOUS
  <2>1. I \in SUBSET Nat
    BY <1>1
  <2>2. Min(I) \in I
    BY <2>1, LeastIs
  <2> QED
    BY <1>1, <2>2
<1> HIDE DEF b, paths, W, O, N, wanted, others, parents
<1>5. \/ W = <<>> /\ wanted = {}
      \/ W # <<>> /\ W[1].Name \in wanted
  <2> DEFINE I == {i \in 1 .. b : paths[i].NameType = Word(kind)}
  <2>1. W = IF I = {} THEN <<>> ELSE <<paths[Min(I)]>>
    BY <1>2, <1>4 DEF FirstPath, SelectInSeq, W
  <2>2. wanted = {paths[k].Name : k \in I}
    BY <1>1, <1>2, <1>3 DEF NamesIn, wanted
  <2>3. I # {} => Min(I) \in I
    BY <1>4
  <2> HIDE DEF I
  <2> QED
    BY <2>1, <2>2, <2>3
<1>6. \/ O = <<>> /\ others = {}
      \/ O # <<>> /\ O[1].Name \in others
  <2> DEFINE I == {i \in 1 .. b : IsTarget(paths[i])}
  <2>1. O = IF I = {} THEN <<>> ELSE <<paths[Min(I)]>>
    BY <1>2, <1>4 DEF FirstPath, SelectInSeq, O
  <2>2. others = {paths[k].Name : k \in I}
    BY <1>1, <1>2, <1>3 DEF NamesIn, IsTarget, others
  <2>3. I # {} => Min(I) \in I
    BY <1>4
  <2> HIDE DEF I
  <2> QED
    BY <2>1, <2>2, <2>3
<1>7. \/ N = <<>> /\ others = {} /\ parents = {}
      \/ N # <<>> /\ N[1].Name \in others \cup parents
  <2> DEFINE I == {i \in 1 .. b : IsNamed(paths[i])}
  <2>1. N = IF I = {} THEN <<>> ELSE <<paths[Min(I)]>>
    BY <1>2, <1>4 DEF FirstPath, SelectInSeq, N
  <2>2. others \cup parents = {paths[k].Name : k \in I}
    BY <1>1, <1>2, <1>3 DEF NamesIn, IsNamed, others, parents
  <2>3. I # {} => Min(I) \in I
    BY <1>4
  <2> HIDE DEF I
  <2> QED
    BY <2>1, <2>2, <2>3
<1>8. SelectTargetPath(type, paths) = IF W # <<>> THEN W ELSE IF O # <<>> THEN O ELSE N
  BY DEF SelectTargetPath, W, O, N
<1>9. LET path == SelectTargetPath(type, paths)
      IN  (IF path = <<>> THEN Empty ELSE path[1].Name)
               \in IF wanted # {} THEN wanted
                   ELSE IF others # {} THEN others
                   ELSE IF parents # {} THEN parents ELSE {Empty}
  BY <1>5, <1>6, <1>7, <1>8
<1> QED
  BY <1>9 DEF wanted, others, parents, b, paths

(* A group that is ready makes an event of the type its key stands for.    *)
LEMMA EnrichedType ==
  ASSUME NEW e, NEW g, DOMAIN e = DOMAIN NoEvent,
         IsReadyToAssemble(g.Key, PresentIn(g))
  PROVE  /\ g.Key \in DOMAIN EventTypeOf
         /\ EnrichEventByKey(e, g).Type = EventTypeOf[g.Key]
<1> DEFINE typed == [e EXCEPT !.Type = EventTypeOf[g.Key],
                              !.CommandLine = CleanCommandLine(g.Execve)]
<1>1. DOMAIN typed = DOMAIN NoEvent /\ typed.Type = EventTypeOf[g.Key]
  BY DEF NoEvent
<1>2. g.Key \in DOMAIN EventTypeOf
  BY DEF IsReadyToAssemble
<1> HIDE DEF typed
<1>3. /\ EnrichNetworkConnect(typed, g).Type = typed.Type
      /\ EnrichPrivilegeEscalation(typed, g).Type = typed.Type
      /\ EnrichProcessAccess(typed, g).Type = typed.Type
      /\ BindPathFields(typed, g).Type = typed.Type
  BY <1>1 DEF EnrichNetworkConnect, EnrichPrivilegeEscalation, EnrichProcessAccess,
              BindPathFields, NoEvent
<1> QED
  BY <1>1, <1>2, <1>3 DEF EnrichEventByKey, typed

(* An event of a file type got its target from the PATH records.           *)
LEMMA EnrichedTarget ==
  ASSUME NEW e, NEW g, DOMAIN e = DOMAIN NoEvent, e.TargetFile = Empty,
         IsReadyToAssemble(g.Key, PresentIn(g)),
         EnrichEventByKey(e, g).Type \in DOMAIN PreferredNameType
  PROVE  LET type == EnrichEventByKey(e, g).Type
             path == SelectTargetPath(type, g.Paths)
         IN  /\ EnrichEventByKey(e, g).TargetFile =
                  IF path = <<>> THEN Empty ELSE path[1].Name
             /\ g.ProcTitle # <<>>
<1> DEFINE typed == [e EXCEPT !.Type = EventTypeOf[g.Key],
                              !.CommandLine = CleanCommandLine(g.Execve)]
           enriched == EnrichEventByKey(e, g)
           FileKeys == {"file_create", "file_delete", "persistence",
                        "shadow_access", "passwd_access"}
<1>1. /\ DOMAIN typed = DOMAIN NoEvent
      /\ typed.Type = EventTypeOf[g.Key] /\ typed.TargetFile = Empty
  BY DEF NoEvent
<1>2. g.Key \in DOMAIN EventTypeOf
  BY DEF IsReadyToAssemble
<1> HIDE DEF typed
<1>3. enriched = CASE g.Key = "process_create"       -> typed
                   [] g.Key = "network_connect"      -> EnrichNetworkConnect(typed, g)
                   [] g.Key = "privilege_escalation" -> EnrichPrivilegeEscalation(typed, g)
                   [] g.Key = "process_access"       -> EnrichProcessAccess(typed, g)
                   [] OTHER                          -> BindPathFields(typed, g)
  BY <1>2 DEF EnrichEventByKey, typed
<1>4. enriched.Type = EventTypeOf[g.Key]
  BY EnrichedType
<1>5. g.Key \in FileKeys
  BY <1>2, <1>4 DEF EventTypeOf, PreferredNameType
<1>6. enriched = BindPathFields(typed, g)
  BY <1>3, <1>5
<1>7. "PROCTITLE" \in EventRecords[EventTypeOf[g.Key]]
  BY <1>5 DEF EventTypeOf, EventRecords
<1>8. g.ProcTitle # <<>>
  BY <1>7 DEF IsReadyToAssemble, PresentIn
<1>9. LET path == SelectTargetPath(enriched.Type, g.Paths)
       IN  enriched.TargetFile = IF path = <<>> THEN Empty ELSE path[1].Name
  <2> DEFINE path == SelectTargetPath(typed.Type, g.Paths)
  <2>1. enriched.Type = typed.Type
    BY <1>1, <1>4
  <2>2. BindPathFields(typed, g).TargetFile = IF path = <<>> THEN Empty ELSE path[1].Name
    BY <1>1 DEF BindPathFields, NoEvent
  <2> QED
    BY <1>6, <2>1, <2>2
<1> QED
  BY <1>8, <1>9

(* A file event is about the file and not about its directory: all PATH    *)
(* records are in the group when it is ready, since its title comes last.  *)
LEMMA StepTarget ==
  EventInv /\ GroupInv /\ TargetRead /\ [Next]_vars => TargetRead'
<1> SUFFICES ASSUME EventInv, GroupInv, TargetRead, [Next]_vars
             PROVE  TargetRead'
  OBVIOUS
<1>1. CASE Enrich
  <2>1. /\ pc = "enrich" /\ event' = EnrichEventByKey(event, group)
        /\ pc' = "done" /\ fact' = fact
    BY <1>1 DEF Enrich
  <2> DEFINE type == event'.Type
             Named(kinds) == NamesIn(fact', kinds)
  <2> SUFFICES ASSUME type \in DOMAIN PreferredNameType
               PROVE  LET wanted  == Named({PreferredNameType[type]})
                          others  == Named(NameTypes \ {"PARENT"}) \ {Empty}
                          parents == Named({"PARENT"}) \ {Empty}
                      IN  event'.TargetFile \in IF wanted # {} THEN wanted
                             ELSE IF others # {} THEN others
                             ELSE IF parents # {} THEN parents ELSE {Empty}
    BY Zenon DEF TargetRead, NamesWith, NamesIn
  <2>2. /\ fact \in Fact /\ DOMAIN event = DOMAIN NoEvent /\ event.TargetFile = Empty
        /\ IsReadyToAssemble(group.Key, PresentIn(group))
    BY <2>1 DEF EventInv, GroupInv
  <2>3. LET path == SelectTargetPath(event'.Type, group.Paths)
        IN  /\ event'.TargetFile = IF path = <<>> THEN Empty ELSE path[1].Name
            /\ group.ProcTitle # <<>>
    BY <2>1, <2>2, EnrichedTarget
  <2>4. group.Paths = PathsOf(fact, Len(fact.paths))
    <3>1. next = Len(Lines(fact)) + 1
      BY <2>3 DEF GroupInv
    <3>2. Stored(fact, next) = Len(fact.paths)
      BY <3>1, <2>2, LinesAre DEF Stored
    <3> QED
      BY <3>2 DEF GroupInv
  <2>5. fact' = fact
    BY <2>1
  <2> DEFINE path == SelectTargetPath(type, PathsOf(fact, Len(fact.paths)))
  <2>6. event'.TargetFile = IF path = <<>> THEN Empty ELSE path[1].Name
    BY <2>3, <2>4
  <2> HIDE DEF type
  <2>7. LET wanted  == NamesIn(fact, {PreferredNameType[type]})
            others  == NamesIn(fact, NameTypes \ {"PARENT"}) \ {Empty}
            parents == NamesIn(fact, {"PARENT"}) \ {Empty}
        IN  (IF path = <<>> THEN Empty ELSE path[1].Name)
              \in IF wanted # {} THEN wanted
                  ELSE IF others # {} THEN others
                  ELSE IF parents # {} THEN parents ELSE {Empty}
    BY <2>2, SelectedIsTarget
  <2> HIDE DEF path
  <2> QED
    BY <2>5, <2>6, <2>7
<1>2. CASE ~Enrich
  <2>1. \/ pc' # "done"
        \/ UNCHANGED <<fact, pc, event>>
    BY <1>2 DEF Next, vars, StoreRecord, BuildBaseEvent, ReadExe, ReadComm, ReadCmdline,
                Try, ParentChanges
  <2> QED
    BY <2>1 DEF TargetRead, NamesWith
<1> QED
  BY <1>1, <1>2

(* A file event names the file that was created, deleted or opened, if the *)
(* records name it, wherever they stand.                                   *)
THEOREM TargetIsRead == Spec => []TargetRead
<1>1. Init => TargetRead
  BY DEF Init, TargetRead
<1> QED
  BY <1>1, InitParent, InitGroup, StepParent, StepGroup, StepTarget, PTL DEF Spec

-----------------------------------------------------------------------------
(* The address of a connection.                                            *)

(* A byte is its two hex digits.                                           *)
LEMMA TwoDigits ==
  ASSUME NEW x \in 0 .. 255
  PROVE  16 * (x \div 16) + (x % 16) = x
OBVIOUS

(* The digits auditd writes for bytes are read as those bytes.             *)
LEMMA ReadBack ==
  ASSUME NEW b \in Seq(Byte)
  PROVE  Len(AddressDigits(b)) = 2 * Len(b) /\ Bytes(AddressDigits(b)) = b
<1> DEFINE n == Len(b)
           ds == AddressDigits(b)
<1>1. n \in Nat /\ DOMAIN b = 1 .. n /\ \A k \in 1 .. n : b[k] \in Byte
  OBVIOUS
<1>2. \A m \in Nat : 2 * m \in Nat /\ (2 * m) \div 2 = m
  OBVIOUS
<1> HIDE DEF n
<1>3. ds = [k \in 1 .. 2 * n |->
              IF k % 2 = 1 THEN b[(k + 1) \div 2] \div 16 ELSE b[k \div 2] % 16]
  BY DEF AddressDigits, n
<1> HIDE DEF ds
<1>4. Len(ds) = 2 * n
  BY <1>1, <1>2, <1>3
<1>5. ASSUME NEW k \in 1 .. n
      PROVE  16 * ds[2 * k - 1] + ds[2 * k] = b[k]
  <2>1. /\ 2 * k - 1 \in 1 .. 2 * n /\ 2 * k \in 1 .. 2 * n
        /\ (2 * k - 1) % 2 = 1 /\ (2 * k) % 2 = 0
        /\ ((2 * k - 1) + 1) \div 2 = k /\ (2 * k) \div 2 = k
    BY <1>1
  <2>2. ds[2 * k - 1] = b[k] \div 16 /\ ds[2 * k] = b[k] % 16
    BY <1>3, <2>1
  <2>3. b[k] \in Byte
    BY <1>1
  <2>4. 16 * (b[k] \div 16) + (b[k] % 16) = b[k]
    BY <2>3, TwoDigits DEF Byte
  <2> QED
    BY <2>2, <2>4
<1>6. Bytes(ds) = [k \in 1 .. n |-> 16 * ds[2 * k - 1] + ds[2 * k]]
  BY <1>1, <1>2, <1>4 DEF Bytes
<1>7. Bytes(ds) = [k \in 1 .. n |-> b[k]]
  BY <1>5, <1>6
<1>8. b = [k \in 1 .. n |-> b[k]]
  BY <1>1
<1> QED
  BY <1>4, <1>7, <1>8 DEF ds, n

(* The first bytes of a sequence.                                          *)
LEMMA FirstBytes ==
  ASSUME NEW w \in Seq(Byte), NEW n \in Nat, n <= Len(w)
  PROVE  /\ SubSeq(w, 1, n) \in Seq(Byte) /\ Len(SubSeq(w, 1, n)) = n
         /\ \A i \in 1 .. n : SubSeq(w, 1, n)[i] = w[i]
<1>1. \A i \in 1 .. n : w[i] \in Byte
  OBVIOUS
<1>2. /\ SubSeq(w, 1, n) \in Seq(Byte)
      /\ Len(SubSeq(w, 1, n)) = IF 1 <= n THEN n - 1 + 1 ELSE 0
      /\ \A i \in 1 .. n - 1 + 1 : SubSeq(w, 1, n)[i] = w[1 + i - 1]
  BY <1>1, SubSeqProperties
<1>3. n - 1 + 1 = n /\ \A i \in 1 .. n : 1 + i - 1 = i
  OBVIOUS
<1> QED
  BY <1>2, <1>3

(* A tuple of bytes is a sequence of them.                                 *)
LEMMA TupleIsSeq ==
  ASSUME NEW m \in Nat, NEW t \in [1 .. m -> Byte]
  PROVE  t \in Seq(Byte) /\ Len(t) = m
<1>1. [k \in 1 .. m |-> t[k]] \in Seq(Byte)
  BY IsASeq
<1>2. t = [k \in 1 .. m |-> t[k]]
  OBVIOUS
<1> QED
  BY <1>1, <1>2

(* Where the address itself stands in a sockaddr.                          *)
Start(a) == IF a.family = AF_INET THEN 4 ELSE 8
Size(a) == IF a.family = AF_INET THEN 4 ELSE 16

(* Of the bytes of a sockaddr the first a.length are there.                *)
LEMMA AddressLaid ==
  ASSUME NEW a \in InetAddress \cup Inet6Address
  PROVE  LET b == AddressBytes(a)
         IN  /\ a.length \in Nat
             /\ b \in Seq(Byte) /\ Len(b) = a.length
             /\ a.length >= 2 => b[1] = a.family /\ b[2] = 0
             /\ a.length >= 4 => b[3] = a.port[1] /\ b[4] = a.port[2]
             /\ \A k \in 1 .. Size(a) :
                  Start(a) + k <= a.length => b[Start(a) + k] = a.ip[k]
<1> DEFINE head == <<a.family, 0>>
           n == a.length
<1>1. /\ a.port \in [1 .. 2 -> Byte] /\ n \in Nat
      /\ a.family \in {AF_INET, AF_INET6} /\ AF_INET # AF_INET6
  BY DEF InetAddress, Inet6Address, AF_INET, AF_INET6
<1>2. a.port \in Seq(Byte) /\ Len(a.port) = 2
  BY <1>1, TupleIsSeq
<1>3. head \in Seq(Byte) /\ Len(head) = 2 /\ head[1] = a.family /\ head[2] = 0
  BY <1>1 DEF Byte, AF_INET, AF_INET6
<1>4. \A m \in Nat : Zeros(m) \in Seq(Byte) /\ Len(Zeros(m)) = m
  <2> SUFFICES ASSUME NEW m \in Nat
               PROVE  Zeros(m) \in Seq(Byte) /\ Len(Zeros(m)) = m
    OBVIOUS
  <2>1. 0 \in Byte
    BY DEF Byte
  <2>2. Zeros(m) \in [1 .. m -> Byte]
    BY <2>1 DEF Zeros
  <2> QED
    BY <2>2, TupleIsSeq
<1> HIDE DEF head, n
<1>5. ASSUME NEW whole \in Seq(Byte), n <= Len(whole),
             whole[1] = a.family, whole[2] = 0,
             whole[3] = a.port[1], whole[4] = a.port[2],
             \A k \in 1 .. Size(a) : whole[Start(a) + k] = a.ip[k],
             AddressBytes(a) = SubSeq(whole, 1, n)
      PROVE  LET b == AddressBytes(a)
             IN  /\ b \in Seq(Byte) /\ Len(b) = n
                 /\ n >= 2 => b[1] = a.family /\ b[2] = 0
                 /\ n >= 4 => b[3] = a.port[1] /\ b[4] = a.port[2]
                 /\ \A k \in 1 .. Size(a) :
                      Start(a) + k <= n => b[Start(a) + k] = a.ip[k]
  <2> DEFINE b == AddressBytes(a)
  <2>1. /\ SubSeq(whole, 1, n) \in Seq(Byte) /\ Len(SubSeq(whole, 1, n)) = n
        /\ \A i \in 1 .. n : SubSeq(whole, 1, n)[i] = whole[i]
    BY <1>1, <1>5, FirstBytes
  <2>2. /\ b \in Seq(Byte) /\ Len(b) = n
        /\ \A i \in 1 .. n : b[i] = whole[i]
    BY <1>5, <2>1
  <2> HIDE DEF b
  <2>3. /\ n >= 2 => b[1] = a.family /\ b[2] = 0
        /\ n >= 4 => b[3] = a.port[1] /\ b[4] = a.port[2]
    <3>1. /\ n >= 2 => 1 \in 1 .. n /\ 2 \in 1 .. n
          /\ n >= 4 => 3 \in 1 .. n /\ 4 \in 1 .. n
      BY <1>1
    <3>2. /\ n >= 2 => b[1] = whole[1] /\ b[2] = whole[2]
          /\ n >= 4 => b[3] = whole[3] /\ b[4] = whole[4]
      BY <2>2, <3>1
    <3> QED
      BY <1>5, <3>2, Zenon
  <2>4. ASSUME NEW k \in 1 .. Size(a), Start(a) + k <= n
        PROVE  b[Start(a) + k] = a.ip[k]
    <3>1. Start(a) + k \in 1 .. n
      BY <1>1, <2>4 DEF Start, Size
    <3> QED
      BY <1>5, <2>2, <3>1
  <2> QED
    BY <2>2, <2>3, <2>4 DEF b
<1>6. CASE a.family = AF_INET
  <2>1. a.ip \in [1 .. 4 -> Byte] /\ n \in 0 .. 16
    BY <1>1, <1>6 DEF InetAddress, Inet6Address, n
  <2>2. a.ip \in Seq(Byte) /\ Len(a.ip) = 4
    BY <2>1, TupleIsSeq
  <2> DEFINE z == Zeros(8)
  <2>3. z \in Seq(Byte) /\ Len(z) = 8
    BY <1>4
  <2> HIDE DEF z
  <2> DEFINE pip == a.port \o a.ip
             body == pip \o z
             whole == head \o body
  <2>4. /\ pip \in Seq(Byte) /\ Len(pip) = 2 + 4
        /\ \A i \in 1 .. 2 : pip[i] = a.port[i]
        /\ \A k \in 1 .. 4 : pip[2 + k] = a.ip[k]
    <3>1. /\ pip \in Seq(Byte) /\ Len(pip) = 2 + 4
          /\ \A i \in 1 .. 2 + 4 : pip[i] = IF i <= 2 THEN a.port[i] ELSE a.ip[i - 2]
      <4>1. a.port \in Seq(Byte) /\ a.ip \in Seq(Byte)
        BY <1>2, <2>2
      <4>2. /\ a.port \o a.ip \in Seq(Byte) /\ Len(a.port \o a.ip) = Len(a.port) + Len(a.ip)
            /\ \A i \in 1 .. Len(a.port) + Len(a.ip) : (a.port \o a.ip)[i] =
                  IF i <= Len(a.port) THEN a.port[i] ELSE a.ip[i - Len(a.port)]
        BY <4>1, ConcatProperties
      <4>3. Len(a.port) = 2 /\ Len(a.ip) = 4
        BY <1>2, <2>2
      <4> QED
        BY <4>2, <4>3
    <3> HIDE DEF pip
    <3> QED
      BY <3>1, PartsStand
  <2> HIDE DEF pip
  <2>5. /\ body \in Seq(Byte) /\ Len(body) = 6 + 8
        /\ \A i \in 1 .. 6 : body[i] = pip[i]
    <3>1. /\ body \in Seq(Byte) /\ Len(body) = 6 + 8
          /\ \A i \in 1 .. 6 + 8 : body[i] = IF i <= 6 THEN pip[i] ELSE z[i - 6]
      <4>1. pip \in Seq(Byte) /\ z \in Seq(Byte)
        BY <2>3, <2>4
      <4>2. /\ pip \o z \in Seq(Byte) /\ Len(pip \o z) = Len(pip) + Len(z)
            /\ \A i \in 1 .. Len(pip) + Len(z) : (pip \o z)[i] =
                  IF i <= Len(pip) THEN pip[i] ELSE z[i - Len(pip)]
        BY <4>1, ConcatProperties
      <4>3. Len(pip) = 6 /\ Len(z) = 8
        BY <2>3, <2>4
      <4> QED
        BY <4>2, <4>3
    <3> HIDE DEF body
    <3> QED
      BY <3>1, PartsStand
  <2>6. AddressBytes(a) = SubSeq(whole, 1, n)
    BY <1>1, <1>6, Zenon DEF AddressBytes, head, pip, z, n
  <2> HIDE DEF body
  <2>7. /\ whole \in Seq(Byte) /\ Len(whole) = 2 + 14
        /\ \A i \in 1 .. 2 : whole[i] = head[i]
        /\ \A k \in 1 .. 14 : whole[2 + k] = body[k]
    <3>1. /\ whole \in Seq(Byte) /\ Len(whole) = 2 + 14
          /\ \A i \in 1 .. 2 + 14 : whole[i] = IF i <= 2 THEN head[i] ELSE body[i - 2]
      <4>1. head \in Seq(Byte) /\ body \in Seq(Byte)
        BY <1>3, <2>5
      <4>2. /\ head \o body \in Seq(Byte) /\ Len(head \o body) = Len(head) + Len(body)
            /\ \A i \in 1 .. Len(head) + Len(body) : (head \o body)[i] =
                  IF i <= Len(head) THEN head[i] ELSE body[i - Len(head)]
        BY <4>1, ConcatProperties
      <4>3. Len(head) = 2 /\ Len(body) = 14
        BY <1>3, <2>5
      <4> QED
        BY <4>2, <4>3
    <3> HIDE DEF whole
    <3> QED
      BY <3>1, PartsStand
  <2> HIDE DEF whole
  <2>8. Start(a) = 4 /\ Size(a) = 4
    BY <1>6 DEF Start, Size
  <2>9. /\ whole[1] = a.family /\ whole[2] = 0
        /\ whole[3] = a.port[1] /\ whole[4] = a.port[2]
    <3>1. whole[3] = body[1] /\ whole[4] = body[2]
      <4>1. 3 = 2 + 1 /\ 4 = 2 + 2 /\ 1 \in 1 .. 14 /\ 2 \in 1 .. 14
        OBVIOUS
      <4> QED
        BY <2>7, <4>1
    <3>2. /\ body[1] = pip[1] /\ body[2] = pip[2]
          /\ pip[1] = a.port[1] /\ pip[2] = a.port[2]
      BY <2>4, <2>5
    <3>3. whole[1] = head[1] /\ whole[2] = head[2]
      BY <2>7
    <3> QED
      BY <1>3, <3>1, <3>2, <3>3, Zenon
  <2>10. \A k \in 1 .. 4 : whole[4 + k] = a.ip[k]
    <3> SUFFICES ASSUME NEW k \in 1 .. 4 PROVE whole[4 + k] = a.ip[k]
      OBVIOUS
    <3>1. 4 + k = 2 + (2 + k) /\ 2 + k \in 1 .. 6 /\ 2 + k \in 1 .. 14
      OBVIOUS
    <3>2. whole[2 + (2 + k)] = body[2 + k] /\ body[2 + k] = pip[2 + k]
      BY <2>5, <2>7, <3>1
    <3> QED
      BY <2>4, <3>1, <3>2
  <2>11. n <= Len(whole)
    BY <2>1, <2>7
  <2>12. \A k \in 1 .. Size(a) : whole[Start(a) + k] = a.ip[k]
    BY <2>8, <2>10
  <2>13. whole \in Seq(Byte)
    BY <2>7
  <2>14. LET b == AddressBytes(a)
        IN  /\ b \in Seq(Byte) /\ Len(b) = n
            /\ n >= 2 => b[1] = a.family /\ b[2] = 0
            /\ n >= 4 => b[3] = a.port[1] /\ b[4] = a.port[2]
            /\ \A k \in 1 .. Size(a) :
                 Start(a) + k <= n => b[Start(a) + k] = a.ip[k]
    BY <1>5, <2>6, <2>9, <2>11, <2>12, <2>13
  <2> QED
    BY <1>1, <2>14 DEF n
<1>7. CASE a.family # AF_INET
  <2>1. a.family = AF_INET6 /\ a.ip \in [1 .. 16 -> Byte] /\ n \in 0 .. 28
    BY <1>7 DEF InetAddress, Inet6Address, n
  <2>2. a.ip \in Seq(Byte) /\ Len(a.ip) = 16
    BY <2>1, TupleIsSeq
  <2>3. Zeros(4) \in Seq(Byte) /\ Len(Zeros(4)) = 4
    BY <1>4
  <2> DEFINE pz == a.port \o Zeros(4)
             pzi == pz \o a.ip
             body == pzi \o Zeros(4)
             whole == head \o body
  <2>4. /\ pz \in Seq(Byte) /\ Len(pz) = 2 + 4
        /\ \A i \in 1 .. 2 : pz[i] = a.port[i]
    <3>1. /\ pz \in Seq(Byte) /\ Len(pz) = 2 + 4
          /\ \A i \in 1 .. 2 + 4 : pz[i] = IF i <= 2 THEN a.port[i] ELSE Zeros(4)[i - 2]
      <4>1. a.port \in Seq(Byte) /\ Zeros(4) \in Seq(Byte)
        BY <1>2, <2>3
      <4>2. /\ a.port \o Zeros(4) \in Seq(Byte) /\ Len(a.port \o Zeros(4)) = Len(a.port) + Len(Zeros(4))
            /\ \A i \in 1 .. Len(a.port) + Len(Zeros(4)) : (a.port \o Zeros(4))[i] =
                  IF i <= Len(a.port) THEN a.port[i] ELSE Zeros(4)[i - Len(a.port)]
        BY <4>1, ConcatProperties
      <4>3. Len(a.port) = 2 /\ Len(Zeros(4)) = 4
        BY <1>2, <2>3
      <4> QED
        BY <4>2, <4>3
    <3> HIDE DEF pz
    <3> QED
      BY <3>1, PartsStand
  <2> HIDE DEF pz
  <2>5. /\ pzi \in Seq(Byte) /\ Len(pzi) = 6 + 16
        /\ \A i \in 1 .. 6 : pzi[i] = pz[i]
        /\ \A k \in 1 .. 16 : pzi[6 + k] = a.ip[k]
    <3>1. /\ pzi \in Seq(Byte) /\ Len(pzi) = 6 + 16
          /\ \A i \in 1 .. 6 + 16 : pzi[i] = IF i <= 6 THEN pz[i] ELSE a.ip[i - 6]
      <4>1. pz \in Seq(Byte) /\ a.ip \in Seq(Byte)
        BY <2>2, <2>4
      <4>2. /\ pz \o a.ip \in Seq(Byte) /\ Len(pz \o a.ip) = Len(pz) + Len(a.ip)
            /\ \A i \in 1 .. Len(pz) + Len(a.ip) : (pz \o a.ip)[i] =
                  IF i <= Len(pz) THEN pz[i] ELSE a.ip[i - Len(pz)]
        BY <4>1, ConcatProperties
      <4>3. Len(pz) = 6 /\ Len(a.ip) = 16
        BY <2>2, <2>4
      <4> QED
        BY <4>2, <4>3
    <3> HIDE DEF pzi
    <3> QED
      BY <3>1, PartsStand
  <2> HIDE DEF pzi
  <2>6. /\ body \in Seq(Byte) /\ Len(body) = 22 + 4
        /\ \A i \in 1 .. 22 : body[i] = pzi[i]
    <3>1. /\ body \in Seq(Byte) /\ Len(body) = 22 + 4
          /\ \A i \in 1 .. 22 + 4 : body[i] = IF i <= 22 THEN pzi[i] ELSE Zeros(4)[i - 22]
      <4>1. pzi \in Seq(Byte) /\ Zeros(4) \in Seq(Byte)
        BY <2>3, <2>5
      <4>2. /\ pzi \o Zeros(4) \in Seq(Byte) /\ Len(pzi \o Zeros(4)) = Len(pzi) + Len(Zeros(4))
            /\ \A i \in 1 .. Len(pzi) + Len(Zeros(4)) : (pzi \o Zeros(4))[i] =
                  IF i <= Len(pzi) THEN pzi[i] ELSE Zeros(4)[i - Len(pzi)]
        BY <4>1, ConcatProperties
      <4>3. Len(pzi) = 22 /\ Len(Zeros(4)) = 4
        BY <2>3, <2>5
      <4> QED
        BY <4>2, <4>3
    <3> HIDE DEF body
    <3> QED
      BY <3>1, PartsStand
  <2>7. AddressBytes(a) = SubSeq(whole, 1, n)
    BY <1>1, <2>1, Zenon DEF AddressBytes, head, pz, pzi, n
  <2> HIDE DEF body
  <2>8. /\ whole \in Seq(Byte) /\ Len(whole) = 2 + 26
        /\ \A i \in 1 .. 2 : whole[i] = head[i]
        /\ \A k \in 1 .. 26 : whole[2 + k] = body[k]
    <3>1. /\ whole \in Seq(Byte) /\ Len(whole) = 2 + 26
          /\ \A i \in 1 .. 2 + 26 : whole[i] = IF i <= 2 THEN head[i] ELSE body[i - 2]
      <4>1. head \in Seq(Byte) /\ body \in Seq(Byte)
        BY <1>3, <2>6
      <4>2. /\ head \o body \in Seq(Byte) /\ Len(head \o body) = Len(head) + Len(body)
            /\ \A i \in 1 .. Len(head) + Len(body) : (head \o body)[i] =
                  IF i <= Len(head) THEN head[i] ELSE body[i - Len(head)]
        BY <4>1, ConcatProperties
      <4>3. Len(head) = 2 /\ Len(body) = 26
        BY <1>3, <2>6
      <4> QED
        BY <4>2, <4>3
    <3> HIDE DEF whole
    <3> QED
      BY <3>1, PartsStand
  <2> HIDE DEF whole
  <2>9. Start(a) = 8 /\ Size(a) = 16
    BY <1>7 DEF Start, Size
  <2>10. /\ whole[1] = a.family /\ whole[2] = 0
         /\ whole[3] = a.port[1] /\ whole[4] = a.port[2]
    <3>1. whole[3] = body[1] /\ whole[4] = body[2]
      <4>1. 3 = 2 + 1 /\ 4 = 2 + 2 /\ 1 \in 1 .. 26 /\ 2 \in 1 .. 26
        OBVIOUS
      <4> QED
        BY <2>8, <4>1
    <3>2. /\ body[1] = a.port[1] /\ body[2] = a.port[2]
      <4>1. body[1] = pzi[1] /\ body[2] = pzi[2]
        BY <2>6
      <4>2. pzi[1] = pz[1] /\ pzi[2] = pz[2]
        BY <2>5
      <4>3. pz[1] = a.port[1] /\ pz[2] = a.port[2]
        BY <2>4
      <4> QED
        BY <4>1, <4>2, <4>3
    <3>3. whole[1] = head[1] /\ whole[2] = head[2]
      BY <2>8
    <3> QED
      BY <1>3, <3>1, <3>2, <3>3, Zenon
  <2>11. \A k \in 1 .. 16 : whole[8 + k] = a.ip[k]
    <3> SUFFICES ASSUME NEW k \in 1 .. 16 PROVE whole[8 + k] = a.ip[k]
      OBVIOUS
    <3>1. 8 + k = 2 + (6 + k) /\ 6 + k \in 1 .. 22 /\ 6 + k \in 1 .. 26
      OBVIOUS
    <3>2. whole[2 + (6 + k)] = body[6 + k] /\ body[6 + k] = pzi[6 + k]
      BY <2>6, <2>8, <3>1
    <3> QED
      BY <2>5, <3>1, <3>2
  <2>12. n <= Len(whole)
    BY <2>1, <2>8
  <2>13. \A k \in 1 .. Size(a) : whole[Start(a) + k] = a.ip[k]
    BY <2>9, <2>11
  <2>14. whole \in Seq(Byte)
    BY <2>8
  <2>15. LET b == AddressBytes(a)
        IN  /\ b \in Seq(Byte) /\ Len(b) = n
            /\ n >= 2 => b[1] = a.family /\ b[2] = 0
            /\ n >= 4 => b[3] = a.port[1] /\ b[4] = a.port[2]
            /\ \A k \in 1 .. Size(a) :
                 Start(a) + k <= n => b[Start(a) + k] = a.ip[k]
    BY <1>5, <2>7, <2>10, <2>12, <2>13, <2>14
  <2> QED
    BY <1>1, <2>15 DEF n
<1> QED
  BY <1>6, <1>7

(* What the event says of an address: nothing, if it is too short.         *)
ReadOf(a) ==
  IF a.length < (IF a.family = AF_INET THEN 8 ELSE 24)
  THEN <<Empty, Empty, 0>>
  ELSE <<Word(IF a.family = AF_INET THEN "inet" ELSE "inet6"),
         IPText(a.ip), 256 * a.port[1] + a.port[2]>>

(* parseSockAddrRecord reads the address auditd wrote.                     *)
LEMMA AddressParsed ==
  ASSUME NEW a \in InetAddress \cup Inet6Address
  PROVE  LET r == SockAddrRecord(AddressLine(a))
         IN  <<r.Family, r.IP, r.Port>> = ReadOf(a)
<1> DEFINE line == AddressLine(a)
           b == AddressBytes(a)
           n == a.length
           last == Start(a) + Size(a)
           field == [key |-> "saddr", text |-> Glued(AddressDigits(b))]
           At == {i \in 1 .. Len(line.fields) : HasKey(line.fields[i], "saddr")}
<1>1. /\ line.fields = <<field>> /\ Len(line.fields) = 1
      /\ line.fields[1] = field
  BY DEF AddressLine, Record
<1>2. At = {1}
  <2>1. HasKey(field, "saddr")
    BY DEF HasKey
  <2> QED
    BY <1>1, <2>1
<1>3. SelectInSeq(line.fields, LAMBDA f : HasKey(f, "saddr")) = 1
  <2>1. Min({1}) = 1
    BY LeastIs
  <2> QED
    BY <1>2, <2>1 DEF SelectInSeq
<1>4. HexField(line, "saddr") = AddressDigits(b)
  <2>1. StringField(line, "saddr") = Glued(AddressDigits(b))
    BY <1>1, <1>3 DEF StringField
  <2> QED
    BY <2>1 DEF HexField, Glued
<1>5. /\ n \in Nat /\ b \in Seq(Byte) /\ Len(b) = n
      /\ n >= 2 => b[1] = a.family /\ b[2] = 0
      /\ n >= 4 => b[3] = a.port[1] /\ b[4] = a.port[2]
      /\ \A k \in 1 .. Size(a) : Start(a) + k <= n => b[Start(a) + k] = a.ip[k]
  BY AddressLaid
<1>6. Bytes(AddressDigits(b)) = b /\ Len(AddressDigits(b)) % 2 = 0
  <2>1. Bytes(AddressDigits(b)) = b /\ Len(AddressDigits(b)) = 2 * n
    BY <1>5, ReadBack
  <2>2. (2 * n) % 2 = 0
    BY <1>5
  <2> QED
    BY <2>1, <2>2
<1> DEFINE inet(name, first, to) ==
             IF Len(b) < to THEN NoAddress
             ELSE [Family |-> Word(name), Port |-> BigEndian(SubSeq(b, 3, 4)),
                   IP |-> IPText(SubSeq(b, first, to))]
<1> HIDE DEF b, line
<1>7. /\ n < 2 => SockAddrRecord(line) = NoAddress
      /\ n >= 2 /\ a.family = AF_INET => SockAddrRecord(line) = inet("inet", 5, 8)
      /\ n >= 2 /\ a.family = AF_INET6 => SockAddrRecord(line) = inet("inet6", 9, 24)
  <2>1. n >= 2 => b[1] + 256 * b[2] = a.family
    BY <1>5, SMTT(20) DEF InetAddress, Inet6Address, AF_INET, AF_INET6
  <2> QED
    BY <1>4, <1>5, <1>6, <2>1 DEF SockAddrRecord, AF_INET, AF_INET6, AF_UNIX
<1>8. a.family \in {AF_INET, AF_INET6} /\ AF_INET # AF_INET6
  BY DEF InetAddress, Inet6Address, AF_INET, AF_INET6
<1>9. a.family = AF_INET => Start(a) = 4 /\ Size(a) = 4 /\ last = 8
  BY DEF Start, Size
<1>10. a.family = AF_INET6 => Start(a) = 8 /\ Size(a) = 16 /\ last = 24
  BY <1>8 DEF Start, Size
<1>11. ASSUME n >= last
       PROVE  SubSeq(b, Start(a) + 1, last) = a.ip
  <2>1. a.ip = [k \in 1 .. Size(a) |-> a.ip[k]] /\ \A k \in 1 .. Size(a) : a.ip[k] \in Byte
    BY <1>8, <1>9, <1>10 DEF InetAddress, Inet6Address, AF_INET, AF_INET6
  <2>2. Start(a) \in Nat /\ Size(a) \in Nat /\ last = Start(a) + Size(a)
    BY DEF Start, Size
  <2> HIDE DEF last
  <2>3. SubSeq(b, Start(a) + 1, last) =
          [k \in 1 .. Size(a) |-> b[k + (Start(a) + 1) - 1]]
    BY <1>5, <1>11, <2>2
  <2>4. \A k \in 1 .. Size(a) : b[k + (Start(a) + 1) - 1] = a.ip[k]
    <3> SUFFICES ASSUME NEW k \in 1 .. Size(a)
                 PROVE  b[k + (Start(a) + 1) - 1] = a.ip[k]
      OBVIOUS
    <3>1. k + (Start(a) + 1) - 1 = Start(a) + k /\ Start(a) + k <= n
      BY <1>5, <1>11, <2>2
    <3> QED
      BY <1>5, <3>1
  <2> QED
    BY <2>1, <2>3, <2>4
<1>12. n >= 4 => BigEndian(SubSeq(b, 3, 4)) = 256 * a.port[1] + a.port[2]
  <2> SUFFICES ASSUME n >= 4
               PROVE  BigEndian(SubSeq(b, 3, 4)) = 256 * a.port[1] + a.port[2]
    OBVIOUS
  <2>1. SubSeq(b, 3, 4)[1] = b[3] /\ SubSeq(b, 3, 4)[2] = b[4]
    BY <1>5
  <2> QED
    BY <1>5, <2>1 DEF BigEndian
<1>13. NoAddress.Family = Empty /\ NoAddress.IP = Empty /\ NoAddress.Port = 0
  BY DEF NoAddress
<1>14. CASE n < last
  BY <1>5, <1>7, <1>8, <1>9, <1>10, <1>13, <1>14 DEF ReadOf, line
<1>15. CASE n >= last
  <2>1. n >= 4 /\ n >= 2
    BY <1>5, <1>8, <1>9, <1>10, <1>15
  <2>2. CASE a.family = AF_INET
    <3>1. SockAddrRecord(line) = [Family |-> Word("inet"),
             Port |-> 256 * a.port[1] + a.port[2], IP |-> IPText(a.ip)]
      <4>1. SubSeq(b, 5, 8) = a.ip
        BY <1>9, <1>11, <1>15, <2>2
      <4>2. SockAddrRecord(line) = inet("inet", 5, 8)
        BY <1>7, <2>1, <2>2
      <4>3. ~(Len(b) < 8)
        BY <1>5, <1>9, <1>15, <2>2
      <4> QED
        BY <1>12, <2>1, <4>1, <4>2, <4>3
    <3> QED
      BY <1>5, <1>9, <1>15, <2>2, <3>1 DEF ReadOf, line
  <2>3. CASE a.family = AF_INET6
    <3>1. SockAddrRecord(line) = [Family |-> Word("inet6"),
             Port |-> 256 * a.port[1] + a.port[2], IP |-> IPText(a.ip)]
      <4>1. SubSeq(b, 9, 24) = a.ip
        BY <1>10, <1>11, <1>15, <2>3
      <4>2. SockAddrRecord(line) = inet("inet6", 9, 24)
        BY <1>7, <2>1, <2>3
      <4>3. ~(Len(b) < 24)
        BY <1>5, <1>10, <1>15, <2>3
      <4> QED
        BY <1>12, <2>1, <4>1, <4>2, <4>3
    <3> QED
      BY <1>5, <1>8, <1>10, <1>15, <2>3, <3>1 DEF ReadOf, line
  <2> QED
    BY <1>8, <2>2, <2>3
<1> QED
  BY <1>5, <1>8, <1>9, <1>10, <1>14, <1>15

(* All lines are of records the collector parses.                          *)
LEMMA LineTypes ==
  ASSUME NEW f \in Fact, NEW n \in 1 .. Len(Lines(f))
  PROVE  Lines(f)[n].type \in RecordType
<1> DEFINE a == Len(Before(f))
           b == Len(f.paths)
<1>1. /\ a \in Nat /\ b \in Nat /\ Len(Lines(f)) = a + b + 1
      /\ \A k \in 1 .. a : Lines(f)[k].type \in {"SYSCALL", "EXECVE", "SOCKADDR", "CWD"}
      /\ \A k \in 1 .. b : Lines(f)[a + k] = PathLine(f, k)
      /\ Lines(f)[a + b + 1].type = "PROCTITLE"
  BY LinesAre
<1>2. \A k : PathLine(f, k).type = "PATH"
  BY DEF PathLine, Record
<1> HIDE DEF a, b
<1>3. CASE n <= a
  BY <1>1, <1>3 DEF RecordType
<1>4. CASE n > a /\ n <= a + b
  <2>1. n - a \in 1 .. b /\ n = a + (n - a)
    BY <1>1, <1>4
  <2>2. Lines(f)[n] = PathLine(f, n - a)
    BY <1>1, <2>1
  <2> QED
    BY <1>2, <2>2 DEF RecordType
<1>5. CASE n = a + b + 1
  BY <1>1, <1>5 DEF RecordType
<1> QED
  BY <1>1, <1>3, <1>4, <1>5

(* The SOCKADDR record is of the event's address, of which there is one.   *)
LEMMA AddressLineIs ==
  ASSUME NEW f \in Fact, NEW n \in 1 .. Len(Lines(f)), Lines(f)[n].type = "SOCKADDR"
  PROVE  DOMAIN f.addr = {1} /\ Lines(f)[n] = AddressLine(f.addr[1])
<1>1. PICK j \in DOMAIN f.addr : Lines(f)[n] = AddressLine(f.addr[j])
  BY LineIs
<1>2. DOMAIN f.addr = 1 .. Len(f.addr) /\ Len(f.addr) \in Nat /\ Len(f.addr) <= 1
  BY FactAssumption
<1>3. DOMAIN f.addr = {1}
  BY <1>1, <1>2
<1> QED
  BY <1>1, <1>3

(* The group's address is the event's, as it is read.                      *)
AddressInv ==
  group.SockAddr # <<>> =>
    /\ DOMAIN fact.addr = {1}
    /\ group.SockAddr = <<SockAddrRecord(AddressLine(fact.addr[1]))>>

(* No address has been stored yet.                                         *)
LEMMA InitAddress == Init => AddressInv
<1>1. NoGroup.SockAddr = <<>>
  BY DEF NoGroup
<1> QED
  BY <1>1 DEF Init, AddressInv

(* Only a SOCKADDR record sets the group's address.                        *)
LEMMA StepAddress ==
  GroupInv /\ AddressInv /\ [Next]_vars => AddressInv'
<1> SUFFICES ASSUME GroupInv, AddressInv, [Next]_vars
             PROVE  AddressInv'
  OBVIOUS
<1>1. CASE StoreRecord
  <2> DEFINE line == Lines(fact)[next]
  <2>1. /\ next <= Len(Lines(fact)) /\ fact' = fact
        /\ group' = Store(group, line)
    BY <1>1 DEF StoreRecord
  <2>2. /\ fact \in Fact /\ DOMAIN group = DOMAIN NoGroup
        /\ next \in 1 .. Len(Lines(fact))
    BY <2>1, LinesAre DEF GroupInv
  <2>3. line.type \in RecordType
    BY <2>2, LineTypes
  <2>4. line.type = "SOCKADDR" =>
          DOMAIN fact.addr = {1} /\ line = AddressLine(fact.addr[1])
    BY <2>2, AddressLineIs
  <2> HIDE DEF line
  <2>5. group'.SockAddr = IF line.type = "SOCKADDR" THEN <<SockAddrRecord(line)>>
                          ELSE group.SockAddr
    BY <2>1, <2>2, <2>3, StoreIs
  <2>6. CASE line.type = "SOCKADDR"
    BY <2>1, <2>4, <2>5, <2>6 DEF AddressInv
  <2>7. CASE line.type # "SOCKADDR"
    BY <2>1, <2>5, <2>7 DEF AddressInv
  <2> QED
    BY <2>6, <2>7
<1>2. CASE ~StoreRecord
  <2>1. UNCHANGED <<fact, group>>
    BY <1>2 DEF Next, vars, BuildBaseEvent, ReadExe, ReadComm, ReadCmdline,
                Try, Enrich, ParentChanges
  <2> QED
    BY <2>1 DEF AddressInv
<1> QED
  BY <1>1, <1>2

(* A connection's address is the one in its group, which is there.         *)
LEMMA EnrichedAddress ==
  ASSUME NEW e, NEW g, DOMAIN e = DOMAIN NoEvent,
         IsReadyToAssemble(g.Key, PresentIn(g)),
         EnrichEventByKey(e, g).Type = "NetworkConnect"
  PROVE  LET enriched == EnrichEventByKey(e, g)
         IN  /\ g.SockAddr # <<>>
             /\ enriched.Protocol = g.SockAddr[1].Family
             /\ enriched.DstIP = g.SockAddr[1].IP
             /\ enriched.DstPort = g.SockAddr[1].Port
<1> DEFINE typed == [e EXCEPT !.Type = EventTypeOf[g.Key],
                              !.CommandLine = CleanCommandLine(g.Execve)]
           enriched == EnrichEventByKey(e, g)
<1>1. g.Key \in DOMAIN EventTypeOf /\ enriched.Type = EventTypeOf[g.Key]
  BY EnrichedType
<1>2. g.Key = "network_connect"
  BY <1>1 DEF EventTypeOf
<1>3. enriched = EnrichNetworkConnect(typed, g)
  BY <1>1, <1>2 DEF EnrichEventByKey
<1>4. g.SockAddr # <<>>
  <2>1. "SOCKADDR" \in EventRecords[EventTypeOf[g.Key]]
    BY <1>2 DEF EventTypeOf, EventRecords
  <2> QED
    BY <2>1 DEF IsReadyToAssemble, PresentIn
<1>5. DOMAIN typed = DOMAIN NoEvent
  OBVIOUS
<1> HIDE DEF typed
<1> QED
  BY <1>3, <1>4, <1>5 DEF EnrichNetworkConnect, NoEvent

(* A connection's event is ready only with a SOCKADDR record, and the      *)
(* address is read from it.                                                *)
LEMMA StepConnection ==
  EventInv /\ GroupInv /\ AddressInv /\ AddressRead /\ [Next]_vars => AddressRead'
<1> SUFFICES ASSUME EventInv, GroupInv, AddressInv, AddressRead, [Next]_vars
             PROVE  AddressRead'
  OBVIOUS
<1>1. CASE Enrich
  <2>1. /\ pc = "enrich" /\ event' = EnrichEventByKey(event, group)
        /\ fact' = fact
    BY <1>1 DEF Enrich
  <2>2. /\ fact \in Fact /\ DOMAIN event = DOMAIN NoEvent
        /\ IsReadyToAssemble(group.Key, PresentIn(group))
    BY <2>1 DEF EventInv, GroupInv
  <2> SUFFICES ASSUME event'.Type = "NetworkConnect", NEW k \in DOMAIN fact.addr,
                      fact.addr[k].family \in {AF_INET, AF_INET6}
               PROVE  <<event'.Protocol, event'.DstIP, event'.DstPort>>
                        = ReadOf(fact.addr[k])
    BY <2>1 DEF AddressRead, ReadOf
  <2>3. /\ group.SockAddr # <<>>
        /\ event'.Protocol = group.SockAddr[1].Family
        /\ event'.DstIP = group.SockAddr[1].IP
        /\ event'.DstPort = group.SockAddr[1].Port
    BY <2>1, <2>2, EnrichedAddress
  <2>4. k = 1 /\ group.SockAddr[1] = SockAddrRecord(AddressLine(fact.addr[1]))
    BY <2>3 DEF AddressInv
  <2>5. fact.addr[k] \in InetAddress \cup Inet6Address
    <3>1. fact.addr[k] \in InetAddress \cup Inet6Address \cup OtherAddress
      BY <2>2, FactAssumption
    <3> QED
      BY <3>1 DEF OtherAddress
  <2> DEFINE r == SockAddrRecord(AddressLine(fact.addr[k]))
  <2>6. <<r.Family, r.IP, r.Port>> = ReadOf(fact.addr[k])
    BY <2>5, AddressParsed
  <2> HIDE DEF r
  <2>7. group.SockAddr[1] = r
    BY <2>4 DEF r
  <2> QED
    BY <2>3, <2>6, <2>7
<1>2. CASE ~Enrich
  <2>1. \/ pc' # "done"
        \/ UNCHANGED <<fact, pc, event>>
    BY <1>2 DEF Next, vars, StoreRecord, BuildBaseEvent, ReadExe, ReadComm, ReadCmdline,
                Try, ParentChanges
  <2> QED
    BY <2>1 DEF AddressRead
<1> QED
  BY <1>1, <1>2

(* A connection has the family, the address and the port of its sockaddr,  *)
(* whatever bytes these are, and none of them if it is too short.          *)
THEOREM AddressIsRead == Spec => []AddressRead
<1>1. Init => AddressRead
  BY DEF Init, AddressRead
<1> QED
  BY <1>1, InitParent, InitGroup, InitAddress, StepParent, StepGroup, StepAddress,
     StepConnection, PTL DEF Spec

-----------------------------------------------------------------------------
(* Who did it.                                                             *)

(* The group's records are the event's, as they are read; the EXECVE record*)
(* is there as soon as two lines are, if there is one.                     *)
RecordInv ==
  /\ group.Syscall # <<>> =>
       /\ group.Syscall = <<SyscallRecord(SyscallLine(fact))>>
       /\ group.Key = fact.key
  /\ fact.argv = <<>> => group.Execve = <<>>
  /\ Len(fact.argv) = 1 /\ next > 2 =>
       group.Execve = <<ExecveRecord(ExecveLine(fact, 1))>>
  /\ group.ProcTitle # <<>> => group.ProcTitle = <<ProcTitleRecord(TitleLine(fact))>>

(* No record has been stored yet.                                          *)
LEMMA InitRecord == Init => RecordInv
<1>1. NoGroup.Syscall = <<>> /\ NoGroup.Execve = <<>> /\ NoGroup.ProcTitle = <<>>
  BY DEF NoGroup
<1> QED
  BY <1>1 DEF Init, RecordInv

(* Each record is stored as it is read.                                    *)
LEMMA StepRecord ==
  GroupInv /\ RecordInv /\ [Next]_vars => RecordInv'
<1> SUFFICES ASSUME GroupInv, RecordInv, [Next]_vars
             PROVE  RecordInv'
  OBVIOUS
<1>1. CASE StoreRecord
  <2> DEFINE line == Lines(fact)[next]
  <2>1. /\ next <= Len(Lines(fact)) /\ next' = next + 1 /\ fact' = fact
        /\ group' = Store(group, line)
    BY <1>1 DEF StoreRecord
  <2>2. /\ fact \in Fact /\ DOMAIN group = DOMAIN NoGroup
        /\ next \in 1 .. Len(Lines(fact))
    BY <2>1, LinesAre DEF GroupInv
  <2>3. line.type \in RecordType
    BY <2>2, LineTypes
  <2>4. /\ line.type = "SYSCALL" => line = SyscallLine(fact)
        /\ line.type = "EXECVE" =>
             \E part \in DOMAIN fact.argv : line = ExecveLine(fact, part)
        /\ line.type = "PROCTITLE" => line = TitleLine(fact)
    BY <2>2, LineIs
  <2>5. Len(fact.argv) = 1 /\ next = 2 =>
          line = ExecveLine(fact, 1) /\ line.type = "EXECVE"
    <3>1. 1 \in DOMAIN fact.argv => Lines(fact)[2] = ExecveLine(fact, 1)
      <4>1. 1 \in DOMAIN fact.argv =>
              2 \in 1 .. Len(Before(fact)) /\ Before(fact)[2] = ExecveLine(fact, 1)
        <5>1. 1 + 1 = 2
          OBVIOUS
        <5> QED
          BY <2>2, <5>1, BeforeIs
      <4> QED
        BY <2>2, <4>1, LinesAre
    <3>2. Len(fact.argv) = 1 => 1 \in DOMAIN fact.argv
      BY <2>2, FactAssumption
    <3>3. ExecveLine(fact, 1).type = "EXECVE"
      BY DEF ExecveLine, Record
    <3> QED
      BY <3>1, <3>2, <3>3
  <2>6. Len(fact.argv) = 1 => DOMAIN fact.argv = {1}
    BY <2>2, FactAssumption
  <2>7. fact.argv = <<>> => DOMAIN fact.argv = {}
    OBVIOUS
  <2> HIDE DEF line
  <2>8. /\ group'.Syscall = IF line.type = "SYSCALL" THEN <<SyscallRecord(line)>>
                            ELSE group.Syscall
        /\ group'.Key = IF line.type = "SYSCALL" THEN SyscallRecord(line).Key.word
                        ELSE group.Key
        /\ group'.Execve = IF line.type = "EXECVE" THEN <<ExecveRecord(line)>>
                           ELSE group.Execve
        /\ group'.ProcTitle = IF line.type = "PROCTITLE" THEN <<ProcTitleRecord(line)>>
                              ELSE group.ProcTitle
    BY <2>1, <2>2, <2>3, StoreIs
  <2>9. SyscallRecord(SyscallLine(fact)).Key.word = fact.key
    BY <2>2, SyscallRead
  <2>10. group'.Syscall # <<>> =>
           /\ group'.Syscall = <<SyscallRecord(SyscallLine(fact))>>
           /\ group'.Key = fact.key
    BY <2>4, <2>8, <2>9 DEF RecordInv
  <2>11. fact.argv = <<>> => group'.Execve = <<>>
    BY <2>4, <2>7, <2>8 DEF RecordInv
  <2>12. Len(fact.argv) = 1 /\ next + 1 > 2 =>
           group'.Execve = <<ExecveRecord(ExecveLine(fact, 1))>>
    <3> SUFFICES ASSUME Len(fact.argv) = 1, next + 1 > 2
                 PROVE  group'.Execve = <<ExecveRecord(ExecveLine(fact, 1))>>
      OBVIOUS
    <3>1. next = 2 \/ next > 2
      BY <2>2
    <3>2. CASE line.type = "EXECVE"
      <4>1. line = ExecveLine(fact, 1)
        BY <2>4, <2>6, <3>2
      <4> QED
        BY <2>8, <3>2, <4>1
    <3>3. CASE line.type # "EXECVE"
      BY <2>5, <2>8, <3>1, <3>3 DEF RecordInv
    <3> QED
      BY <3>2, <3>3
  <2>13. group'.ProcTitle # <<>> =>
           group'.ProcTitle = <<ProcTitleRecord(TitleLine(fact))>>
    BY <2>4, <2>8 DEF RecordInv
  <2> QED
    BY <2>1, <2>10, <2>11, <2>12, <2>13 DEF RecordInv
<1>2. CASE ~StoreRecord
  <2>1. UNCHANGED <<fact, group, next>>
    BY <1>2 DEF Next, vars, BuildBaseEvent, ReadExe, ReadComm, ReadCmdline,
                Try, Enrich, ParentChanges
  <2> QED
    BY <2>1 DEF RecordInv
<1> QED
  BY <1>1, <1>2

(* Who an event is about.                                                  *)
Identified(e, f) ==
  /\ <<e.PID, e.PPID>> = <<f.pid, f.ppid>>
  /\ <<e.UID, e.EUID>> = <<f.uid, f.euid>>
  /\ <<e.GID, e.EGID>> = <<f.gid, f.egid>>
  /\ e.ImagePath = Written(f.exe)

(* From buildBaseEvent on an event says who did it.                        *)
IdentityInv ==
  pc \in {"exe", "comm", "cmdline", "enrich", "done"} => Identified(event, fact)

(* A group that is ready has the SYSCALL record.                           *)
LEMMA SyscallIsThere ==
  ASSUME NEW g, IsReadyToAssemble(g.Key, PresentIn(g))
  PROVE  g.Syscall # <<>> /\ g.Key \in DOMAIN EventTypeOf
<1>1. g.Key \in DOMAIN EventTypeOf
  BY DEF IsReadyToAssemble
<1>2. "SYSCALL" \in EventRecords[EventTypeOf[g.Key]]
  BY <1>1 DEF EventTypeOf, EventRecords
<1> QED
  BY <1>1, <1>2 DEF IsReadyToAssemble, PresentIn

(* buildBaseEvent takes it from the SYSCALL record.                        *)
LEMMA BaseIdentified ==
  ASSUME NEW f \in Fact, NEW g, g.Syscall = <<SyscallRecord(SyscallLine(f))>>
  PROVE  Identified(BaseEvent(g), f)
<1> DEFINE s == SyscallRecord(SyscallLine(f))
<1>1. /\ s.PID = f.pid /\ s.PPID = f.ppid /\ s.UID = f.uid /\ s.EUID = f.euid
      /\ s.GID = f.gid /\ s.EGID = f.egid /\ s.Exe = Written(f.exe)
  BY SyscallRead
<1>2. g.Syscall[1] = s
  OBVIOUS
<1> HIDE DEF s
<1>3. LET e == BaseEvent(g)
      IN  /\ e.PID = s.PID /\ e.PPID = s.PPID /\ e.UID = s.UID /\ e.EUID = s.EUID
          /\ e.GID = s.GID /\ e.EGID = s.EGID /\ e.ImagePath = s.Exe
  BY <1>2 DEF BaseEvent, NoEvent
<1> QED
  BY <1>1, <1>3 DEF Identified

(* Nothing that is done to the event afterwards changes it.                *)
LEMMA StepIdentity ==
  EventInv /\ GroupInv /\ RecordInv /\ IdentityInv /\ [Next]_vars => IdentityInv'
<1> SUFFICES ASSUME EventInv, GroupInv, RecordInv, IdentityInv, [Next]_vars
             PROVE  IdentityInv'
  OBVIOUS
<1>1. CASE StoreRecord
  BY <1>1 DEF StoreRecord, IdentityInv
<1>2. CASE BuildBaseEvent
  <2>1. pc = "base" /\ event' = BaseEvent(group) /\ fact' = fact
    BY <1>2 DEF BuildBaseEvent
  <2>2. fact \in Fact /\ IsReadyToAssemble(group.Key, PresentIn(group))
    BY <2>1 DEF GroupInv
  <2>3. group.Syscall = <<SyscallRecord(SyscallLine(fact))>>
    BY <2>2, SyscallIsThere DEF RecordInv
  <2>4. Identified(event', fact')
    BY <2>1, <2>2, <2>3, BaseIdentified
  <2> QED
    BY <2>4 DEF IdentityInv
<1>3. ASSUME NEW from \in {"exe", "comm", "cmdline"}, NEW text, NEW otherwise,
             Try(from, text, otherwise)
      PROVE  IdentityInv'
  <2>1. /\ pc = from /\ fact' = fact
        /\ event' = event \/ event' = [event EXCEPT !.ParentImage = text]
    BY <1>3 DEF Try
  <2>2. Identified(event, fact) /\ DOMAIN event = DOMAIN NoEvent
    BY <2>1 DEF IdentityInv, EventInv
  <2>3. Identified(event', fact')
    BY <2>1, <2>2 DEF Identified, NoEvent
  <2> QED
    BY <2>3 DEF IdentityInv
<1>4. CASE ReadExe
  BY <1>3, <1>4 DEF ReadExe
<1>5. CASE ReadComm
  BY <1>3, <1>5 DEF ReadComm
<1>6. CASE ReadCmdline
  BY <1>3, <1>6 DEF ReadCmdline
<1>7. CASE Enrich
  <2>1. pc = "enrich" /\ event' = EnrichEventByKey(event, group) /\ fact' = fact
    BY <1>7 DEF Enrich
  <2>2. Identified(event, fact) /\ DOMAIN event = DOMAIN NoEvent
    BY <2>1 DEF IdentityInv, EventInv
  <2>3. Identified(event', fact')
    BY <2>1, <2>2, EnrichKeeps DEF Identified
  <2> QED
    BY <2>3 DEF IdentityInv
<1>8. CASE ParentChanges
  BY <1>8 DEF ParentChanges, IdentityInv
<1>9. CASE UNCHANGED vars
  BY <1>9 DEF vars, IdentityInv
<1> QED
  BY <1>1, <1>2, <1>4, <1>5, <1>6, <1>7, <1>8, <1>9 DEF Next

(* The process, the users and the program of an event are those of the     *)
(* fields that say so, whatever numbers these hold: a number is read as it *)
(* was written, and no other field's key passes for one of theirs.  Of the *)
(* program this is not said when its path holds a space.                   *)
THEOREM IdentityIsKept == Spec => []IdentityKept
<1>1. Init => IdentityInv
  BY DEF Init, IdentityInv
<1>2. IdentityInv => IdentityKept
  BY DEF IdentityInv, IdentityKept, Identified, Written
<1> QED
  BY <1>1, <1>2, InitParent, InitGroup, InitRecord, StepParent, StepGroup, StepRecord,
     StepIdentity, PTL DEF Spec

(* Whatever the parent's number comes to mean while it is looked up, the   *)
(* event has a name of something it has stood for, and the right one if    *)
(* that did not change.                                                    *)
THEOREM ParentIsNamed == Spec => []ParentNamed
<1>1. Init => IdentityInv
  BY DEF Init, IdentityInv
<1>2. ParentInv /\ fact \in Fact /\ IdentityInv => ParentNamed
  <2> SUFFICES ASSUME ParentInv, fact \in Fact, IdentityInv, pc = "done", fact.ppid > 0
               PROVE  /\ event.ParentImage # Empty =>
                           \E p \in stood : event.ParentImage \in {p.exe, p.comm, p.argv0}
                      /\ \A p \in stood : stood = {p} => event.ParentImage = NameOf(p)
    BY DEF ParentNamed
  <2>1. event.PPID = fact.ppid /\ fact.ppid \in Nat
    BY FactAssumption DEF IdentityInv, Identified
  <2> QED
    BY <2>1 DEF ParentInv
<1> QED
  BY <1>1, <1>2, InitParent, InitGroup, InitRecord, StepParent, StepGroup, StepRecord,
     StepIdentity, PTL DEF Spec

-----------------------------------------------------------------------------
(* The command line.                                                       *)

(* The arguments of no record and of one.                                  *)
LEMMA FlattenNone == FlattenSeq(<<>>) = <<>>
BY DEF FlattenSeq

LEMMA FlattenOne ==
  ASSUME NEW seqs, Len(seqs) = 1
  PROVE  FlattenSeq(seqs) = seqs[1]
<1> DEFINE Body(h) == [i \in 1 .. Len(seqs) |->
                         IF i = 1 THEN seqs[i] ELSE h[i-1] \o seqs[i]]
           F == CHOOSE h : h = Body(h)
           one == [i \in 1 .. Len(seqs) |-> seqs[1]]
<1>1. FlattenSeq(seqs) = F[1]
  BY DEF FlattenSeq
<1>2. one = Body(one)
  <2>1. \A i \in 1 .. Len(seqs) : i = 1
    OBVIOUS
  <2> QED
    BY <2>1
<1>3. F = Body(F)
  <2> HIDE DEF Body, one
  <2> QED
    BY <1>2
<1>4. Body(F)[1] = seqs[1]
  <2>1. 1 \in 1 .. Len(seqs)
    OBVIOUS
  <2> HIDE DEF F
  <2> QED
    BY <2>1
<1> HIDE DEF F, Body
<1> QED
  BY <1>1, <1>3, <1>4

(* Where the fields of a single EXECVE record stand.                       *)
LEMMA ExecveLaid ==
  ASSUME NEW f \in Fact, Len(f.argv) = 1
  PROVE  LET fields == ExecveLine(f, 1).fields
             texts  == f.argv[1]
             n      == Len(texts)
         IN  /\ texts \in Seq(AuditText) /\ Arguments(f) = texts
             /\ n \in Nat /\ n <= Len(ArgKey)
             /\ Len(fields) = 1 + n
             /\ fields[1] = Number("argc", n)
             /\ \A k \in 1 .. n : fields[1 + k] = Field(ArgKey[k], texts[k])
<1> DEFINE texts == f.argv[1]
           n == Len(texts)
           first == Number("argc", n)
           head == <<first>>
           args == [k \in DOMAIN texts |-> Field(ArgKey[k], texts[k])]
           S == {first} \cup Range(args)
           fields == ExecveLine(f, 1).fields
           whole == head \o args
<1>1. f.argv \in Seq(Seq(AuditText)) /\ Len(Arguments(f)) <= Len(ArgKey)
  BY FactAssumption
<1>2. texts \in Seq(AuditText)
  BY <1>1
<1>3. Arguments(f) = texts
  BY FlattenOne DEF Arguments
<1>4. n \in Nat /\ n <= Len(ArgKey) /\ DOMAIN texts = 1 .. n
  BY <1>1, <1>2, <1>3
<1>5. fields = whole
  <2> DEFINE before == Len(FlattenSeq(SubSeq(f.argv, 1, 1 - 1)))
  <2>1. before = 0
    <3>1. SubSeq(f.argv, 1, 1 - 1) = <<>>
      BY <1>1
    <3>2. FlattenSeq(SubSeq(f.argv, 1, 1 - 1)) = <<>>
      BY <3>1, FlattenNone, Zenon
    <3> QED
      BY <3>2
  <2> HIDE DEF before
  <2>2. [k \in DOMAIN f.argv[1] |-> Field(ArgKey[before + k], f.argv[1][k])] = args
    <3>1. \A k \in DOMAIN f.argv[1] : before + k = k
      BY <1>4, <2>1
    <3> QED
      BY <3>1
  <2>3. fields = <<Number("argc", Len(Arguments(f)))>>
                 \o [k \in DOMAIN f.argv[1] |-> Field(ArgKey[before + k], f.argv[1][k])]
    BY DEF ExecveLine, Record, before
  <2> QED
    BY <1>3, <2>2, <2>3
<1>6. DOMAIN args = 1 .. n /\ args = [k \in 1 .. n |-> args[k]]
  BY <1>4
<1>7. \A k \in 1 .. n : args[k] = Field(ArgKey[k], texts[k])
  BY <1>4
<1> HIDE DEF first, args, texts, n, fields
<1>8. first \in S /\ \A k \in 1 .. n : args[k] \in S
  BY <1>6 DEF Range
<1> HIDE DEF S
<1>9. args \in Seq(S) /\ Len(args) = n
  <2>1. args \in Seq(S)
    BY <1>4, <1>6, <1>8, IsASeq
  <2> QED
    BY <1>4, <1>6, <2>1
<1>10. head \in Seq(S) /\ Len(head) = 1 /\ head[1] = first
  BY <1>8
<1> HIDE DEF head
<1>11. /\ Len(whole) = Len(head) + Len(args)
       /\ \A i \in 1 .. Len(head) + Len(args) :
            whole[i] = IF i <= Len(head) THEN head[i] ELSE args[i - Len(head)]
  BY <1>9, <1>10, ConcatProperties
<1> HIDE DEF whole
<1>12. \A i \in 1 .. 1 + n : whole[i] = IF i <= 1 THEN head[i] ELSE args[i - 1]
  BY <1>9, <1>10, <1>11
<1>13. /\ \A k \in 1 .. 1 : whole[k] = head[k]
       /\ \A k \in 1 .. n : whole[1 + k] = args[k]
  <2>1. 1 \in Nat
    OBVIOUS
  <2> QED
    BY <1>4, <1>12, <2>1, PartsStand
<1>14. fields[1] = first /\ Len(fields) = 1 + n
  BY <1>5, <1>9, <1>10, <1>11, <1>13
<1>15. \A k \in 1 .. n : fields[1 + k] = Field(ArgKey[k], texts[k])
  BY <1>5, <1>7, <1>13
<1> QED
  BY <1>2, <1>3, <1>4, <1>14, <1>15 DEF fields, texts, n, first

(* parseExecveRecord reads the arguments auditd wrote, if none is empty or *)
(* holds a space.                                                          *)
LEMMA ExecveRead ==
  ASSUME NEW f \in Fact, Len(f.argv) = 1, Plain(f.argv[1])
  PROVE  ExecveRecord(ExecveLine(f, 1)) = f.argv[1]
<1> DEFINE line == ExecveLine(f, 1)
           texts == f.argv[1]
           n == Len(texts)
<1>1. /\ texts \in Seq(AuditText) /\ n \in Nat /\ n <= Len(ArgKey)
      /\ Len(line.fields) = 1 + n
      /\ line.fields[1] = Number("argc", n)
      /\ \A k \in 1 .. n : line.fields[1 + k] = Field(ArgKey[k], texts[k])
  BY ExecveLaid
<1>2. \A k \in 1 .. n : texts[k].kind # "spaced" /\ texts[k] # Empty
  BY <1>1 DEF Plain
<1> HIDE DEF line, texts, n
<1>3. DOMAIN texts = 1 .. n /\ Len(texts) = n
  BY <1>1 DEF n
<1>4. \A k \in 1 .. n : Field(ArgKey[k], texts[k]).text = texts[k]
  BY <1>2 DEF Field, Written
<1>5. ASSUME NEW i \in 1 .. Len(line.fields)
      PROVE  \/ i = 1 /\ line.fields[i].key = "argc"
             \/ i - 1 \in 1 .. n /\ line.fields[i].key = ArgKey[i - 1]
  <2>1. i = 1 \/ (i - 1 \in 1 .. n /\ i = 1 + (i - 1))
    BY <1>1
  <2>2. Number("argc", n).key = "argc"
    BY DEF Number, Field
  <2>3. \A k \in 1 .. n : Field(ArgKey[k], texts[k]).key = ArgKey[k]
    BY DEF Field
  <2> QED
    BY <1>1, <2>1, <2>2, <2>3
<1>6. DOMAIN ArgKey = 1 .. Len(ArgKey) /\ Len(ArgKey) \in Nat
  BY ArgKeyAssumption
<1>7. \A k \in 1 .. n : k \in DOMAIN ArgKey
  BY <1>1, <1>6
<1>8. Argc(line) = n
  <2>1. 1 \in 1 .. Len(line.fields) /\ Len(line.fields) \in Nat
    BY <1>1
  <2>2. line.fields[1].key = "argc"
    BY <1>1 DEF Number, Field
  <2>3. \A i \in 1 .. Len(line.fields) : line.fields[i].key = "argc" => i = 1
    BY <1>5, <1>7, ArgKeyAssumption
  <2>4. StringField(line, "argc") = line.fields[1].text
    BY <2>1, <2>2, <2>3, FieldFound
  <2>5. StringField(line, "argc") = Number("argc", n).text
    BY <1>1, <2>4
  <2> QED
    BY <1>1, <2>5, NumberRead DEF Argc
<1>9. ASSUME NEW k \in 1 .. n PROVE StringField(line, ArgKey[k]) = texts[k]
  <2>1. 1 + k \in 1 .. Len(line.fields) /\ Len(line.fields) \in Nat
    BY <1>1
  <2>2. line.fields[1 + k] = Field(ArgKey[k], texts[k])
    BY <1>1
  <2>3. line.fields[1 + k].key = ArgKey[k]
    BY <2>2 DEF Field
  <2>4. ASSUME NEW i \in 1 .. Len(line.fields), line.fields[i].key = ArgKey[k]
        PROVE  i = 1 + k
    <3>1. ArgKey[k] # "argc"
      BY <1>7, ArgKeyAssumption
    <3>2. i - 1 \in 1 .. n /\ ArgKey[i - 1] = ArgKey[k]
      BY <1>5, <2>4, <3>1
    <3>3. i - 1 = k
      BY <1>7, <3>2, ArgKeyAssumption
    <3> QED
      BY <1>1, <3>3
  <2>5. StringField(line, ArgKey[k]) = line.fields[1 + k].text
    BY <2>1, <2>3, <2>4, FieldFound
  <2> QED
    BY <1>4, <2>2, <2>5
<1> DEFINE args == [k \in 1 .. Argc(line) |-> StringField(line, ArgKey[k])]
           ends == {k \in 2 .. Argc(line) : args[k] = Empty}
<1>10. args = texts
  <2>1. args = [k \in 1 .. n |-> texts[k]]
    BY <1>8, <1>9
  <2>2. texts = [k \in 1 .. n |-> texts[k]]
    BY <1>1, <1>3
  <2> QED
    BY <2>1, <2>2
<1>11. ends = {}
  <2>1. \A k \in 2 .. n : k \in 1 .. n
    BY <1>1
  <2> HIDE DEF args
  <2> QED
    BY <1>2, <1>8, <1>10, <2>1
<1>12. ExecveRecord(line) = IF Argc(line) <= 0 THEN <<>>
                            ELSE SubSeq(args, 1, IF ends = {} THEN Argc(line)
                                   ELSE (CHOOSE k \in ends : \A j \in ends : k <= j) - 1)
  BY DEF ExecveRecord
<1> HIDE DEF args, ends
<1>13. CASE n = 0
  <2>1. texts = <<>>
    BY <1>1, <1>3, <1>13
  <2> QED
    BY <1>8, <1>12, <1>13, <2>1 DEF line, texts
<1>14. CASE n > 0
  <2>1. ExecveRecord(line) = SubSeq(texts, 1, n)
    BY <1>1, <1>8, <1>10, <1>11, <1>12, <1>14
  <2>2. SubSeq(texts, 1, n) = texts
    BY <1>1, <1>3
  <2> QED
    BY <2>1, <2>2 DEF line, texts
<1> QED
  BY <1>1, <1>13, <1>14

(* cleanCommandLine keeps them all.                                        *)
LEMMA CleanKeeps ==
  ASSUME NEW texts \in Seq(AuditText), Plain(texts)
  PROVE  CleanCommandLine(<<texts>>) = texts
<1>1. <<texts>>[1] = texts /\ <<texts>> # <<>>
  OBVIOUS
<1>2. CASE texts = <<>>
  BY <1>2 DEF CleanCommandLine
<1>3. CASE texts # <<>>
  <2>1. <<texts>> # <<<<>>>>
    BY <1>1, <1>3
  <2> DEFINE rest == Tail(texts)
  <2>2. /\ rest \in Seq(AuditText) /\ Len(rest) = Len(texts) - 1
        /\ \A i \in 1 .. Len(rest) : rest[i] = texts[i + 1]
        /\ Len(texts) \in Nat /\ Len(texts) >= 1
    BY <1>3
  <2> HIDE DEF rest
  <2>3. \A i \in 1 .. Len(rest) : i + 1 \in 1 .. Len(texts)
    BY <2>2
  <2>4. \A k \in DOMAIN rest : rest[k] # Empty
    <3>1. DOMAIN rest = 1 .. Len(rest) /\ DOMAIN texts = 1 .. Len(texts)
      BY <2>2
    <3> QED
      BY <2>2, <2>3, <3>1 DEF Plain
  <2>5. NonEmptyOf(rest) = rest
    BY <2>2, <2>4, AllKept
  <2>6. CleanCommandLine(<<texts>>) = <<Head(texts)>> \o rest
    BY <1>1, <2>1, <2>5 DEF CleanCommandLine, rest
  <2>7. <<Head(texts)>> \o rest = texts
    BY <1>3 DEF rest
  <2> QED
    BY <2>6, <2>7
<1> QED
  BY <1>2, <1>3

(* decodeProcTitle gives the words of a title of several that need no      *)
(* trimming.                                                               *)
LEMMA TitleRead ==
  ASSUME NEW f \in Fact, Len(f.title) > 1, Trimmed(f.title)
  PROVE  DecodeProcTitle(ProcTitleRecord(TitleLine(f))) = f.title
<1> DEFINE line == TitleLine(f)
           t == Encoded(f.title)
<1>1. f.title \in Seq(AuditText)
  BY FactAssumption
<1>2. line.fields = <<Field("proctitle", t)>>
  <2>1. \A n : n > 1 => n # 1
    OBVIOUS
  <2>2. Len(f.title) # 1
    BY <2>1, Zenon
  <2> QED
    BY <2>2 DEF TitleLine, Record
<1>3. Field("proctitle", t).key = "proctitle" /\ Field("proctitle", t).text = t
  BY DEF Field, Written, Encoded
<1> HIDE DEF line
<1>4. StringField(line, "proctitle") = t
  <2>1. Len(line.fields) = 1 /\ line.fields[1] = Field("proctitle", t)
    BY <1>2
  <2>2. Len(line.fields) \in Nat /\ 1 \in 1 .. Len(line.fields)
    BY <2>1
  <2>3. \A i \in 1 .. Len(line.fields) : i = 1
    BY <2>1
  <2>4. line.fields[1].key = "proctitle"
    BY <1>3, <2>1
  <2>5. StringField(line, "proctitle") = line.fields[1].text
    BY <2>2, <2>3, <2>4, FieldFound
  <2> QED
    BY <1>3, <2>1, <2>5
<1>5. t.kind = "encoded" /\ t.words = f.title
  BY DEF Encoded
<1> HIDE DEF t
<1>6. DecodeProcTitle(t) = NonEmptyOf([k \in DOMAIN f.title |-> TrimSpace(f.title[k])])
  BY <1>5 DEF DecodeProcTitle
<1>7. [k \in DOMAIN f.title |-> TrimSpace(f.title[k])] = f.title
  BY <1>1 DEF Trimmed
<1>8. NonEmptyOf(f.title) = f.title
  BY <1>1, AllKept DEF Trimmed
<1> QED
  BY <1>4, <1>6, <1>7, <1>8 DEF ProcTitleRecord, line

(* Where the enrichments take a command line from.                         *)
LEMMA EnrichedCommand ==
  ASSUME NEW e, NEW g, DOMAIN e = DOMAIN NoEvent,
         IsReadyToAssemble(g.Key, PresentIn(g)),
         EnrichEventByKey(e, g).Type # "NetworkConnect"
  PROVE  LET enriched == EnrichEventByKey(e, g)
             args     == CleanCommandLine(g.Execve)
             title    == DecodeProcTitle(g.ProcTitle[1])
         IN  /\ g.ProcTitle # <<>>
             /\ enriched.Type = "ProcessAccess" => enriched.CommandLine = title
             /\ enriched.Type = "PrivilegeEscalation" =>
                  enriched.CommandLine =
                    IF \A k \in DOMAIN args : args[k] = Empty THEN title ELSE args
             /\ enriched.Type \notin {"ProcessAccess", "PrivilegeEscalation"} =>
                  enriched.CommandLine = args
<1> DEFINE args == CleanCommandLine(g.Execve)
           typed == [e EXCEPT !.Type = EventTypeOf[g.Key], !.CommandLine = args]
           enriched == EnrichEventByKey(e, g)
<1>1. DOMAIN typed = DOMAIN NoEvent /\ typed.CommandLine = args
  BY DEF NoEvent
<1>2. g.Key \in DOMAIN EventTypeOf /\ enriched.Type = EventTypeOf[g.Key]
  BY EnrichedType
<1>3. enriched = CASE g.Key = "process_create"       -> typed
                   [] g.Key = "network_connect"      -> EnrichNetworkConnect(typed, g)
                   [] g.Key = "privilege_escalation" -> EnrichPrivilegeEscalation(typed, g)
                   [] g.Key = "process_access"       -> EnrichProcessAccess(typed, g)
                   [] OTHER                          -> BindPathFields(typed, g)
  BY <1>2 DEF EnrichEventByKey
<1>4. g.Key # "network_connect"
  BY <1>2 DEF EventTypeOf
<1>5. g.ProcTitle # <<>>
  <2>1. "PROCTITLE" \in EventRecords[EventTypeOf[g.Key]]
    BY <1>2, <1>4 DEF EventTypeOf, EventRecords
  <2> QED
    BY <2>1 DEF IsReadyToAssemble, PresentIn
<1>6. /\ g.Key = "process_access" <=> enriched.Type = "ProcessAccess"
      /\ g.Key = "privilege_escalation" <=> enriched.Type = "PrivilegeEscalation"
  BY <1>2 DEF EventTypeOf
<1> HIDE DEF typed, args, enriched
<1>7. EnrichProcessAccess(typed, g).CommandLine = DecodeProcTitle(g.ProcTitle[1])
  BY <1>1, <1>5 DEF EnrichProcessAccess, NoEvent
<1>8. EnrichPrivilegeEscalation(typed, g).CommandLine =
        IF \A k \in DOMAIN args : args[k] = Empty THEN DecodeProcTitle(g.ProcTitle[1])
        ELSE args
  BY <1>1, <1>5 DEF EnrichPrivilegeEscalation, NoEvent
<1>9. BindPathFields(typed, g).CommandLine = args
  BY <1>1 DEF BindPathFields, NoEvent
<1>10. enriched.Type = "ProcessAccess" =>
         enriched.CommandLine = DecodeProcTitle(g.ProcTitle[1])
  BY <1>3, <1>6, <1>7
<1>11. enriched.Type = "PrivilegeEscalation" =>
         enriched.CommandLine = IF \A k \in DOMAIN args : args[k] = Empty
                                THEN DecodeProcTitle(g.ProcTitle[1]) ELSE args
  BY <1>3, <1>6, <1>8
<1>12. enriched.Type \notin {"ProcessAccess", "PrivilegeEscalation"} =>
         enriched.CommandLine = args
  BY <1>1, <1>3, <1>4, <1>6, <1>9
<1> QED
  BY <1>5, <1>10, <1>11, <1>12 DEF args, enriched

(* A group that has its title has all records.                             *)
LEMMA AllIsRead ==
  ASSUME GroupInv, RecordInv, group.ProcTitle # <<>>
  PROVE  /\ group.ProcTitle = <<ProcTitleRecord(TitleLine(fact))>>
         /\ Len(fact.argv) = 1 => group.Execve = <<ExecveRecord(ExecveLine(fact, 1))>>
<1>1. fact \in Fact /\ next = Len(Lines(fact)) + 1
  BY DEF GroupInv
<1>2. Len(fact.argv) = 1 => next > 2
  <2> SUFFICES ASSUME Len(fact.argv) = 1 PROVE next > 2
    OBVIOUS
  <2>1. 1 \in DOMAIN fact.argv
    BY <1>1, FactAssumption
  <2>2. 1 + 1 \in 1 .. Len(Before(fact)) /\ Len(Before(fact)) \in Nat
    BY <1>1, <2>1, BeforeIs
  <2>3. /\ Len(fact.paths) \in Nat
        /\ Len(Lines(fact)) = Len(Before(fact)) + Len(fact.paths) + 1
    BY <1>1, LinesAre
  <2> QED
    BY <1>1, <2>2, <2>3
<1> QED
  BY <1>2 DEF RecordInv

(* The command line is the arguments that were read, or the title.         *)
LEMMA StepCommand ==
  EventInv /\ GroupInv /\ RecordInv /\ CommandRead /\ [Next]_vars => CommandRead'
<1> SUFFICES ASSUME EventInv, GroupInv, RecordInv, CommandRead, [Next]_vars
             PROVE  CommandRead'
  OBVIOUS
<1>1. CASE Enrich
  <2> DEFINE Titled == \/ event'.Type = "ProcessAccess"
                       \/ /\ event'.Type = "PrivilegeEscalation"
                          /\ fact.argv \in {<<>>, <<<<>>>>}
  <2>1. /\ pc = "enrich" /\ event' = EnrichEventByKey(event, group) /\ fact' = fact
    BY <1>1 DEF Enrich
  <2>2. /\ fact \in Fact /\ DOMAIN event = DOMAIN NoEvent
        /\ IsReadyToAssemble(group.Key, PresentIn(group))
    BY <2>1 DEF EventInv, GroupInv
  <2> SUFFICES ASSUME event'.Type # "NetworkConnect"
               PROVE  IF Titled
                      THEN Len(fact.title) > 1 /\ Trimmed(fact.title) =>
                             event'.CommandLine = fact.title
                      ELSE Len(fact.argv) = 1 /\ Plain(Arguments(fact)) =>
                             event'.CommandLine = Arguments(fact)
    BY <2>1 DEF CommandRead, Trimmed
  <2> DEFINE args == CleanCommandLine(group.Execve)
             title == DecodeProcTitle(group.ProcTitle[1])
  <2>3. /\ group.ProcTitle # <<>>
        /\ event'.Type = "ProcessAccess" => event'.CommandLine = title
        /\ event'.Type = "PrivilegeEscalation" =>
             event'.CommandLine =
               IF \A k \in DOMAIN args : args[k] = Empty THEN title ELSE args
        /\ event'.Type \notin {"ProcessAccess", "PrivilegeEscalation"} =>
             event'.CommandLine = args
    BY <2>1, <2>2, EnrichedCommand
  <2>4. /\ group.ProcTitle = <<ProcTitleRecord(TitleLine(fact))>>
        /\ Len(fact.argv) = 1 => group.Execve = <<ExecveRecord(ExecveLine(fact, 1))>>
    BY <2>3, AllIsRead
  <2>5. ASSUME Len(fact.argv) = 1, Plain(fact.argv[1])
        PROVE  args = fact.argv[1] /\ Arguments(fact) = fact.argv[1]
    <3>1. fact.argv[1] \in Seq(AuditText) /\ Arguments(fact) = fact.argv[1]
      BY <2>2, <2>5, ExecveLaid
    <3>2. group.Execve = <<fact.argv[1]>>
      BY <2>2, <2>4, <2>5, ExecveRead
    <3> QED
      BY <2>5, <3>1, <3>2, CleanKeeps
  <2>6. ASSUME Titled, Len(fact.title) > 1, Trimmed(fact.title)
        PROVE  event'.CommandLine = fact.title
    <3>1. title = fact.title
      <4>1. group.ProcTitle[1] = ProcTitleRecord(TitleLine(fact))
        BY <2>4
      <4> QED
        BY <2>2, <2>6, <4>1, TitleRead
    <3>2. fact.argv \in {<<>>, <<<<>>>>} => args = <<>>
      <4>1. fact.argv = <<>> => group.Execve = <<>>
        BY DEF RecordInv
      <4>2. CleanCommandLine(<<>>) = <<>>
        BY DEF CleanCommandLine
      <4>3. fact.argv = <<<<>>>> => Len(fact.argv) = 1 /\ fact.argv[1] = <<>>
        OBVIOUS
      <4>4. Plain(<<>>)
        BY DEF Plain
      <4> QED
        BY <2>5, <4>1, <4>2, <4>3, <4>4
    <3>3. args = <<>> => \A k \in DOMAIN args : args[k] = Empty
      OBVIOUS
    <3> HIDE DEF args, title
    <3> QED
      BY <2>3, <2>6, <3>1, <3>2, <3>3
  <2>7. ASSUME ~Titled, Len(fact.argv) = 1, Plain(Arguments(fact))
        PROVE  event'.CommandLine = Arguments(fact)
    <3>1. Arguments(fact) = fact.argv[1] /\ fact.argv[1] \in Seq(AuditText)
      BY <2>2, <2>7, ExecveLaid
    <3>2. args = Arguments(fact)
      BY <2>5, <2>7, <3>1
    <3>3. event'.Type = "PrivilegeEscalation" => ~\A k \in DOMAIN args : args[k] = Empty
      <4> SUFFICES ASSUME event'.Type = "PrivilegeEscalation"
                   PROVE  \E k \in DOMAIN args : args[k] # Empty
        OBVIOUS
      <4>1. fact.argv # <<<<>>>>
        BY <2>7
      <4>2. fact.argv = <<fact.argv[1]>>
        BY <2>2, <2>7, FactAssumption
      <4>3. fact.argv[1] # <<>>
        BY <4>1, <4>2
      <4>4. 1 \in DOMAIN fact.argv[1]
        BY <3>1, <4>3
      <4> QED
        BY <2>7, <3>1, <3>2, <4>4 DEF Plain
    <3> HIDE DEF args, title
    <3> QED
      BY <2>3, <2>7, <3>2, <3>3
  <2> HIDE DEF Titled
  <2> QED
    BY <2>6, <2>7
<1>2. CASE ~Enrich
  <2>1. \/ pc' # "done"
        \/ UNCHANGED <<fact, pc, event>>
    BY <1>2 DEF Next, vars, StoreRecord, BuildBaseEvent, ReadExe, ReadComm, ReadCmdline,
                Try, ParentChanges
  <2> QED
    BY <2>1 DEF CommandRead, Plain, Trimmed, Arguments
<1> QED
  BY <1>1, <1>2

(* A program's arguments, however many of whatever words and digits, are   *)
(* the command line if one record has them and none is empty or has a      *)
(* space; else, where there are none, it is the words of the title, if     *)
(* trimming leaves them as they are.                                       *)
THEOREM CommandIsRead == Spec => []CommandRead
<1>1. Init => CommandRead
  BY DEF Init, CommandRead
<1> QED
  BY <1>1, InitParent, InitGroup, InitRecord, StepParent, StepGroup, StepRecord,
     StepCommand, PTL DEF Spec

-----------------------------------------------------------------------------
(* The ptrace request.                                                     *)

(* One more digit.                                                         *)
Shifts(m, n, d) == m \in Nat /\ m >= 16 /\ m \div 16 = n /\ m % 16 = d
Extended(all, ds, d) == all = Append(ds, d)

LEMMA NextDigit ==
  ASSUME NEW m, NEW n, NEW d, NEW ds, NEW all,
         Shifts(m, n, d), DigitsIn(16, n) = ds, Extended(all, ds, d)
  PROVE  DigitsIn(16, m) = all
<1>1. m \in Nat /\ ~(m < 16) /\ m \div 16 = n /\ m % 16 = d
  BY DEF Shifts
<1>2. DigitsIn(16, m) = Append(DigitsIn(16, m \div 16), m % 16)
  BY <1>1, DigitsAre
<1> QED
  BY <1>1, <1>2 DEF Extended

(* The hex digits of the requests' numbers.                                *)
LEMMA RequestDigits ==
  /\ DigitsIn(16, 1) = <<1>> /\ DigitsIn(16, 7) = <<7>> /\ DigitsIn(16, 9) = <<9>>
  /\ DigitsIn(16, 16) = <<1, 0>> /\ DigitsIn(16, 17) = <<1, 1>>
  /\ DigitsIn(16, 24) = <<1, 8>>
  /\ DigitsIn(16, 16902) = <<4, 2, 0, 6>> /\ DigitsIn(16, 16910) = <<4, 2, 0, 14>>
<1>1. ASSUME NEW n \in Nat, n < 16 PROVE DigitsIn(16, n) = <<n>>
  BY <1>1, DigitsAre
<1>2. /\ DigitsIn(16, 1) = <<1>> /\ DigitsIn(16, 4) = <<4>>
      /\ DigitsIn(16, 7) = <<7>> /\ DigitsIn(16, 9) = <<9>>
  BY <1>1
<1>3. /\ Shifts(16, 1, 0) /\ Shifts(17, 1, 1) /\ Shifts(24, 1, 8) /\ Shifts(66, 4, 2)
      /\ Shifts(1056, 66, 0) /\ Shifts(16902, 1056, 6) /\ Shifts(16910, 1056, 14)
  BY DEF Shifts
<1>4. /\ Extended(<<1, 0>>, <<1>>, 0) /\ Extended(<<1, 1>>, <<1>>, 1)
      /\ Extended(<<1, 8>>, <<1>>, 8) /\ Extended(<<4, 2>>, <<4>>, 2)
      /\ Extended(<<4, 2, 0>>, <<4, 2>>, 0)
  BY DEF Extended
<1>5. Extended(<<4, 2, 0, 6>>, <<4, 2, 0>>, 6) /\ Extended(<<4, 2, 0, 14>>, <<4, 2, 0>>, 14)
  BY DEF Extended
<1>6. DigitsIn(16, 16) = <<1, 0>>
  BY <1>2, <1>3, <1>4, NextDigit
<1>7. DigitsIn(16, 17) = <<1, 1>>
  BY <1>2, <1>3, <1>4, NextDigit
<1>8. DigitsIn(16, 24) = <<1, 8>>
  BY <1>2, <1>3, <1>4, NextDigit
<1>9. DigitsIn(16, 66) = <<4, 2>>
  BY <1>2, <1>3, <1>4, NextDigit
<1>10. DigitsIn(16, 1056) = <<4, 2, 0>>
  BY <1>3, <1>4, <1>9, NextDigit
<1>11. DigitsIn(16, 16902) = <<4, 2, 0, 6>>
  BY <1>3, <1>5, <1>10, NextDigit
<1>12. DigitsIn(16, 16910) = <<4, 2, 0, 14>>
  BY <1>3, <1>5, <1>10, NextDigit
<1> QED
  BY <1>2, <1>6, <1>7, <1>8, <1>11, <1>12

(* A row of the table names the request that has its digits.               *)
RowOf(name, ds) ==
  <<name, ds>> \in Requests /\ \A r \in Requests : r[2] = ds => r[1] = name

LEMMA RowNames ==
  ASSUME NEW name, NEW ds, RowOf(name, ds)
  PROVE  PtraceRequestName(Digits(ds)) = Word(name)
<1> DEFINE hits == {r \in Requests : Digits(ds).kind \in {"digits", "prefixed"}
                                     /\ Digits(ds).digits = r[2]}
<1>1. Digits(ds).kind = "digits" /\ Digits(ds).digits = ds
  BY DEF Digits
<1>2. <<name, ds>> \in Requests /\ <<name, ds>>[2] = ds
  BY DEF RowOf
<1>3. <<name, ds>> \in hits
  BY <1>1, <1>2
<1>4. \A r \in hits : r[1] = name
  BY <1>1 DEF RowOf
<1>5. PtraceRequestName(Digits(ds)) =
        IF hits = {} THEN Digits(ds) ELSE Word((CHOOSE r \in hits : TRUE)[1])
  BY DEF PtraceRequestName
<1> HIDE DEF hits
<1> QED
  BY <1>3, <1>4, <1>5

(* The rows of the table.                                                  *)
ShortRequests ==
  {<<"TRACEME", <<0>>>>, <<"PEEKTEXT", <<1>>>>, <<"PEEKDATA", <<2>>>>,
   <<"PEEKUSER", <<3>>>>, <<"POKETEXT", <<4>>>>, <<"POKEDATA", <<5>>>>,
   <<"POKEUSER", <<6>>>>, <<"CONT", <<7>>>>, <<"SINGLESTEP", <<9>>>>}

LongRequests == {<<"ATTACH", <<1, 0>>>>, <<"DETACH", <<1, 1>>>>, <<"SYSCALL", <<1, 8>>>>}

LaterNames ==
  <<"SETOPTIONS", "GETEVENTMSG", "GETSIGINFO", "SETSIGINFO", "GETREGSET",
    "SETREGSET", "SEIZE", "INTERRUPT", "LISTEN", "PEEKSIGINFO">>

LaterRequests ==
  {<<LaterNames[d + 1], <<4, 2, 0, d>>>> : d \in 0 .. 9}
  \cup {<<"GET_SYSCALL_INFO", <<4, 2, 0, 14>>>>}

LEMMA TableIs == Requests = ShortRequests \cup LongRequests \cup LaterRequests
<1> DEFINE later == {<<LaterNames[d + 1], <<4, 2, 0, d>>>> : d \in 0 .. 9}
           last == {<<"GET_SYSCALL_INFO", <<4, 2, 0, 14>>>>}
<1>1. Requests = {<<"TRACEME", <<0>>>>, <<"PEEKTEXT", <<1>>>>, <<"PEEKDATA", <<2>>>>,
                  <<"PEEKUSER", <<3>>>>, <<"POKETEXT", <<4>>>>, <<"POKEDATA", <<5>>>>,
                  <<"POKEUSER", <<6>>>>, <<"CONT", <<7>>>>, <<"SINGLESTEP", <<9>>>>,
                  <<"ATTACH", <<1, 0>>>>, <<"DETACH", <<1, 1>>>>, <<"SYSCALL", <<1, 8>>>>}
                 \cup later \cup last
  BY DEF Requests, LaterNames
<1>2. LaterRequests = later \cup last
  BY DEF LaterRequests
<1> HIDE DEF later, last
<1> QED
  BY <1>1, <1>2 DEF ShortRequests, LongRequests

LEMMA RowsOfLength ==
  /\ \A r \in ShortRequests : Len(r[2]) = 1
  /\ \A r \in LongRequests : Len(r[2]) = 2
  /\ \A r \in LaterRequests : Len(r[2]) = 4
<1>1. \A r \in ShortRequests : Len(r[2]) = 1
  BY DEF ShortRequests
<1>2. \A r \in LongRequests : Len(r[2]) = 2
  BY DEF LongRequests
<1>3. \A r \in LaterRequests : Len(r[2]) = 4
  BY DEF LaterRequests
<1> QED
  BY <1>1, <1>2, <1>3

LEMMA RequestRows ==
  /\ RowOf("PEEKTEXT", <<1>>) /\ RowOf("CONT", <<7>>) /\ RowOf("SINGLESTEP", <<9>>)
  /\ RowOf("ATTACH", <<1, 0>>) /\ RowOf("DETACH", <<1, 1>>) /\ RowOf("SYSCALL", <<1, 8>>)
  /\ RowOf("SEIZE", <<4, 2, 0, 6>>) /\ RowOf("GET_SYSCALL_INFO", <<4, 2, 0, 14>>)
<1>1. /\ Len(<<1>>) = 1 /\ Len(<<7>>) = 1 /\ Len(<<9>>) = 1 /\ Len(<<1, 0>>) = 2
      /\ Len(<<1, 1>>) = 2 /\ Len(<<1, 8>>) = 2 /\ Len(<<4, 2, 0, 6>>) = 4
      /\ Len(<<4, 2, 0, 14>>) = 4
  OBVIOUS
<1>2. /\ <<"PEEKTEXT", <<1>>>> \in ShortRequests
      /\ <<"CONT", <<7>>>> \in ShortRequests /\ <<"SINGLESTEP", <<9>>>> \in ShortRequests
      /\ \A r \in ShortRequests : /\ r[2] = <<1>> => r[1] = "PEEKTEXT"
                                  /\ r[2] = <<7>> => r[1] = "CONT"
                                  /\ r[2] = <<9>> => r[1] = "SINGLESTEP"
  BY DEF ShortRequests
<1>3. /\ <<"ATTACH", <<1, 0>>>> \in LongRequests
      /\ <<"DETACH", <<1, 1>>>> \in LongRequests /\ <<"SYSCALL", <<1, 8>>>> \in LongRequests
      /\ \A r \in LongRequests : /\ r[2] = <<1, 0>> => r[1] = "ATTACH"
                                 /\ r[2] = <<1, 1>> => r[1] = "DETACH"
                                 /\ r[2] = <<1, 8>> => r[1] = "SYSCALL"
  BY DEF LongRequests
<1>4. /\ <<"SEIZE", <<4, 2, 0, 6>>>> \in LaterRequests
      /\ <<"GET_SYSCALL_INFO", <<4, 2, 0, 14>>>> \in LaterRequests
  <2>1. LaterNames[6 + 1] = "SEIZE" /\ 6 \in 0 .. 9
    BY DEF LaterNames
  <2> HIDE DEF LaterNames
  <2> QED
    BY <2>1 DEF LaterRequests
<1>5. \A r \in LaterRequests : /\ r[2] = <<4, 2, 0, 6>> => r[1] = "SEIZE"
                               /\ r[2] = <<4, 2, 0, 14>> => r[1] = "GET_SYSCALL_INFO"
  <2>1. LaterNames[6 + 1] = "SEIZE"
    BY DEF LaterNames
  <2>2. \A d \in 0 .. 9 : /\ <<4, 2, 0, d>> = <<4, 2, 0, 6>> => d = 6
                          /\ <<4, 2, 0, d>> # <<4, 2, 0, 14>>
    OBVIOUS
  <2>3. <<4, 2, 0, 14>> # <<4, 2, 0, 6>>
    OBVIOUS
  <2> QED
    BY <2>1, <2>2, <2>3 DEF LaterRequests
<1>6. ASSUME NEW r \in Requests
      PROVE  /\ Len(r[2]) = 1 => r \in ShortRequests
             /\ Len(r[2]) = 2 => r \in LongRequests
             /\ Len(r[2]) = 4 => r \in LaterRequests
  BY TableIs, RowsOfLength
<1>7. RowOf("PEEKTEXT", <<1>>) /\ RowOf("CONT", <<7>>) /\ RowOf("SINGLESTEP", <<9>>)
  BY <1>1, <1>2, <1>6, TableIs DEF RowOf
<1>8. RowOf("ATTACH", <<1, 0>>) /\ RowOf("DETACH", <<1, 1>>) /\ RowOf("SYSCALL", <<1, 8>>)
  BY <1>1, <1>3, <1>6, TableIs DEF RowOf
<1>9. RowOf("SEIZE", <<4, 2, 0, 6>>) /\ RowOf("GET_SYSCALL_INFO", <<4, 2, 0, 14>>)
  BY <1>1, <1>4, <1>5, <1>6, TableIs DEF RowOf
<1> QED
  BY <1>7, <1>8, <1>9

(* A request is named by the hex digits of its number.                     *)
LEMMA RequestKnown ==
  ASSUME NEW name \in DOMAIN RequestNumber
  PROVE  PtraceRequestName(Digits(DigitsIn(16, RequestNumber[name]))) = Word(name)
<1>1. name \in {"PEEKTEXT", "CONT", "SINGLESTEP", "ATTACH", "DETACH", "SYSCALL", "SEIZE",
                "GET_SYSCALL_INFO"}
  BY DEF RequestNumber
<1>2. /\ RequestNumber["PEEKTEXT"] = 1 /\ RequestNumber["CONT"] = 7
      /\ RequestNumber["SINGLESTEP"] = 9 /\ RequestNumber["ATTACH"] = 16
      /\ RequestNumber["DETACH"] = 17 /\ RequestNumber["SYSCALL"] = 24
      /\ RequestNumber["SEIZE"] = 16902 /\ RequestNumber["GET_SYSCALL_INFO"] = 16910
  BY DEF RequestNumber
<1>3. RowOf(name, DigitsIn(16, RequestNumber[name]))
  BY <1>1, <1>2, RequestDigits, RequestRows
<1> QED
  BY <1>3, RowNames

(* The first argument of the call is its first register.                   *)
LEMMA FirstRegister ==
  ASSUME NEW f \in Fact
  PROVE  LET args == SyscallRecord(SyscallLine(f)).Args
         IN  Len(args) > 0 /\ args[1] = Digits(DigitsIn(16, f.registers[1]))
<1> DEFINE text(k) == IF k \in DOMAIN f.registers
                      THEN Digits(DigitsIn(16, f.registers[k])) ELSE Empty
           texts == [k \in 1 .. 6 |-> text(k)]
           T == {text(k) : k \in 1 .. 6}
           args == SyscallRecord(SyscallLine(f)).Args
<1>1. args = NonEmptyOf(texts)
  BY SyscallRead
<1>2. 1 \in DOMAIN f.registers
  BY FactAssumption
<1>3. texts[1] = Digits(DigitsIn(16, f.registers[1])) /\ texts[1] # Empty
  <2>1. texts[1] = Digits(DigitsIn(16, f.registers[1]))
    BY <1>2
  <2>2. Digits(DigitsIn(16, f.registers[1])).kind = "digits" /\ Empty.kind = "word"
    BY DEF Digits, Empty, Word
  <2> QED
    BY <2>1, <2>2
<1> HIDE DEF text, args
<1>4. texts \in Seq(T) /\ Len(texts) >= 1
  <2>1. \A k \in 1 .. 6 : text(k) \in T
    OBVIOUS
  <2> HIDE DEF T
  <2>2. texts \in Seq(T)
    BY <2>1, IsASeq
  <2>3. Len(texts) = 6
    BY <2>2
  <2> QED
    BY <2>2, <2>3
<1> HIDE DEF texts, T
<1>5. Len(args) >= 1 /\ args[1] = texts[1]
  BY <1>1, <1>3, <1>4, FirstKept
<1>6. Len(args) >= 1 => Len(args) > 0
  <2>1. NonEmptyOf(texts) \in Seq(T)
    <3>1. PICK v \in [0 .. Len(texts) -> Seq(T)] : v[Len(texts)] = NonEmptyOf(texts)
      BY <1>4, KeptAfter
    <3>2. Len(texts) \in 0 .. Len(texts)
      BY <1>4
    <3> QED
      BY <3>1, <3>2
  <2> QED
    BY <1>1, <2>1
<1> QED
  BY <1>3, <1>5, <1>6 DEF args

(* The request is taken from it.                                           *)
LEMMA EnrichedRequest ==
  ASSUME NEW e, NEW g, NEW s, DOMAIN e = DOMAIN NoEvent, g.Syscall = <<s>>, Len(s.Args) > 0,
         IsReadyToAssemble(g.Key, PresentIn(g)),
         EnrichEventByKey(e, g).Type = "ProcessAccess"
  PROVE  EnrichEventByKey(e, g).Request = PtraceRequestName(s.Args[1])
<1> DEFINE typed == [e EXCEPT !.Type = EventTypeOf[g.Key],
                              !.CommandLine = CleanCommandLine(g.Execve)]
           enriched == EnrichEventByKey(e, g)
<1>1. DOMAIN typed = DOMAIN NoEvent
  OBVIOUS
<1>2. g.Key \in DOMAIN EventTypeOf /\ enriched.Type = EventTypeOf[g.Key]
  BY EnrichedType
<1>3. g.Key = "process_access"
  BY <1>2 DEF EventTypeOf
<1>4. enriched = EnrichProcessAccess(typed, g)
  BY <1>2, <1>3 DEF EnrichEventByKey
<1>5. g.Syscall[1] = s
  OBVIOUS
<1> HIDE DEF typed
<1> QED
  BY <1>1, <1>4, <1>5 DEF EnrichProcessAccess, NoEvent

(* A request is named by what its register holds.                          *)
LEMMA StepRequest ==
  EventInv /\ GroupInv /\ RecordInv /\ RequestNamed /\ [Next]_vars => RequestNamed'
<1> SUFFICES ASSUME EventInv, GroupInv, RecordInv, RequestNamed, [Next]_vars
             PROVE  RequestNamed'
  OBVIOUS
<1>1. CASE Enrich
  <2>1. pc = "enrich" /\ event' = EnrichEventByKey(event, group) /\ fact' = fact
    BY <1>1 DEF Enrich
  <2>2. /\ fact \in Fact /\ DOMAIN event = DOMAIN NoEvent
        /\ IsReadyToAssemble(group.Key, PresentIn(group))
    BY <2>1 DEF EventInv, GroupInv
  <2> SUFFICES ASSUME event'.Type = "ProcessAccess", NEW name \in DOMAIN RequestNumber,
                      fact.registers[1] = RequestNumber[name]
               PROVE  event'.Request = Word(name)
    BY <2>1 DEF RequestNamed
  <2> DEFINE s == SyscallRecord(SyscallLine(fact))
  <2>3. group.Syscall = <<s>>
    BY <2>2, SyscallIsThere DEF RecordInv
  <2>4. Len(s.Args) > 0 /\ s.Args[1] = Digits(DigitsIn(16, fact.registers[1]))
    BY <2>2, FirstRegister
  <2> HIDE DEF s
  <2>5. event'.Request = PtraceRequestName(s.Args[1])
    BY <2>1, <2>2, <2>3, <2>4, EnrichedRequest
  <2>6. event'.Request = PtraceRequestName(Digits(DigitsIn(16, RequestNumber[name])))
    BY <2>4, <2>5
  <2> QED
    BY <2>6, RequestKnown
<1>2. CASE ~Enrich
  <2>1. \/ pc' # "done"
        \/ UNCHANGED <<fact, pc, event>>
    BY <1>2 DEF Next, vars, StoreRecord, BuildBaseEvent, ReadExe, ReadComm, ReadCmdline,
                Try, ParentChanges
  <2> QED
    BY <2>1 DEF RequestNamed
<1> QED
  BY <1>1, <1>2

(* The ptrace requests are named by their numbers: the hex digits that     *)
(* auditd writes of a number are the ones the table has in its row.        *)
THEOREM RequestIsNamed == Spec => []RequestNamed
<1>1. Init => RequestNamed
  BY DEF Init, RequestNamed
<1> QED
  BY <1>1, InitParent, InitGroup, InitRecord, StepParent, StepGroup, StepRecord,
     StepRequest, PTL DEF Spec
=============================================================================
