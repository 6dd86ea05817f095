---------------------------- MODULE EventBuilder ----------------------------
(***************************************************************************)
(* What one audit event becomes: auditd writes its records, the collector  *)
(* parses them into a group (collector/auditd.go), and the dispatcher      *)
(* makes the group a system event (dispatcher/event_dispatcher.go).  The   *)
(* name of the parent process is looked up in /proc, in up to three reads, *)
(* while the parent may exit, run another program, or leave its number to  *)
(* another process.                                                        *)
(*                                                                         *)
(* Numbering, time stamp and Exit are left out; see EventDispatcher for    *)
(* the first.  A command line is the sequence of the texts that are joined *)
(* with spaces.                                                            *)
(***************************************************************************)
EXTENDS RecordParsers, AuditRecords

CONSTANTS
  Fact,       (* the events auditd writes records about, see Lines          *)
  Process,    (* what a process number may stand for: the texts that        *)
              (* /proc/N/exe, comm and cmdline give, empty when there is    *)
              (* none (no such process, a zombie, a kernel thread)          *)
  MaxChanges, (* how often the parent's number changes its meaning          *)
  BaseOf,     (* the last part of a path                                    *)
  ExtOf,      (* filepath.Ext                                               *)
  TrimmedOf   (* strings.TrimSpace of a text that holds a space             *)

(* What auditd writes: words, those of them that are made of hex digits,   *)
(* and those that hold a space.                                            *)
Byte == 0 .. 255
AuditText == [kind : {"word", "spaced"}, word : STRING]
             \cup [kind : {"digits"}, digits : Seq(0 .. 15) \ {<<>>}]
NameTypes == {"NORMAL", "PARENT", "CREATE", "DELETE", "UNKNOWN"}
PathItem == [name : AuditText, nametype : NameTypes]
InetAddress == [family : {AF_INET}, port : [1 .. 2 -> Byte], ip : [1 .. 4 -> Byte],
                length : 0 .. 16]
Inet6Address == [family : {AF_INET6}, port : [1 .. 2 -> Byte], ip : [1 .. 16 -> Byte],
                 length : 0 .. 28]
OtherAddress == {a \in [family : Byte \ {AF_INET, AF_INET6}, path : Seq(Byte),
                       length : Nat] : a.length <= Len(a.path) + 2}

(* The arguments of a program may be spread over several records; only the *)
(* first has argc.                                                         *)
Arguments(f) == FlattenSeq(f.argv)

ASSUME FactAssumption ==
  \A f \in Fact : /\ f.argv \in Seq(Seq(AuditText))
                  /\ Len(Arguments(f)) <= Len(ArgKey)
                  /\ f.addr \in Seq(InetAddress \cup Inet6Address \cup OtherAddress)
                  /\ Len(f.addr) <= 1
                  /\ f.paths \in Seq(PathItem)
                  /\ f.title \in Seq(AuditText)
                  /\ f.registers \in Seq(Nat) /\ Len(f.registers) \in 2 .. 4
                  /\ {f.pid, f.ppid, f.auid, f.uid, f.gid, f.euid, f.egid} \subseteq Nat

VARIABLES
  fact,     (* the event the records are about                              *)
  next,     (* the record line the collector reads next                     *)
  group,    (* the group it assembles                                       *)
  pc,       (* where the collector, then the dispatcher is                  *)
  event,    (* the event being built                                        *)
  parent,   (* what the number of the parent process stands for             *)
  changes,  (* how often that has changed                                   *)
  stood     (* history: what it has stood for since the building began      *)

vars == <<fact, next, group, pc, event, parent, changes, stood>>

-----------------------------------------------------------------------------
(* auditd.  Numbers are written in decimal digits, registers in hex ones   *)
(* without a prefix; texts are quoted, or encoded if they hold a space.    *)

DigitsIn(base, n) ==
  LET digits[m \in Nat] ==
        IF m < base THEN <<m>> ELSE Append(digits[m \div base], m % base)
  IN  digits[n]

Written(t) == IF t.kind = "spaced" THEN Encoded(<<t>>) ELSE t

Field(key, t) == [key |-> key, text |-> Written(t)]
Number(key, n) == Field(key, Digits(DigitsIn(10, n)))
Record(type, fields) == [type |-> type, fields |-> fields]

SyscallLine(f) == Record("SYSCALL",
  <<Field("success", f.success)>>
  \o [k \in DOMAIN f.registers |->
        Field(ArgKey[k], Digits(DigitsIn(16, f.registers[k])))]
  \o <<Number("ppid", f.ppid), Number("pid", f.pid), Number("auid", f.auid),
       Number("uid", f.uid), Number("gid", f.gid), Number("euid", f.euid),
       Number("egid", f.egid), Field("exe", f.exe), Field("key", Word(f.key)),
       Field("SYSCALL", f.syscall)>>)

ExecveLine(f, part) ==
  LET before == Len(FlattenSeq(SubSeq(f.argv, 1, part - 1)))
      args   == [k \in DOMAIN f.argv[part] |->
                   Field(ArgKey[before + k], f.argv[part][k])]
  IN  Record("EXECVE", IF part = 1 THEN <<Number("argc", Len(Arguments(f)))>> \o args
                                   ELSE args)

Zeros(n) == [k \in 1 .. n |-> 0]

(* A sockaddr, of which the program passed the first f.addr.length bytes.  *)
AddressBytes(a) ==
  LET body == CASE a.family = AF_INET  -> a.port \o a.ip \o Zeros(8)
                [] a.family = AF_INET6 -> a.port \o Zeros(4) \o a.ip \o Zeros(4)
                [] OTHER               -> a.path
  IN  SubSeq(<<a.family, 0>> \o body, 1, a.length)

AddressDigits(bytes) ==
  [k \in 1 .. 2 * Len(bytes) |->
     IF k % 2 = 1 THEN bytes[(k + 1) \div 2] \div 16 ELSE bytes[k \div 2] % 16]

AddressLine(a) ==
  Record("SOCKADDR", <<[key |-> "saddr",
                        text |-> Glued(AddressDigits(AddressBytes(a)))]>>)

Lines(f) ==
  <<SyscallLine(f)>>
  \o [part \in DOMAIN f.argv |-> ExecveLine(f, part)]
  \o [k \in DOMAIN f.addr |-> AddressLine(f.addr[k])]
  \o <<Record("CWD", <<Field("cwd", f.cwd)>>)>>
  \o [k \in DOMAIN f.paths |->
        Record("PATH", <<Field("name", f.paths[k].name),
                         Field("nametype", Word(f.paths[k].nametype))>>)]
  \o <<Record("PROCTITLE",
              <<Field("proctitle", IF Len(f.title) = 1 THEN f.title[1]
                                   ELSE Encoded(f.title))>>)>>

-----------------------------------------------------------------------------
(* The collector: processLine's switch, and the readiness test.  A record  *)
(* that is missing is <<>>, one that is there is <<record>>.               *)

NoGroup == [Key |-> "", Syscall |-> <<>>, Execve |-> <<>>, Cwd |-> <<>>,
            Paths |-> <<>>, ProcTitle |-> <<>>, SockAddr |-> <<>>]

Store(g, line) ==
  CASE line.type = "SYSCALL"   -> LET s == SyscallRecord(line)
                                  IN  [g EXCEPT !.Syscall = <<s>>, !.Key = s.Key.word]
    [] line.type = "EXECVE"    -> [g EXCEPT !.Execve = <<ExecveRecord(line)>>]
    [] line.type = "CWD"       -> [g EXCEPT !.Cwd = <<CwdRecord(line)>>]
    [] line.type = "PATH"      -> [g EXCEPT !.Paths = Append(@, PathRecord(line))]
    [] line.type = "PROCTITLE" -> [g EXCEPT !.ProcTitle = <<ProcTitleRecord(line)>>]
    [] line.type = "SOCKADDR"  -> [g EXCEPT !.SockAddr = <<SockAddrRecord(line)>>]

PresentIn(g) ==
  {type \in RecordType :
     <<>> # CASE type = "SYSCALL" -> g.Syscall [] type = "EXECVE" -> g.Execve
              [] type = "CWD" -> g.Cwd [] type = "PATH" -> g.Paths
              [] type = "PROCTITLE" -> g.ProcTitle [] type = "SOCKADDR" -> g.SockAddr}

-----------------------------------------------------------------------------
(* The dispatcher's helpers.                                               *)

CleanCommandLine(execve) ==
  IF execve = <<>> \/ execve = <<<<>>>> THEN <<>>
  ELSE <<Head(execve[1])>> \o NonEmptyOf(Tail(execve[1]))

(* strings.TrimSpace; of spaces in bytes, only the ASCII ones. *)
Blanks == (9 .. 13) \cup {32}

TrimSpace(t) ==
  CASE t.kind = "spaced" -> TrimmedOf[t.word]
    [] t.kind = "bytes" ->
         LET solid == {k \in DOMAIN t.bytes : t.bytes[k] \notin Blanks}
         IN  IF solid = {} THEN Empty
             ELSE [t EXCEPT !.bytes = SubSeq(@, Min(solid), Max(solid))]
    [] OTHER -> t

(* The parts of bytes between the NULs. *)
PartsOf(bytes) ==
  LET parts == FoldLeft(LAMBDA before, b :
                          IF b = 0 THEN Append(before, <<>>)
                          ELSE Append(Front(before), Append(Last(before), b)),
                        <<<<>>>>, bytes)
  IN  [k \in DOMAIN parts |-> [kind |-> "bytes", bytes |-> parts[k]]]

(* Hex digits are decoded, also when they are the title itself; the words  *)
(* that come of it are trimmed, and blank ones dropped.                    *)
DecodeProcTitle(raw) ==
  LET kept(words) == NonEmptyOf([k \in DOMAIN words |-> TrimSpace(words[k])])
  IN  CASE raw.kind = "encoded" -> kept(raw.words)
        [] raw.kind = "digits" /\ Len(raw.digits) % 2 = 0 ->
             kept(PartsOf(Bytes(raw.digits)))
        [] OTHER -> IF raw = Empty THEN <<>> ELSE <<raw>>

(* The ptrace requests, by the hex digits of their number.  Fault: by the  *)
(* decimal ones.                                                           *)
RequestsInDecimal ==
  {<<"ATTACH", <<1, 6>>>>, <<"DETACH", <<1, 7>>>>, <<"CONT", <<7>>>>}
Requests ==
  {<<"TRACEME", <<0>>>>, <<"PEEKTEXT", <<1>>>>, <<"PEEKDATA", <<2>>>>,
   <<"PEEKUSER", <<3>>>>, <<"POKETEXT", <<4>>>>, <<"POKEDATA", <<5>>>>,
   <<"POKEUSER", <<6>>>>, <<"CONT", <<7>>>>, <<"SINGLESTEP", <<9>>>>,
   <<"ATTACH", <<1, 0>>>>, <<"DETACH", <<1, 1>>>>, <<"SYSCALL", <<1, 8>>>>}
  \cup {<<<<"SETOPTIONS", "GETEVENTMSG", "GETSIGINFO", "SETSIGINFO", "GETREGSET",
            "SETREGSET", "SEIZE", "INTERRUPT", "LISTEN", "PEEKSIGINFO">>[d + 1],
          <<4, 2, 0, d>>>> : d \in 0 .. 9}
  \cup {<<"GET_SYSCALL_INFO", <<4, 2, 0, 14>>>>}

PtraceRequestName(raw) ==
  LET hits == {r \in Requests : raw.kind \in {"digits", "prefixed"} /\ raw.digits = r[2]}
  IN  IF hits = {} THEN raw ELSE Word((CHOOSE r \in hits : TRUE)[1])

(* Decimal digits, or hex ones behind 0x; else 0. *)
ParseSyscallPID(value) ==
  CASE IsDecimal(value)        -> ValueIn(10, value.digits)
    [] value.kind = "prefixed" -> ValueIn(16, value.digits)
    [] OTHER                   -> 0

(* The record of the wanted kind, else one that is not the directory, else *)
(* any that has a name.  Fault: the directory is not passed over.          *)
PreferredNameType ==
  [FileCreate |-> "CREATE", FileDelete |-> "DELETE", Persistence |-> "NORMAL",
   ShadowAccess |-> "NORMAL", PasswordAccess |-> "NORMAL"]

FirstPath(paths, Test(_)) ==
  LET k == SelectInSeq(paths, Test) IN IF k = 0 THEN <<>> ELSE <<paths[k]>>

IsNamed(path) == path.Name # Empty
IsTarget(path) == path.NameType # Word("PARENT") /\ path.Name # Empty

SelectTargetPath(type, paths) ==
  LET wanted == FirstPath(paths, LAMBDA p : p.NameType = Word(PreferredNameType[type]))
      target == FirstPath(paths, IsTarget)
  IN  IF wanted # <<>> THEN wanted
      ELSE IF target # <<>> THEN target ELSE FirstPath(paths, IsNamed)

-----------------------------------------------------------------------------
(* buildBaseEvent, but for the parent's name, and the enrichments.         *)

NoEvent ==
  [AuditKey |-> "", Type |-> "", SyscallName |-> Empty, Success |-> FALSE,
   PID |-> 0, PPID |-> 0, UID |-> 0, EUID |-> 0, GID |-> 0, EGID |-> 0,
   ProcessName |-> Empty, ImagePath |-> Empty, ParentImage |-> Empty,
   CommandLine |-> <<>>, CurrentDir |-> Empty, TargetFile |-> Empty,
   PathName |-> Empty, FileExt |-> Empty, DstIP |-> Empty, DstPort |-> 0,
   Protocol |-> Empty, Request |-> Empty, TargetPID |-> 0]

ExtractProcessName(path) ==
  IF path = Empty THEN Word("unknown")
  ELSE IF path.kind = "word" THEN Word(BaseOf[path.word]) ELSE path

BaseEvent(g) ==
  LET s == g.Syscall[1]
  IN  [NoEvent EXCEPT
         !.AuditKey = g.Key, !.SyscallName = s.SyscallName, !.Success = s.Success,
         !.PID = s.PID, !.PPID = s.PPID, !.UID = s.UID, !.EUID = s.EUID,
         !.GID = s.GID, !.EGID = s.EGID, !.ImagePath = s.Exe,
         !.ProcessName = ExtractProcessName(s.Exe),
         !.CurrentDir = IF g.Cwd = <<>> THEN Empty ELSE g.Cwd[1]]

BindPathFields(e, g) ==
  LET path == SelectTargetPath(e.Type, g.Paths)
      name == path[1].Name
  IN  IF path = <<>> THEN e
      ELSE [e EXCEPT !.TargetFile = name, !.PathName = name,
                     !.FileExt = IF name.kind = "word" THEN Word(ExtOf[name.word])
                                 ELSE Empty]

EnrichNetworkConnect(e, g) ==
  IF g.SockAddr = <<>> THEN e
  ELSE LET a == g.SockAddr[1]
       IN  [e EXCEPT !.DstIP = a.IP, !.DstPort = a.Port, !.Protocol = a.Family,
                     !.TargetFile = a.IP]

EnrichPrivilegeEscalation(e, g) ==
  IF (\A k \in DOMAIN e.CommandLine : e.CommandLine[k] = Empty) /\ g.ProcTitle # <<>>
  THEN [e EXCEPT !.CommandLine = DecodeProcTitle(g.ProcTitle[1])]
  ELSE e

EnrichProcessAccess(e, g) ==
  LET args == g.Syscall[1].Args
  IN  [e EXCEPT
         !.Request = IF Len(args) > 0 THEN PtraceRequestName(args[1]) ELSE @,
         !.TargetPID = IF Len(args) > 1 THEN ParseSyscallPID(args[2]) ELSE @,
         !.CommandLine = IF g.ProcTitle # <<>> THEN DecodeProcTitle(g.ProcTitle[1])
                         ELSE <<>>]

EnrichEventByKey(e, g) ==
  LET typed == [e EXCEPT !.Type = EventTypeOf[g.Key],
                         !.CommandLine = CleanCommandLine(g.Execve)]
  IN  CASE g.Key \notin DOMAIN EventTypeOf -> [e EXCEPT !.Type = "Unknown"]
        [] g.Key = "process_create"       -> typed
        [] g.Key = "network_connect"      -> EnrichNetworkConnect(typed, g)
        [] g.Key = "privilege_escalation" -> EnrichPrivilegeEscalation(typed, g)
        [] g.Key = "process_access"       -> EnrichProcessAccess(typed, g)
        [] OTHER                          -> BindPathFields(typed, g)

-----------------------------------------------------------------------------
Init ==
  /\ fact \in Fact
  /\ next = 1 /\ group = NoGroup /\ pc = "store" /\ event = NoEvent
  /\ parent \in Process
  /\ changes = 0 /\ stood = {}

(* A line is stored; a group that is ready is handed off at once. *)
StoreRecord ==
  /\ pc = "store"
  /\ next <= Len(Lines(fact))
  /\ group' = Store(group, Lines(fact)[next])
  /\ next' = next + 1
  /\ pc' = IF IsReadyToAssemble(group'.Key, PresentIn(group')) THEN "base" ELSE "store"
  /\ UNCHANGED <<fact, event, parent, changes, stood>>

BuildBaseEvent ==
  /\ pc = "base"
  /\ event' = BaseEvent(group)
  /\ pc' = IF event'.PPID <= 0 THEN "enrich" ELSE "exe"
  /\ stood' = {parent}
  /\ UNCHANGED <<fact, next, group, parent, changes>>

(* resolveProcessExe: a read that fails or gives nothing leads to the next.*)
(* Fault: the short name is read first.                                    *)
Try(from, text, otherwise) ==
  /\ pc = from
  /\ IF text = Empty THEN pc' = otherwise /\ UNCHANGED event
     ELSE pc' = "enrich" /\ event' = [event EXCEPT !.ParentImage = text]
  /\ UNCHANGED <<fact, next, group, parent, changes, stood>>

ReadCommFirst == Try("exe", parent.comm, "comm")
ReadExe == Try("exe", parent.exe, "comm")
ReadComm == Try("comm", parent.comm, "cmdline")
ReadCmdline == Try("cmdline", parent.argv0, "enrich")

Enrich ==
  /\ pc = "enrich"
  /\ event' = EnrichEventByKey(event, group)
  /\ pc' = "done"
  /\ UNCHANGED <<fact, next, group, parent, changes, stood>>

(* The environment: the parent's number comes to stand for something else. *)
ParentChanges ==
  /\ pc # "done"
  /\ changes < MaxChanges
  /\ parent' \in Process \ {parent}
  /\ changes' = changes + 1
  /\ stood' = IF pc \in {"exe", "comm", "cmdline"} THEN stood \cup {parent'} ELSE stood
  /\ UNCHANGED <<fact, next, group, pc, event>>

Next == \/ StoreRecord \/ BuildBaseEvent \/ ReadExe \/ ReadComm \/ ReadCmdline
        \/ Enrich \/ ParentChanges

Spec == Init /\ [][Next]_vars

-----------------------------------------------------------------------------
(* Properties.                                                             *)

(* Who did it is read from the fields that say so, though the keys of some *)
(* end in the keys of others (parseStringField, 549-557).  Of a program    *)
(* whose path holds a space the path is not: the event has auditd's hex    *)
(* digits for it (buildBaseEvent, 121-122), though model/event.go:46 calls *)
(* ImagePath the absolute path of the binary.                              *)
IdentityKept ==
  pc = "done" =>
    /\ <<event.PID, event.PPID>> = <<fact.pid, fact.ppid>>
    /\ <<event.UID, event.EUID>> = <<fact.uid, fact.euid>>
    /\ <<event.GID, event.EGID>> = <<fact.gid, fact.egid>>
    /\ fact.exe.kind # "spaced" => event.ImagePath = fact.exe

(* The parent's name is a name of something its number has stood for while *)
(* the event was built, and if that was one process throughout it is its   *)
(* program, and a shorter name only if /proc does not give the program     *)
(* (resolveProcessExe).                                                    *)
NameOf(p) == IF p.exe # Empty THEN p.exe ELSE IF p.comm # Empty THEN p.comm ELSE p.argv0

ParentNamed ==
  pc = "done" /\ fact.ppid > 0 =>
    /\ event.ParentImage # Empty =>
         \E p \in stood : event.ParentImage \in {p.exe, p.comm, p.argv0}
    /\ \A p \in stood : stood = {p} => event.ParentImage = NameOf(p)

(* A connection's family, address and port are the ones of the sockaddr,   *)
(* also behind auditd's interpretation without a space; an address that is *)
(* too short gives none of them, never a part (parseSockAddrRecord).       *)
AddressRead ==
  pc = "done" /\ event.Type = "NetworkConnect" =>
    \A k \in DOMAIN fact.addr :
      LET a == fact.addr[k]
          read == <<event.Protocol, event.DstIP, event.DstPort>>
      IN  a.family \in {AF_INET, AF_INET6} =>
            read = IF a.length < IF a.family = AF_INET THEN 8 ELSE 24
                   THEN <<Empty, Empty, 0>>
                   ELSE <<Word(IF a.family = AF_INET THEN "inet" ELSE "inet6"),
                          IPText(a.ip), 256 * a.port[1] + a.port[2]>>

(* A file event is about the file that was created, deleted or opened and  *)
(* not about the directory it is in, if it is named at all, whatever the   *)
(* order of the PATH records (selectTargetPath).  This is about the choice *)
(* of the record; its name is taken as the record has it (bindPathFields). *)
(* That is not the full path model/event.go:60 says TargetFile is when the *)
(* program named the file relative to its directory or with a space.       *)
NamesWith(nametypes) ==
  {Written(fact.paths[k].name) :
     k \in {j \in DOMAIN fact.paths : fact.paths[j].nametype \in nametypes}}

TargetRead ==
  pc = "done" /\ event.Type \in DOMAIN PreferredNameType =>
    LET wanted  == NamesWith({PreferredNameType[event.Type]})
        others  == NamesWith(NameTypes \ {"PARENT"}) \ {Empty}
        parents == NamesWith({"PARENT"}) \ {Empty}
    IN  event.TargetFile \in IF wanted # {} THEN wanted
                             ELSE IF others # {} THEN others
                             ELSE IF parents # {} THEN parents ELSE {Empty}

(* The command line is the program's arguments, if there are any, none is  *)
(* empty or holds a space and one record has them all; of a privilege      *)
(* escalation without arguments and of a ptrace call it is the title, if   *)
(* no word of that is empty or has a space at an end (cleanCommandLine,    *)
(* decodeProcTitle).                                                       *)
Plain(texts) == \A k \in DOMAIN texts : texts[k].kind # "spaced" /\ texts[k] # Empty
Trimmed(texts) == \A k \in DOMAIN texts : TrimSpace(texts[k]) = texts[k] /\ texts[k] # Empty

CommandRead ==
  pc = "done" /\ event.Type # "NetworkConnect" =>
    IF \/ event.Type = "ProcessAccess"
       \/ event.Type = "PrivilegeEscalation" /\ fact.argv \in {<<>>, <<<<>>>>}
    THEN Len(fact.title) > 1 /\ Trimmed(fact.title) => event.CommandLine = fact.title
    ELSE Len(fact.argv) = 1 /\ Plain(Arguments(fact)) =>
           event.CommandLine = Arguments(fact)

(* The ptrace requests of linux/ptrace.h are named by their number, though *)
(* the table is one of texts (ptraceRequestName).                          *)
RequestNumber == [PEEKTEXT |-> 1, CONT |-> 7, SINGLESTEP |-> 9, ATTACH |-> 16,
                  DETACH |-> 17, SYSCALL |-> 24, SEIZE |-> 16902,
                  GET_SYSCALL_INFO |-> 16910]

RequestNamed ==
  pc = "done" /\ event.Type = "ProcessAccess" =>
    \A name \in DOMAIN RequestNumber :
      fact.registers[1] = RequestNumber[name] => event.Request = Word(name)

(* The target of a ptrace call is the process its second argument names,   *)
(* as event_dispatcher.go:228 has it.                                      *)
TargetPIDRead ==
  pc = "done" /\ event.Type = "ProcessAccess" => event.TargetPID = fact.registers[2]
=============================================================================
