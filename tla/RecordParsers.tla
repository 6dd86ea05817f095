---------------------------- MODULE RecordParsers ----------------------------
(***************************************************************************)
(* The record parsers of the collector (collector/auditd.go): what a       *)
(* record line becomes.  A line is the type of its record and its fields,  *)
(* a key and a text each, in the order they stand in the line.  No value   *)
(* holds the text of another field behind a colon, which the parsers would *)
(* take for that field.                                                    *)
(*                                                                         *)
(* A text is told apart as far as Go's conversions do:                     *)
(*   word      one that is not made of hex digits only (or the empty one)  *)
(*   digits    one made of hex digits only, 0 .. 15 each                   *)
(*   prefixed  hex digits behind 0x                                        *)
(*   glued     hex digits with auditd's interpretation behind them, as in  *)
(*             saddr=0200...SADDR={ (no space between)                     *)
(*   encoded   the hex digits of words with a NUL between them             *)
(***************************************************************************)
EXTENDS Integers, Sequences, SequencesExt

(* a0=, a1=, ...: the arguments of a system call and of a program, as many *)
(* keys as the longest list of arguments needs.                            *)
CONSTANT ArgKey

ASSUME ArgKeyAssumption ==
  /\ ArgKey \in Seq(STRING) /\ Len(ArgKey) >= 6
  /\ \A j, k \in DOMAIN ArgKey : ArgKey[j] = ArgKey[k] => j = k
  /\ \A k \in DOMAIN ArgKey :
       ArgKey[k] \notin {"argc", "success", "ppid", "pid", "auid", "uid", "gid", "euid",
                         "egid", "exe", "key", "SYSCALL"}

Word(w) == [kind |-> "word", word |-> w]
Empty == Word("")
Digits(ds) == [kind |-> "digits", digits |-> ds]
Prefixed(ds) == [kind |-> "prefixed", digits |-> ds]
Glued(ds) == [kind |-> "glued", digits |-> ds]
Encoded(words) == [kind |-> "encoded", words |-> words]

-----------------------------------------------------------------------------
(* Go's conversions.                                                       *)

(* The number that ds denotes in the given base. *)
ValueIn(base, ds) == FoldLeft(LAMBDA n, d : base * n + d, 0, ds)

IsDecimal(t) == t.kind = "digits" /\ \A k \in DOMAIN t.digits : t.digits[k] < 10

(* The bytes that ds encodes, two digits each. *)
Bytes(ds) == [k \in 1 .. Len(ds) \div 2 |-> 16 * ds[2*k - 1] + ds[2*k]]

BigEndian(bytes) == 256 * bytes[1] + bytes[2]

(* net.IP.String: 16 bytes that hold an IPv4 address print as that address.*)
(* An address stands for its text.                                         *)
IPText(bytes) ==
  LET mapped == /\ Len(bytes) = 16
                /\ \A k \in 1 .. 12 : bytes[k] = IF k > 10 THEN 255 ELSE 0
  IN  [kind |-> "ip", bytes |-> IF mapped THEN SubSeq(bytes, 13, 16) ELSE bytes]

-----------------------------------------------------------------------------
(* Fields.  A key is found where it is not the end of a longer one; then   *)
(* the first field that has it counts.  Fault: that is not looked at, and  *)
(* ppid= passes for pid=.                                                  *)
EndsIn(key) == CASE key = "pid" -> {"pid", "ppid"}
                 [] key = "uid" -> {"uid", "auid", "euid"}
                 [] OTHER -> {key}

HasEnd(field, key) == field.key \in EndsIn(key)
HasKey(field, key) == field.key = key

StringField(line, key) ==
  LET k == SelectInSeq(line.fields, LAMBDA field : HasKey(field, key))
  IN  IF k = 0 THEN Empty ELSE line.fields[k].text

IntField(line, key) ==
  LET t == StringField(line, key) IN IF IsDecimal(t) THEN ValueIn(10, t.digits) ELSE 0

(* The hex digits behind a key, up to the first character that is none.    *)
(* Fault: the whole field has to be made of them.                          *)
HexFieldWhole(line, key) ==
  LET t == StringField(line, key) IN IF t.kind = "digits" THEN t.digits ELSE <<>>
HexField(line, key) ==
  LET t == StringField(line, key)
  IN  IF t.kind \in {"digits", "glued"} THEN t.digits ELSE <<>>

(* The texts of a list but for the empty ones, in their order. *)
NonEmptyOf(texts) ==
  FoldLeft(LAMBDA kept, t : IF t = Empty THEN kept ELSE Append(kept, t), <<>>, texts)

-----------------------------------------------------------------------------
(* One parser per record type.                                             *)

SyscallRecord(line) ==
  [Args  |-> NonEmptyOf([k \in 1 .. 6 |-> StringField(line, ArgKey[k])]),
   SyscallName |-> StringField(line, "SYSCALL"),
   Success     |-> StringField(line, "success") = Word("yes"),
   PID  |-> IntField(line, "pid"),  PPID |-> IntField(line, "ppid"),
   UID  |-> IntField(line, "uid"),  EUID |-> IntField(line, "euid"),
   GID  |-> IntField(line, "gid"),  EGID |-> IntField(line, "egid"),
   Exe  |-> StringField(line, "exe"), Key |-> StringField(line, "key")]

(* The arguments up to the first that is missing or empty; a0 may be empty.*)
(* Fault: one argument too few is asked for.                               *)
ArgcLessOne(line) == IntField(line, "argc") - 1
Argc(line) == IntField(line, "argc")

ExecveRecord(line) ==
  LET args == [k \in 1 .. Argc(line) |-> StringField(line, ArgKey[k])]
      ends == {k \in 2 .. Argc(line) : args[k] = Empty}
  IN  IF Argc(line) <= 0 THEN <<>>
      ELSE SubSeq(args, 1, IF ends = {} THEN Argc(line)
                           ELSE (CHOOSE k \in ends : \A j \in ends : k <= j) - 1)

CwdRecord(line) == StringField(line, "cwd")

PathRecord(line) ==
  [Name |-> StringField(line, "name"), NameType |-> StringField(line, "nametype")]

ProcTitleRecord(line) == StringField(line, "proctitle")

AF_UNIX == 1
AF_INET == 2
AF_INET6 == 10

NoAddress == [Family |-> Empty, IP |-> Empty, Port |-> 0]

(* An address too short for its family leaves all fields empty, a name of  *)
(* a Unix socket ends at the first NUL, and of other families only the     *)
(* number is kept.                                                         *)
SockAddrRecord(line) ==
  LET raw    == HexField(line, "saddr")
      bytes  == Bytes(raw)
      family == bytes[1] + 256 * bytes[2]
      inet(name, first, last) ==
        IF Len(bytes) < last THEN NoAddress
        ELSE [Family |-> Word(name), Port |-> BigEndian(SubSeq(bytes, 3, 4)),
              IP |-> IPText(SubSeq(bytes, first, last))]
      path   == SubSeq(bytes, 3, Len(bytes))
      nul    == SelectInSeq(path, LAMBDA b : b = 0)
  IN  IF Len(raw) % 2 = 1 \/ Len(bytes) < 2 THEN NoAddress
      ELSE CASE family = AF_INET  -> inet("inet", 5, 8)
             [] family = AF_INET6 -> inet("inet6", 9, 24)
             [] family = AF_UNIX  ->
                  [NoAddress EXCEPT
                     !.Family = Word("unix"),
                     !.IP = [kind |-> "bytes", bytes |->
                             IF nul = 0 THEN path ELSE SubSeq(path, 1, nul - 1)]]
             [] OTHER -> [NoAddress EXCEPT !.Family = [kind |-> "unknown", family |-> family]]
=============================================================================
