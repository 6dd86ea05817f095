--------------------------- MODULE MCEventBuilder ---------------------------
(***************************************************************************)
(* One audit event of each kind and of each shape the parsers and the      *)
(* dispatcher tell apart.                                                  *)
(***************************************************************************)
EXTENDS EventBuilder, TLC

Spaced(w) == [kind |-> "spaced", word |-> w]
Words(ws) == [k \in DOMAIN ws |-> Word(ws[k])]
Path(name, nametype) == [name |-> Word(name), nametype |-> nametype]

Shell ==
  [key |-> "", success |-> Word("yes"), syscall |-> Word("call"), registers |-> <<3, 0>>,
   pid |-> 20453, ppid |-> 1666, auid |-> 1000, uid |-> 1001, gid |-> 1002,
   euid |-> 0, egid |-> 1003, exe |-> Word("/bin/sh"), argv |-> <<>>, addr |-> <<>>,
   cwd |-> Word("/tmp"), paths |-> <<>>, title |-> Words(<<"sh", "-c">>)]

Runs(argv) ==
  [Shell EXCEPT !.key = "process_create", !.argv = argv,
                !.paths = <<Path("/bin/sh", "NORMAL"), Path("/lib/ld.so", "NORMAL")>>]

Touches(key, paths) == [Shell EXCEPT !.key = key, !.paths = paths]

Connects(a) == [Shell EXCEPT !.key = "network_connect", !.addr = <<a>>]

Inet(length) == [family |-> AF_INET, port |-> <<1, 187>>, ip |-> <<142, 251, 0, 100>>,
                 length |-> length]
Inet6(ip, length) == [family |-> AF_INET6, port |-> <<0, 80>>, ip |-> ip,
                      length |-> length]
Other(family, path) == [family |-> family, path |-> path, length |-> Len(path) + 2]

Escalates(argv, title) ==
  [Shell EXCEPT !.key = "privilege_escalation", !.argv = argv, !.title = title]

Traces(registers) == [Shell EXCEPT !.key = "process_access", !.registers = registers]

Parent == Path("/tmp", "PARENT")
Create == Path("/tmp/new.sh", "CREATE")
Delete == Path("old", "DELETE")
Normal == Path("/etc/shadow", "NORMAL")

MCFact ==
  {Runs(<<Words(<<"sh", "-c", "id">>)>>), Runs(<<<<Word("sh"), Spaced("a b")>>>>),
   Runs(<<<<Word("sh"), Empty, Word("id")>>>>), Runs(<<<<Empty, Word("id")>>>>),
   Runs(<<<<Word("sh")>>, <<Word("id")>>>>), Runs(<<<<Word("sh"), Digits(<<4, 4>>)>>>>),
   [Runs(<<Words(<<"sh">>)>>) EXCEPT !.ppid = 0, !.exe = Empty],
   Touches("file_create", <<Parent, Create>>), Touches("file_create", <<Parent>>),
   Touches("file_create", <<Parent, Normal>>), Touches("file_delete", <<Parent, Delete>>),
   Touches("persistence", <<Parent, Parent, Delete, Create>>),
   Touches("persistence", <<Parent, Normal>>), Touches("shadow_access", <<Normal>>),
   Touches("file_create", <<Parent, Path("/tmp/new.sh", "UNKNOWN")>>),
   Touches("file_delete", <<Path("", "NORMAL"), Parent>>),
   Touches("file_delete", <<Path("", "PARENT")>>),
   [Touches("passwd_access", <<Normal>>) EXCEPT !.exe = Spaced("/opt/a b")],
   [Touches("file_create", <<Parent, [name |-> Spaced("a b"), nametype |-> "CREATE"]>>)
      EXCEPT !.argv = <<Words(<<"sh">>)>>],
   Connects(Inet(16)), Connects(Inet(8)), Connects(Inet(7)), Connects(Inet(1)),
   Connects(Inet6([k \in 1 .. 16 |-> k], 28)), Connects(Inet6([k \in 1 .. 16 |-> k], 23)),
   Connects(Inet6(Zeros(10) \o <<255, 255, 10, 0, 0, 1>>, 24)),
   Connects(Other(AF_UNIX, <<47, 120, 0>>)), Connects(Other(AF_UNIX, <<47>>)),
   Connects(Other(16, <<0, 0>>)),
   Escalates(<<>>, Words(<<"sudo", "-i">>)), Escalates(<<>>, <<Digits(<<13, 13>>)>>),
   Escalates(<<>>, <<Digits(<<11, 12, 13>>)>>), Escalates(<<>>, <<Word("su")>>),
   Escalates(<<Words(<<"sudo", "-i">>)>>, <<Word("su")>>), Escalates(<<>>, <<Empty>>),
   Escalates(<<<<>>>>, Words(<<"sudo", "-i">>)), Escalates(<<>>, Words(<<"sudo", "", "-i">>)),
   Escalates(<<>>, <<Word("sudo"), Spaced(" ")>>), Escalates(<<>>, <<Word("su"), Spaced(" -l")>>),
   Escalates(<<>>, <<Word("sh"), Spaced("a b")>>), Escalates(<<>>, <<Spaced("a b")>>),
   Escalates(<<>>, <<Digits(<<2, 0>>)>>), Escalates(<<>>, <<Digits(<<0, 0, 2, 0, 4, 4, 2, 0, 4, 5, 0, 9>>)>>),
   Traces(<<16, 10>>), Traces(<<1, 4096>>), Traces(<<24, 7>>), Traces(<<16902, 2>>),
   Traces(<<16910, 3>>), Traces(<<12, 0>>), Traces(<<17, 0>>), Traces(<<7, 9>>),
   Traces(<<9, 9>>)}

Proc(exe, comm, argv0) == [exe |-> Word(exe), comm |-> Word(comm), argv0 |-> Word(argv0)]

(* A shell, another program, a zombie, a process whose name is blank and   *)
(* whose program cannot be read, and no process.                           *)
MCProcess == {Proc("/bin/bash", "bash", "-bash"), Proc("/usr/sbin/sshd", "sshd", "sshd:"),
              Proc("", "cron", ""), Proc("", "", "worker"), Proc("", "", "")}

MCArgKey == <<"a0", "a1", "a2", "a3", "a4", "a5">>

MCBaseOf == "/bin/sh" :> "sh"
MCExtOf == "" :> "" @@ "/tmp" :> "" @@ "/tmp/new.sh" :> ".sh" @@ "old" :> "" @@ "/etc/shadow" :> ""

MCTrimmedOf == "a b" :> Spaced("a b") @@ " " :> Empty @@ " -l" :> Word("-l")

(* One ptrace call. *)
TraceFact == {Traces(<<16, 4096>>)}
=============================================================================
