---------------------------- MODULE MCRuleMatcher ----------------------------
(***************************************************************************)
(* Cuttings of the rule files under rules/, events about them, and what    *)
(* Go's string functions say of the texts in both.                         *)
(***************************************************************************)
EXTENDS RuleMatcher, TLC

TextList(ts) == [list |-> [k \in DOMAIN ts |-> Text(ts[k])]]
Names(f) == [map |-> [k \in DOMAIN f |-> Text(f[k])]]
File(fileGroups, fileRules) == [groups |-> fileGroups, rules |-> fileRules]
NoGroups == [name \in {} |-> 0]

-----------------------------------------------------------------------------
(* rules/processCreation.json *)
ProcessCreation ==
  File([Shell        |-> TextList(<<"/bin/bash", "bash">>),
        Download     |-> [map |-> [command |-> TextList(<<"curl", "wget">>)]],
        ReverseShell |-> [map |-> [command |-> TextList(<<"nc">>),
                                   option  |-> TextList(<<"-e">>)]]],
       <<[id |-> "DET0384", eventType |-> "ProcessCreate",
          conditions |-> [ppid_exe |-> Text("Shell"),
                          argv |-> Names([download      |-> "Download",
                                          reverse_shell |-> "ReverseShell"])]]>>)

(* rules/networkConnection.json *)
NetworkConnection ==
  File([HttpClient   |-> TextList(<<"curl">>),
        AbnormalPort |-> [list |-> <<Number(4444), Number(8081)>>]],
       <<[id |-> "DET0027", eventType |-> "NetworkConnect",
          conditions |-> [exe       |-> Text("HttpClient"),
                          dest_port |-> Text("AbnormalPort")]]>>)

(* rules/fileCreation.json *)
FileCreation ==
  File([SystemService |-> TextList(<<"/etc/systemd/system/*.service">>),
        UserService   |-> TextList(<<"/home/*/.config/systemd/user/*.service">>)],
       <<[id |-> "DET0253", eventType |-> "FileCreate",
          conditions |-> [path |-> [list |-> <<Text("SystemService"),
                                               Text("UserService")>>]]]>>)

(* A file without groups, whose rules have texts for conditions and which  *)
(* writes in small and in capital letters what the events do not; no field *)
(* of an event stands for one of the conditions.                           *)
Ungrouped ==
  File(NoGroups,
       <<[id |-> "literal", eventType |-> "networkconnect",
          conditions |-> [exe |-> Text("curl"), dest_port |-> Text("443"),
                          path |-> Text("10.0.0.1")]],
         [id |-> "unsupported", eventType |-> "NetworkConnect",
          conditions |-> [exe |-> Text("curl"), uid |-> Text("0")]],
         [id |-> "command", eventType |-> "ProcessCreate",
          conditions |-> [argv |-> Text("/bin/LS")]]>>)

MixedFiles == <<Ungrouped, ProcessCreation, NetworkConnection, FileCreation>>

-----------------------------------------------------------------------------
Blank ==
  [Type |-> "Unknown", ImagePath |-> Text(""), ParentImage |-> Text(""),
   CommandLine |-> Text(""), PathName |-> Text(""), TargetFile |-> Text(""),
   Request |-> Text(""), Protocol |-> Text(""), DstIP |-> Text(""),
   EUID |-> Number(1000), EGID |-> Number(1000), DstPort |-> Number(0)]

Exec(parent, cmd) ==
  [Blank EXCEPT !.Type = "ProcessCreate", !.ImagePath = Text("/usr/bin/curl"),
                !.ParentImage = Text(parent), !.CommandLine = Text(cmd)]
Connect(port) ==
  [Blank EXCEPT !.Type = "NetworkConnect", !.ImagePath = Text("/usr/bin/curl"),
                !.Protocol = Text("inet"), !.DstIP = Text("10.0.0.1"),
                !.TargetFile = Text("10.0.0.1"), !.DstPort = Number(port)]
Create(path) ==
  [Blank EXCEPT !.Type = "FileCreate", !.ImagePath = Text("/usr/bin/vi"),
                !.PathName = Text(path), !.TargetFile = Text(path)]

MCEvent ==
  {Exec("/bin/bash", "/usr/bin/curl -s"), Exec("/bin/bash", "ls -l"),
   Exec("/usr/sbin/sshd", "/usr/bin/curl -s"),
   Connect(4444), Connect(443),
   Create("/etc/systemd/system/x.service"), Create("/tmp/x"),
   [Blank EXCEPT !.Type = "PrivilegeEscalation", !.EUID = Number(0)]}

MCStarred == {"/etc/systemd/system/*.service", "/home/*/.config/systemd/user/*.service"}
MCGlobs == {<<"/etc/systemd/system/*.service", "/etc/systemd/system/x.service">>}
MCContains ==
  {<<"/bin/bash", "/bin/bash">>, <<"/bin/bash", "bash">>,
   <<"/usr/bin/curl", "curl">>, <<"10.0.0.1", "10.0.0.1">>}
MCFields ==
  "/usr/bin/curl -s" :> {"/usr/bin/curl", "-s"} @@ "ls -l" :> {"ls", "-l"} @@ "" :> {}
MCBase ==
  [t \in {"curl", "wget", "nc", "-e", "-s", "ls", "-l"} |-> t] @@
  "/usr/bin/curl" :> "curl" @@ "/bin/LS" :> "LS"
MCLower ==
  [t \in {"curl", "wget", "nc", "-e", "ls", "networkconnect"} |-> t] @@
  "LS" :> "ls" @@ "NetworkConnect" :> "networkconnect" @@
  "ProcessCreate" :> "processcreate" @@ "FileCreate" :> "filecreate" @@
  "PrivilegeEscalation" :> "privilegeescalation"
MCNumberOf == "443" :> 443 @@ "0" :> 0
=============================================================================
