---------------------------- MODULE AuditRecords ----------------------------
(***************************************************************************)
(* What the collector knows about Linux audit records: the record types it *)
(* parses, the event type each audit rule key stands for, and the records  *)
(* an event of each type cannot do without (collector/types.go, and the    *)
(* readiness test of collector/auditd.go).                                 *)
(***************************************************************************)

RecordType == {"SYSCALL", "EXECVE", "CWD", "PATH", "PROCTITLE", "SOCKADDR"}

(* The table of required records, one row per event type. *)
EventRecords ==
  LET FileRecords == {"SYSCALL", "CWD", "PATH", "PROCTITLE"}
  IN  [ProcessCreate       |-> FileRecords \cup {"EXECVE"},
       NetworkConnect      |-> {"SYSCALL", "SOCKADDR"},
       FileCreate          |-> FileRecords,
       FileDelete          |-> FileRecords,
       ProcessAccess       |-> {"SYSCALL", "PROCTITLE"},
       ShadowAccess        |-> FileRecords,
       PasswordAccess      |-> FileRecords,
       PrivilegeEscalation |-> {"SYSCALL", "PROCTITLE"},
       Persistence         |-> FileRecords]

(* The event type an audit rule key (auditctl -k) stands for. *)
EventTypeOf ==
  [process_create       |-> "ProcessCreate",
   network_connect      |-> "NetworkConnect",
   file_create          |-> "FileCreate",
   file_delete          |-> "FileDelete",
   process_access       |-> "ProcessAccess",
   shadow_access        |-> "ShadowAccess",
   passwd_access        |-> "PasswordAccess",
   privilege_escalation |-> "PrivilegeEscalation",
   persistence          |-> "Persistence"]

(* A group that carries the key and holds the given record types may be    *)
(* handed to the dispatcher.  The key "" and keys outside the table never  *)
(* are: their groups wait for the cleaner.                                 *)
IsReadyToAssemble(key, present) ==
  /\ key \in DOMAIN EventTypeOf
  /\ EventRecords[EventTypeOf[key]] \subseteq present
=============================================================================
