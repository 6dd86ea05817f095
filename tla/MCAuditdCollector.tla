------------------------- MODULE MCAuditdCollector -------------------------
(***************************************************************************)
(* Small audit logs for the collector.                                     *)
(***************************************************************************)
EXTENDS AuditdCollector, TLC

CONSTANTS e1, e2

MCId == {e1, e2}

Rec(type) == [type |-> type, key |-> "", hasId |-> TRUE, wellFormed |-> TRUE]
Sys(key) == [Rec("SYSCALL") EXCEPT !.key = key]
Garbled == [Rec("OTHER") EXCEPT !.hasId = FALSE]

(* A privilege escalation, whose PROCTITLE is its last record and whose    *)
(* EXECVE record has an argument missing, beside a connect event with a    *)
(* record after the two that are required of it and a line that has no     *)
(* audit ID.                                                               *)
MixedLog ==
  e1 :> <<Sys("privilege_escalation"),
          [Rec("EXECVE") EXCEPT !.wellFormed = FALSE],
          Rec("PROCTITLE")>> @@
  e2 :> <<Sys("network_connect"), Garbled, Rec("SOCKADDR"), Rec("CWD")>>

(* Two events that can be assembled: when nobody takes the first, the      *)
(* second finds outputChan full. When lineChan drops a SYSCALL line, the   *)
(* other record of the event starts a group without a key, as a record     *)
(* that comes after the hand-off does.                                     *)
PlainLog ==
  e1 :> <<Sys("process_access"), Rec("PROCTITLE")>> @@
  e2 :> <<Sys("network_connect"), Rec("SOCKADDR")>>

(* The lines of TestProcessLineNetworkConnectMapping (auditd_test.go).     *)
ConnectLog ==
  e1 :> <<Sys("network_connect"), Rec("SOCKADDR"), Rec("CWD"), Rec("PATH")>> @@
  e2 :> <<>>
=============================================================================
