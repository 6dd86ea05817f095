---------------------------- MODULE EventAssembly ----------------------------
(***************************************************************************)
(* What the collector promises the dispatcher, without lines, queues,      *)
(* clocks or threads: an event is delivered at most once, and only when    *)
(* every record its key requires has been collected since its collection   *)
(* was last given up.                                                      *)
(***************************************************************************)
EXTENDS AuditRecords

CONSTANTS
  Event,   (* the audit events                                              *)
  KeyOf    (* the audit rule key of each                                    *)

VARIABLES
  held,      (* the record types collected of each event                    *)
  delivered  (* the events delivered                                        *)

vars == <<held, delivered>>

Init ==
  /\ held = [e \in Event |-> {}]
  /\ delivered = {}

Collect(e, type) ==
  /\ held' = [held EXCEPT ![e] = @ \cup {type}]
  /\ UNCHANGED delivered

Deliver(e) ==
  /\ e \notin delivered
  /\ IsReadyToAssemble(KeyOf[e], held[e])
  /\ delivered' = delivered \cup {e}
  /\ held' = [held EXCEPT ![e] = {}]

GiveUp(e) ==
  /\ held' = [held EXCEPT ![e] = {}]
  /\ UNCHANGED delivered

Next ==
  \E e \in Event : \/ \E type \in RecordType : Collect(e, type)
                   \/ Deliver(e)
                   \/ GiveUp(e)

Spec == Init /\ [][Next]_vars
=============================================================================
