---------------------------- MODULE LossyChannel ----------------------------
(***************************************************************************)
(* What every stage of the agent promises of the channel it sends on: its  *)
(* sender never waits, an item is lost only when the channel is full, the  *)
(* ones that are not lost arrive once and in order, and nothing is put on  *)
(* the channel after it has been closed.                                   *)
(***************************************************************************)
EXTENDS Naturals, Sequences

CONSTANT Cap  (* the capacity of the channel                                *)

VARIABLES
  queue,   (* the items sent and not yet received                           *)
  closed,  (* the channel is closed                                         *)
  lost     (* how many items have been lost                                 *)

channelVars == <<queue, closed, lost>>

Init == queue = <<>> /\ closed = FALSE /\ lost = 0

(* Whatever is sent, it goes to the end of the queue. *)
Send ==
  /\ ~closed
  /\ Len(queue) < Cap
  /\ queue' # <<>>
  /\ queue' = Append(queue, queue'[Len(queue')])
  /\ UNCHANGED <<closed, lost>>

Lose ==
  /\ ~closed
  /\ Len(queue) = Cap
  /\ lost' = lost + 1
  /\ UNCHANGED <<queue, closed>>

Receive ==
  /\ queue # <<>>
  /\ queue' = Tail(queue)
  /\ UNCHANGED <<closed, lost>>

Close ==
  /\ ~closed
  /\ closed' = TRUE
  /\ UNCHANGED <<queue, lost>>

Next == Send \/ Lose \/ Receive \/ Close

Spec == Init /\ [][Next]_channelVars
=============================================================================
