------------------------------- MODULE MCAgent -------------------------------
(***************************************************************************)
(* Three groups, one without a SYSCALL record; of the others one matches   *)
(* both rules and one the second.                                          *)
(***************************************************************************)
EXTENDS Agent, TLC

CONSTANTS both, second, bare

MCGroup == {both, second, bare}
MCNoSyscall == {bare}
MCDetects == both :> {1, 2} @@ second :> {2} @@ bare :> {}
=============================================================================
