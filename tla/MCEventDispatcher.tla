------------------------- MODULE MCEventDispatcher -------------------------
(***************************************************************************)
(* Three groups with a SYSCALL record and one without.                     *)
(***************************************************************************)
EXTENDS EventDispatcher

CONSTANTS g1, g2, g3, bare

MCGroup == {g1, g2, g3, bare}
MCNoSyscall == {bare}
=============================================================================
