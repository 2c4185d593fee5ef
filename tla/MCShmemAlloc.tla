---------------------------- MODULE MCShmemAlloc ----------------------------
(***************************************************************************)
(* Instance of ShmemAlloc for TLC: six descriptors for ten units of memory *)
(* (one for the control block), so that the table can run out before the   *)
(* memory and the other way round.                                         *)
(***************************************************************************)
EXTENDS ShmemAlloc
=============================================================================
