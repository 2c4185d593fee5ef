---------------------------- MODULE MCTourBarrier ----------------------------
(***************************************************************************)
(* Instance of TourBarrier for TLC.  N = 6 has three rounds and every role *)
(* in an interesting place: thread 4 wins round 0, has no partner (NOOP)   *)
(* in round 1 and loses round 2; thread 0 wins twice and is CHAMPION.      *)
(***************************************************************************)
EXTENDS TourBarrier
=============================================================================
