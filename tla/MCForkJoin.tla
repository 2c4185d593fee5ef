----------------------------- MODULE MCForkJoin -----------------------------
(***************************************************************************)
(* Instances of ForkJoin for TLC: which programs run.                      *)
(***************************************************************************)
EXTENDS ForkJoin

R(req, barriers) == [req |-> req, barriers |-> barriers]

\* The default team (0) and the explicit one, a serial region before or between
\* parallel ones, one or two barriers in the first region; a barrier in a later
\* region (skipped by nodes in mode SLEEP); a team smaller than the barrier, a
\* larger one, and a request above the number of nodes.
AllPrograms == {
  << R(0, 1), R(N, 0) >>,
  << R(0, 0), R(1, 1), R(N, 0) >>,
  << R(1, 0), R(N, 2) >>,
  << R(N, 0), R(0, 1) >>,
  << R(N-1, 0) >>,
  << R(N+1, 0), R(0, 0) >>,
  << R(1, 1), R(MaxNodes+1, 0) >> }

\* Two regions with a barrier in the second one.
SecondBarrier == { << R(0, 0), R(0, 1) >> }
=============================================================================
