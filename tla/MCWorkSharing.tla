---------------------------- MODULE MCWorkSharing ----------------------------
(***************************************************************************)
(* Instances of WorkSharing for TLC: which programs run.                   *)
(***************************************************************************)
EXTENDS WorkSharing

Loop(kind, lower, upper, incr, chunk) ==
  [kind |-> kind, lower |-> lower, upper |-> upper, incr |-> incr,
   chunk |-> chunk, nowait |-> FALSE]

Nowait(c) == [c EXCEPT !.nowait = TRUE]

Once == Loop("single", 0, 0, 1, 1)

Region(team, body) == [team |-> team, body |-> body]

\* Loops that divide by the team and the chunk and loops that do not, upwards
\* and downwards, shorter than the team and empty; nowait before a construct
\* that does not touch the bounds; regions of the master alone, whose loops
\* and singles do not count.  Only the first region that wakes slaves has
\* barriers: in a later one a node in mode SLEEP skips them.
SoundPrograms == {
  << Region(T, << Loop("dynamic", 0, 4, 1, 2), Loop("dynamic", 5, 1, -2, 1), Once >>) >>,
  << Region(T, << Nowait(Loop("dynamic", 0, 3, 2, 1)), Nowait(Once),
                  Loop("even", 0, 6, 1, 1), Loop("dynamic", 1, 2, 1, 3) >>) >>,
  << Region(1, << Loop("dynamic", 0, 2, 1, 1), Once, Once, Loop("dynamic", 3, 1, -1, 1) >>),
     Region(T, << Loop("dynamic", 2, 3, 1, 1) >>),
     Region(T, << Nowait(Loop("static", 7, 0, -1, 2)), Nowait(Once),
                  Nowait(Loop("even", 0, 7, 2, 1)) >>) >>,
  << Region(T, << Nowait(Loop("even", 4, 1, -1, 1)), Nowait(Loop("static", 0, 8, 2, 1)),
                  Loop("even", 0, 1, 1, 1), Loop("even", 1, 0, 1, 1),
                  Loop("even", 6, 1, -2, 1) >>),
     Region(1, << Loop("even", 0, 3, 1, 1), Nowait(Loop("static", 0, 3, 1, 2)) >>),
     Region(T, << Nowait(Loop("dynamic", 0, 2, 1, 1)) >>) >>,
  << Region(T, << Loop("dynamic", 1, 0, 1, 1), Loop("dynamic", 0, 2, 1, 1) >>),
     Region(T, << Nowait(Once) >>) >> }

\* What the proofs suppose of the programs holds of these.
ASSUME SoundAreOrderly == \A p \in SoundPrograms : Orderly(p)

\* A dynamic loop in each of two regions.
SecondLoop == {
  << Region(T, << Loop("dynamic", 0, 1, 1, 1) >>),
     Region(T, << Nowait(Loop("dynamic", 0, 2, 1, 1)) >>) >> }
=============================================================================
