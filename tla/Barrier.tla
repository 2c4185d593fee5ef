------------------------------- MODULE Barrier -------------------------------
(***************************************************************************)
(* What __ompc_level_1_barrier promises its team: a reusable barrier.  A   *)
(* thread that arrives waits; when every thread of the team waits, one     *)
(* step opens the barrier for all of them; an opened thread may leave and  *)
(* arrive again while slower threads are still on their way out.           *)
(***************************************************************************)

CONSTANT Thread      \* the threads of the team

VARIABLE status      \* "out", "wait" (arrived) or "go" (released, not yet out)

\* The type of the state.
TypeOK == status \in [Thread -> {"out", "wait", "go"}]

Init == status = [t \in Thread |-> "out"]

Arrive(t) ==
  /\ status[t] = "out"
  /\ status' = [status EXCEPT ![t] = "wait"]

Release ==
  /\ \A t \in Thread : status[t] = "wait"
  /\ status' = [t \in Thread |-> "go"]

Leave(t) ==
  /\ status[t] = "go"
  /\ status' = [status EXCEPT ![t] = "out"]

Next ==
  \/ Release
  \/ \E t \in Thread : Arrive(t) \/ Leave(t)

Spec == Init /\ [][Next]_status
=============================================================================
