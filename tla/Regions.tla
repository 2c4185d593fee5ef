------------------------------- MODULE Regions -------------------------------
(***************************************************************************)
(* What __ompc_fork promises the program: parallel regions, one after the  *)
(* other.  A fork opens a region for a team; every member of the team runs *)
(* the body exactly once; the region is joined when all of them have.      *)
(***************************************************************************)

CONSTANT Node        \* the master and the nodes it can put to work

VARIABLES
  open,              \* a region has been forked and not joined
  todo,              \* members of its team that have not begun the body
  working            \* nodes that are in the body

vars == <<open, todo, working>>

\* The type of the state.
TypeOK ==
  /\ open \in BOOLEAN
  /\ todo \subseteq Node
  /\ working \subseteq Node

Init == ~open /\ todo = {} /\ working = {}

Fork(team) ==
  /\ ~open
  /\ open' = TRUE
  /\ todo' = team
  /\ UNCHANGED working

Begin(n) ==
  /\ n \in todo
  /\ todo' = todo \ {n}
  /\ working' = working \union {n}
  /\ UNCHANGED open

End(n) ==
  /\ n \in working
  /\ working' = working \ {n}
  /\ UNCHANGED <<open, todo>>

Join ==
  /\ open /\ todo = {} /\ working = {}
  /\ open' = FALSE
  /\ UNCHANGED <<todo, working>>

Next ==
  \/ \E team \in (SUBSET Node) \ {{}} : Fork(team)
  \/ \E n \in Node : Begin(n) \/ End(n)
  \/ Join

Spec == Init /\ [][Next]_vars
=============================================================================
