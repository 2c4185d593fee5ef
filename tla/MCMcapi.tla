------------------------------- MODULE MCMcapi -------------------------------
(***************************************************************************)
(* Instances of McapiMessages for TLC: the applications.                   *)
(***************************************************************************)
EXTENDS McapiMessages, TLC

CONSTANTS me, pe, se,    \* endpoints: of messages, of packets, of scalars
          t, u

Kinds == me :> "message" @@ pe :> "packet" @@ se :> "scalar"

\* Thread t calls tCalls and thread u calls uCalls on the endpoints.
App(on, tCalls, uCalls) ==
  t :> [calls |-> tCalls, on |-> on] @@ u :> [calls |-> uCalls, on |-> on]

AllApplications == {
  \* one thread sends and cancels what the other receives
  App({pe}, {"send_i", "test", "cancel"}, {"recv_i", "wait", "free"}),
  \* both threads receive, in the blocking and the non-blocking way
  App({me}, {"send", "recv"}, {"recv_i", "recv", "test"}),
  \* blocking calls only, in both directions
  App({me, pe}, {"send", "recv"}, {"send", "recv"}),
  \* packets are kept while scalars need buffers
  App({pe, se}, {"send"}, {"recv", "free"}) }
=============================================================================
