----------------------------- MODULE XhService ------------------------------
(***************************************************************************)
(* What xHook promises of its refresh passes, whoever runs them: they run  *)
(* one at a time, and only between a successful initialisation and the     *)
(* next clear.  XhCore implements it.                                      *)
(***************************************************************************)
CONSTANTS
  Actors,   \* threads that may run a pass
  NoThread  \* no thread

VARIABLES
  up,    \* the library is initialised
  user   \* the thread that is running a pass

vars == <<up, user>>

Init == up = FALSE /\ user = NoThread

Start == ~up /\ up' = TRUE /\ UNCHANGED user

Stop == up /\ user = NoThread /\ up' = FALSE /\ UNCHANGED user

BeginPass(t) == up /\ user = NoThread /\ user' = t /\ UNCHANGED up

EndPass(t) == user = t /\ user' = NoThread /\ UNCHANGED up

Next == Start \/ Stop \/ \E t \in Actors : BeginPass(t) \/ EndPass(t)

Spec == Init /\ [][Next]_vars
=============================================================================
