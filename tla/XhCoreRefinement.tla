------------------------- MODULE XhCoreRefinement ---------------------------
(* XhCore implements XhService: the library is up while xh_core_init_ok is   *)
(* set, and the pass is run by the thread between the lock and the unlock of *)
(* xh_core_refresh_mutex in a refresh.                                       *)
EXTENDS XhCore

Passer == IF \E t \in Actors : pc[t] \in PassPcs
            THEN CHOOSE t \in Actors : pc[t] \in PassPcs
            ELSE NoThread

Service == INSTANCE XhService WITH up <- init_ok, user <- Passer

\* Every behaviour of the calls, the refresh thread and the handler is one of
\* XhService: passes run one at a time, and only while the library is up.
ImplementsService == Service!Spec
=============================================================================
