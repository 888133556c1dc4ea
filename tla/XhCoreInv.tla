----------------------------- MODULE XhCoreInv ------------------------------
(* The inductive invariants behind the properties of XhCore, in named parts. *)
EXTENDS XhCore

\* A guarded access is counted in what its pass has left to do.
AccessLeft == \A t \in Actors : pc[t] \in {"guard", "bare", "caught"} => left[t] > 0

\* A mutex is held exactly at the control points that hold it.
LockInv ==
  /\ \A t \in Actors : pc[t] \in CorePcs <=> core = t
  /\ \A t \in Actors : pc[t] \in RefrPcs <=> refr = t

\* A thread that a fault takes into the pass of another has not taken its mutex.
FrameInv == OwnStacks => LockInv

\* While the flag is set the thread in the jump buffer is in its guarded access.
JumpInv == jump # NoThread => jump \in Actors /\ pc[jump] \in {"guard", "caught"}

\* The rest holds when callers leave clear alone, switch protection only while
\* the library is not initialised, and fault in guarded accesses only.
Discipline == ExclusiveClear /\ ~EnableAnytime /\ Strays = {}

ClearAlone ==
  /\ \A t \in Callers : pc[t] \in ClearPcs => Quiet({t})
  /\ \A t \in Actors : frame[t] = t

\* Control points at which init_ok is known to be set, and the tail of clear at
\* which the refresh thread is gone.
ReadyPcs == {"async_fast", "async_lock", "async_once", "async_create",
             "async_done", "async_end", "async_check", "req_lock", "req_post",
             "refr_lock", "pass", "bare", "guard", "caught"}
TailPcs == {"c_aok0", "c_ainit0", "c_iok", "c_del", "c_iok0", "c_init0",
            "c_core", "c_refr", "c_free"}

InitInv ==
  /\ init_ok => inited
  /\ \A t \in Callers :
       /\ pc[t] \in {"init_add", "init_done"} => inited /\ ~init_ok
       /\ pc[t] \in ReadyPcs \cup {"c_del", "c_iok0"} => init_ok
       /\ pc[t] \in {"c_init0", "c_core", "c_refr", "c_free"} => ~init_ok
       /\ pc[t] \in {"c_core", "c_refr", "c_free"} => ~inited
  /\ \A w \in Workers : pc[w] # "none" => init_ok

WorkerInv ==
  /\ async_init_ok => async_inited /\ tid \in Workers
  /\ ~async_inited => \A w \in Workers : pc[w] = "none"
  /\ \A w \in Workers :
       pc[w] # "none" => /\ tid = w
                         /\ async_init_ok \/ \E t \in Callers : pc[t] = "async_done"
  /\ \A t \in Callers :
       /\ pc[t] = "async_create" =>
            /\ async_inited /\ ~async_init_ok
            /\ \A w \in Workers : pc[w] = "none"
       /\ pc[t] = "async_done" => async_inited /\ tid \in Workers
       /\ pc[t] \in {"c_lock", "c_stop", "c_tid", "c_join"} => async_init_ok
       /\ pc[t] = "c_join" => joining[t] = tid
       /\ pc[t] = "c_ainit0" => ~async_init_ok
       /\ pc[t] \in TailPcs => \A w \in Workers : pc[w] = "none"

HandlerInv ==
  /\ act_old # "xh"
  /\ act = "dfl" => reset /\ init_ok
  /\ act # "app" => /\ enable /\ inited /\ act_old = "app"
                    /\ init_ok \/ \E t \in Callers : pc[t] = "init_done"
  /\ \A t \in Callers :
       /\ pc[t] = "init_done" /\ enable => act = "xh"
       /\ pc[t] \in {"init_add", "c_iok0"} => act = "app"
  /\ init_ok /\ enable => act # "app" \/ \E t \in Callers : pc[t] = "c_iok0"
  /\ \A t \in Actors : pc[t] = "guard" => jump = t /\ act # "app"

\* What the exclusive use of clear keeps true.
DisciplineInv == ClearAlone /\ InitInv /\ WorkerInv /\ HandlerInv
=============================================================================
