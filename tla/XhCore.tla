------------------------------- MODULE XhCore -------------------------------
(***************************************************************************)
(* The concurrency control of xHook (library/src/main/xHook/xh_core.c):    *)
(* application threads calling xh_core_refresh, xh_core_clear and          *)
(* xh_core_enable_sigsegv_protection, the "xh_refresh_loop" thread that    *)
(* serves asynchronous refreshes, the two mutexes and the condition        *)
(* variable between them, and the process-wide SIGSEGV handler that        *)
(* protects a refresh pass.  What a pass does to the ELF files is in       *)
(* XhRefresh; here a pass is a number of guarded accesses to ELF memory.   *)
(*                                                                         *)
(* One action is one access to shared memory that another thread can see.  *)
(* A step that only touches data of a mutex its thread holds is merged     *)
(* with the release of that mutex.  A fault that no handler catches ends   *)
(* the process: it is a behaviour that stops, not an action.  The flag and *)
(* the jump buffer are set in one step.                                    *)
(*                                                                         *)
(* A fault of one thread during another's guarded access takes it into the *)
(* other's stack frames, where both then run.  That is undefined; of its   *)
(* outcomes the model has the one in which each keeps its own locals: the  *)
(* thread goes on with the pass, gives the mutex back and returns into the *)
(* code whose frames it is on.                                             *)
(***************************************************************************)
EXTENDS Naturals, FiniteSets

CONSTANTS
  Callers,        \* application threads that call the API
  Workers,        \* threads pthread_create can hand out to xh_core.c
  NoThread,       \* no thread: an unlocked mutex, an unset pthread_t
  MaxElfs,        \* bound: guarded accesses to ELF memory in one pass
  ExclusiveClear, \* TRUE: callers make no other call while one clears
  EnableAnytime,  \* TRUE: protection is switched after the first refresh too
  Strays          \* threads that may fault outside their own guarded access

ASSUME CallersAssumption ==
  /\ Callers \cap Workers = {}
  /\ NoThread \notin Callers \cup Workers
ASSUME BoundAssumption == MaxElfs \in Nat
ASSUME StraysAssumption == Strays \subseteq Callers \cup Workers
ASSUME SwitchAssumption ==
  /\ ExclusiveClear \in BOOLEAN
  /\ EnableAnytime \in BOOLEAN

VARIABLES
  pc,             \* control point of every thread
  core,           \* holder of xh_core_mutex
  refr,           \* holder of xh_core_refresh_mutex
  inited,         \* xh_core_inited
  init_ok,        \* xh_core_init_ok
  async_inited,   \* xh_core_async_inited
  async_init_ok,  \* xh_core_async_init_ok
  running,        \* xh_core_refresh_thread_running
  do,             \* xh_core_refresh_thread_do
  tid,            \* xh_core_refresh_thread_tid
  enable,         \* xh_core_sigsegv_enable
  jump,           \* the thread whose stack xh_core_sigsegv_env holds while
                  \* xh_core_sigsegv_flag is set, NoThread while it is not
  act,            \* the process's SIGSEGV disposition
  act_old,        \* xh_core_sigsegv_act_old
  reset,          \* SA_RESETHAND as it was when the handler was installed
  frame,          \* the thread whose stack each thread runs on
  left,           \* guarded accesses the thread's pass still has to make
  async,          \* argument of the thread's refresh call
  joining,        \* argument of the thread's pthread_join
  sawInit         \* history: initialisation was complete when the call began

locks    == <<core, refr>>
initVars == <<inited, init_ok, async_inited, async_init_ok>>
workVars == <<running, do, tid>>
segvVars == <<enable, jump, act, act_old, reset, frame>>
callVars == <<left, async, joining, sawInit>>
vars     == <<pc, locks, initVars, workVars, segvVars, callVars>>

Actors == Callers \cup Workers

(* Control points.  Refresh calls run from "init_fast" to "pass", clear    *)
(* from "c_aok" to "c_free", the refresh thread from "w_top" to "w_refr".  *)
CallPcs   == {"init_fast", "init_lock", "init_once", "init_add", "init_done",
              "init_end", "init_check", "async_fast", "async_lock",
              "async_once", "async_create", "async_done", "async_end",
              "async_check", "req_lock", "req_post", "refr_lock", "failed"}
ClearPcs  == {"c_aok", "c_lock", "c_stop", "c_tid", "c_join", "c_aok0",
              "c_ainit0", "c_iok", "c_del", "c_iok0", "c_init0", "c_core",
              "c_refr", "c_free"}
WorkerPcs == {"w_top", "w_lock", "w_check", "w_wait", "w_relock", "w_refr"}
PassPcs   == {"pass", "bare", "guard", "caught"}

\* The control points at which a thread holds xh_core_mutex, and those at
\* which it holds xh_core_refresh_mutex.
CorePcs == {"init_once", "init_add", "init_done", "init_end", "async_once",
            "async_create", "async_done", "async_end", "req_post", "w_check",
            "c_stop", "c_refr", "c_free"}
RefrPcs == PassPcs \cup {"c_free"}

\* The control points of the code a caller and a refresh thread run.
PcsOf(t) == IF t \in Callers THEN CallPcs \cup ClearPcs \cup PassPcs \cup {"idle"}
                             ELSE WorkerPcs \cup PassPcs \cup {"none", "exited"}

PcOK ==
  /\ frame \in [Actors -> Actors]
  /\ pc = [t \in Actors |-> pc[t]]
  /\ \A t \in Actors : pc[t] \in PcsOf(frame[t])

HoldersOK ==
  /\ core \in Actors \cup {NoThread} /\ refr \in Actors \cup {NoThread}
  /\ tid \in Workers \cup {NoThread} /\ jump \in Actors \cup {NoThread}

FlagsOK ==
  /\ inited \in BOOLEAN /\ init_ok \in BOOLEAN
  /\ async_inited \in BOOLEAN /\ async_init_ok \in BOOLEAN
  /\ running \in BOOLEAN /\ do \in BOOLEAN

HandlerOK ==
  /\ enable \in BOOLEAN /\ reset \in BOOLEAN
  /\ act \in {"app", "xh", "dfl"} /\ act_old \in {"app", "xh", "dfl"}

LocalsOK ==
  /\ left \in [Actors -> 0..MaxElfs]
  /\ async \in [Callers -> BOOLEAN]
  /\ joining \in [Callers -> Workers \cup {NoThread}]
  /\ sawInit \in [Callers -> BOOLEAN]

DataOK == HoldersOK /\ FlagsOK /\ HandlerOK /\ LocalsOK

TypeOK == PcOK /\ DataOK

Init ==
  /\ pc = [t \in Actors |-> IF t \in Callers THEN "idle" ELSE "none"]
  /\ core = NoThread /\ refr = NoThread
  /\ inited = FALSE /\ init_ok = FALSE
  /\ async_inited = FALSE /\ async_init_ok = FALSE
  /\ running = FALSE /\ do = FALSE /\ tid = NoThread
  /\ enable = TRUE /\ jump = NoThread
  /\ act = "app" /\ act_old = "dfl" /\ reset = FALSE
  /\ frame = [t \in Actors |-> t]
  /\ left = [t \in Actors |-> 0]
  /\ async = [t \in Callers |-> FALSE]
  /\ joining = [t \in Callers |-> NoThread]
  /\ sawInit = [t \in Callers |-> FALSE]

-----------------------------------------------------------------------------
(* Steps every thread makes. *)

\* The locals of the refresh call t returns from are gone.
LeaveCall(t) ==
  /\ async' = [u \in Callers |-> async[u] /\ u # t]
  /\ sawInit' = [u \in Callers |-> sawInit[u] /\ u # t]

Goto(t, from, to) ==
  /\ pc[t] = from
  /\ pc' = [pc EXCEPT ![t] = to]

\* pthread_mutex_lock(&xh_core_mutex), taken at `from`.
LockCore(t, from, to) ==
  /\ Goto(t, from, to)
  /\ core = NoThread
  /\ core' = t
  /\ UNCHANGED <<refr, initVars, workVars, segvVars, callVars>>

\* The control points a thread waiting for xh_core_mutex goes to.
CoreWaits == {<<"init_lock", "init_once">>, <<"async_lock", "async_once">>,
              <<"req_lock", "req_post">>, <<"w_lock", "w_check">>,
              <<"w_relock", "w_check">>, <<"c_lock", "c_stop">>,
              <<"c_core", "c_refr">>}
AcquireCore(t) == \E w \in CoreWaits : LockCore(t, w[1], w[2])

\* MUTANT: the pass runs without xh_core_refresh_mutex.
AcquireRefrUnlocked(t) ==
  /\ \/ Goto(t, "refr_lock", "pass") /\ left' \in {[left EXCEPT ![t] = n] : n \in 0..MaxElfs}
     \/ Goto(t, "w_refr", "pass") /\ left' \in {[left EXCEPT ![t] = n] : n \in 0..MaxElfs}
     \/ Goto(t, "c_refr", "c_free") /\ UNCHANGED left
  /\ refr' = t
  /\ UNCHANGED <<core, initVars, workVars, segvVars, async, joining, sawInit>>

\* pthread_mutex_lock(&xh_core_refresh_mutex): by a refresh, which then reads
\* /proc/self/maps and finds some number of ELF accesses to make (none when
\* the file cannot be opened), or by clear, which holds xh_core_mutex.
AcquireRefr(t) ==
  /\ refr = NoThread
  /\ refr' = t
  /\ \/ /\ Goto(t, "refr_lock", "pass") \/ Goto(t, "w_refr", "pass")
        /\ \E n \in 0..MaxElfs : left' = [left EXCEPT ![t] = n]
     \/ Goto(t, "c_refr", "c_free") /\ UNCHANGED left
  /\ UNCHANGED <<core, initVars, workVars, segvVars, async, joining, sawInit>>

\* pthread_cond_signal(&xh_core_cond): one waiter of f, if there is any,
\* goes on to take the mutex again.
Signalled(f) ==
  LET waiting == {w \in Actors : f[w] = "w_wait"}
  IN  IF waiting = {} THEN {f} ELSE {[f EXCEPT ![w] = "w_relock"] : w \in waiting}

-----------------------------------------------------------------------------
(* A refresh pass and the SIGSEGV protection of its accesses. *)

\* xh_core_check_elf_header and xh_core_hook: the flag and the jump buffer are
\* set only when protection is on; xh_core_sigsegv_enable is read unlocked.
BeginAccess(t) ==
  /\ left[t] > 0
  /\ IF enable THEN /\ Goto(t, "pass", "guard")
                    /\ jump' = t
               ELSE /\ Goto(t, "pass", "bare")
                    /\ UNCHANGED jump
  /\ UNCHANGED <<locks, initVars, workVars, enable, act, act_old, reset, frame, callVars>>

\* MUTANT: the flag is left alone when protection is off by now.
EndAccessEnabled(t) ==
  /\ left' = [left EXCEPT ![t] = @ - 1]
  /\ \/ Goto(t, "guard", "pass") \/ Goto(t, "caught", "pass")
     \/ Goto(t, "bare", "pass")
  /\ jump' = IF enable THEN NoThread ELSE jump
  /\ UNCHANGED <<locks, initVars, workVars, enable, act, act_old, reset, frame,
                 async, joining, sawInit>>

\* The access returns, or is given up, and the flag is cleared if it was set.
EndAccess(t) ==
  /\ left' = [left EXCEPT ![t] = @ - 1]
  /\ \/ /\ Goto(t, "guard", "pass") \/ Goto(t, "caught", "pass")
        /\ jump' = NoThread
     \/ Goto(t, "bare", "pass") /\ UNCHANGED jump
  /\ UNCHANGED <<locks, initVars, workVars, enable, act, act_old, reset, frame,
                 async, joining, sawInit>>

\* The kernel resets the disposition before it calls a handler that was
\* installed with SA_RESETHAND.
Called == IF reset THEN "dfl" ELSE "xh"

\* xh_core_sigsegv_handler called by a fault of the guarded access itself:
\* with the flag set it jumps to env and the access is given up.
GuardFault(t) ==
  /\ Goto(t, "guard", "caught")
  /\ act = "xh"
  /\ jump = t
  /\ act' = Called
  /\ UNCHANGED <<locks, initVars, workVars, enable, jump, act_old, reset, frame, callVars>>

\* The same handler called by a fault of another thread, in application code or
\* in its own part of a pass.  With the flag set it jumps into the frames of the
\* thread in env, and goes on behind that thread's access; else it puts act_old
\* back and the instruction faults again under that disposition.
ForeignFault(t) ==
  /\ t \in Strays
  /\ pc[t] \in {"idle", "bare", "guard"}
  /\ act = "xh"
  /\ jump # t
  /\ \/ /\ jump # NoThread
        /\ pc' = [pc EXCEPT ![t] = "caught"]
        /\ frame' = [frame EXCEPT ![t] = frame[jump]]
        /\ left' = [left EXCEPT ![t] = left[jump]]
        /\ act' = Called
     \/ /\ jump = NoThread
        /\ act' = act_old
        /\ UNCHANGED <<pc, frame, left>>
  /\ UNCHANGED <<locks, initVars, workVars, enable, jump, act_old, reset,
                 async, joining, sawInit>>

\* The end of xh_core_refresh_impl and the unlock after it, which does not ask
\* who holds the mutex; the thread returns into the code whose frames it is on.
EndPass(t) ==
  /\ left[t] = 0
  /\ Goto(t, "pass", IF frame[t] \in Callers THEN "idle" ELSE "w_top")
  /\ refr' = NoThread
  /\ LeaveCall(t)
  /\ UNCHANGED <<core, initVars, workVars, segvVars, left, joining>>

-----------------------------------------------------------------------------
(* xh_core_refresh. *)

\* No caller is inside a call of the API, apart from those of S.
Quiet(S) == \A u \in Callers \ S : pc[u] = "idle"

\* May t begin a call now?
MayCall(t) == ExclusiveClear => \A u \in Callers \ {t} : pc[u] \notin ClearPcs

\* xh_core_refresh(a) is called.
CallRefresh(t, a) ==
  /\ MayCall(t)
  /\ Goto(t, "idle", "init_fast")
  /\ async' = [async EXCEPT ![t] = a]
  /\ sawInit' = [sawInit EXCEPT ![t] = init_ok /\ (a => async_init_ok)]
  /\ UNCHANGED <<locks, initVars, workVars, segvVars, left, joining>>

\* xh_core_init_once, the unlocked test.
InitFast(t) ==
  /\ Goto(t, "init_fast", IF inited THEN "init_check" ELSE "init_lock")
  /\ UNCHANGED <<locks, initVars, workVars, segvVars, callVars>>

\* MUTANT: the second test, under the mutex, is missing.
InitOnceUntested(t) ==
  /\ Goto(t, "init_once", "init_add")
  /\ inited' = TRUE
  /\ UNCHANGED <<locks, init_ok, async_inited, async_init_ok, workVars, segvVars, callVars>>

\* MUTANT: every thread that gets the mutex initialises again, from the start.
InitOnceRestart(t) ==
  /\ Goto(t, "init_once", "init_add")
  /\ inited' = TRUE
  /\ init_ok' = FALSE
  /\ UNCHANGED <<locks, async_inited, async_init_ok, workVars, segvVars, callVars>>

\* The test under the mutex; inited is set before the work is done.
InitOnce(t) ==
  /\ Goto(t, "init_once", IF inited THEN "init_end" ELSE "init_add")
  /\ inited' = TRUE
  /\ UNCHANGED <<locks, init_ok, async_inited, async_init_ok, workVars, segvVars, callVars>>

\* xh_core_add_sigsegv_handler: nothing to do without protection; sigaction
\* may fail; its struct sigaction is on the stack with sa_flags never set.
InitAdd(t) ==
  /\ \/ /\ ~enable
        /\ Goto(t, "init_add", "init_done")
        /\ UNCHANGED <<act, act_old, reset>>
     \/ /\ enable
        /\ Goto(t, "init_add", "init_done")
        /\ act_old' = act
        /\ act' = "xh"
        /\ reset' \in BOOLEAN
     \/ /\ enable
        /\ Goto(t, "init_add", "init_end")
        /\ UNCHANGED <<act, act_old, reset>>
  /\ UNCHANGED <<locks, initVars, workVars, enable, jump, frame, callVars>>

InitDone(t) ==
  /\ Goto(t, "init_done", "init_end")
  /\ init_ok' = TRUE
  /\ UNCHANGED <<locks, inited, async_inited, async_init_ok, workVars, segvVars, callVars>>

InitEnd(t) ==
  /\ Goto(t, "init_end", "init_check")
  /\ core' = NoThread
  /\ UNCHANGED <<refr, initVars, workVars, segvVars, callVars>>

\* if(!xh_core_init_ok) return XH_ERRNO_UNKNOWN
InitCheck(t) ==
  /\ Goto(t, "init_check", IF ~init_ok THEN "failed"
                           ELSE IF async[t] THEN "async_fast" ELSE "refr_lock")
  /\ UNCHANGED <<locks, initVars, workVars, segvVars, callVars>>

\* xh_core_init_async_once, the unlocked test.
AsyncFast(t) ==
  /\ Goto(t, "async_fast", IF async_inited THEN "async_check" ELSE "async_lock")
  /\ UNCHANGED <<locks, initVars, workVars, segvVars, callVars>>

\* MUTANT: the second test, under the mutex, is missing.
AsyncOnceUntested(t) ==
  /\ Goto(t, "async_once", "async_create")
  /\ async_inited' = TRUE
  /\ running' = TRUE
  /\ UNCHANGED <<locks, inited, init_ok, async_init_ok, do, tid, segvVars, callVars>>

\* The test under the mutex; both flags are set before the thread exists.
AsyncOnce(t) ==
  /\ Goto(t, "async_once", IF async_inited THEN "async_end" ELSE "async_create")
  /\ async_inited' = TRUE
  /\ running' = IF async_inited THEN running ELSE TRUE
  /\ UNCHANGED <<locks, inited, init_ok, async_init_ok, do, tid, segvVars, callVars>>

\* pthread_create succeeds with some thread that does not exist yet, or fails.
AsyncCreate(t) ==
  /\ \/ \E w \in Workers :
          /\ pc[t] = "async_create"
          /\ pc[w] = "none"
          /\ pc' = [pc EXCEPT ![t] = "async_done", ![w] = "w_top"]
          /\ tid' = w
          /\ UNCHANGED running
     \/ /\ Goto(t, "async_create", "async_end")
        /\ running' = FALSE
        /\ UNCHANGED tid
  /\ UNCHANGED <<locks, initVars, do, segvVars, callVars>>

AsyncDone(t) ==
  /\ Goto(t, "async_done", "async_end")
  /\ async_init_ok' = TRUE
  /\ UNCHANGED <<locks, inited, init_ok, async_inited, workVars, segvVars, callVars>>

AsyncEnd(t) ==
  /\ Goto(t, "async_end", "async_check")
  /\ core' = NoThread
  /\ UNCHANGED <<refr, initVars, workVars, segvVars, callVars>>

\* if(!xh_core_async_init_ok) return XH_ERRNO_UNKNOWN
AsyncCheck(t) ==
  /\ Goto(t, "async_check", IF async_init_ok THEN "req_lock" ELSE "failed")
  /\ UNCHANGED <<locks, initVars, workVars, segvVars, callVars>>

\* MUTANT: the request is posted without waking the refresh thread.
ReqPostSilent(t) ==
  /\ Goto(t, "req_post", "idle")
  /\ do' = TRUE
  /\ core' = NoThread
  /\ LeaveCall(t)
  /\ UNCHANGED <<refr, initVars, running, tid, segvVars, left, joining>>

\* The request, the signal and the unlock of an asynchronous refresh.
ReqPost(t) ==
  /\ pc[t] = "req_post"
  /\ pc' \in Signalled([pc EXCEPT ![t] = "idle"])
  /\ do' = TRUE
  /\ core' = NoThread
  /\ LeaveCall(t)
  /\ UNCHANGED <<refr, initVars, running, tid, segvVars, left, joining>>

\* The call returns XH_ERRNO_UNKNOWN.
ReturnFailed(t) ==
  /\ Goto(t, "failed", "idle")
  /\ LeaveCall(t)
  /\ UNCHANGED <<locks, initVars, workVars, segvVars, left, joining>>

Refresh(t) ==
  \/ InitFast(t) \/ InitOnce(t) \/ InitAdd(t) \/ InitDone(t) \/ InitEnd(t)
  \/ InitCheck(t) \/ AsyncFast(t) \/ AsyncOnce(t) \/ AsyncCreate(t)
  \/ AsyncDone(t) \/ AsyncEnd(t) \/ AsyncCheck(t) \/ ReqPost(t)
  \/ ReturnFailed(t)

-----------------------------------------------------------------------------
(* xh_core_refresh_thread_func. *)

\* The unlocked test of the loop.
WorkerTop(w) ==
  /\ Goto(w, "w_top", IF running THEN "w_lock" ELSE "exited")
  /\ UNCHANGED <<locks, initVars, workVars, segvVars, callVars>>

\* With the mutex held: leave, take the request, or wait for one.  Each way
\* gives the mutex up.
WorkerCheck(w) ==
  /\ \/ ~running /\ Goto(w, "w_check", "exited") /\ UNCHANGED do
     \/ running /\ do /\ Goto(w, "w_check", "w_refr") /\ do' = FALSE
     \/ running /\ ~do /\ Goto(w, "w_check", "w_wait") /\ UNCHANGED do
  /\ core' = NoThread
  /\ UNCHANGED <<refr, initVars, running, tid, segvVars, callVars>>

\* pthread_cond_wait may return without a signal.
WorkerWake(w) ==
  /\ Goto(w, "w_wait", "w_relock")
  /\ UNCHANGED <<locks, initVars, workVars, segvVars, callVars>>

Worker(w) == WorkerTop(w) \/ WorkerCheck(w)

-----------------------------------------------------------------------------
(* xh_core_clear. *)

CallClear(t) ==
  /\ MayCall(t)
  /\ ExclusiveClear => Quiet({t})
  /\ Goto(t, "idle", "c_aok")
  /\ UNCHANGED <<locks, initVars, workVars, segvVars, callVars>>

ClearAok(t) ==
  /\ Goto(t, "c_aok", IF async_init_ok THEN "c_lock" ELSE "c_ainit0")
  /\ UNCHANGED <<locks, initVars, workVars, segvVars, callVars>>

\* MUTANT: the refresh thread is told to stop but not woken.
ClearStopSilent(t) ==
  /\ Goto(t, "c_stop", "c_tid")
  /\ running' = FALSE
  /\ core' = NoThread
  /\ UNCHANGED <<refr, initVars, do, tid, segvVars, callVars>>

\* The stop request, the signal and the unlock.
ClearStop(t) ==
  /\ pc[t] = "c_stop"
  /\ pc' \in Signalled([pc EXCEPT ![t] = "c_tid"])
  /\ running' = FALSE
  /\ core' = NoThread
  /\ UNCHANGED <<refr, initVars, do, tid, segvVars, callVars>>

\* The argument of pthread_join is read, unlocked.
ClearTid(t) ==
  /\ Goto(t, "c_tid", "c_join")
  /\ joining' = [joining EXCEPT ![t] = tid]
  /\ UNCHANGED <<locks, initVars, workVars, segvVars, left, async, sawInit>>

\* MUTANT: clear goes on without waiting for the refresh thread.
ClearJoinSkipped(t) ==
  /\ Goto(t, "c_join", "c_aok0")
  /\ joining' = [joining EXCEPT ![t] = NoThread]
  /\ UNCHANGED <<locks, initVars, workVars, segvVars, left, async, sawInit>>

\* pthread_join: waits until the thread has left its function, and frees it;
\* of a thread that is joined already it returns at once.
ClearJoin(t) ==
  /\ pc[t] = "c_join"
  /\ \E w \in Workers :
       /\ w = joining[t]
       /\ pc[w] \in {"exited", "none"}
       /\ pc' = [pc EXCEPT ![t] = "c_aok0", ![w] = "none"]
  /\ joining' = [joining EXCEPT ![t] = NoThread]
  /\ UNCHANGED <<locks, initVars, workVars, segvVars, left, async, sawInit>>

ClearAok0(t) ==
  /\ Goto(t, "c_aok0", "c_ainit0")
  /\ async_init_ok' = FALSE
  /\ UNCHANGED <<locks, inited, init_ok, async_inited, workVars, segvVars, callVars>>

ClearAinit0(t) ==
  /\ Goto(t, "c_ainit0", "c_iok")
  /\ async_inited' = FALSE
  /\ UNCHANGED <<locks, inited, init_ok, async_init_ok, workVars, segvVars, callVars>>

ClearIok(t) ==
  /\ Goto(t, "c_iok", IF init_ok THEN "c_del" ELSE "c_init0")
  /\ UNCHANGED <<locks, initVars, workVars, segvVars, callVars>>

\* xh_core_del_sigsegv_handler: does nothing when protection is off by now.
ClearDel(t) ==
  /\ Goto(t, "c_del", "c_iok0")
  /\ act' = IF enable THEN act_old ELSE act
  /\ UNCHANGED <<locks, initVars, workVars, enable, jump, act_old, reset, frame, callVars>>

ClearIok0(t) ==
  /\ Goto(t, "c_iok0", "c_init0")
  /\ init_ok' = FALSE
  /\ UNCHANGED <<locks, inited, async_inited, async_init_ok, workVars, segvVars, callVars>>

ClearInit0(t) ==
  /\ Goto(t, "c_init0", "c_core")
  /\ inited' = FALSE
  /\ UNCHANGED <<locks, init_ok, async_inited, async_init_ok, workVars, segvVars, callVars>>

\* The three lists are freed and both mutexes given back.
ClearFree(t) ==
  /\ Goto(t, "c_free", "idle")
  /\ core' = NoThread /\ refr' = NoThread
  /\ UNCHANGED <<initVars, workVars, segvVars, callVars>>

Clear(t) ==
  \/ ClearAok(t) \/ ClearStop(t) \/ ClearTid(t) \/ ClearJoin(t)
  \/ ClearAok0(t) \/ ClearAinit0(t) \/ ClearIok(t) \/ ClearDel(t)
  \/ ClearIok0(t) \/ ClearInit0(t) \/ ClearFree(t)

\* xh_core_enable_sigsegv_protection.
Enable(t, f) ==
  /\ pc[t] = "idle"
  /\ EnableAnytime \/ (Quiet({}) /\ ~inited)
  /\ enable' = f
  /\ UNCHANGED <<pc, locks, initVars, workVars, jump, act, act_old, reset, frame, callVars>>

-----------------------------------------------------------------------------

\* The steps of a thread that is inside the library and not waiting for a mutex.
Work(t) ==
  \/ BeginAccess(t) \/ EndAccess(t) \/ EndPass(t)
  \/ t \in Callers /\ (Refresh(t) \/ Clear(t))
  \/ Worker(t)

Acquire(t) == AcquireCore(t) \/ AcquireRefr(t)

Next ==
  \/ \E t \in Actors :
       Work(t) \/ Acquire(t) \/ WorkerWake(t) \/ GuardFault(t) \/ ForeignFault(t)
  \/ \E t \in Callers :
       \/ \E a \in BOOLEAN : CallRefresh(t, a)
       \/ CallClear(t)
       \/ \E f \in BOOLEAN : Enable(t, f)

Spec == Init /\ [][Next]_vars

\* A thread inside the library is scheduled again, and a mutex that is given
\* back again and again is granted to each thread that waits for it.  Calls,
\* faults and spurious wake-ups need never happen.
FairSpec ==
  /\ Spec
  /\ \A t \in Actors : WF_vars(Work(t)) /\ SF_vars(Acquire(t))

-----------------------------------------------------------------------------
(* Properties. *)

\* No two threads run on one stack: no fault has met another thread's access.
OwnStacks == \A t, u \in Actors : frame[t] = frame[u] => t = u

\* As long as no fault of one thread has landed in the pass of another, the map
\* tree, the hook list and the ignore list are used by one thread at a time: no
\* clear frees a node a pass is looking at, and no two passes share the jump
\* buffer and the tree (refresh_impl and the end of clear).  A fault that lands
\* there does break it: the thread it takes along has not taken the mutex.
RefreshExclusive ==
  OwnStacks =>
    \A t, u \in Actors : pc[t] \in RefrPcs /\ pc[u] \in RefrPcs => t = u

\* The handler jumps into live frames only: a thread that faults outside its own
\* guarded access is taken onto the stack of one that is inside of it now, and
\* never into a call of check_elf_header or xh_core_hook that has returned,
\* whatever clears, faults and changes of the protection came before.
JumpsLandInAccess ==
  [][\A t \in Actors : frame'[t] # frame[t] =>
       \E u \in Actors \ {t} : frame[u] = frame'[t] /\ pc[u] \in {"guard", "caught"}]_vars

\* An access made under protection finds the jump buffer its own and the handler
\* installed, so a fault in it ends the access and not the process: clear does not
\* take the handler away from the refresh thread or from a caller.  Only when
\* sa_flags came out with SA_RESETHAND is it gone, and then by a fault.
HandlerGuardsPass ==
  \A t \in Actors :
    pc[t] = "guard" => jump = t /\ (act = "xh" \/ (reset /\ act = "dfl"))

\* After clear the application has its own SIGSEGV disposition back, the saved
\* one is never the library's own (a handler that reinstalls itself loops on the
\* first fault), and no refresh thread is left.
ClearRestores ==
  /\ act_old # "xh"
  /\ Quiet({}) /\ ~inited => act = "app" /\ \A w \in Workers : pc[w] = "none"

\* There is never more than one refresh thread, and the tid that clear will
\* join is that thread's (init_async_once against clear).
OneWorker ==
  \A w \in Workers : pc[w] # "none" => tid = w

\* A refresh that begins after the initialisation it needs has completed does
\* not fail: XH_ERRNO_UNKNOWN means a failed or unfinished initialisation.
FailsOnlyBeforeInit == \A t \in Callers : pc[t] = "failed" => ~sawInit[t]

\* Every call returns: no refresh and no clear, which waits for the refresh
\* thread and takes both mutexes, waits for ever.
EveryCallReturns == \A t \in Callers : pc[t] # "idle" ~> pc[t] = "idle"

\* A posted asynchronous refresh is taken up by the refresh thread, unless a
\* clear stops that thread first, and a pass begins after it is taken up: a
\* request posted during a pass gets a pass of its own.
RequestServed ==
  /\ do /\ running ~> (\E w \in Workers : pc[w] = "w_refr") \/ ~running
  /\ \A w \in Workers : pc[w] = "w_refr" ~> pc[w] = "pass"
=============================================================================
