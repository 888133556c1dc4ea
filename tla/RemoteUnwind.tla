---------------------------- MODULE RemoteUnwind ----------------------------
(* Unwinding a process from a forked child: the SIGABRT handler of uwind.h    *)
(* forks, the child stops threads of its parent with ptrace, prints their     *)
(* stacks and lets them go (xu_cfi_print, xu_util.c), and the handler waits.  *)
EXTENDS Naturals, Sequences, FiniteSets

CONSTANTS
  Threads,    \* threads of the process
  Handler,    \* the one of them that runs the signal handler
  Nobody,     \* none of them
  MaxFaults   \* bound: system calls that fail or are interrupted, and deaths

VARIABLES
  hpc,        \* where the handler is
  parentEnd,  \* the write end of the pipe is open in the parent,
  childEnd,   \* ... in the child
  byte,       \* a byte is in the pipe
  cpc,        \* where the child is
  all,        \* all threads are asked for, or only the handler's
  tids,       \* the threads that are still to be looked at in this turn
  attached,   \* the threads whose attach succeeded
  run,        \* what each thread is: "runs", "stopping", "stopped" or "gone"
  traced,     \* the threads the child traces
  holder,     \* the thread that held a lock of libc, the linker or the log at the fork
  faults

childVars == <<cpc, all, tids, attached>>
vars == <<hpc, parentEnd, childEnd, byte, childVars, run, traced, holder, faults>>

Fault == faults < MaxFaults /\ faults' = faults + 1
NoFault == UNCHANGED faults

\* A stopped thread does nothing.
HandlerStep(from, to) == run[Handler] \in {"runs", "stopping"} /\ hpc = from /\ hpc' = to
ChildStep(from, to) == cpc = from /\ cpc' = to

-----------------------------------------------------------------------------
(* The handler (sample_sigabrt_handler) *)

\* pipe fails, or fork does after it.
HandlerFails ==
  /\ HandlerStep("begin", "returned")
  /\ Fault
  /\ UNCHANGED <<parentEnd, childEnd, byte, childVars, run, traced, holder>>

\* Any other thread may hold a lock: the child has a copy that nobody releases.
Fork ==
  /\ HandlerStep("begin", "close")
  /\ parentEnd' = TRUE /\ childEnd' = TRUE
  /\ cpc' = "notify"
  /\ all' \in BOOLEAN
  /\ holder' \in (Threads \ {Handler}) \cup {Nobody}
  /\ NoFault
  /\ UNCHANGED <<byte, tids, attached, run, traced>>

\* Mutant: the parent keeps the write end.
KeepWriteEnd ==
  /\ HandlerStep("close", "read")
  /\ NoFault
  /\ UNCHANGED <<parentEnd, childEnd, byte, childVars, run, traced, holder>>

CloseWriteEnd ==
  /\ HandlerStep("close", "read")
  /\ parentEnd' = FALSE
  /\ NoFault
  /\ UNCHANGED <<childEnd, byte, childVars, run, traced, holder>>

\* read returns with the byte, or when no write end is open.
ReadByte ==
  /\ byte \/ (~parentEnd /\ ~childEnd)
  /\ HandlerStep("read", "wait")
  /\ NoFault
  /\ UNCHANGED <<parentEnd, childEnd, byte, childVars, run, traced, holder>>

\* waitpid, again after a signal.
WaitChild ==
  /\ cpc \in {"exited", "killed"}
  /\ HandlerStep("wait", "returned")
  /\ NoFault
  /\ UNCHANGED <<parentEnd, childEnd, byte, childVars, run, traced, holder>>

-----------------------------------------------------------------------------
(* The child *)

Notify ==
  /\ ChildStep("notify", "list")
  /\ byte' = TRUE
  /\ NoFault
  /\ UNCHANGED <<hpc, parentEnd, childEnd, all, tids, attached, run, traced, holder>>

\* xu_cfi_print: /proc/pid/task, or the thread that was asked for. What allocates or
\* logs waits for a lock that was held at the fork.
List ==
  /\ holder = Nobody
  /\ ChildStep("list", "attach")
  /\ tids' = IF all THEN {t \in Threads : run[t] # "gone"} ELSE {Handler}
  /\ NoFault
  /\ UNCHANGED <<hpc, parentEnd, childEnd, byte, all, attached, run, traced, holder>>

\* The threads cannot be listed: nothing is printed.
ListFails ==
  /\ holder = Nobody /\ all
  /\ ChildStep("list", "exited")
  /\ Fault
  /\ childEnd' = FALSE
  /\ UNCHANGED <<hpc, parentEnd, byte, all, tids, attached, run, traced, holder>>

\* xu_util_ptrace_attach: PTRACE_ATTACH
Attach(t) ==
  /\ t \in tids
  /\ run[t] = "runs"
  /\ ChildStep("attach", "stop")
  /\ tids' = {t} \cup tids
  /\ traced' = traced \cup {t}
  /\ run' = [run EXCEPT ![t] = "stopping"]
  /\ NoFault
  /\ UNCHANGED <<hpc, parentEnd, childEnd, byte, all, attached, holder>>

\* It fails for a thread that is gone, or may not be traced.
AttachFails(t) ==
  /\ t \in tids
  /\ ChildStep("attach", "attach")
  /\ tids' = tids \ {t}
  /\ IF run[t] = "gone" THEN NoFault ELSE Fault
  /\ UNCHANGED <<hpc, parentEnd, childEnd, byte, all, attached, run, traced, holder>>

\* The thread that was attached to last.
Stopping == (traced \ attached) \cap tids

\* Mutant: a signal ends the wait, the thread counts as attached.
InterruptedStops(t) ==
  /\ t \in Stopping
  /\ ChildStep("stop", "attach")
  /\ Fault
  /\ attached' = attached \cup {t} /\ tids' = tids \ {t}
  /\ UNCHANGED <<hpc, parentEnd, childEnd, byte, all, run, traced, holder>>

\* waitpid is called again after a signal.
Interrupted(t) ==
  /\ t \in Stopping
  /\ ChildStep("stop", "stop")
  /\ Fault
  /\ UNCHANGED <<hpc, parentEnd, childEnd, byte, all, tids, attached, run, traced, holder>>

\* waitpid tells that the thread has stopped, or that it has ended.
Stopped(t) ==
  /\ t \in Stopping
  /\ run[t] \in {"stopped", "gone"}
  /\ ChildStep("stop", "attach")
  /\ attached' = attached \cup {t} /\ tids' = tids \ {t}
  /\ NoFault
  /\ UNCHANGED <<hpc, parentEnd, childEnd, byte, all, run, traced, holder>>

\* A thread that the child no longer traces runs again.
Released(ts) == run' = [t \in Threads |-> IF t \in ts /\ run[t] # "gone" THEN "runs" ELSE run[t]]

\* waitpid fails: the thread is let go.
WaitFails(t) ==
  /\ t \in Stopping
  /\ ChildStep("stop", "attach")
  /\ Fault
  /\ tids' = tids \ {t}
  /\ traced' = traced \ {t}
  /\ Released({t})
  /\ UNCHANGED <<hpc, parentEnd, childEnd, byte, all, attached, holder>>

\* All were tried; one that was asked for alone must be attached.
Attached ==
  /\ tids = {}
  /\ ChildStep("attach", IF all \/ attached # {} THEN "print" ELSE "exited")
  /\ tids' = attached
  /\ childEnd' = IF cpc' = "exited" THEN FALSE ELSE childEnd
  /\ NoFault
  /\ UNCHANGED <<hpc, parentEnd, byte, all, attached, run, traced, holder>>

\* xu_cfi_thread
PrintThread(t) ==
  /\ t \in tids
  /\ ChildStep("print", "print")
  /\ tids' = tids \ {t}
  /\ NoFault
  /\ UNCHANGED <<hpc, parentEnd, childEnd, byte, all, attached, run, traced, holder>>

Printed ==
  /\ tids = {}
  /\ ChildStep("print", "detach")
  /\ tids' = attached
  /\ NoFault
  /\ UNCHANGED <<hpc, parentEnd, childEnd, byte, all, attached, run, traced, holder>>

Detach(t) ==
  /\ t \in tids
  /\ ChildStep("detach", "detach")
  /\ tids' = tids \ {t}
  /\ traced' = traced \ {t}
  /\ Released({t})
  /\ NoFault
  /\ UNCHANGED <<hpc, parentEnd, childEnd, byte, all, attached, holder>>

Exit ==
  /\ tids = {}
  /\ ChildStep("detach", "exited")
  /\ childEnd' = FALSE
  /\ NoFault
  /\ UNCHANGED <<hpc, parentEnd, byte, all, tids, attached, run, traced, holder>>

\* The unwinder crashes on what it reads: the kernel lets its tracees go.
Killed ==
  /\ cpc \in {"notify", "list", "attach", "stop", "print", "detach"}
  /\ cpc' = "killed"
  /\ Fault
  /\ childEnd' = FALSE
  /\ traced' = {}
  /\ Released(traced)
  /\ UNCHANGED <<hpc, parentEnd, byte, all, tids, attached, holder>>

-----------------------------------------------------------------------------
(* The kernel stops an attached thread, and other threads end. *)

Stop(t) ==
  /\ run[t] = "stopping"
  /\ run' = [run EXCEPT ![t] = "stopped"]
  /\ NoFault
  /\ UNCHANGED <<hpc, parentEnd, childEnd, byte, childVars, traced, holder>>

End(t) ==
  /\ t # Handler
  /\ run[t] \in {"runs", "stopping"}
  /\ run' = [run EXCEPT ![t] = "gone"]
  /\ NoFault
  /\ UNCHANGED <<hpc, parentEnd, childEnd, byte, childVars, traced, holder>>

-----------------------------------------------------------------------------
Init ==
  /\ hpc = "begin"
  /\ parentEnd = FALSE /\ childEnd = FALSE /\ byte = FALSE
  /\ cpc = "none"
  /\ all = FALSE
  /\ tids = {} /\ attached = {} /\ traced = {}
  /\ run = [t \in Threads |-> "runs"]
  /\ holder = Nobody
  /\ faults = 0

HandlerNext == HandlerFails \/ Fork \/ CloseWriteEnd \/ ReadByte \/ WaitChild
ChildNext == \/ Notify \/ List \/ ListFails \/ Attached \/ Printed \/ Exit \/ Killed
             \/ \E t \in Threads : \/ Attach(t) \/ AttachFails(t) \/ Interrupted(t) \/ Stopped(t)
                                   \/ WaitFails(t) \/ PrintThread(t) \/ Detach(t)
KernelNext == \E t \in Threads : Stop(t) \/ End(t)

Next == HandlerNext \/ ChildNext \/ KernelNext

\* The kernel schedules the handler's thread and the child, and stops a thread.
Fairness == WF_vars(HandlerNext) /\ WF_vars(ChildNext) /\ \A t \in Threads : WF_vars(Stop(t))

Spec == Init /\ [][Next]_vars /\ Fairness

-----------------------------------------------------------------------------
\* Type invariant.
TypeOK ==
  /\ hpc \in {"begin", "close", "read", "wait", "returned"}
  /\ cpc \in {"none", "notify", "list", "attach", "stop", "print", "detach", "exited", "killed"}
  /\ parentEnd \in BOOLEAN /\ childEnd \in BOOLEAN /\ byte \in BOOLEAN /\ all \in BOOLEAN
  /\ tids \subseteq Threads /\ attached \subseteq Threads /\ traced \subseteq Threads
  /\ run \in [Threads -> {"runs", "stopping", "stopped", "gone"}]
  /\ holder \in Threads \cup {Nobody}
  /\ faults \in 0..MaxFaults

\* The stack of a thread is only read while the thread cannot run, and no thread is
\* let go before all are printed (xu_cfi_print, xu_util_ptrace_attach).
PrintsStopped == cpc = "print" => \A t \in attached : t \in traced /\ run[t] \in {"stopped", "gone"}

\* When the child exits it has let every thread go that it ever attached to, the ones
\* whose attach failed half-way too (xu_cfi_print, xu_util_ptrace_detach).
ExitReleases == cpc = "exited" => traced = {} /\ \A t \in Threads : run[t] \in {"runs", "gone"}

\* The handler returns, whatever fails and wherever the child dies, unless a lock was
\* held at the fork: then the child waits for it forever.
HandlerReturns == <>(hpc = "returned" \/ holder # Nobody)
=============================================================================
