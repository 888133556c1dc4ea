------------------------------- MODULE Stacks -------------------------------
(* What the library does with stacks, side by side: a behaviour is one of     *)
(* threads that walk their own, of an unwinding from a forked child, or of    *)
(* threads that are started; the rest stays as it begins.                     *)
EXTENDS XuFp

CONSTANTS
  Process,      \* threads of the process that is unwound from a child
  Handler,      \* the one that runs the signal handler
  RemoteFaults, \* bound: failures there
  Starts,       \* calls of pthread_create
  InJvm,        \* those by threads the JVM knows
  StartFaults   \* bound: failures there

VARIABLES
  part,
  hpc, parentEnd, childEnd, byte, cpc, all, tids, attached, run, traced, holder, faults,
  creator, member, thread, monitor, map, head, recorded, ran, startFaults

Remote == INSTANCE RemoteUnwind WITH Threads <- Process, MaxFaults <- RemoteFaults
Starting == INSTANCE ThreadStarts WITH Attached <- InJvm, MaxFaults <- StartFaults

\* NULL is neither a call nor what the map keeps of a thread.
ASSUME StacksAssumption ==
  /\ Handler \in Process
  /\ InJvm \subseteq Starts /\ Nobody \notin Starts
  /\ Nobody \notin [native : Starts, java : Starts \cup {"garbage"}]
  /\ RemoteFaults \in Nat /\ StartFaults \in Nat

remoteVars == <<hpc, parentEnd, childEnd, byte, cpc, all, tids, attached, run, traced, holder, faults>>
startVars == <<creator, member, thread, monitor, map, head, recorded, ran, startFaults>>
stacksVars == <<part, vars, remoteVars, startVars>>

StacksInit == /\ \/ part = "walk" /\ Init
                 \/ part \in {"remote", "start"} /\ InitWith(CHOOSE m \in Memories : TRUE)
              /\ Remote!Init
              /\ Starting!Init

WalkStep == part = "walk" /\ Next /\ UNCHANGED <<part, remoteVars, startVars>>

OfRemote == part = "remote" /\ UNCHANGED <<part, vars, startVars>>
HandlerStep == Remote!HandlerNext /\ OfRemote
ChildStep == Remote!ChildNext /\ OfRemote
KernelStep == Remote!KernelNext /\ OfRemote
StopStep(t) == Remote!Stop(t) /\ OfRemote

StartStep == part = "start" /\ Starting!Next /\ UNCHANGED <<part, vars, remoteVars>>

StacksNext == WalkStep \/ HandlerStep \/ ChildStep \/ KernelStep \/ StartStep

\* The fairness of RemoteUnwind.
StacksFairness == /\ WF_stacksVars(HandlerStep) /\ WF_stacksVars(ChildStep)
                  /\ \A t \in Process : WF_stacksVars(StopStep(t))

StacksSpec == StacksInit /\ [][StacksNext]_stacksVars /\ StacksFairness

-----------------------------------------------------------------------------
\* PrintsStopped of RemoteUnwind: a stack is read only while its thread stands still
\* (xu_cfi_print).
PrintsStopped == Remote!PrintsStopped

\* HandlerReturns of RemoteUnwind: the SIGABRT handler returns, whatever fails.
HandlerReturns == part = "remote" => Remote!HandlerReturns

\* OwnStart of ThreadStarts: every thread runs its own routine, and its record is of
\* where it was started (thread_create_proxy).
OwnStart == Starting!OwnStart
=============================================================================
