---------------------------- MODULE StacksProof -----------------------------
(* Unwinding from a forked child, and starting threads, for any number of     *)
(* threads and failures: a stack is read only while its thread stands still,  *)
(* no thread is left standing when the child exits, and a thread that is      *)
(* started runs its own routine and is recorded where it was started.         *)
EXTENDS Stacks, TLAPS

-----------------------------------------------------------------------------
(* Unwinding from a forked child *)

\* The part of the type invariant the argument needs.
RemoteShape ==
  /\ run \in [Process -> {"runs", "stopping", "stopped", "gone"}]
  /\ traced \subseteq Process

\* A thread that stands still is traced, so it runs again when the child lets it go or
\* dies.
HeldInv == \A t \in Process : run[t] \in {"stopping", "stopped"} => t \in traced

\* What is attached stands still, until the detaching.
StillInv == cpc \in {"attach", "stop", "print"} =>
              \A t \in attached : t \in traced /\ run[t] \in {"stopped", "gone"}

\* The child never loses sight of a thread it traces: before the attaching there is
\* none, then it is attached or the one that is waited for, then to be detached.
SightInv ==
  /\ hpc = "begin" => cpc = "none"
  /\ cpc \in {"none", "notify", "list"} => attached = {} /\ traced = {}
  /\ cpc = "stop" => \E t \in tids : traced \subseteq attached \cup {t}
  /\ cpc \in {"attach", "print"} => traced \subseteq attached
  /\ cpc = "detach" => traced \subseteq tids
  /\ cpc \in {"exited", "killed"} => traced = {}

RemoteInv == RemoteShape /\ HeldInv /\ StillInv /\ SightInv

-----------------------------------------------------------------------------
\* The initial state satisfies the invariant.
LEMMA RemoteInit == Remote!Init => RemoteInv
BY DEF Remote!Init, RemoteInv, RemoteShape, HeldInv, StillInv, SightInv

\* The steps of the handler change nothing the child relies on.
LEMMA HandlerKeeps == RemoteInv /\ Remote!HandlerNext => RemoteInv'
<1> SUFFICES ASSUME RemoteInv, Remote!HandlerNext PROVE RemoteInv'
  OBVIOUS
<1> USE DEF RemoteInv, RemoteShape, HeldInv, StillInv, SightInv, Remote!HandlerStep
<1>1. CASE Remote!HandlerFails
  BY <1>1 DEF Remote!HandlerFails, Remote!Fault, Remote!childVars
<1>2. CASE Remote!Fork
  BY <1>2 DEF Remote!Fork, Remote!NoFault
<1>3. CASE Remote!CloseWriteEnd
  BY <1>3 DEF Remote!CloseWriteEnd, Remote!NoFault, Remote!childVars
<1>4. CASE Remote!ReadByte
  BY <1>4 DEF Remote!ReadByte, Remote!NoFault, Remote!childVars
<1>5. CASE Remote!WaitChild
  BY <1>5 DEF Remote!WaitChild, Remote!NoFault, Remote!childVars
<1> QED BY <1>1, <1>2, <1>3, <1>4, <1>5 DEF Remote!HandlerNext

\* The steps of the child that are about no single thread.
LEMMA ChildKeeps ==
  ASSUME RemoteInv,
         \/ Remote!Notify \/ Remote!List \/ Remote!ListFails \/ Remote!Attached
         \/ Remote!Printed \/ Remote!Exit \/ Remote!Killed
  PROVE  RemoteInv'
<1> USE DEF RemoteInv, RemoteShape, HeldInv, StillInv, SightInv, Remote!ChildStep
<1>1. CASE Remote!Notify
  BY <1>1 DEF Remote!Notify
<1>2. CASE Remote!List
  BY <1>2 DEF Remote!List
<1>3. CASE Remote!ListFails
  BY <1>3 DEF Remote!ListFails
<1>4. CASE Remote!Attached
  BY <1>4 DEF Remote!Attached
<1>5. CASE Remote!Printed
  BY <1>5 DEF Remote!Printed
<1>6. CASE Remote!Exit
  BY <1>6 DEF Remote!Exit
<1>7. CASE Remote!Killed
  BY <1>7 DEF Remote!Killed, Remote!Released
<1> QED BY <1>1, <1>2, <1>3, <1>4, <1>5, <1>6, <1>7

\* The steps of the child for one thread.
LEMMA ThreadKeeps ==
  ASSUME NEW t \in Process, RemoteInv,
         \/ Remote!Attach(t) \/ Remote!AttachFails(t) \/ Remote!Interrupted(t) \/ Remote!Stopped(t)
         \/ Remote!WaitFails(t) \/ Remote!PrintThread(t) \/ Remote!Detach(t)
  PROVE  RemoteInv'
<1> USE DEF RemoteInv, RemoteShape, HeldInv, StillInv, SightInv, Remote!ChildStep
<1>1. CASE Remote!Attach(t)
  BY <1>1 DEF Remote!Attach
<1>2. CASE Remote!AttachFails(t)
  BY <1>2 DEF Remote!AttachFails
<1>3. CASE Remote!Interrupted(t)
  BY <1>3 DEF Remote!Interrupted, Remote!Stopping
<1>4. CASE Remote!Stopped(t)
  BY <1>4 DEF Remote!Stopped, Remote!Stopping
<1>5. CASE Remote!WaitFails(t)
  BY <1>5 DEF Remote!WaitFails, Remote!Stopping, Remote!Released
<1>6. CASE Remote!PrintThread(t)
  BY <1>6 DEF Remote!PrintThread
<1>7. CASE Remote!Detach(t)
  BY <1>7 DEF Remote!Detach, Remote!Released
<1> QED BY <1>1, <1>2, <1>3, <1>4, <1>5, <1>6, <1>7

\* A thread stops, or ends.
LEMMA KernelKeeps == RemoteInv /\ Remote!KernelNext => RemoteInv'
<1> SUFFICES ASSUME RemoteInv, NEW t \in Process, Remote!Stop(t) \/ Remote!End(t) PROVE RemoteInv'
  BY DEF Remote!KernelNext
<1> USE DEF RemoteInv, RemoteShape, HeldInv, StillInv, SightInv, Remote!childVars
<1>1. CASE Remote!Stop(t)
  BY <1>1 DEF Remote!Stop
<1>2. CASE Remote!End(t)
  BY <1>2 DEF Remote!End
<1> QED BY <1>1, <1>2

\* The invariant is inductive.
LEMMA RemoteKeeps == RemoteInv /\ [Remote!Next]_(Remote!vars) => RemoteInv'
<1> SUFFICES ASSUME RemoteInv, [Remote!Next]_(Remote!vars) PROVE RemoteInv'
  OBVIOUS
<1>1. CASE Remote!HandlerNext
  BY <1>1, HandlerKeeps
<1>2. CASE Remote!ChildNext
  BY <1>2, ChildKeeps, ThreadKeeps DEF Remote!ChildNext
<1>3. CASE Remote!KernelNext
  BY <1>3, KernelKeeps
<1>4. CASE UNCHANGED Remote!vars
  BY <1>4 DEF Remote!vars, Remote!childVars, RemoteInv, RemoteShape, HeldInv, StillInv, SightInv
<1> QED BY <1>1, <1>2, <1>3, <1>4 DEF Remote!Next

-----------------------------------------------------------------------------
(* Starting threads *)

\* What a call of the proxy hands to its thread is its own, once it is allocated.
MemberInv ==
  /\ creator \in [Starts -> {"call", "java", "create", "started", "failed"}]
  /\ member \in [Starts -> [routine : Starts \cup {Nobody}, native : Starts \cup {Nobody},
                            java : Starts \cup {Nobody, "garbage"}]]
  /\ \A s \in Starts :
       /\ creator[s] # "call" => member[s].routine = s /\ member[s].native = s
       /\ creator[s] = "java" => member[s].java = "garbage"
       /\ creator[s] \notin {"call", "java"} =>
            member[s].java = s \/ (member[s].java = "garbage" /\ s \notin InJvm /\ startFaults > 0)

\* A thread runs once its creator has started it.
ThreadInv ==
  /\ startFaults \in Nat
  /\ thread \in [Starts -> {"none", "attach", "record", "put", "routine", "runs"}]
  /\ ran \in [Starts -> Nat]
  /\ \A s \in Starts :
       /\ thread[s] # "none" => creator[s] = "started"
       /\ ran[s] = IF thread[s] = "runs" THEN 1 ELSE 0

\* What the map holds of a thread is its own.
OwnRecord(s, record) ==
  \/ record = Nobody
  \/ /\ record \in [native : Starts, java : Starts \cup {"garbage"}]
     /\ record.native = s
     /\ record.java = s \/ (s \notin InJvm /\ startFaults > 0)

\* The thread in the monitor is the one in put, and has read the map as it is.
MapInv ==
  /\ map \in [Starts -> [native : Starts, java : Starts \cup {"garbage"}] \cup {Nobody}]
  /\ head \in [Starts -> [Starts -> [native : Starts, java : Starts \cup {"garbage"}] \cup {Nobody}]]
  /\ \A s \in Starts :
       /\ thread[s] = "put" => monitor = s /\ head[s] = map
       /\ OwnRecord(s, map[s])
       /\ s \in recorded => map[s] # Nobody

StartInv == MemberInv /\ ThreadInv /\ MapInv

\* At the beginning nothing is started.
LEMMA StartInit == Starting!Init => StartInv
BY StacksAssumption DEF Starting!Init, Starting!Unset, Starting!Empty, StartInv, MemberInv, ThreadInv,
  MapInv, OwnRecord

\* The steps of a call of the proxy.
LEMMA CreatorKeeps ==
  ASSUME StartInv, NEW s \in Starts, Starting!Start(s)
  PROVE  StartInv'
<1> USE StacksAssumption DEF StartInv, MemberInv, ThreadInv, MapInv, OwnRecord, Starting!CreatorStep,
  Starting!ThreadStep, Starting!Fault, Starting!threadVars
<1>1. CASE Starting!Alloc(s)
  BY <1>1 DEF Starting!Alloc
<1>2. CASE Starting!JavaStack(s)
  BY <1>2 DEF Starting!JavaStack
<1>3. CASE Starting!JavaFails(s)
  BY <1>3 DEF Starting!JavaFails
<1>4. CASE Starting!Create(s)
  BY <1>4 DEF Starting!Create
<1>5. CASE Starting!CreateFails(s)
  BY <1>5 DEF Starting!CreateFails
<1> QED BY <1>1, <1>2, <1>3, <1>4, <1>5 DEF Starting!Start

\* The steps of the thread that was started.
LEMMA StartedKeeps ==
  ASSUME StartInv, NEW s \in Starts, Starting!Started(s)
  PROVE  StartInv'
<1> USE StacksAssumption DEF StartInv, MemberInv, ThreadInv, MapInv, OwnRecord, Starting!CreatorStep,
  Starting!ThreadStep, Starting!Fault
<1>1. CASE Starting!Attach(s)
  BY <1>1 DEF Starting!Attach
<1>2. CASE Starting!AttachFails(s)
  BY <1>2 DEF Starting!AttachFails
<1>3. CASE Starting!Put(s)
  BY <1>3 DEF Starting!Put
<1>4. CASE Starting!Linked(s)
  BY <1>4 DEF Starting!Linked
<1>5. CASE Starting!Routine(s)
  BY <1>5 DEF Starting!Routine
<1> QED BY <1>1, <1>2, <1>3, <1>4, <1>5 DEF Starting!Started

\* The invariant is inductive.
LEMMA StartingKeeps == StartInv /\ [Starting!Next]_(Starting!vars) => StartInv'
<1> SUFFICES ASSUME StartInv, [Starting!Next]_(Starting!vars) PROVE StartInv'
  OBVIOUS
<1>1. CASE Starting!Next
  BY <1>1, CreatorKeeps, StartedKeeps DEF Starting!Next
<1>2. CASE UNCHANGED Starting!vars
  BY <1>2 DEF Starting!vars, Starting!threadVars, StartInv, MemberInv, ThreadInv, MapInv, OwnRecord
<1> QED BY <1>1, <1>2

-----------------------------------------------------------------------------
(* Side by side *)

\* A step of the whole is one of each part, or leaves the part as it is.
LEMMA PartSteps ==
  [StacksNext]_stacksVars => [Remote!Next]_(Remote!vars) /\ [Starting!Next]_(Starting!vars)
<1> SUFFICES ASSUME [StacksNext]_stacksVars
             PROVE  [Remote!Next]_(Remote!vars) /\ [Starting!Next]_(Starting!vars)
  OBVIOUS
<1> USE DEF remoteVars, startVars, Remote!vars, Remote!childVars, Starting!vars, Starting!threadVars
<1>1. CASE WalkStep
  BY <1>1 DEF WalkStep
<1>2. CASE HandlerStep \/ ChildStep \/ KernelStep
  BY <1>2 DEF HandlerStep, ChildStep, KernelStep, OfRemote, Remote!Next
<1>3. CASE StartStep
  BY <1>3 DEF StartStep
<1>4. CASE UNCHANGED stacksVars
  BY <1>4 DEF stacksVars
<1> QED BY <1>1, <1>2, <1>3, <1>4 DEF StacksNext

\* A stack is read only while its thread stands still (xu_cfi_print): PrintsStopped
\* for any threads, whatever fails.
THEOREM StacksStandStill == StacksSpec => []PrintsStopped
<1>1. RemoteInv => PrintsStopped
  BY DEF RemoteInv, StillInv, PrintsStopped, Remote!PrintsStopped
<1>2. StacksInit => RemoteInv
  BY RemoteInit DEF StacksInit
<1> QED BY <1>1, <1>2, RemoteKeeps, PartSteps, PTL DEF StacksSpec

\* No thread is left standing when the child exits (xu_util_ptrace_detach):
\* ExitReleases of RemoteUnwind for any threads, whatever fails.
THEOREM NoneLeftStanding == StacksSpec => []Remote!ExitReleases
<1>1. RemoteInv => Remote!ExitReleases
  BY DEF RemoteInv, RemoteShape, HeldInv, SightInv, Remote!ExitReleases
<1>2. StacksInit => RemoteInv
  BY RemoteInit DEF StacksInit
<1> QED BY <1>1, <1>2, RemoteKeeps, PartSteps, PTL DEF StacksSpec

\* Every thread runs its own routine, once, and its record is of where it was started,
\* for any number of starts at the same time (thread_create_proxy, record4Jni).
THEOREM StartsKeptApart == StacksSpec => []OwnStart
<1>1. StartInv => OwnStart
  BY StacksAssumption DEF StartInv, ThreadInv, MapInv, OwnRecord, OwnStart, Starting!OwnStart
<1>2. StacksInit => StartInv
  BY StartInit DEF StacksInit
<1> QED BY <1>1, <1>2, StartingKeeps, PartSteps, PTL DEF StacksSpec
=============================================================================
