---------------------------- MODULE ThreadStarts ----------------------------
(* The pthread_create proxy (HookThreadProxy.h) and the map it keeps in Java  *)
(* of where every thread was started (Thread4StartStack.java). Creators call  *)
(* the proxy at the same time, and the threads they start record the stacks   *)
(* of their creators. A stack is named by the call of the proxy it is of.     *)
EXTENDS Naturals

CONSTANTS
  Starts,     \* calls of pthread_create, each by a thread of its own
  Attached,   \* the calls by threads the JVM knows
  Nobody,
  MaxFaults   \* bound: failures of AttachCurrentThread and pthread_create

VARIABLES
  creator,    \* where each call of the proxy is
  member,     \* what it hands to the thread (ThreadCall_Args)
  thread,     \* where each started thread is
  monitor,    \* the thread in synchronized (STACK_MAP)
  map,        \* STACK_MAP: the stacks of each thread, or Nobody
  head,       \* the map as put has read it
  recorded,   \* history: the threads whose put has returned
  ran,        \* history: how often the routine of each call has run
  startFaults

threadVars == <<thread, monitor, map, head, recorded, ran>>
vars == <<creator, member, threadVars, startFaults>>

CreatorStep(s, from, to) == creator[s] = from /\ creator' = [creator EXCEPT ![s] = to]
ThreadStep(s, from, to) == thread[s] = from /\ thread' = [thread EXCEPT ![s] = to]
Fault == startFaults < MaxFaults /\ startFaults' = startFaults + 1

-----------------------------------------------------------------------------
(* thread_create_proxy *)

\* Mutant: the arguments of all threads are in one place.
AllocShared(s) ==
  /\ CreatorStep(s, "call", "java")
  /\ member' = [x \in Starts |-> [routine |-> s, native |-> s, java |-> "garbage"]]
  /\ UNCHANGED <<threadVars, startFaults>>

\* The native stack is taken, and the arguments are put in memory of the call's own;
\* js_stacktrace is not set.
Alloc(s) ==
  /\ CreatorStep(s, "call", "java")
  /\ member' = [member EXCEPT ![s] = [routine |-> s, native |-> s, java |-> "garbage"]]
  /\ UNCHANGED <<threadVars, startFaults>>

\* The Java stack; a thread the JVM does not know is attached for it, and detached.
JavaStack(s) ==
  /\ CreatorStep(s, "java", "create")
  /\ member' = [member EXCEPT ![s].java = s]
  /\ UNCHANGED <<threadVars, startFaults>>

JavaFails(s) ==
  /\ s \notin Attached
  /\ CreatorStep(s, "java", "create")
  /\ Fault
  /\ UNCHANGED <<member, threadVars>>

\* thread_create_original starts the thread, or fails.
Create(s) ==
  /\ CreatorStep(s, "create", "started")
  /\ ThreadStep(s, "none", "attach")
  /\ UNCHANGED <<member, monitor, map, head, recorded, ran, startFaults>>

CreateFails(s) ==
  /\ CreatorStep(s, "create", "failed")
  /\ Fault
  /\ UNCHANGED <<member, threadVars>>

-----------------------------------------------------------------------------
(* thread_call and record4Jni *)

\* The new thread attaches itself for the call of record4Jni, or cannot.
Attach(s) ==
  /\ ThreadStep(s, "attach", "record")
  /\ UNCHANGED <<creator, member, monitor, map, head, recorded, ran, startFaults>>

AttachFails(s) ==
  /\ ThreadStep(s, "attach", "routine")
  /\ Fault
  /\ UNCHANGED <<creator, member, monitor, map, head, recorded, ran>>

\* Mutant: put without synchronized.
PutUnlocked(s) ==
  /\ ThreadStep(s, "record", "put")
  /\ monitor' = s
  /\ head' = [head EXCEPT ![s] = map]
  /\ UNCHANGED <<creator, member, map, recorded, ran, startFaults>>

\* synchronized (STACK_MAP): WeakHashMap.put reads the entries that are there ...
Put(s) ==
  /\ monitor = Nobody
  /\ ThreadStep(s, "record", "put")
  /\ monitor' = s
  /\ head' = [head EXCEPT ![s] = map]
  /\ UNCHANGED <<creator, member, map, recorded, ran, startFaults>>

\* ... and links a new one in front of them.
Linked(s) ==
  /\ ThreadStep(s, "put", "routine")
  /\ map' = [head[s] EXCEPT ![s] = [native |-> member[s].native, java |-> member[s].java]]
  /\ monitor' = Nobody
  /\ recorded' = recorded \cup {s}
  /\ UNCHANGED <<creator, member, head, ran, startFaults>>

\* Detached again, the thread runs the routine.
Routine(s) ==
  /\ ThreadStep(s, "routine", "runs")
  /\ ran' = [ran EXCEPT ![member[s].routine] = @ + 1]
  /\ UNCHANGED <<creator, member, monitor, map, head, recorded, startFaults>>

-----------------------------------------------------------------------------
Unset == [routine |-> Nobody, native |-> Nobody, java |-> Nobody]
Empty == [s \in Starts |-> Nobody]

Init ==
  /\ creator = [s \in Starts |-> "call"]
  /\ member = [s \in Starts |-> Unset]
  /\ thread = [s \in Starts |-> "none"]
  /\ monitor = Nobody
  /\ map = Empty
  /\ head = [s \in Starts |-> Empty]
  /\ recorded = {}
  /\ ran = [s \in Starts |-> 0]
  /\ startFaults = 0

Start(s) == Alloc(s) \/ JavaStack(s) \/ JavaFails(s) \/ Create(s) \/ CreateFails(s)
Started(s) == Attach(s) \/ AttachFails(s) \/ Put(s) \/ Linked(s) \/ Routine(s)

Next == \E s \in Starts : Start(s) \/ Started(s)

Spec == Init /\ [][Next]_vars

-----------------------------------------------------------------------------
\* Every thread that was started runs its own routine, once, what is recorded of it is
\* where it was started, and no record is lost to another, however many threads start
\* at the same time (thread_create_proxy, thread_call, record4Jni). The Java stack is
\* missing if the creator could not be attached to the JVM.
OwnStart ==
  \A s \in Starts :
    /\ ran[s] = IF thread[s] = "runs" THEN 1 ELSE 0
    /\ map[s] # Nobody =>
         /\ map[s].native = s
         /\ map[s].java = s \/ (s \notin Attached /\ startFaults > 0)
    /\ s \in recorded => map[s] # Nobody
=============================================================================
