-------------------------------- MODULE XuFp ---------------------------------
(* Frame-pointer unwinding of xu_fp_arm64.c by several threads: the one-time *)
(* initialisation they may race for, and the walk each takes over its own    *)
(* stack, from the signal stack on to the thread's. Addresses count frame    *)
(* records of 16 bytes; an FP that is not aligned is Odd.                    *)
EXTENDS Naturals, Sequences, FiniteSets, SequencesExt

CONSTANTS
  Threads,
  Constructor,              \* the thread that loads the library
  SignalLow, SignalHigh,    \* the alternate signal stack of a thread
  ThreadLow, ThreadHigh,    \* its own stack
  Sigreturn,                \* the return address of a signal handler
  Null,                     \* an LR below 4
  Odd,                      \* an FP that is not aligned
  Nobody,
  Cap,                      \* frames_cap
  Memories                  \* what may be on the stacks, and who called whom if it is whole

Within(low, high, a) == a \in Nat /\ low <= a /\ a < high
SignalStack == {a \in SignalLow..SignalHigh : a < SignalHigh}
ThreadStack == {a \in ThreadLow..ThreadHigh : a < ThreadHigh}

\* A call: whether it runs on the signal stack, is given a signal's context, and the
\* record its FP points to.
Calls == [onSignal : BOOLEAN, context : BOOLEAN, fp : SignalStack \cup ThreadStack]

ASSUME XuFpAssumption ==
  /\ Constructor \in Threads /\ Nobody \notin Threads
  /\ SignalLow \in Nat /\ SignalHigh \in Nat /\ ThreadLow \in Nat /\ ThreadHigh \in Nat
  /\ Cap \in Nat
  /\ Odd \notin Nat
  /\ \A m \in Memories : m.call \in Calls /\ DOMAIN m.at = SignalStack \cup ThreadStack

VARIABLES
  status,   \* init_status: "none", "ok" or "failed"
  lock,     \* holder of the lock of xu_fp_init
  loaded,   \* the constructor has run
  pc,
  mem,      \* the stacks of each thread and its call
  fp,       \* cur_fp
  onSignal, \* unwind_on_signal_stack
  known,    \* the range of the thread's stack was found
  frames,
  read      \* history: the addresses of the records that were read

walkVars == <<fp, onSignal, known, frames, read>>
vars == <<status, lock, loaded, pc, mem, walkVars>>

Step(t, from, to) == pc[t] = from /\ pc' = [pc EXCEPT ![t] = to]

-----------------------------------------------------------------------------
(* xu_fp_init *)

\* Mutant: without the constructor the first caller initialises.
MayStartAny(t) == TRUE

\* Nobody calls a function of a library that is still being loaded.
MayStart(t) == loaded \/ t = Constructor

\* The status is read without the lock.
FirstCheck(t) ==
  /\ MayStart(t)
  /\ Step(t, "call", IF status = "none" THEN "lock" ELSE "return")
  /\ UNCHANGED <<status, lock, loaded, mem, walkVars>>

Lock(t) ==
  /\ lock = Nobody
  /\ Step(t, "lock", IF status = "none" THEN "sigreturn" ELSE "unlock")
  /\ lock' = t
  /\ status' = IF status = "none" THEN "failed" ELSE status
  /\ UNCHANGED <<loaded, mem, walkVars>>

\* xu_fp_set_sigreturn_addr, xu_fp_set_main_thread_stack_range
FindSigreturn(t, found) ==
  /\ Step(t, "sigreturn", IF found THEN "range" ELSE "unlock")
  /\ UNCHANGED <<status, lock, loaded, mem, walkVars>>

FindRange(t, found) ==
  /\ Step(t, "range", "unlock")
  /\ status' = IF found THEN "ok" ELSE status
  /\ UNCHANGED <<lock, loaded, mem, walkVars>>

Unlock(t) ==
  /\ Step(t, "unlock", "return")
  /\ lock' = Nobody
  /\ UNCHANGED <<status, loaded, mem, walkVars>>

\* The status is read again; the constructor is done, a caller unwinds.
Return(t) ==
  LET ctor == t = Constructor /\ ~loaded
  IN /\ Step(t, "return", IF ctor THEN "call" ELSE IF status = "ok" THEN "begin" ELSE "refused")
     /\ loaded' = (loaded \/ ctor)
     /\ UNCHANGED <<status, lock, mem, walkVars>>

-----------------------------------------------------------------------------
(* xu_fp_unwind *)

\* The frame of a return address is the call in front of it, that of the
\* interrupted PC and of sigreturn is the address itself.
Before(lr) == IF lr = Null THEN <<"null">> ELSE <<"call", lr>>
Exactly(address) == <<"at", address>>

\* Records of calls, from the inner to the outer: each leads to the next and the last to
\* 0; they rise on each stack, those on the signal stack come first, and the signal frame
\* is one of these.
IsChain(m, p) ==
  /\ p[1] = m.call.fp /\ m.at[p[Len(p)]].fp = 0
  /\ \A k \in 1..Len(p) - 1 :
       /\ m.at[p[k]].fp = p[k + 1]
       /\ p[k] \in ThreadStack => p[k + 1] \in ThreadStack
       /\ p[k] \in ThreadStack \/ p[k + 1] \in SignalStack => p[k] < p[k + 1]
  /\ \A k \in 1..Len(p) : IF p[k] \in SignalStack THEN m.call.onSignal
                          ELSE m.at[p[k]].lr # Sigreturn

\* The frames of the callers, that of the interrupted code in front.
FrameAt(m, a) ==
  IF a \in SignalStack /\ m.at[a].lr = Sigreturn THEN Exactly(Sigreturn) ELSE Before(m.at[a].lr)
Interrupted(m) == IF m.call.context THEN <<Exactly("pc")>> ELSE <<>>
CallersOf(m, p) == Interrupted(m) \o [k \in 1..Len(p) |-> FrameAt(m, p[k])]

\* The stacks lie apart, none at address 0, and what is called whole is a chain.
ASSUME ChainAssumption ==
  /\ ThreadLow > 0 /\ SignalStack \cap ThreadStack = {}
  /\ \A m \in Memories : m.whole =>
       \E n \in 1..Len(m.callers) : \E p \in [1..n -> SignalStack \cup ThreadStack] :
         IsChain(m, p) /\ m.callers = CallersOf(m, p)

\* xu_fp_append_frame: whether there is room for another one.
Appended(t, frame) == IF Len(frames[t]) < Cap THEN Append(frames[t], frame) ELSE frames[t]
Room(t) == Len(frames'[t]) < Cap

\* The ranges of the stacks are found or not (pthread_getattr_np); sigaltstack tells
\* whether the signal stack is in use.
Begin(t, found) ==
  LET call == mem[t].call
  IN /\ fp' = [fp EXCEPT ![t] = call.fp]
     /\ onSignal' = [onSignal EXCEPT ![t] = call.onSignal]
     /\ known' = [known EXCEPT ![t] = found]
     /\ frames' = [frames EXCEPT ![t] = IF call.context THEN Appended(t, Exactly("pc")) ELSE @]
     /\ Step(t, "begin", IF Cap = 0 \/ (call.context /\ ~Room(t)) THEN "done" ELSE "walk")
     /\ UNCHANGED <<status, lock, loaded, mem, read>>

\* Mutant: the walk may go down.
AscendsNot(t, prev) == TRUE

\* FPs rise on a stack.
Ascends(t, prev) == prev > fp[t]

\* Mutant: the range of the thread's stack is taken as found.
OnThreadStackAnyway(t, a) == Within(ThreadLow, ThreadHigh, a)

OnSignalStack(a) == Within(SignalLow, SignalHigh, a)
OnThreadStack(t, a) == known[t] /\ Within(ThreadLow, ThreadHigh, a)

\* Mutant: the signal stack is never left.
LeavesNever(t, prev) == FALSE

\* Whether the record the FP points to next is read; the signal stack is left once.
Leaves(t, prev) == onSignal[t] /\ ~OnSignalStack(prev)
Continues(t, prev) ==
  /\ prev # Odd
  /\ Leaves(t, prev) \/ Ascends(t, prev)
  /\ IF onSignal[t] /\ ~Leaves(t, prev) THEN OnSignalStack(prev) ELSE OnThreadStack(t, prev)

\* One turn of the loop.
Walk(t) ==
  LET record == mem[t].at[fp[t]]
      signal == onSignal[t] /\ record.lr = Sigreturn
  IN /\ pc[t] = "walk"
     /\ read' = [read EXCEPT ![t] = @ \cup {fp[t]}]
     /\ frames' = [frames EXCEPT ![t] = Appended(t, IF signal THEN Exactly(record.lr) ELSE Before(record.lr))]
     /\ IF Room(t) /\ Continues(t, record.fp)
        THEN /\ fp' = [fp EXCEPT ![t] = record.fp]
             /\ onSignal' = [onSignal EXCEPT ![t] = @ /\ OnSignalStack(record.fp)]
             /\ UNCHANGED pc
        ELSE /\ pc' = [pc EXCEPT ![t] = "done"]
             /\ UNCHANGED <<fp, onSignal>>
     /\ UNCHANGED <<status, lock, loaded, mem, known>>

-----------------------------------------------------------------------------
\* Every thread has the same on its stacks.
InitWith(m) ==
  /\ status = "none"
  /\ lock = Nobody
  /\ loaded = FALSE
  /\ pc = [t \in Threads |-> "call"]
  /\ mem = [t \in Threads |-> m]
  /\ fp = [t \in Threads |-> 0]
  /\ onSignal = [t \in Threads |-> FALSE]
  /\ known = [t \in Threads |-> FALSE]
  /\ frames = [t \in Threads |-> <<>>]
  /\ read = [t \in Threads |-> {}]

Init == \E m \in Memories : InitWith(m)

Thread(t) == \/ FirstCheck(t) \/ Lock(t) \/ Unlock(t) \/ Return(t) \/ Walk(t)
             \/ \E found \in BOOLEAN : FindSigreturn(t, found) \/ FindRange(t, found) \/ Begin(t, found)

Next == \E t \in Threads : Thread(t)

Spec == Init /\ [][Next]_vars

-----------------------------------------------------------------------------
\* Type invariant.
TypeOK ==
  /\ status \in {"none", "ok", "failed"}
  /\ lock \in Threads \cup {Nobody}
  /\ loaded \in BOOLEAN
  /\ pc \in [Threads -> {"call", "lock", "sigreturn", "range", "unlock", "return", "refused",
                         "begin", "walk", "done"}]
  /\ onSignal \in [Threads -> BOOLEAN]
  /\ known \in [Threads -> BOOLEAN]
  /\ mem \in [Threads -> Memories]
  /\ fp \in [Threads -> Nat]
  /\ read \in [Threads -> SUBSET Nat]

\* A caller is turned away only if unwinding cannot work: never because it came
\* while the first initialisation was under way, which has the status say "failed"
\* (xu_fp_init, xunwind_init).
RefusedOnlyIfFailed ==
  \A t \in Threads : pc[t] = "refused" => status = "failed" /\ lock = Nobody

\* Whatever is on the stacks, behind the record the walk begins with only records on
\* the signal stack or, if its range is known, the thread's are read (xu_fp_unwind).
StaysOnStacks ==
  \A t \in Threads : \A a \in read[t] :
    \/ a = mem[t].call.fp
    \/ Within(SignalLow, SignalHigh, a)
    \/ known[t] /\ Within(ThreadLow, ThreadHigh, a)

\* No more frames are stored than the caller has room for, and where the records are
\* those of a chain of calls, they are the callers, up to that room: through the
\* signal frame to the interrupted code (xu_fp_append_frame, xu_fp_unwind).
FindsCallers ==
  \A t \in Threads :
    /\ Len(frames[t]) <= Cap
    /\ pc[t] = "done" /\ known[t] /\ mem[t].whole =>
         LET callers == mem[t].callers
         IN frames[t] = IF Len(callers) <= Cap THEN callers ELSE SubSeq(callers, 1, Cap)

\* Whatever is on the stacks, the walk ends: from one record to the next it goes up on
\* the same stack, or leaves the signal stack, which it never comes back to.
WalkRises ==
  [][\A t \in Threads : pc[t] = "walk" /\ pc'[t] = "walk" /\ read'[t] # read[t] =>
       (onSignal[t] /\ ~onSignal'[t]) \/ (onSignal'[t] = onSignal[t] /\ fp'[t] > fp[t])]_vars
=============================================================================
