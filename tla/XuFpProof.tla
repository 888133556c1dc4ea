----------------------------- MODULE XuFpProof ------------------------------
(* Unwinding by frame pointers, for any stacks and anything on them, any     *)
(* number of threads and any number of frames: who is refused, what is read, *)
(* why the walk ends and what it has found then.                             *)
EXTENDS XuFp, TLAPS, SequenceTheorems

\* The control points of the initialisation, and those of a walk.
InitPcs == {"call", "lock", "sigreturn", "range", "unlock", "return"}
WalkPcs == {"begin", "walk", "done"}

\* While the library is loaded only the constructor initialises; afterwards the
\* status is fixed and nobody takes the lock.
InitInv ==
  /\ ~loaded =>
       /\ \A t \in Threads : t # Constructor => pc[t] = "call"
       /\ pc[Constructor] \in InitPcs
       /\ pc[Constructor] \in {"call", "lock"} => status = "none" /\ lock = Nobody
       /\ pc[Constructor] \notin {"call", "lock"} => status # "none"
       /\ pc[Constructor] = "return" => lock = Nobody
  /\ loaded =>
       /\ status # "none"
       /\ lock = Nobody
       /\ \A t \in Threads : pc[t] \in {"call", "return", "refused"} \cup WalkPcs
  /\ \A t \in Threads : pc[t] = "refused" => loaded /\ status = "failed"

\* An address the walk of a thread may read.
Readable(t, a) == \/ a = mem[t].call.fp
                  \/ Within(SignalLow, SignalHigh, a)
                  \/ known[t] /\ Within(ThreadLow, ThreadHigh, a)

\* The record that is read next may be read, and so might those before.
ReadInv ==
  \A t \in Threads :
    /\ pc[t] \notin {"walk", "done"} => read[t] = {}
    /\ pc[t] = "walk" => Readable(t, fp[t])
    /\ \A a \in read[t] : Readable(t, a)

IInv == TypeOK /\ InitInv /\ ReadInv

-----------------------------------------------------------------------------
\* The initial state satisfies the invariant.
LEMMA InitHolds == Init => IInv
<1> SUFFICES ASSUME NEW m \in Memories, InitWith(m) PROVE IInv
  BY DEF Init
<1>1. TypeOK
  BY XuFpAssumption DEF InitWith, TypeOK
<1>2. InitInv
  BY XuFpAssumption DEF InitWith, InitInv, InitPcs
<1>3. ReadInv
  BY DEF InitWith, ReadInv
<1> QED BY <1>1, <1>2, <1>3 DEF IInv

\* The records a call can begin with are at natural numbers.
LEMMA CallPlace ==
  ASSUME TypeOK, NEW t \in Threads
  PROVE  mem[t].call.fp \in Nat
<1>1. mem[t].call \in Calls
  BY XuFpAssumption DEF TypeOK
<1> QED BY <1>1, XuFpAssumption DEF Calls, SignalStack, ThreadStack

\* A step of the initialisation by a thread that goes from one of its control points
\* to another or on to the walk keeps what is known of reading.
LEMMA ReadKept ==
  ASSUME ReadInv, TypeOK, NEW t \in Threads, NEW to,
         pc' = [pc EXCEPT ![t] = to], pc[t] \notin {"walk", "done"}, to \notin {"walk", "done"},
         UNCHANGED <<mem, walkVars>>
  PROVE  ReadInv'
BY DEF ReadInv, TypeOK, Readable, walkVars

\* The steps of the initialisation.
LEMMA InitStepKeeps ==
  ASSUME IInv, NEW t \in Threads,
         \/ FirstCheck(t) \/ Lock(t) \/ Unlock(t) \/ Return(t)
         \/ \E found \in BOOLEAN : FindSigreturn(t, found) \/ FindRange(t, found)
  PROVE  IInv'
<1> USE XuFpAssumption DEF IInv
<1>1. CASE FirstCheck(t)
  <2>1. PICK to \in {"lock", "return"} :
          /\ pc[t] = "call" /\ pc' = [pc EXCEPT ![t] = to]
          /\ to = "lock" <=> status = "none"
          /\ MayStart(t) /\ UNCHANGED <<status, lock, loaded, mem, walkVars>>
    BY <1>1 DEF FirstCheck, Step
  <2>2. TypeOK'
    BY <2>1 DEF TypeOK, walkVars
  <2>3. InitInv'
    BY <2>1 DEF TypeOK, InitInv, InitPcs, WalkPcs, MayStart
  <2> QED BY <2>1, <2>2, <2>3, ReadKept
<1>2. CASE Lock(t)
  <2>1. PICK to \in {"sigreturn", "unlock"} :
          /\ pc[t] = "lock" /\ pc' = [pc EXCEPT ![t] = to] /\ lock' = t
          /\ to = "sigreturn" <=> status = "none"
          /\ status' = IF status = "none" THEN "failed" ELSE status
          /\ UNCHANGED <<loaded, mem, walkVars>>
    BY <1>2 DEF Lock, Step
  <2>2. TypeOK'
    BY <2>1 DEF TypeOK, walkVars
  <2>3. ~loaded /\ t = Constructor
    BY <2>1 DEF InitInv, WalkPcs
  <2>4. InitInv'
    BY <2>1, <2>3 DEF TypeOK, InitInv, InitPcs, WalkPcs
  <2> QED BY <2>1, <2>2, <2>4, ReadKept
<1>3. CASE Unlock(t)
  <2>1. /\ pc[t] = "unlock" /\ pc' = [pc EXCEPT ![t] = "return"] /\ lock' = Nobody
        /\ UNCHANGED <<status, loaded, mem, walkVars>>
    BY <1>3 DEF Unlock, Step
  <2>2. TypeOK'
    BY <2>1 DEF TypeOK, walkVars
  <2>3. ~loaded /\ t = Constructor
    BY <2>1 DEF InitInv, WalkPcs
  <2>4. InitInv'
    BY <2>1, <2>3 DEF TypeOK, InitInv, InitPcs, WalkPcs
  <2> QED BY <2>1, <2>2, <2>4, ReadKept
<1>4. CASE Return(t)
  <2>1. PICK to \in {"call", "begin", "refused"} :
          /\ pc[t] = "return" /\ pc' = [pc EXCEPT ![t] = to]
          /\ to = "call" <=> (t = Constructor /\ ~loaded)
          /\ to = "refused" => status # "ok"
          /\ loaded' = (loaded \/ (t = Constructor /\ ~loaded))
          /\ UNCHANGED <<status, lock, mem, walkVars>>
    BY <1>4 DEF Return, Step
  <2>2. TypeOK'
    BY <2>1 DEF TypeOK, walkVars
  <2>3. status # "none" /\ lock = Nobody /\ loaded'
    BY <2>1 DEF InitInv
  <2>4. InitInv'
    BY <2>1, <2>3 DEF TypeOK, InitInv, InitPcs, WalkPcs
  <2> QED BY <2>1, <2>2, <2>4, ReadKept
<1>5. ASSUME NEW found \in BOOLEAN, FindSigreturn(t, found) PROVE IInv'
  <2>1. PICK to \in {"range", "unlock"} :
          /\ pc[t] = "sigreturn" /\ pc' = [pc EXCEPT ![t] = to]
          /\ UNCHANGED <<status, lock, loaded, mem, walkVars>>
    BY <1>5 DEF FindSigreturn, Step
  <2>2. TypeOK'
    BY <2>1 DEF TypeOK, walkVars
  <2>3. ~loaded /\ t = Constructor
    BY <2>1 DEF InitInv, WalkPcs
  <2>4. InitInv'
    BY <2>1, <2>3 DEF TypeOK, InitInv, InitPcs, WalkPcs
  <2> QED BY <2>1, <2>2, <2>4, ReadKept
<1>6. ASSUME NEW found \in BOOLEAN, FindRange(t, found) PROVE IInv'
  <2>1. /\ pc[t] = "range" /\ pc' = [pc EXCEPT ![t] = "unlock"]
        /\ status' \in {"ok", status}
        /\ UNCHANGED <<lock, loaded, mem, walkVars>>
    BY <1>6 DEF FindRange, Step
  <2>2. TypeOK'
    BY <2>1 DEF TypeOK, walkVars
  <2>3. ~loaded /\ t = Constructor
    BY <2>1 DEF InitInv, WalkPcs
  <2>4. InitInv'
    BY <2>1, <2>3 DEF TypeOK, InitInv, InitPcs, WalkPcs
  <2> QED BY <2>1, <2>2, <2>4, ReadKept
<1> QED BY <1>1, <1>2, <1>3, <1>4, <1>5, <1>6

-----------------------------------------------------------------------------
(* The walk. *)

\* From one control point of a walk to another nothing changes of the initialisation.
LEMMA InitKept ==
  ASSUME InitInv, TypeOK, NEW t \in Threads, NEW to \in WalkPcs,
         pc[t] \in WalkPcs, pc' = [pc EXCEPT ![t] = to], UNCHANGED <<status, lock, loaded>>
  PROVE  InitInv'
<1>1. loaded
  BY XuFpAssumption DEF InitInv, InitPcs, WalkPcs
<1> QED BY <1>1 DEF InitInv, TypeOK, WalkPcs

\* A walk begins with the record of the call.
LEMMA BeginKeeps ==
  ASSUME IInv, NEW t \in Threads, NEW found \in BOOLEAN, Begin(t, found)
  PROVE  IInv'
<1> USE DEF IInv
<1>1. PICK to \in {"done", "walk"} : pc[t] = "begin" /\ pc' = [pc EXCEPT ![t] = to]
  BY DEF Begin, Step
<1>2. /\ fp' = [fp EXCEPT ![t] = mem[t].call.fp]
      /\ onSignal' = [onSignal EXCEPT ![t] = mem[t].call.onSignal]
      /\ known' = [known EXCEPT ![t] = found]
      /\ UNCHANGED <<status, lock, loaded, mem, read>>
  BY DEF Begin
<1>3. mem[t].call.fp \in Nat /\ mem[t].call.onSignal \in BOOLEAN
  <2>1. mem[t].call \in Calls
    BY XuFpAssumption DEF TypeOK
  <2> QED BY <2>1, CallPlace DEF Calls
<1>4. TypeOK'
  BY <1>1, <1>2, <1>3 DEF TypeOK
<1>5. InitInv'
  BY <1>1, <1>2, InitKept DEF WalkPcs
<1>6. ReadInv'
  BY <1>1, <1>2 DEF ReadInv, TypeOK, Readable
<1> QED BY <1>4, <1>5, <1>6

\* A place on a stack is a natural number.
LEMMA WithinNat ==
  ASSUME NEW low, NEW high, NEW a, Within(low, high, a)
  PROVE  a \in Nat
BY DEF Within

\* One turn of the loop: the record may be read, and so may the one it goes on to.
LEMMA WalkKeeps ==
  ASSUME IInv, NEW t \in Threads, Walk(t)
  PROVE  IInv'
<1> USE DEF IInv
<1> DEFINE next == mem[t].at[fp[t]].fp
<1>1. /\ pc[t] = "walk"
      /\ read' = [read EXCEPT ![t] = @ \cup {fp[t]}]
      /\ UNCHANGED <<status, lock, loaded, mem, known>>
  BY DEF Walk
<1>2. \/ /\ Continues(t, next) /\ fp' = [fp EXCEPT ![t] = next]
         /\ onSignal' = [onSignal EXCEPT ![t] = @ /\ OnSignalStack(next)]
         /\ pc' = pc
      \/ /\ pc' = [pc EXCEPT ![t] = "done"] /\ UNCHANGED <<fp, onSignal>>
  BY DEF Walk
<1> HIDE DEF next
<1>3. fp[t] \in Nat /\ Readable(t, fp[t])
  BY <1>1 DEF TypeOK, ReadInv
<1>4. read' \in [Threads -> SUBSET Nat]
  BY <1>1, <1>3 DEF TypeOK
<1>5. CASE Continues(t, next) /\ fp' = [fp EXCEPT ![t] = next] /\ pc' = pc
           /\ onSignal' = [onSignal EXCEPT ![t] = @ /\ OnSignalStack(next)]
  <2>1. OnSignalStack(next) \/ OnThreadStack(t, next)
    BY <1>5 DEF Continues
  <2>2. next \in Nat /\ Readable(t, next)
    BY <2>1, WithinNat DEF OnSignalStack, OnThreadStack, Readable
  <2>3. onSignal' \in [Threads -> BOOLEAN]
    <3>1. (onSignal[t] /\ OnSignalStack(next)) \in BOOLEAN
      OBVIOUS
    <3> QED BY <3>1, <1>5 DEF TypeOK
  <2>4. TypeOK'
    BY <1>1, <1>4, <1>5, <2>2, <2>3 DEF TypeOK
  <2>5. InitInv'
    BY <1>1, <1>5 DEF InitInv
  <2>6. ReadInv'
    BY <1>1, <1>3, <1>5, <2>2 DEF ReadInv, TypeOK, Readable
  <2> QED BY <2>4, <2>5, <2>6
<1>6. CASE pc' = [pc EXCEPT ![t] = "done"] /\ UNCHANGED <<fp, onSignal>>
  <2>1. TypeOK'
    BY <1>1, <1>4, <1>6 DEF TypeOK
  <2>2. InitInv'
    BY <1>1, <1>6, InitKept DEF WalkPcs
  <2>3. ReadInv'
    BY <1>1, <1>3, <1>6 DEF ReadInv, TypeOK, Readable
  <2> QED BY <2>1, <2>2, <2>3
<1> QED BY <1>2, <1>5, <1>6

\* Every step keeps the invariant.
LEMMA StepKeeps == IInv /\ [Next]_vars => IInv'
<1> SUFFICES ASSUME IInv, [Next]_vars PROVE IInv'
  OBVIOUS
<1>1. ASSUME NEW t \in Threads, Thread(t) PROVE IInv'
  BY <1>1, InitStepKeeps, BeginKeeps, WalkKeeps DEF Thread
<1>2. CASE UNCHANGED vars
  BY <1>2 DEF vars, walkVars, IInv, TypeOK, InitInv, ReadInv, Readable
<1> QED BY <1>1, <1>2 DEF Next

\* The invariant holds in every reachable state.
LEMMA Invariant == Spec => []IInv
<1> QED BY InitHolds, StepKeeps, PTL DEF Spec

\* Nobody is refused while the first initialisation is under way, or after it has
\* succeeded (xu_fp_init).
THEOREM NobodyRefusedEarly == Spec => []RefusedOnlyIfFailed
<1>1. IInv => RefusedOnlyIfFailed
  BY DEF IInv, InitInv, RefusedOnlyIfFailed
<1> QED BY <1>1, Invariant, PTL

\* Whatever is on the stacks, nothing is read that is not on them but the record of the
\* call (xu_fp_unwind).
THEOREM OnlyStacksAreRead == Spec => []StaysOnStacks
<1>1. IInv => StaysOnStacks
  BY DEF IInv, ReadInv, Readable, StaysOnStacks
<1> QED BY <1>1, Invariant, PTL

-----------------------------------------------------------------------------
(* The walk ends. *)

\* A step of one thread leaves what the others have read alone.
LEMMA OthersRead ==
  ASSUME TypeOK, NEW u \in Threads, Thread(u), NEW t \in Threads, read'[t] # read[t]
  PROVE  t = u /\ Walk(t)
BY DEF TypeOK, Thread, FirstCheck, Lock, Unlock, Return, FindSigreturn, FindRange, Begin,
       Walk, walkVars

\* From one record to the next a walk goes up, or leaves the signal stack.
LEMMA TurnRises ==
  ASSUME TypeOK, NEW t \in Threads, Walk(t), pc'[t] = "walk"
  PROVE  (onSignal[t] /\ ~onSignal'[t]) \/ (onSignal'[t] = onSignal[t] /\ fp'[t] > fp[t])
<1> DEFINE next == mem[t].at[fp[t]].fp
<1>1. /\ Continues(t, next)
      /\ fp' = [fp EXCEPT ![t] = next]
      /\ onSignal' = [onSignal EXCEPT ![t] = @ /\ OnSignalStack(next)]
  BY DEF Walk, TypeOK
<1> HIDE DEF next
<1>2. fp'[t] = next /\ onSignal'[t] = (onSignal[t] /\ OnSignalStack(next)) /\ onSignal[t] \in BOOLEAN
  BY <1>1 DEF TypeOK
<1>3. CASE Leaves(t, next)
  BY <1>2, <1>3 DEF Leaves
<1>4. CASE ~Leaves(t, next)
  <2>1. fp'[t] > fp[t]
    BY <1>1, <1>2, <1>4 DEF Continues, Ascends
  <2>2. onSignal'[t] = onSignal[t]
    <3>1. CASE onSignal[t]
      <4>1. OnSignalStack(next)
        BY <1>1, <1>4, <3>1 DEF Continues
      <4> QED BY <1>2, <3>1, <4>1
    <3>2. CASE ~onSignal[t]
      BY <1>2, <3>2
    <3> QED BY <3>1, <3>2
  <2> QED BY <2>1, <2>2
<1> QED BY <1>3, <1>4

\* No walk comes back to a record it has read: each turn goes up on the same stack, or
\* leaves the signal stack for good (xu_fp_unwind).
THEOREM WalksRise == Spec => WalkRises
<1>1. ASSUME IInv, [Next]_vars
      PROVE  [\A t \in Threads : pc[t] = "walk" /\ pc'[t] = "walk" /\ read'[t] # read[t] =>
                (onSignal[t] /\ ~onSignal'[t])
                \/ (onSignal'[t] = onSignal[t] /\ fp'[t] > fp[t])]_vars
  <2> SUFFICES ASSUME NEW t \in Threads, pc'[t] = "walk", read'[t] # read[t], Next
               PROVE  (onSignal[t] /\ ~onSignal'[t])
                      \/ (onSignal'[t] = onSignal[t] /\ fp'[t] > fp[t])
    BY <1>1
  <2>1. PICK u \in Threads : Thread(u)
    BY DEF Next
  <2>2. Walk(t)
    BY <2>1, <1>1, OthersRead DEF IInv
  <2> QED BY <2>2, <1>1, TurnRises DEF IInv
<1> QED BY <1>1, Invariant, PTL DEF Spec, WalkRises

-----------------------------------------------------------------------------
(* The walk finds the callers. *)

\* A sequence, whatever it holds.
IsSeq(s) == \E S : s \in Seq(S)

\* The records of a chain and the callers they stand for.
Chain(m, p) ==
  /\ \E n \in Nat \ {0} : p \in [1..n -> SignalStack \cup ThreadStack]
  /\ IsChain(m, p) /\ m.callers = CallersOf(m, p)

\* A walk is at a record of the chain and has the callers up to it.
OnChain(t, p) ==
  \E k \in 1..Len(p) :
    /\ fp[t] = p[k] /\ Len(frames[t]) = Len(Interrupted(mem[t])) + k - 1
    /\ p[k] \in SignalStack => onSignal[t]
    /\ \A j \in 1..Len(frames[t]) : frames[t][j] = mem[t].callers[j]

AllFound(t) ==
  LET callers == mem[t].callers
  IN frames[t] = IF Len(callers) <= Cap THEN callers ELSE SubSeq(callers, 1, Cap)

FoundBy(t) ==
  /\ IsSeq(frames[t]) /\ Len(frames[t]) <= Cap
  /\ pc[t] \notin {"walk", "done"} => frames[t] = <<>>
  /\ pc[t] = "walk" => Len(frames[t]) < Cap
  /\ known[t] /\ mem[t].whole =>
       /\ pc[t] = "walk" => \E p : Chain(mem[t], p) /\ OnChain(t, p)
       /\ pc[t] = "done" => AllFound(t)

FoundInv == DOMAIN frames = Threads /\ \A t \in Threads : FoundBy(t)

\* One more frame.
LEMMA OneMore ==
  ASSUME NEW s, IsSeq(s), NEW e
  PROVE  /\ IsSeq(Append(s, e)) /\ Len(s) \in Nat /\ Len(Append(s, e)) = Len(s) + 1
         /\ \A j \in 1..Len(s) : Append(s, e)[j] = s[j]
         /\ Append(s, e)[Len(s) + 1] = e
<1>1. PICK S : s \in Seq(S)
  BY DEF IsSeq
<1>2. s \in Seq(S \cup {e})
  BY <1>1, SeqMonotonic
<1> QED BY <1>2 DEF IsSeq

\* Where the chain is, and what the callers are.
LEMMA ChainIs ==
  ASSUME NEW m, NEW p, Chain(m, p)
  PROVE  /\ Len(p) \in Nat \ {0} /\ \A k \in 1..Len(p) : p[k] \in SignalStack \cup ThreadStack
         /\ Len(Interrupted(m)) \in {0, 1}
         /\ m.call.context <=> Len(Interrupted(m)) = 1
         /\ m.call.context => m.callers[1] = Exactly("pc")
         /\ IsSeq(m.callers) /\ Len(m.callers) = Len(Interrupted(m)) + Len(p)
         /\ \A k \in 1..Len(p) : m.callers[Len(Interrupted(m)) + k] = FrameAt(m, p[k])
<1>1. PICK n \in Nat \ {0} : p \in [1..n -> SignalStack \cup ThreadStack]
  BY DEF Chain
<1>2. Len(p) = n /\ \A k \in 1..n : p[k] \in SignalStack \cup ThreadStack
  BY <1>1
<1> DEFINE frame == [k \in 1..n |-> FrameAt(m, p[k])]
           own == Interrupted(m)
           F(k) == FrameAt(m, p[k])
           S == {Exactly("pc")} \cup {F(k) : k \in 1..n}
<1>3. frame \in Seq(S) /\ Len(frame) = n /\ \A k \in 1..n : frame[k] = FrameAt(m, p[k])
  <2>1. frame \in [1..n -> S]
    OBVIOUS
  <2> HIDE DEF frame, S
  <2>2. frame \in Seq(S) /\ Len(frame) = n
    BY <2>1
  <2> QED BY <2>2 DEF frame
<1>4. own \in Seq(S) /\ Len(own) \in {0, 1} /\ (m.call.context <=> Len(own) = 1)
      /\ (m.call.context => own[1] = Exactly("pc"))
  <2>1. Exactly("pc") \in S
    OBVIOUS
  <2> HIDE DEF S
  <2> QED BY <2>1 DEF Interrupted
<1>5. m.callers = own \o frame
  BY <1>2 DEF Chain, CallersOf
<1> HIDE DEF frame, own, S
<1>6. /\ m.callers \in Seq(S) /\ Len(m.callers) = Len(own) + n
      /\ \A i \in 1..Len(own) + n :
           m.callers[i] = IF i <= Len(own) THEN own[i] ELSE frame[i - Len(own)]
  <2>1. /\ own \o frame \in Seq(S) /\ Len(own \o frame) = Len(own) + Len(frame)
        /\ \A i \in 1..Len(own) + Len(frame) :
             (own \o frame)[i] = IF i <= Len(own) THEN own[i] ELSE frame[i - Len(own)]
    <3>1. own \in Seq(S) /\ frame \in Seq(S)
      BY <1>3, <1>4
    <3> QED BY <3>1, ConcatProperties, Zenon
  <2> QED BY <1>3, <1>5, <2>1
<1>7. m.call.context => m.callers[1] = Exactly("pc")
  <2>1. Len(own) = 1 => 1 \in 1..Len(own) + n /\ 1 <= Len(own)
    BY <1>1
  <2> QED BY <1>4, <1>6, <2>1
<1>8. \A k \in 1..n : m.callers[Len(own) + k] = FrameAt(m, p[k])
  <2> SUFFICES ASSUME NEW k \in 1..n PROVE m.callers[Len(own) + k] = FrameAt(m, p[k])
    OBVIOUS
  <2>1. /\ Len(own) + k \in 1..Len(own) + n /\ ~(Len(own) + k <= Len(own))
        /\ Len(own) + k - Len(own) = k
    BY <1>4
  <2> QED BY <1>3, <1>6, <2>1
<1> QED BY <1>2, <1>4, <1>6, <1>7, <1>8 DEF own, IsSeq

\* A stack that is whole is a chain.
LEMMA WholeIsChain ==
  ASSUME NEW m \in Memories, m.whole
  PROVE  \E p : Chain(m, p)
<1>1. PICK n \in 1..Len(m.callers) :
        \E p \in [1..n -> SignalStack \cup ThreadStack] : IsChain(m, p) /\ m.callers = CallersOf(m, p)
  BY ChainAssumption
<1>2. n \in Nat \ {0}
  OBVIOUS
<1> QED BY <1>1, <1>2 DEF Chain

\* All callers, or as many as there is room for.
LEMMA Complete ==
  ASSUME NEW s, IsSeq(s), NEW callers, IsSeq(callers), Cap \in Nat,
         Len(s) = IF Len(callers) <= Cap THEN Len(callers) ELSE Cap,
         \A j \in 1..Len(s) : s[j] = callers[j]
  PROVE  s = IF Len(callers) <= Cap THEN callers ELSE SubSeq(callers, 1, Cap)
<1>1. PICK S : s \in Seq(S) 
  BY DEF IsSeq
<1>2. PICK T : callers \in Seq(T)
  BY DEF IsSeq
<1>3. s \in Seq(S \cup T) /\ callers \in Seq(S \cup T)
  BY <1>1, <1>2, SeqMonotonic
<1>4. CASE Len(callers) <= Cap
  BY <1>3, <1>4, SeqEqual
<1>5. CASE ~(Len(callers) <= Cap)
  <2>1. Len(s) = Cap /\ Cap \in Int /\ 1 \in Int /\ \A i \in 1..Cap : callers[i] \in S \cup T
    BY <1>3, <1>5
  <2>2. /\ SubSeq(callers, 1, Cap) \in Seq(S \cup T) /\ Len(SubSeq(callers, 1, Cap)) = Cap
        /\ \A i \in 1..Cap : SubSeq(callers, 1, Cap)[i] = callers[i]
    <3>1. \A i \in 1..Cap : 1 + i - 1 = i
      OBVIOUS
    <3>2. (IF 1 <= Cap THEN Cap - 1 + 1 ELSE 0) = Cap /\ Cap - 1 + 1 = Cap
      OBVIOUS
    <3> QED BY <2>1, <3>1, <3>2, SubSeqProperties
  <2> QED BY <1>3, <1>5, <2>1, <2>2, SeqEqual
<1> QED BY <1>4, <1>5

\* The initialisation stores no frame.
LEMMA InitStepFound ==
  ASSUME IInv, FoundInv, NEW t \in Threads,
         \/ FirstCheck(t) \/ Lock(t) \/ Unlock(t) \/ Return(t)
         \/ \E found \in BOOLEAN : FindSigreturn(t, found) \/ FindRange(t, found)
  PROVE  FoundInv'
<1>1. UNCHANGED <<mem, walkVars>>
  BY DEF FirstCheck, Lock, Unlock, Return, FindSigreturn, FindRange
<1>2. PICK to : /\ pc' = [pc EXCEPT ![t] = to] /\ pc[t] \notin {"walk", "done"}
                /\ to \notin {"walk", "done"}
  BY DEF FirstCheck, Lock, Unlock, Return, FindSigreturn, FindRange, Step
<1>3. ASSUME NEW u \in Threads PROVE FoundBy(u)'
  <2>1. FoundBy(u) /\ (pc'[u] = pc[u] \/ {pc[u], pc'[u]} \cap {"walk", "done"} = {})
    BY <1>2 DEF FoundInv, IInv, TypeOK
  <2>2. UNCHANGED <<mem, fp, onSignal, known, frames>>
    BY <1>1 DEF walkVars
  <2> QED BY <2>1, <2>2 DEF FoundBy, OnChain, AllFound
<1> QED BY <1>1, <1>3 DEF FoundInv, walkVars

\* What a step of one thread leaves as it is, for the others.
LEMMA OthersFound ==
  ASSUME NEW u \in Threads, FoundBy(u), mem' = mem,
         pc'[u] = pc[u], fp'[u] = fp[u], onSignal'[u] = onSignal[u], known'[u] = known[u],
         frames'[u] = frames[u]
  PROVE  FoundBy(u)'
BY DEF FoundBy, OnChain, AllFound

\* The frames are complete when the walk is at the end of the chain or has no more room.
LEMMA DoneFound ==
  ASSUME NEW t \in Threads, NEW m, m = mem'[t], NEW p, Chain(m, p), IsSeq(frames'[t]),
         NEW k \in 0..Len(p), Len(frames'[t]) = Len(Interrupted(m)) + k,
         Len(frames'[t]) <= Cap, Len(frames'[t]) = Cap \/ k = Len(p),
         \A j \in 1..Len(frames'[t]) : frames'[t][j] = m.callers[j]
  PROVE  AllFound(t)'
<1>1. /\ IsSeq(m.callers) /\ Len(m.callers) = Len(Interrupted(m)) + Len(p)
      /\ Len(p) \in Nat /\ Len(Interrupted(m)) \in {0, 1}
  BY ChainIs
<1>2. Len(frames'[t]) = IF Len(m.callers) <= Cap THEN Len(m.callers) ELSE Cap
  BY <1>1, XuFpAssumption
<1>3. PICK s : s = frames'[t]
  OBVIOUS
<1>4. s = IF Len(m.callers) <= Cap THEN m.callers ELSE SubSeq(m.callers, 1, Cap)
  BY <1>1, <1>2, <1>3, Complete, XuFpAssumption
<1> QED BY <1>3, <1>4 DEF AllFound

\* The walk begins with the record of the call, behind the interrupted code.
LEMMA BeginFound ==
  ASSUME IInv, FoundInv, NEW t \in Threads, NEW found \in BOOLEAN, Begin(t, found)
  PROVE  FoundInv'
<1>0. TypeOK /\ Cap \in Nat /\ DOMAIN frames = Threads
  BY XuFpAssumption DEF IInv, FoundInv
<1>1. PICK m \in Memories : m = mem[t]
  BY <1>0 DEF TypeOK
<1>2. /\ fp' = [fp EXCEPT ![t] = m.call.fp]
      /\ onSignal' = [onSignal EXCEPT ![t] = m.call.onSignal]
      /\ known' = [known EXCEPT ![t] = found]
      /\ frames' = [frames EXCEPT ![t] = IF m.call.context THEN Appended(t, Exactly("pc")) ELSE @]
      /\ mem' = mem /\ pc[t] = "begin"
      /\ pc' = [pc EXCEPT ![t] = IF Cap = 0 \/ (m.call.context /\ ~Room(t)) THEN "done" ELSE "walk"]
  BY <1>1 DEF Begin, Step
<1>3. frames[t] = <<>> /\ m.call.context \in BOOLEAN
  <2>1. m.call \in Calls
    BY XuFpAssumption
  <2> QED BY <1>2, <2>1 DEF FoundInv, FoundBy, Calls
<1>4. PICK s : s = frames'[t]
  OBVIOUS
<1>5. s = IF m.call.context /\ 0 < Cap THEN <<Exactly("pc")>> ELSE <<>>
  <2>1. s = IF m.call.context THEN Appended(t, Exactly("pc")) ELSE <<>>
    BY <1>0, <1>2, <1>3, <1>4
  <2>2. Appended(t, Exactly("pc")) = IF 0 < Cap THEN <<Exactly("pc")>> ELSE <<>>
    BY <1>0, <1>3 DEF Appended
  <2> QED BY <2>1, <2>2
<1>6. IsSeq(s) /\ Len(s) = IF m.call.context /\ 0 < Cap THEN 1 ELSE 0
  <2>1. <<>> \in Seq({}) /\ \A e : <<e>> \in Seq({e})
    OBVIOUS
  <2> QED BY <1>3, <1>5, <2>1 DEF IsSeq
<1>7. Len(s) <= Cap /\ (Room(t) <=> Len(s) < Cap)
  BY <1>0, <1>4, <1>6 DEF Room
<1>8. pc'[t] = (IF Len(s) = Cap THEN "done" ELSE "walk")
  BY <1>0, <1>2, <1>6, <1>7 DEF TypeOK
<1>9. ASSUME known'[t], m.whole
      PROVE  /\ pc'[t] = "walk" => \E p : Chain(m, p) /\ OnChain(t, p)'
             /\ pc'[t] = "done" => AllFound(t)'
  <2>1. PICK p : Chain(m, p)
    BY <1>9, WholeIsChain
  <2>2. /\ Len(p) \in Nat \ {0} /\ \A k \in 1..Len(p) : p[k] \in SignalStack \cup ThreadStack
        /\ Len(Interrupted(m)) \in {0, 1}
        /\ m.call.context <=> Len(Interrupted(m)) = 1
        /\ m.call.context => m.callers[1] = Exactly("pc")
    BY <2>1, ChainIs
  <2>3. \A j \in 1..Len(s) : s[j] = m.callers[j]
    BY <1>3, <1>5, <1>6, <2>2
  <2>4. CASE pc'[t] = "walk"
    <3>1. Len(s) = Len(Interrupted(m)) + 1 - 1 /\ 1 \in 1..Len(p)
      BY <1>0, <1>3, <1>6, <1>8, <2>2, <2>4
    <3>2. p[1] = m.call.fp /\ (p[1] \in SignalStack => m.call.onSignal)
      BY <2>1, <3>1 DEF Chain, IsChain
    <3>3. fp'[t] = p[1] /\ onSignal'[t] = m.call.onSignal
      BY <1>0, <1>2, <3>2 DEF TypeOK
    <3>4. OnChain(t, p)'
      BY <1>1, <1>2, <1>4, <2>3, <3>1, <3>2, <3>3 DEF OnChain
    <3> QED BY <2>1, <2>4, <3>4
  <2>5. CASE pc'[t] = "done"
    <3>1. Len(s) = Cap
      BY <1>8, <2>5
    <3>2. CASE Len(s) = Len(Interrupted(m))
      <4>1. 0 \in 0..Len(p) /\ Len(s) = Len(Interrupted(m)) + 0
        BY <2>2, <3>2
      <4> QED BY <1>1, <1>2, <1>4, <1>6, <1>7, <2>1, <2>3, <2>5, <3>1, <4>1, DoneFound
    <3>3. CASE Len(s) # Len(Interrupted(m))
      <4>1. Cap = 0 /\ Len(s) = 0
        BY <1>0, <1>3, <1>6, <2>2, <3>1, <3>3
      <4>2. Len(m.callers) = Len(Interrupted(m)) + Len(p) /\ IsSeq(m.callers)
        BY <2>1, ChainIs
      <4>3. ~(Len(m.callers) <= Cap)
        BY <2>2, <4>1, <4>2
      <4>4. s = IF Len(m.callers) <= Cap THEN m.callers ELSE SubSeq(m.callers, 1, Cap)
        BY <1>0, <1>6, <2>3, <3>1, <4>2, <4>3, Complete
      <4> QED BY <1>1, <1>2, <1>4, <2>5, <4>4 DEF AllFound
    <3> QED BY <3>2, <3>3
  <2> QED BY <2>4, <2>5
<1>10. FoundBy(t)'
  <2>1. pc'[t] \in {"walk", "done"} /\ (pc'[t] = "walk" => Len(s) < Cap)
    BY <1>0, <1>6, <1>7, <1>8
  <2> QED BY <1>1, <1>2, <1>4, <1>6, <1>7, <1>9, <2>1 DEF FoundBy
<1>11. \A u \in Threads : u # t => FoundBy(u)'
  BY <1>0, <1>2, OthersFound DEF FoundInv, TypeOK
<1>12. DOMAIN frames' = Threads
  BY <1>0, <1>2
<1> QED BY <1>10, <1>11, <1>12 DEF FoundInv

\* From one record of a chain the walk goes on to the next.
LEMMA GoesOn ==
  ASSUME NEW t \in Threads, NEW m, NEW p, Chain(m, p), NEW k \in 1..Len(p) - 1,
         fp[t] = p[k], onSignal[t] \in BOOLEAN, p[k] \in SignalStack => onSignal[t], known[t]
  PROVE  /\ m.at[p[k]].fp = p[k + 1] /\ k + 1 \in 1..Len(p)
         /\ Continues(t, p[k + 1])
         /\ p[k + 1] \in SignalStack => onSignal[t] /\ OnSignalStack(p[k + 1])
<1>1. /\ Len(p) \in Nat \ {0} /\ k \in 1..Len(p) /\ k + 1 \in 1..Len(p)
      /\ p[k] \in SignalStack \cup ThreadStack /\ p[k + 1] \in SignalStack \cup ThreadStack
  BY ChainIs
<1>2. /\ m.at[p[k]].fp = p[k + 1]
      /\ p[k] \in ThreadStack => p[k + 1] \in ThreadStack
      /\ p[k] \in ThreadStack \/ p[k + 1] \in SignalStack => p[k] < p[k + 1]
  BY DEF Chain, IsChain
<1>3. \A a : /\ a \in SignalStack <=> OnSignalStack(a)
             /\ a \in ThreadStack <=> OnThreadStack(t, a)
             /\ a \in SignalStack => a \notin ThreadStack
             /\ a \in SignalStack \cup ThreadStack => a \in Nat /\ a # Odd
  BY XuFpAssumption, ChainAssumption
     DEF SignalStack, ThreadStack, OnSignalStack, OnThreadStack, Within
<1>4. CASE p[k + 1] \in SignalStack
  <2>1. p[k] \in SignalStack /\ p[k] < p[k + 1] /\ onSignal[t]
    BY <1>1, <1>2, <1>3, <1>4
  <2> QED BY <1>1, <1>2, <1>3, <1>4, <2>1 DEF Continues, Leaves, Ascends
<1>5. CASE p[k + 1] \in ThreadStack
  <2>1. ~OnSignalStack(p[k + 1]) /\ OnThreadStack(t, p[k + 1]) /\ p[k + 1] # Odd
        /\ p[k] \in Nat /\ p[k + 1] \in Nat
    BY <1>1, <1>3, <1>5
  <2>2. CASE onSignal[t]
    BY <1>1, <1>2, <1>3, <2>1, <2>2 DEF Continues, Leaves
  <2>3. CASE ~onSignal[t]
    <3>1. p[k] \in ThreadStack /\ p[k] < p[k + 1]
      BY <1>1, <1>2, <2>3
    <3> QED BY <1>1, <1>2, <1>3, <2>1, <2>3, <3>1 DEF Continues, Leaves, Ascends
  <2> QED BY <2>2, <2>3
<1> QED BY <1>1, <1>4, <1>5

\* At the last record it ends: 0 is on no stack of a thread.
LEMMA EndsAtZero ==
  ASSUME NEW t \in Threads, fp[t] \in Nat
  PROVE  ~Continues(t, 0)
BY XuFpAssumption, ChainAssumption DEF Continues, Leaves, Ascends, OnThreadStack, Within

\* A turn of the walk adds the caller of its record.
LEMMA WalkFound ==
  ASSUME IInv, FoundInv, NEW t \in Threads, Walk(t)
  PROVE  FoundInv'
<1>0. TypeOK /\ Cap \in Nat /\ DOMAIN frames = Threads /\ FoundBy(t) /\ pc[t] = "walk"
  BY XuFpAssumption DEF IInv, FoundInv, Walk
<1>1. PICK m \in Memories : m = mem[t]
  BY <1>0 DEF TypeOK
<1>2. PICK record, signal :
        record = m.at[fp[t]] /\ signal = (onSignal[t] /\ record.lr = Sigreturn)
  OBVIOUS
<1>3. PICK frame : frame = IF signal THEN Exactly(record.lr) ELSE Before(record.lr)
  OBVIOUS
<1>4. PICK s, was : s = frames'[t] /\ was = frames[t]
  OBVIOUS
<1>5. /\ IsSeq(was) /\ Len(was) < Cap /\ s = Append(was, frame) /\ mem' = mem /\ known' = known
      /\ frames' = [frames EXCEPT ![t] = s]
      /\ onSignal[t] \in BOOLEAN /\ fp[t] \in Nat
  <2>1. frames' = [frames EXCEPT ![t] = Appended(t, frame)]
    BY <1>1, <1>2, <1>3 DEF Walk
  <2>2. IsSeq(was) /\ Len(was) < Cap /\ Appended(t, frame) = Append(was, frame)
    BY <1>0, <1>4 DEF FoundBy, Appended
  <2> QED BY <1>0, <1>4, <2>1, <2>2 DEF Walk, TypeOK
<1>6. /\ IsSeq(s) /\ Len(was) \in Nat /\ Len(s) = Len(was) + 1
      /\ \A j \in 1..Len(was) : s[j] = was[j]
      /\ s[Len(was) + 1] = frame
  BY <1>5, OneMore
<1>7. /\ Room(t) <=> Len(s) < Cap
      /\ IF Len(s) < Cap /\ Continues(t, record.fp)
         THEN /\ fp' = [fp EXCEPT ![t] = record.fp]
              /\ onSignal' = [onSignal EXCEPT ![t] = @ /\ OnSignalStack(record.fp)]
              /\ pc' = pc
         ELSE /\ pc' = [pc EXCEPT ![t] = "done"] /\ fp' = fp /\ onSignal' = onSignal
  <2>1. Room(t) <=> Len(s) < Cap
    BY <1>4 DEF Room
  <2>2. mem[t].at[fp[t]] = record
    BY <1>1, <1>2
  <2> QED BY <2>1, <2>2 DEF Walk
<1>8. ASSUME known[t], m.whole
      PROVE  /\ pc'[t] = "walk" => \E p : Chain(m, p) /\ OnChain(t, p)'
             /\ pc'[t] = "done" => AllFound(t)'
  <2>1. PICK p : Chain(m, p) /\ OnChain(t, p)
    BY <1>0, <1>1, <1>8 DEF FoundBy
  <2>2. PICK k \in 1..Len(p) :
          /\ fp[t] = p[k] /\ Len(was) = Len(Interrupted(m)) + k - 1
          /\ p[k] \in SignalStack => onSignal[t]
          /\ \A j \in 1..Len(was) : was[j] = m.callers[j]
    BY <1>1, <1>4, <2>1 DEF OnChain
  <2>3. /\ Len(p) \in Nat \ {0} /\ p[k] \in SignalStack \cup ThreadStack
        /\ Len(Interrupted(m)) \in {0, 1}
        /\ m.callers[Len(Interrupted(m)) + k] = FrameAt(m, p[k])
    BY <2>1, ChainIs
  <2>4. frame = FrameAt(m, p[k])
    <3>1. IF p[k] \in SignalStack THEN m.call.onSignal ELSE record.lr # Sigreturn
      BY <1>2, <2>1, <2>2 DEF Chain, IsChain
    <3>2. signal <=> p[k] \in SignalStack /\ record.lr = Sigreturn
      BY <1>2, <2>2, <3>1
    <3> QED BY <1>2, <1>3, <2>2, <3>2 DEF FrameAt
  <2>5. Len(s) = Len(Interrupted(m)) + k /\ Len(was) + 1 = Len(Interrupted(m)) + k
    BY <1>6, <2>2, <2>3
  <2>6. \A j \in 1..Len(s) : s[j] = m.callers[j]
    <3> SUFFICES ASSUME NEW j \in 1..Len(s) PROVE s[j] = m.callers[j]
      OBVIOUS
    <3>1. CASE j \in 1..Len(was)
      BY <1>6, <2>2, <3>1
    <3>2. CASE j = Len(was) + 1
      BY <1>6, <2>3, <2>4, <2>5, <3>2
    <3> QED BY <1>6, <3>1, <3>2
  <2>7. CASE pc'[t] = "done"
    <3>1. Len(s) = Cap \/ k = Len(p)
      <4> SUFFICES ASSUME k # Len(p), Len(s) < Cap PROVE FALSE
        BY <1>0, <1>5, <1>6
      <4>1. k \in 1..Len(p) - 1
        BY <2>3
      <4>2. record.fp = p[k + 1] /\ Continues(t, p[k + 1])
        BY <1>2, <1>5, <1>8, <2>1, <2>2, <4>1, GoesOn
      <4>3. pc' = pc
        BY <1>7, <4>2
      <4> QED BY <1>0, <2>7, <4>3
    <3>2. k \in 0..Len(p) /\ Len(s) <= Cap /\ m = mem'[t]
      BY <1>0, <1>1, <1>5, <1>6, <2>3
    <3> QED BY <1>4, <1>6, <2>1, <2>5, <2>6, <3>1, <3>2, <2>7, DoneFound
  <2>8. CASE pc'[t] = "walk"
    <3>1. Len(s) < Cap /\ Continues(t, record.fp)
      BY <1>0, <1>7, <2>8 DEF TypeOK
    <3>2. k # Len(p)
      <4> SUFFICES ASSUME k = Len(p) PROVE FALSE
        OBVIOUS
      <4>1. record.fp = 0
        BY <1>2, <2>1, <2>2 DEF Chain, IsChain
      <4> QED BY <1>5, <3>1, <4>1, EndsAtZero
    <3>3. k \in 1..Len(p) - 1
      BY <2>3, <3>2
    <3>4. /\ record.fp = p[k + 1] /\ k + 1 \in 1..Len(p)
          /\ p[k + 1] \in SignalStack => onSignal[t] /\ OnSignalStack(p[k + 1])
      BY <1>2, <1>5, <1>8, <2>1, <2>2, <3>3, GoesOn
    <3>5. fp'[t] = p[k + 1] /\ onSignal'[t] = (onSignal[t] /\ OnSignalStack(p[k + 1]))
      BY <1>0, <1>7, <3>1, <3>4 DEF TypeOK
    <3>6. p[k + 1] \in SignalStack => onSignal'[t]
      BY <3>4, <3>5
    <3>7. Len(s) = Len(Interrupted(m)) + (k + 1) - 1
      BY <2>3, <2>5
    <3>8. OnChain(t, p)'
      BY <1>1, <1>4, <1>5, <2>6, <3>4, <3>5, <3>6, <3>7 DEF OnChain
    <3> QED BY <2>1, <2>8, <3>8
  <2> QED BY <2>7, <2>8
<1>9. FoundBy(t)'
  <2>1. pc'[t] \in {"walk", "done"} /\ (pc'[t] = "walk" => Len(s) < Cap) /\ Len(s) <= Cap
    BY <1>0, <1>5, <1>6, <1>7 DEF TypeOK
  <2> QED BY <1>1, <1>4, <1>5, <1>6, <1>8, <2>1 DEF FoundBy
<1>10. ASSUME NEW u \in Threads, u # t PROVE FoundBy(u)'
  <2>1. pc'[u] = pc[u] /\ fp'[u] = fp[u] /\ onSignal'[u] = onSignal[u] /\ frames'[u] = frames[u]
    BY <1>0, <1>5, <1>7, <1>10 DEF TypeOK
  <2> QED BY <1>0, <1>5, <1>10, <2>1, OthersFound DEF FoundInv
<1>11. DOMAIN frames' = Threads
  BY <1>0, <1>5
<1> QED BY <1>9, <1>10, <1>11 DEF FoundInv

\* The walks that are under way and done have what they should.
LEMMA FoundHolds == Spec => []FoundInv
<1>1. Init => FoundInv
  <2> SUFFICES ASSUME NEW m \in Memories, InitWith(m) PROVE FoundInv
    BY DEF Init
  <2>1. <<>> \in Seq({}) /\ Len(<<>>) = 0
    OBVIOUS
  <2>2. ASSUME NEW t \in Threads PROVE FoundBy(t)
    <3>1. frames[t] = <<>> /\ pc[t] = "call"
      BY DEF InitWith
    <3> QED BY <2>1, <3>1, XuFpAssumption DEF FoundBy, IsSeq
  <2> QED BY <2>2 DEF InitWith, FoundInv
<1>2. FoundInv /\ IInv /\ [Next]_vars => FoundInv'
  <2> SUFFICES ASSUME FoundInv, IInv, [Next]_vars PROVE FoundInv'
    OBVIOUS
  <2>1. CASE UNCHANGED vars
    <3>1. UNCHANGED <<pc, mem, fp, onSignal, known, frames>>
      BY <2>1 DEF vars, walkVars
    <3>2. \A t \in Threads : FoundBy(t)'
      BY <3>1, OthersFound DEF FoundInv
    <3> QED BY <3>1, <3>2 DEF FoundInv
  <2>2. ASSUME NEW t \in Threads, Thread(t) PROVE FoundInv'
    <3>1. CASE Walk(t)
      BY <3>1, WalkFound
    <3>2. CASE \E found \in BOOLEAN : Begin(t, found)
      BY <3>2, BeginFound
    <3>3. CASE \/ FirstCheck(t) \/ Lock(t) \/ Unlock(t) \/ Return(t)
               \/ \E found \in BOOLEAN : FindSigreturn(t, found) \/ FindRange(t, found)
      BY <3>3, InitStepFound
    <3> QED BY <2>2, <3>1, <3>2, <3>3 DEF Thread
  <2> QED BY <2>1, <2>2 DEF Next
<1> QED BY <1>1, <1>2, Invariant, PTL DEF Spec

\* On stacks of any size, with any number of records and room for any number of frames:
\* where the records are those of a chain of calls, an unwinding that is done has the
\* callers, all of them or those there is room for (xu_fp_unwind, xu_fp_append_frame).
THEOREM CallersFound == Spec => []FindsCallers
<1>1. FoundInv => FindsCallers
  BY DEF FoundInv, FoundBy, AllFound, FindsCallers
<1> QED BY <1>1, FoundHolds, PTL
=============================================================================
