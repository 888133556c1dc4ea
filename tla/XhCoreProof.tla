---------------------------- MODULE XhCoreProof -----------------------------
(***************************************************************************)
(* Machine-checked proofs about XhCore, for every set of callers and every *)
(* number of guarded accesses in a pass; the first part, whatever the      *)
(* callers do.                                                             *)
(***************************************************************************)
EXTENDS XhCoreInv, XhCoreRefinement, TLAPS

\* A caller's control points and the refresh thread's, where a step needs them.
LEMMA PcsFacts ==
  /\ \A t \in Callers : CallPcs \cup ClearPcs \cup PassPcs \cup {"idle"} = PcsOf(t)
  /\ \A w \in Workers : WorkerPcs \cup PassPcs \cup {"none", "exited"} = PcsOf(w)
  /\ \A t \in Actors : PassPcs \subseteq PcsOf(t)
BY CallersAssumption DEF PcsOf, Actors

\* The control point tells whose code a thread runs.
LEMMA StackOf ==
  ASSUME PcOK, NEW t \in Actors
  PROVE  /\ pc[t] \in CallPcs \cup ClearPcs \cup {"idle"} => frame[t] \in Callers
         /\ pc[t] \in WorkerPcs \cup {"none", "exited"} => frame[t] \in Workers
<1>1. frame[t] \in Callers \/ frame[t] \in Workers
  BY DEF PcOK, Actors
<1>2. pc[t] \in PcsOf(frame[t])
  BY DEF PcOK
<1>3. QED BY <1>1, <1>2, CallersAssumption DEF PcsOf, CallPcs, ClearPcs, PassPcs, WorkerPcs

\* One thread moves.
LEMMA GotoPc ==
  ASSUME PcOK, NEW t \in Actors, NEW from, NEW to, to \in PcsOf(frame[t]),
         Goto(t, from, to), frame' = frame
  PROVE  PcOK'
BY DEF PcOK, Goto, PcsOf

\* Two threads move.
LEMMA TwoPc ==
  ASSUME PcOK, NEW t \in Actors, NEW to, to \in PcsOf(frame[t]),
         NEW w \in Actors, NEW wto, wto \in PcsOf(frame[w]),
         pc' = [pc EXCEPT ![t] = to, ![w] = wto], frame' = frame
  PROVE  PcOK'
BY DEF PcOK, PcsOf

\* One thread moves and signals the condition variable.
LEMMA SignalPc ==
  ASSUME PcOK, NEW t \in Actors, NEW to, to \in PcsOf(frame[t]),
         pc' \in Signalled([pc EXCEPT ![t] = to]), frame' = frame
  PROVE  PcOK'
<1>1. PICK f : f = [pc EXCEPT ![t] = to]
  OBVIOUS
<1>2. f = [u \in Actors |-> f[u]] /\ \A u \in Actors : f[u] \in PcsOf(frame[u])
  BY <1>1 DEF PcOK
<1>3. pc' = f \/ \E w \in Actors : f[w] = "w_wait" /\ pc' = [f EXCEPT ![w] = "w_relock"]
  BY <1>1 DEF Signalled
<1>4. CASE pc' = f
  BY <1>2, <1>4 DEF PcOK
<1>5. ASSUME NEW w \in Actors, f[w] = "w_wait", pc' = [f EXCEPT ![w] = "w_relock"]
      PROVE  PcOK'
  <2>1. "w_relock" \in PcsOf(frame[w])
    <3>1. "w_wait" \in PcsOf(frame[w])
      BY <1>2, <1>5
    <3>2. QED BY <3>1 DEF PcsOf, CallPcs, ClearPcs, PassPcs, WorkerPcs
  <2>2. \A u \in Actors : pc'[u] = IF u = w THEN "w_relock" ELSE f[u]
    BY <1>2, <1>5
  <2>3. pc' = [u \in Actors |-> pc'[u]]
    BY <1>2, <1>5
  <2>4. \A u \in Actors : pc'[u] \in PcsOf(frame'[u])
    BY <1>2, <2>1, <2>2
  <2>5. QED BY <2>3, <2>4 DEF PcOK
<1>6. QED BY <1>3, <1>4, <1>5

TypeInv == PcOK /\ DataOK /\ AccessLeft

\* Types hold at the start.
LEMMA TypeInit == Init => TypeInv
<1> SUFFICES ASSUME Init PROVE TypeInv
  OBVIOUS
<1>1. \A t \in Actors : pc[t] = IF t \in Callers THEN "idle" ELSE "none"
  BY DEF Init
<1>2. PcOK
  <2>1. frame \in [Actors -> Actors] /\ \A t \in Actors : frame[t] = t
    BY DEF Init
  <2>2. QED BY <1>1, <2>1 DEF Init, PcOK, PcsOf
<1>3. DataOK
  <2>1. HoldersOK /\ HandlerOK
    BY DEF Init, HoldersOK, HandlerOK
  <2>2. FlagsOK
    BY DEF Init, FlagsOK
  <2>3. LocalsOK
    BY BoundAssumption DEF Init, LocalsOK
  <2>4. QED BY <2>1, <2>2, <2>3 DEF DataOK
<1>4. AccessLeft
  BY <1>1 DEF AccessLeft
<1>5. QED BY <1>2, <1>3, <1>4 DEF TypeInv

\* A step that neither begins nor counts a guarded access.
LEMMA GotoLeft ==
  ASSUME TypeInv, NEW t \in Actors, NEW from, NEW to, Goto(t, from, to),
         to \notin {"guard", "bare", "caught"}, UNCHANGED left
  PROVE  AccessLeft'
BY DEF TypeInv, PcOK, Goto, AccessLeft

\* The steps of a refresh call keep the types.
LEMMA TypeRefresh == ASSUME TypeInv, NEW t \in Callers, Refresh(t) PROVE TypeInv'
<1> USE DEF Actors
<1> DEFINE Plain == \/ InitFast(t) \/ InitOnce(t) \/ InitAdd(t) \/ InitDone(t) \/ InitEnd(t)
                    \/ InitCheck(t) \/ AsyncFast(t) \/ AsyncOnce(t) \/ AsyncDone(t)
                    \/ AsyncEnd(t) \/ AsyncCheck(t) \/ ReturnFailed(t)
<1>1. CallPcs \cup {"idle"} \subseteq PcsOf(frame[t])
  <2>1. pc[t] \in CallPcs
    BY DEF Refresh, Goto, InitFast, InitOnce, InitAdd, InitDone, InitEnd, InitCheck, AsyncFast,
       AsyncOnce, AsyncCreate, AsyncDone, AsyncEnd, AsyncCheck, ReqPost, ReturnFailed, CallPcs
  <2>2. QED BY <2>1, StackOf, PcsFacts DEF TypeInv
<1>2. CASE Plain
  <2>1. PICK from, to : Goto(t, from, to) /\ to \in CallPcs \cup {"idle"}
    BY <1>2 DEF InitFast, InitOnce, InitAdd, InitDone, InitEnd, InitCheck, AsyncFast,
       AsyncOnce, AsyncDone, AsyncEnd, AsyncCheck, ReturnFailed, CallPcs
  <2>3. UNCHANGED <<left, frame>>
    BY <1>2 DEF InitFast, InitOnce, InitAdd, InitDone, InitEnd, InitCheck, AsyncFast,
       AsyncOnce, AsyncDone, AsyncEnd, AsyncCheck, ReturnFailed, segvVars, callVars
  <2>2. PcOK'
    BY <1>1, <2>1, <2>3, GotoPc DEF TypeInv
  <2>4. AccessLeft'
    BY <2>1, <2>3, GotoLeft DEF CallPcs
  <2>5. DataOK'
    <3>1. HoldersOK'
      BY <1>2, SwitchAssumption DEF TypeInv, DataOK, HoldersOK, InitFast, InitOnce, InitAdd, InitDone, InitEnd, InitCheck, AsyncFast,
         AsyncOnce, AsyncDone, AsyncEnd, AsyncCheck, ReturnFailed, LeaveCall,
         locks, initVars, workVars, segvVars, callVars
    <3>2. FlagsOK'
      BY <1>2, SwitchAssumption DEF TypeInv, DataOK, FlagsOK, InitFast, InitOnce, InitAdd, InitDone, InitEnd, InitCheck, AsyncFast,
         AsyncOnce, AsyncDone, AsyncEnd, AsyncCheck, ReturnFailed, LeaveCall,
         locks, initVars, workVars, segvVars, callVars
    <3>3. HandlerOK'
      BY <1>2, SwitchAssumption DEF TypeInv, DataOK, HandlerOK, InitFast, InitOnce, InitAdd, InitDone, InitEnd, InitCheck, AsyncFast,
         AsyncOnce, AsyncDone, AsyncEnd, AsyncCheck, ReturnFailed, LeaveCall,
         locks, initVars, workVars, segvVars, callVars
    <3>4. LocalsOK'
      BY <1>2, SwitchAssumption DEF TypeInv, DataOK, LocalsOK, InitFast, InitOnce, InitAdd, InitDone, InitEnd, InitCheck, AsyncFast,
         AsyncOnce, AsyncDone, AsyncEnd, AsyncCheck, ReturnFailed, LeaveCall,
         locks, initVars, workVars, segvVars, callVars
    <3>5. QED BY <3>1, <3>2, <3>3, <3>4 DEF DataOK
  <2>6. QED BY <2>2, <2>4, <2>5 DEF TypeInv
<1>3. CASE AsyncCreate(t)
  <2>1. DataOK' /\ UNCHANGED <<left, frame>>
    <3>1. HoldersOK'
      BY <1>3 DEF TypeInv, DataOK, HoldersOK, AsyncCreate, locks, initVars, workVars, segvVars, callVars
    <3>2. FlagsOK'
      BY <1>3 DEF TypeInv, DataOK, FlagsOK, AsyncCreate, locks, initVars, workVars, segvVars, callVars
    <3>3. HandlerOK'
      BY <1>3 DEF TypeInv, DataOK, HandlerOK, AsyncCreate, locks, initVars, workVars, segvVars, callVars
    <3>4. LocalsOK' /\ UNCHANGED <<left, frame>>
      BY <1>3 DEF TypeInv, DataOK, LocalsOK, AsyncCreate, locks, initVars, workVars, segvVars, callVars
    <3>5. QED BY <3>1, <3>2, <3>3, <3>4 DEF DataOK
  <2>2. CASE Goto(t, "async_create", "async_end")
    BY <1>1, <2>1, <2>2, GotoPc, GotoLeft DEF TypeInv, CallPcs
  <2>3. ASSUME NEW w \in Workers, pc[w] = "none",
               pc' = [pc EXCEPT ![t] = "async_done", ![w] = "w_top"]
        PROVE  TypeInv'
    <3>1. "w_top" \in PcsOf(frame[w]) /\ "async_done" \in PcsOf(frame[t])
      BY <1>1, <2>3, PcsFacts, StackOf DEF WorkerPcs, CallPcs, TypeInv
    <3>2. PcOK'
      BY <2>1, <2>3, <3>1, TwoPc DEF TypeInv
    <3>3. AccessLeft'
      BY <2>1, <2>3 DEF TypeInv, PcOK, AccessLeft
    <3>4. QED BY <2>1, <3>2, <3>3 DEF TypeInv
  <2>4. QED BY <1>3, <2>2, <2>3 DEF AsyncCreate
<1>4. CASE ReqPost(t)
  <2>1. DataOK' /\ UNCHANGED <<left, frame>>
    BY <1>4 DEF TypeInv, DataOK, HoldersOK, FlagsOK, HandlerOK,
       LocalsOK, ReqPost, LeaveCall, locks, initVars, workVars, segvVars, callVars
  <2>2. PcOK'
    BY <1>1, <1>4, <2>1, SignalPc DEF TypeInv, ReqPost
  <2>3. AccessLeft'
    BY <1>4, <2>1 DEF TypeInv, PcOK, AccessLeft, ReqPost, Signalled
  <2>4. QED BY <2>1, <2>2, <2>3 DEF TypeInv
<1>5. QED BY <1>2, <1>3, <1>4 DEF Refresh

\* The steps of a clear keep the types.
LEMMA TypeClear == ASSUME TypeInv, NEW t \in Callers, Clear(t) PROVE TypeInv'
<1> USE DEF Actors
<1> DEFINE Plain == \/ ClearAok(t) \/ ClearTid(t) \/ ClearAok0(t) \/ ClearAinit0(t)
                    \/ ClearIok(t) \/ ClearDel(t) \/ ClearIok0(t) \/ ClearInit0(t)
                    \/ ClearFree(t)
<1>1. ClearPcs \cup {"idle"} \subseteq PcsOf(frame[t])
  <2>1. pc[t] \in ClearPcs
    BY DEF Clear, Goto, ClearAok, ClearStop, ClearTid, ClearJoin, ClearAok0, ClearAinit0,
       ClearIok, ClearDel, ClearIok0, ClearInit0, ClearFree, ClearPcs
  <2>2. QED BY <2>1, StackOf, PcsFacts DEF TypeInv
<1>2. CASE Plain
  <2>1. PICK from, to : Goto(t, from, to) /\ to \in ClearPcs \cup {"idle"}
    BY <1>2 DEF ClearAok, ClearTid, ClearAok0, ClearAinit0, ClearIok, ClearDel,
       ClearIok0, ClearInit0, ClearFree, ClearPcs
  <2>3. UNCHANGED <<left, frame>>
    BY <1>2 DEF ClearAok, ClearTid, ClearAok0, ClearAinit0, ClearIok, ClearDel,
       ClearIok0, ClearInit0, ClearFree, segvVars, callVars
  <2>2. PcOK'
    BY <1>1, <2>1, <2>3, GotoPc DEF TypeInv
  <2>4. AccessLeft'
    BY <2>1, <2>3, GotoLeft DEF ClearPcs
  <2>5. DataOK'
    <3>1. HoldersOK'
      BY <1>2 DEF TypeInv, DataOK, HoldersOK, ClearAok, ClearTid, ClearAok0, ClearAinit0, ClearIok,
         ClearDel, ClearIok0, ClearInit0, ClearFree, LeaveCall,
         locks, initVars, workVars, segvVars, callVars
    <3>2. FlagsOK'
      BY <1>2 DEF TypeInv, DataOK, FlagsOK, ClearAok, ClearTid, ClearAok0, ClearAinit0, ClearIok,
         ClearDel, ClearIok0, ClearInit0, ClearFree, LeaveCall,
         locks, initVars, workVars, segvVars, callVars
    <3>3. HandlerOK'
      BY <1>2 DEF TypeInv, DataOK, HandlerOK, ClearAok, ClearTid, ClearAok0, ClearAinit0, ClearIok,
         ClearDel, ClearIok0, ClearInit0, ClearFree, LeaveCall,
         locks, initVars, workVars, segvVars, callVars
    <3>4. LocalsOK'
      BY <1>2 DEF TypeInv, DataOK, HoldersOK, LocalsOK, ClearAok, ClearTid, ClearAok0, ClearAinit0, ClearIok,
         ClearDel, ClearIok0, ClearInit0, ClearFree, LeaveCall,
         locks, initVars, workVars, segvVars, callVars
    <3>5. QED BY <3>1, <3>2, <3>3, <3>4 DEF DataOK
  <2>6. QED BY <2>2, <2>4, <2>5 DEF TypeInv
<1>3. CASE ClearStop(t)
  <2>1. DataOK' /\ UNCHANGED <<left, frame>>
    <3>1. HoldersOK'
      BY <1>3 DEF TypeInv, DataOK, HoldersOK, ClearStop, locks, initVars, workVars, segvVars, callVars
    <3>2. FlagsOK'
      BY <1>3 DEF TypeInv, DataOK, FlagsOK, ClearStop, locks, initVars, workVars, segvVars, callVars
    <3>3. HandlerOK'
      BY <1>3 DEF TypeInv, DataOK, HandlerOK, ClearStop, locks, initVars, workVars, segvVars, callVars
    <3>4. LocalsOK' /\ UNCHANGED <<left, frame>>
      BY <1>3 DEF TypeInv, DataOK, LocalsOK, ClearStop, locks, initVars, workVars, segvVars, callVars
    <3>5. QED BY <3>1, <3>2, <3>3, <3>4 DEF DataOK
  <2>2. PcOK'
    BY <1>1, <1>3, <2>1, SignalPc DEF TypeInv, ClearStop, ClearPcs
  <2>3. AccessLeft'
    BY <1>3, <2>1 DEF TypeInv, PcOK, AccessLeft, ClearStop, Signalled
  <2>4. QED BY <2>1, <2>2, <2>3 DEF TypeInv
<1>4. CASE ClearJoin(t)
  <2>1. DataOK' /\ UNCHANGED <<left, frame>>
    BY <1>4 DEF TypeInv, DataOK, HoldersOK, FlagsOK, HandlerOK,
       LocalsOK, ClearJoin, locks, initVars, workVars, segvVars, callVars
  <2>2. PICK w \in Workers : /\ pc[w] \in {"exited", "none"}
                             /\ pc' = [pc EXCEPT ![t] = "c_aok0", ![w] = "none"]
    BY <1>4 DEF ClearJoin
  <2>3. "none" \in PcsOf(frame[w]) /\ "c_aok0" \in PcsOf(frame[t])
    BY <1>1, <2>2, PcsFacts, StackOf DEF ClearPcs, TypeInv
  <2>4. PcOK'
    BY <2>1, <2>2, <2>3, TwoPc DEF TypeInv
  <2>5. AccessLeft'
    BY <2>1, <2>2 DEF TypeInv, PcOK, AccessLeft
  <2>6. QED BY <2>1, <2>4, <2>5 DEF TypeInv
<1>5. QED BY <1>2, <1>3, <1>4 DEF Clear

\* The accesses and the end of a pass keep the types.
LEMMA TypePass ==
  ASSUME TypeInv, NEW t \in Actors,
         BeginAccess(t) \/ EndAccess(t) \/ EndPass(t) \/ GuardFault(t)
  PROVE  TypeInv'
<1>1. PassPcs \subseteq PcsOf(frame[t])
  BY PcsFacts DEF TypeInv, PcOK
<1>2. CASE BeginAccess(t)
  <2>1. PcOK'
    BY <1>1, <1>2, GotoPc DEF TypeInv, BeginAccess, PassPcs
  <2>2. DataOK'
    BY <1>2 DEF TypeInv, DataOK, HoldersOK, FlagsOK, HandlerOK,
       LocalsOK, BeginAccess, Actors, locks, initVars, workVars, segvVars, callVars
  <2>3. AccessLeft'
    BY <1>2 DEF TypeInv, PcOK, AccessLeft, BeginAccess, Goto, callVars
  <2>4. QED BY <2>1, <2>2, <2>3 DEF TypeInv
<1>3. CASE EndAccess(t)
  <2>1. PICK from \in {"guard", "bare", "caught"} : Goto(t, from, "pass")
    BY <1>3 DEF EndAccess
  <2>2. PcOK'
    BY <1>1, <1>3, <2>1, GotoPc DEF TypeInv, PassPcs, EndAccess
  <2>3. left[t] > 0
    BY <2>1 DEF TypeInv, AccessLeft, Goto
  <2>4. left' = [left EXCEPT ![t] = @ - 1]
    BY <1>3 DEF EndAccess
  <2>5. left' \in [Actors -> 0..MaxElfs]
    BY <2>3, <2>4, BoundAssumption DEF TypeInv, DataOK, LocalsOK
  <2>6. DataOK'
    BY <1>3, <2>5 DEF TypeInv, DataOK, HoldersOK, FlagsOK, HandlerOK,
       LocalsOK, EndAccess, Actors, locks, initVars, workVars, segvVars, callVars
  <2>7. AccessLeft'
    BY <2>1, <2>4 DEF TypeInv, DataOK, HoldersOK, FlagsOK, HandlerOK,
       LocalsOK, PcOK, AccessLeft, Goto
  <2>8. QED BY <2>2, <2>6, <2>7 DEF TypeInv
<1>4. CASE EndPass(t)
  <2>1. (IF frame[t] \in Callers THEN "idle" ELSE "w_top") \in PcsOf(frame[t])
    BY PcsFacts DEF Actors, WorkerPcs, TypeInv, PcOK
  <2>2. PcOK'
    BY <1>4, <2>1, GotoPc DEF TypeInv, EndPass, segvVars
  <2>3. DataOK'
    BY <1>4 DEF TypeInv, DataOK, HoldersOK, FlagsOK, HandlerOK,
       LocalsOK, EndPass, LeaveCall, locks, initVars, workVars, segvVars, callVars
  <2>4. AccessLeft'
    BY <1>4 DEF TypeInv, PcOK, AccessLeft, EndPass, Goto
  <2>5. QED BY <2>2, <2>3, <2>4 DEF TypeInv
<1>5. CASE GuardFault(t)
  <2>1. PcOK'
    BY <1>1, <1>5, GotoPc DEF TypeInv, PassPcs, GuardFault
  <2>2. DataOK'
    BY <1>5 DEF TypeInv, DataOK, HoldersOK, FlagsOK, HandlerOK, LocalsOK, GuardFault, Called,
       locks, initVars, workVars, callVars
  <2>3. AccessLeft'
    BY <1>5 DEF TypeInv, PcOK, AccessLeft, GuardFault, Goto, callVars
  <2>4. QED BY <2>1, <2>2, <2>3 DEF TypeInv
<1>6. QED BY <1>2, <1>3, <1>4, <1>5

\* Taking a mutex keeps the types.
LEMMA TypeAcquire ==
  ASSUME TypeInv, NEW t \in Actors, AcquireCore(t) \/ AcquireRefr(t)
  PROVE  TypeInv'
<1>1. CASE AcquireCore(t)
  <2>1. PICK w \in CoreWaits : LockCore(t, w[1], w[2])
    BY <1>1 DEF AcquireCore
  <2>2. w[2] \in PcsOf(frame[t]) /\ w[2] \notin {"guard", "bare", "caught"}
    <3>1. pc[t] = w[1] /\ pc[t] \in PcsOf(frame[t])
      BY <2>1 DEF LockCore, Goto, TypeInv, PcOK
    <3>2. QED BY <3>1 DEF CoreWaits, PcsOf, CallPcs, ClearPcs, WorkerPcs, PassPcs
  <2>3. PcOK'
    BY <2>1, <2>2, GotoPc DEF TypeInv, LockCore, segvVars
  <2>4. DataOK'
    BY <2>1 DEF TypeInv, DataOK, HoldersOK, FlagsOK, HandlerOK,
       LocalsOK, LockCore, initVars, workVars, segvVars, callVars
  <2>5. AccessLeft'
    BY <2>1, <2>2, GotoLeft DEF LockCore, callVars
  <2>6. QED BY <2>3, <2>4, <2>5 DEF TypeInv
<1>2. CASE AcquireRefr(t)
  <2>1. CASE Goto(t, "c_refr", "c_free") /\ UNCHANGED left
    <3>1. "c_free" \in PcsOf(frame[t])
      <4>1. pc[t] = "c_refr" /\ pc[t] \in PcsOf(frame[t])
        BY <2>1 DEF Goto, TypeInv, PcOK
      <4>2. QED BY <4>1 DEF PcsOf, CallPcs, ClearPcs, WorkerPcs, PassPcs
    <3>2. PcOK' /\ AccessLeft'
      BY <1>2, <2>1, <3>1, GotoPc, GotoLeft DEF TypeInv, AcquireRefr, segvVars
    <3>3. DataOK'
      BY <1>2, <2>1 DEF TypeInv, DataOK, HoldersOK, FlagsOK, HandlerOK,
       LocalsOK, AcquireRefr, initVars, workVars, segvVars
    <3>4. QED BY <3>2, <3>3 DEF TypeInv
  <2>2. ASSUME NEW from, Goto(t, from, "pass"),
               NEW n \in 0..MaxElfs, left' = [left EXCEPT ![t] = n]
        PROVE  TypeInv'
    <3>1. PcOK'
      <4>1. "pass" \in PcsOf(frame[t])
        BY PcsFacts DEF TypeInv, PcOK, PassPcs
      <4>2. QED BY <1>2, <2>2, <4>1, GotoPc DEF TypeInv, AcquireRefr, segvVars
    <3>2. DataOK'
      BY <1>2, <2>2 DEF TypeInv, DataOK, HoldersOK, FlagsOK, HandlerOK,
       LocalsOK, AcquireRefr, initVars, workVars, segvVars
    <3>3. AccessLeft'
      BY <2>2 DEF TypeInv, PcOK, AccessLeft, Goto
    <3>4. QED BY <3>1, <3>2, <3>3 DEF TypeInv
  <2>3. QED BY <1>2, <2>1, <2>2 DEF AcquireRefr
<1>3. QED BY <1>1, <1>2

\* The refresh thread, the beginning of a call, a fault outside a pass and the
\* protection switch keep the types.
LEMMA TypeOther ==
  ASSUME TypeInv, JumpInv,
         \/ \E w \in Actors : Worker(w) \/ WorkerWake(w) \/ ForeignFault(w)
         \/ \E t \in Callers : \E a \in BOOLEAN : CallRefresh(t, a) \/ Enable(t, a)
         \/ \E t \in Callers : CallClear(t)
  PROVE  TypeInv'
<1> USE DEF Actors
<1>1. ASSUME NEW w \in Actors, Worker(w) \/ WorkerWake(w) PROVE TypeInv'
  <2>1. PICK from \in WorkerPcs, to \in WorkerPcs \cup {"exited"} : Goto(w, from, to)
    BY <1>1 DEF Worker, WorkerTop, WorkerCheck, WorkerWake, WorkerPcs
  <2>2. PcOK'
    <3>1. to \in PcsOf(frame[w])
      BY <2>1, StackOf, PcsFacts DEF TypeInv, Goto
    <3>2. frame' = frame
      BY <1>1 DEF Worker, WorkerTop, WorkerCheck, WorkerWake, segvVars
    <3>3. QED BY <2>1, <3>1, <3>2, GotoPc DEF TypeInv
  <2>3. DataOK' /\ UNCHANGED left
    <3>1. HoldersOK'
      BY <1>1 DEF TypeInv, DataOK, HoldersOK, Worker, WorkerTop, WorkerCheck, WorkerWake,
         locks, initVars, workVars, segvVars, callVars
    <3>2. FlagsOK'
      BY <1>1 DEF TypeInv, DataOK, FlagsOK, Worker, WorkerTop, WorkerCheck, WorkerWake,
         locks, initVars, workVars, segvVars, callVars
    <3>3. HandlerOK'
      BY <1>1 DEF TypeInv, DataOK, HandlerOK, Worker, WorkerTop, WorkerCheck, WorkerWake,
         locks, initVars, workVars, segvVars, callVars
    <3>4. LocalsOK' /\ UNCHANGED left
      BY <1>1 DEF TypeInv, DataOK, LocalsOK, Worker, WorkerTop, WorkerCheck, WorkerWake,
         locks, initVars, workVars, segvVars, callVars
    <3>5. QED BY <3>1, <3>2, <3>3, <3>4 DEF DataOK
  <2>4. AccessLeft'
    BY <2>1, <2>3, GotoLeft DEF WorkerPcs
  <2>5. QED BY <2>2, <2>3, <2>4 DEF TypeInv
<1>2. ASSUME NEW t \in Callers, NEW a \in BOOLEAN, CallRefresh(t, a) PROVE TypeInv'
  <2>1. PcOK'
    <3>1. "init_fast" \in PcsOf(frame[t])
      BY <1>2, StackOf, PcsFacts DEF TypeInv, CallRefresh, CallPcs, Goto
    <3>2. QED BY <1>2, <3>1, GotoPc DEF TypeInv, CallRefresh, segvVars
  <2>2. DataOK'
    BY <1>2 DEF TypeInv, DataOK, HoldersOK, FlagsOK, HandlerOK,
       LocalsOK, CallRefresh, locks, initVars, workVars, segvVars
  <2>3. AccessLeft'
    BY <1>2, GotoLeft DEF CallRefresh
  <2>4. QED BY <2>1, <2>2, <2>3 DEF TypeInv
<1>3. ASSUME NEW t \in Callers, NEW a \in BOOLEAN, Enable(t, a) PROVE TypeInv'
  <2>1. PcOK' /\ AccessLeft'
    BY <1>3 DEF TypeInv, PcOK, AccessLeft, Enable, callVars
  <2>2. HoldersOK' /\ LocalsOK' /\ FlagsOK'
    BY <1>3 DEF TypeInv, DataOK, HoldersOK, LocalsOK, FlagsOK, Enable,
       locks, initVars, workVars, callVars
  <2>3. HandlerOK'
    BY <1>3 DEF TypeInv, DataOK, HandlerOK, Enable
  <2>4. QED BY <2>1, <2>2, <2>3 DEF TypeInv, DataOK
<1>4. ASSUME NEW t \in Callers, CallClear(t) PROVE TypeInv'
  <2>1. PcOK'
    <3>1. "c_aok" \in PcsOf(frame[t])
      BY <1>4, StackOf, PcsFacts DEF TypeInv, CallClear, ClearPcs, Goto
    <3>2. QED BY <1>4, <3>1, GotoPc DEF TypeInv, CallClear, segvVars
  <2>2. DataOK' /\ UNCHANGED left
    BY <1>4 DEF TypeInv, DataOK, HoldersOK, FlagsOK, HandlerOK,
       LocalsOK, CallClear, locks, initVars, workVars, segvVars, callVars
  <2>3. AccessLeft'
    BY <1>4, <2>2, GotoLeft DEF CallClear
  <2>4. QED BY <2>1, <2>2, <2>3 DEF TypeInv
<1>5. ASSUME NEW t \in Actors, ForeignFault(t) PROVE TypeInv'
  <2>1. HoldersOK' /\ FlagsOK' /\ HandlerOK'
    BY <1>5 DEF TypeInv, DataOK, HoldersOK, FlagsOK, HandlerOK, ForeignFault, Called,
       locks, initVars, workVars
  <2>2. CASE jump = NoThread
    BY <1>5, <2>1, <2>2 DEF TypeInv, DataOK, LocalsOK, PcOK, AccessLeft, ForeignFault
  <2>3. CASE jump # NoThread
    <3>1. /\ jump \in Actors
          /\ pc' = [pc EXCEPT ![t] = "caught"]
          /\ frame' = [frame EXCEPT ![t] = frame[jump]]
          /\ left' = [left EXCEPT ![t] = left[jump]]
          /\ UNCHANGED <<async, joining, sawInit>>
      BY <1>5, <2>3 DEF ForeignFault, TypeInv, DataOK, HoldersOK
    <3>2. PcOK'
      <4>1. "caught" \in PcsOf(frame[jump]) /\ frame[jump] \in Actors
        BY <3>1, PcsFacts DEF TypeInv, PcOK, PassPcs
      <4>2. QED BY <3>1, <4>1 DEF TypeInv, PcOK
    <3>3. LocalsOK'
      BY <3>1 DEF TypeInv, DataOK, LocalsOK
    <3>4. left[jump] > 0
      BY <1>5, <2>3, <3>1 DEF TypeInv, JumpInv, AccessLeft
    <3>5. AccessLeft'
      BY <3>1, <3>4 DEF TypeInv, PcOK, DataOK, LocalsOK, AccessLeft
    <3>6. QED BY <2>1, <3>2, <3>3, <3>5 DEF TypeInv, DataOK
  <2>4. QED BY <2>2, <2>3
<1>6. QED BY <1>1, <1>2, <1>3, <1>4, <1>5

\* Every step keeps the types.
LEMMA TypeStep == TypeInv /\ JumpInv /\ [Next]_vars => TypeInv'
<1> SUFFICES ASSUME TypeInv, JumpInv, [Next]_vars PROVE TypeInv'
  OBVIOUS
<1>1. CASE UNCHANGED vars
  BY <1>1 DEF vars, TypeInv, PcOK, DataOK, HoldersOK, FlagsOK, HandlerOK,
       LocalsOK, AccessLeft,
     locks, initVars, workVars, segvVars, callVars
<1>2. CASE Next
  BY <1>2, TypeRefresh, TypeClear, TypePass, TypeAcquire, TypeOther
  DEF Next, Work, Acquire
<1>3. QED BY <1>1, <1>2

\* The buffer is unused at the start.
LEMMA JumpInit == Init => JumpInv
BY DEF Init, JumpInv

\* A step that leaves the flag and every guarded thread alone.
LEMMA JumpKept ==
  ASSUME JumpInv, jump' = jump,
         \A u \in Actors : pc[u] \in {"guard", "caught"} => pc'[u] = pc[u]
  PROVE  JumpInv'
BY DEF JumpInv

\* Every step leaves in the buffer the thread that is inside an access.
LEMMA JumpStep == TypeInv /\ JumpInv /\ [Next]_vars => JumpInv'
<1> SUFFICES ASSUME TypeInv, JumpInv, [Next]_vars PROVE JumpInv'
  OBVIOUS
<1> USE DEF TypeInv, PcOK, Goto, segvVars, Actors
<1>1. ASSUME NEW t \in Actors, BeginAccess(t) PROVE JumpInv'
  BY <1>1 DEF BeginAccess, JumpInv
<1>2. ASSUME NEW t \in Actors, EndAccess(t) \/ GuardFault(t) PROVE JumpInv'
  BY <1>2 DEF EndAccess, GuardFault, JumpInv
<1>3. ASSUME NEW t \in Actors, EndPass(t) \/ AcquireCore(t) \/ AcquireRefr(t) PROVE JumpInv'
  <2>1. CASE EndPass(t) \/ AcquireRefr(t)
    BY <2>1, JumpKept DEF EndPass, AcquireRefr
  <2>2. CASE AcquireCore(t)
    <3>1. PICK w \in CoreWaits : LockCore(t, w[1], w[2])
      BY <2>2 DEF AcquireCore
    <3>2. w[1] \notin {"guard", "caught"}
      BY DEF CoreWaits
    <3>3. QED BY <3>1, <3>2, JumpKept DEF LockCore
  <2>3. QED BY <1>3, <2>1, <2>2
<1>4. ASSUME NEW t \in Callers, Refresh(t) PROVE JumpInv'
  <2>1. CASE ReqPost(t)
    <3>1. \A u \in Actors : pc[u] \in {"guard", "caught"} => pc'[u] = pc[u]
      BY <2>1 DEF ReqPost, Signalled
    <3>2. QED BY <2>1, <3>1, JumpKept DEF ReqPost
  <2>2. CASE InitFast(t) \/ InitOnce(t) \/ InitAdd(t) \/ InitDone(t) \/ InitEnd(t)
             \/ InitCheck(t) \/ AsyncFast(t)
    BY <2>2, JumpKept DEF InitFast, InitOnce, InitAdd, InitDone, InitEnd, InitCheck, AsyncFast
  <2>3. CASE AsyncOnce(t) \/ AsyncCreate(t) \/ AsyncDone(t) \/ AsyncEnd(t)
             \/ AsyncCheck(t) \/ ReturnFailed(t)
    BY <2>3, JumpKept DEF AsyncOnce, AsyncCreate, AsyncDone, AsyncEnd, AsyncCheck, ReturnFailed
  <2>4. QED BY <1>4, <2>1, <2>2, <2>3 DEF Refresh
<1>5. ASSUME NEW t \in Callers, Clear(t) PROVE JumpInv'
  <2>1. CASE ClearStop(t)
    <3>1. \A u \in Actors : pc[u] \in {"guard", "caught"} => pc'[u] = pc[u]
      BY <2>1 DEF ClearStop, Signalled
    <3>2. QED BY <2>1, <3>1, JumpKept DEF ClearStop
  <2>2. CASE ClearAok(t) \/ ClearTid(t) \/ ClearJoin(t) \/ ClearAok0(t) \/ ClearAinit0(t)
    BY <2>2, JumpKept DEF ClearAok, ClearTid, ClearJoin, ClearAok0, ClearAinit0
  <2>3. CASE ClearIok(t) \/ ClearDel(t) \/ ClearIok0(t) \/ ClearInit0(t) \/ ClearFree(t)
    BY <2>3, JumpKept DEF ClearIok, ClearDel, ClearIok0, ClearInit0, ClearFree
  <2>4. QED BY <1>5, <2>1, <2>2, <2>3 DEF Clear
<1>6. ASSUME NEW w \in Actors, Worker(w) \/ WorkerWake(w) PROVE JumpInv'
  BY <1>6, JumpKept DEF Worker, WorkerTop, WorkerCheck, WorkerWake
<1>7. ASSUME NEW t \in Callers,
             CallClear(t) \/ \E a \in BOOLEAN : CallRefresh(t, a) \/ Enable(t, a)
      PROVE  JumpInv'
  BY <1>7, JumpKept DEF CallClear, CallRefresh, Enable
<1>8. CASE UNCHANGED vars
  BY <1>8, JumpKept DEF vars
<1>9. ASSUME NEW t \in Actors, ForeignFault(t) PROVE JumpInv'
  BY <1>9 DEF ForeignFault, JumpInv, DataOK, HoldersOK
<1>10. QED
  BY <1>1, <1>2, <1>3, <1>4, <1>5, <1>6, <1>7, <1>8, <1>9 DEF Next, Work, Acquire

\* Every step keeps a thread on its stack, but for a fault that meets the guarded
\* access of another.
LEMMA FrameStep ==
  ASSUME TypeInv, [Next]_vars
  PROVE  \/ frame' = frame
         \/ \E t \in Actors : /\ jump \in Actors \ {t}
                              /\ frame' = [frame EXCEPT ![t] = frame[jump]]
<1> USE DEF segvVars
<1>1. ASSUME NEW t \in Callers, Refresh(t) PROVE frame' = frame
  <2>1. CASE InitFast(t) \/ InitOnce(t) \/ InitAdd(t) \/ InitDone(t) \/ InitEnd(t)
             \/ InitCheck(t) \/ AsyncFast(t)
    BY <2>1 DEF InitFast, InitOnce, InitAdd, InitDone, InitEnd, InitCheck, AsyncFast
  <2>2. CASE AsyncOnce(t) \/ AsyncCreate(t) \/ AsyncDone(t) \/ AsyncEnd(t)
             \/ AsyncCheck(t) \/ ReqPost(t) \/ ReturnFailed(t)
    BY <2>2 DEF AsyncOnce, AsyncCreate, AsyncDone, AsyncEnd, AsyncCheck, ReqPost, ReturnFailed
  <2>3. QED BY <1>1, <2>1, <2>2 DEF Refresh
<1>2. ASSUME NEW t \in Callers, Clear(t) PROVE frame' = frame
  BY <1>2 DEF Clear, ClearAok, ClearStop, ClearTid, ClearJoin, ClearAok0, ClearAinit0,
     ClearIok, ClearDel, ClearIok0, ClearInit0, ClearFree
<1>3. ASSUME NEW t \in Actors,
             \/ BeginAccess(t) \/ EndAccess(t) \/ EndPass(t) \/ GuardFault(t)
             \/ Worker(t) \/ WorkerWake(t) \/ Acquire(t)
      PROVE  frame' = frame
  BY <1>3 DEF BeginAccess, EndAccess, EndPass, GuardFault, Worker, WorkerTop, WorkerCheck,
     WorkerWake, Acquire, AcquireCore, AcquireRefr, LockCore
<1>4. ASSUME NEW t \in Callers,
             CallClear(t) \/ \E a \in BOOLEAN : CallRefresh(t, a) \/ Enable(t, a)
      PROVE  frame' = frame
  BY <1>4 DEF CallClear, CallRefresh, Enable
<1>5. ASSUME NEW t \in Actors, ForeignFault(t)
      PROVE  \/ frame' = frame
             \/ /\ jump \in Actors \ {t}
                /\ frame' = [frame EXCEPT ![t] = frame[jump]]
  BY <1>5 DEF ForeignFault, TypeInv, DataOK, HoldersOK
<1>6. CASE UNCHANGED vars
  BY <1>6 DEF vars
<1>7. QED BY <1>1, <1>2, <1>3, <1>4, <1>5, <1>6 DEF Next, Work

\* Types hold, and the flag belongs to a guarded access.
LEMMA Typing == Spec => [](TypeInv /\ JumpInv)
BY TypeInit, TypeStep, JumpInit, JumpStep, PTL DEF Spec

\* Every variable keeps its type: the thread-local count of a pass never goes
\* below zero, and a control point of the refresh thread is never a caller's.
THEOREM TypeCorrect == Spec => []TypeOK
<1>1. TypeInv => TypeOK
  BY DEF TypeInv, TypeOK
<1>2. QED BY <1>1, Typing, PTL

\* The handler jumps into live frames only: whatever faults, clears and changes of
\* the protection come, a thread is taken onto another's stack only while that
\* one is inside of the guarded access the flag stands for.
THEOREM JumpsLand == Spec => JumpsLandInAccess
<1>1. ASSUME TypeInv, JumpInv, [Next]_vars,
             NEW t \in Actors, frame'[t] # frame[t]
      PROVE  \E u \in Actors \ {t} : frame[u] = frame'[t] /\ pc[u] \in {"guard", "caught"}
  <2>1. PICK v \in Actors : /\ jump \in Actors \ {v}
                           /\ frame' = [frame EXCEPT ![v] = frame[jump]]
    BY <1>1, FrameStep
  <2>2. v = t /\ frame'[t] = frame[jump]
    BY <1>1, <2>1 DEF TypeInv, PcOK
  <2>3. pc[jump] \in {"guard", "caught"}
    BY <1>1, <2>1, CallersAssumption DEF JumpInv, Actors
  <2>4. QED BY <2>1, <2>2, <2>3
<1>2. TypeInv /\ JumpInv /\ [Next]_vars =>
        [\A t \in Actors : frame'[t] # frame[t] =>
           \E u \in Actors \ {t} : frame[u] = frame'[t] /\ pc[u] \in {"guard", "caught"}]_vars
  BY <1>1
<1>3. QED BY <1>2, Typing, PTL DEF Spec, JumpsLandInAccess

-----------------------------------------------------------------------------
(* The two mutexes. *)

\* One thread moves, taking and giving back what the control points say.
LEMMA LockMove ==
  ASSUME TypeInv, LockInv, NEW t \in Actors, NEW from, NEW to, Goto(t, from, to),
         core' = IF to \in CorePcs THEN t ELSE IF from \in CorePcs THEN NoThread ELSE core,
         refr' = IF to \in RefrPcs THEN t ELSE IF from \in RefrPcs THEN NoThread ELSE refr,
         to \in CorePcs => from \in CorePcs \/ core = NoThread,
         to \in RefrPcs => from \in RefrPcs \/ refr = NoThread
  PROVE  LockInv'
<1>1. NoThread \notin Actors
  BY CallersAssumption DEF Actors
<1>2. \A u \in Actors : pc'[u] = IF u = t THEN to ELSE pc[u]
  BY DEF TypeInv, PcOK, Goto
<1>3. pc[t] = from
  BY DEF Goto
<1>4. \A u \in Actors : pc'[u] \in CorePcs <=> core' = u
  BY <1>1, <1>2, <1>3 DEF LockInv
<1>5. \A u \in Actors : pc'[u] \in RefrPcs <=> refr' = u
  BY <1>1, <1>2, <1>3 DEF LockInv
<1>6. QED BY <1>4, <1>5 DEF LockInv

\* A second thread moves between control points that hold no mutex.
LEMMA LockMoveTwo ==
  ASSUME TypeInv, LockInv, NEW t \in Actors, NEW to, NEW w \in Actors \ {t}, NEW wto,
         pc' = [pc EXCEPT ![t] = to, ![w] = wto],
         pc[w] \notin CorePcs \cup RefrPcs, wto \notin CorePcs \cup RefrPcs,
         to \notin RefrPcs, pc[t] \notin RefrPcs, refr' = refr,
         \/ to \in CorePcs /\ pc[t] \in CorePcs /\ core' = core
         \/ to \notin CorePcs /\ pc[t] \in CorePcs /\ core' = NoThread
         \/ to \notin CorePcs /\ pc[t] \notin CorePcs /\ core' = core
  PROVE  LockInv'
<1>1. NoThread \notin Actors
  BY CallersAssumption DEF Actors
<1>2. \A u \in Actors : pc'[u] = IF u = t THEN to ELSE IF u = w THEN wto ELSE pc[u]
  BY <1>1 DEF TypeInv, PcOK
<1>3. \A u \in Actors : pc'[u] \in CorePcs <=> core' = u
  BY <1>1, <1>2 DEF LockInv
<1>4. \A u \in Actors : pc'[u] \in RefrPcs <=> refr' = u
  BY <1>1, <1>2 DEF LockInv
<1>5. QED BY <1>3, <1>4 DEF LockInv

\* A caller moves and signals the condition variable.
LEMMA LockMoveSignal ==
  ASSUME TypeInv, LockInv, NEW t \in Actors, NEW from, NEW to, pc[t] = from,
         from \in CorePcs \ RefrPcs, to \notin CorePcs \cup RefrPcs, to # "w_wait",
         pc' \in Signalled([pc EXCEPT ![t] = to]),
         core' = NoThread, refr' = refr
  PROVE  LockInv'
<1>1. CASE pc' = [pc EXCEPT ![t] = to]
  BY <1>1, LockMove DEF Goto
<1>2. ASSUME NEW w \in Actors \ {t}, pc[w] = "w_wait",
             pc' = [pc EXCEPT ![t] = to, ![w] = "w_relock"]
      PROVE  LockInv'
  BY <1>2, LockMoveTwo DEF CorePcs, RefrPcs, PassPcs
<1>3. \A w \in Actors : [pc EXCEPT ![t] = to][w] = IF w = t THEN to ELSE pc[w]
  BY DEF TypeInv, PcOK
<1>4. pc' = [pc EXCEPT ![t] = to]
      \/ \E w \in Actors \ {t} : /\ pc[w] = "w_wait"
                                 /\ pc' = [[pc EXCEPT ![t] = to] EXCEPT ![w] = "w_relock"]
  BY <1>3 DEF Signalled
<1>5. QED BY <1>1, <1>2, <1>4

\* A step of a refresh leaves each mutex with the thread that is inside.
LEMMA LockRefresh ==
  ASSUME TypeInv, LockInv, NEW t \in Callers, Refresh(t) PROVE LockInv'
<1> USE DEF locks, CorePcs, RefrPcs, PassPcs
<1>1. t \in Actors
  BY DEF Actors
<1>2. CASE InitFast(t) \/ InitCheck(t) \/ AsyncFast(t) \/ AsyncCheck(t) \/ ReturnFailed(t)
  BY <1>1, <1>2, LockMove DEF InitFast, InitCheck, AsyncFast, AsyncCheck, ReturnFailed
<1>3. CASE InitOnce(t) \/ InitAdd(t) \/ InitDone(t) \/ InitEnd(t)
  <2>1. core = t
    BY <1>1, <1>3 DEF LockInv, InitOnce, InitAdd, InitDone, InitEnd, Goto
  <2>2. QED BY <1>1, <1>3, <2>1, LockMove DEF InitOnce, InitAdd, InitDone, InitEnd
<1>4. CASE AsyncOnce(t) \/ AsyncDone(t) \/ AsyncEnd(t)
  <2>1. core = t
    BY <1>1, <1>4 DEF LockInv, AsyncOnce, AsyncDone, AsyncEnd, Goto
  <2>2. QED BY <1>1, <1>4, <2>1, LockMove DEF AsyncOnce, AsyncDone, AsyncEnd
<1>5. CASE AsyncCreate(t)
  <2>1. CASE Goto(t, "async_create", "async_end")
    <3>1. core = t
      BY <1>1, <2>1 DEF LockInv, Goto
    <3>2. QED BY <1>1, <1>5, <2>1, <3>1, LockMove DEF AsyncCreate
  <2>2. ASSUME NEW w \in Workers, pc[t] = "async_create", pc[w] = "none",
               pc' = [pc EXCEPT ![t] = "async_done", ![w] = "w_top"]
        PROVE  LockInv'
    BY <1>1, <1>5, <2>2, LockMoveTwo DEF AsyncCreate, Actors
  <2>3. QED BY <1>5, <2>1, <2>2 DEF AsyncCreate
<1>6. CASE ReqPost(t)
  BY <1>1, <1>6, LockMoveSignal DEF ReqPost
<1>7. QED BY <1>2, <1>3, <1>4, <1>5, <1>6 DEF Refresh

\* A step of a clear leaves each mutex with the thread that is inside.
LEMMA LockClear ==
  ASSUME TypeInv, LockInv, NEW t \in Callers, Clear(t) PROVE LockInv'
<1> USE DEF locks, CorePcs, RefrPcs, PassPcs
<1>1. t \in Actors
  BY DEF Actors
<1>2. CASE ClearAok(t) \/ ClearTid(t) \/ ClearAok0(t) \/ ClearAinit0(t)
  BY <1>1, <1>2, LockMove DEF ClearAok, ClearTid, ClearAok0, ClearAinit0
<1>3. CASE ClearIok(t) \/ ClearDel(t) \/ ClearIok0(t) \/ ClearInit0(t)
  BY <1>1, <1>3, LockMove DEF ClearIok, ClearDel, ClearIok0, ClearInit0
<1>4. CASE ClearStop(t)
  BY <1>1, <1>4, LockMoveSignal DEF ClearStop
<1>5. CASE ClearJoin(t)
  <2>1. PICK w \in Workers : /\ pc[w] \in {"exited", "none"}
                             /\ pc' = [pc EXCEPT ![t] = "c_aok0", ![w] = "none"]
    BY <1>5 DEF ClearJoin
  <2>2. w \in Actors \ {t}
    BY <2>1, CallersAssumption DEF Actors
  <2>3. QED BY <1>1, <1>5, <2>1, <2>2, LockMoveTwo DEF ClearJoin
<1>6. CASE ClearFree(t)
  BY <1>1, <1>6, LockMove DEF ClearFree
<1>7. QED BY <1>2, <1>3, <1>4, <1>5, <1>6 DEF Clear

\* Every step leaves each mutex with the thread that is inside.
LEMMA LockStep == TypeInv /\ LockInv /\ [Next]_vars /\ OwnStacks' => LockInv'
<1> SUFFICES ASSUME TypeInv, LockInv, [Next]_vars, OwnStacks' PROVE LockInv'
  OBVIOUS
<1> USE DEF locks
<1>1. ASSUME NEW t \in Actors, BeginAccess(t) \/ EndAccess(t) \/ GuardFault(t)
      PROVE  LockInv'
  <2>1. refr = t
    BY <1>1 DEF LockInv, BeginAccess, EndAccess, GuardFault, Goto, RefrPcs, PassPcs
  <2>2. QED
    BY <1>1, <2>1, LockMove DEF BeginAccess, EndAccess, GuardFault, CorePcs, RefrPcs, PassPcs
<1>2. ASSUME NEW t \in Actors, EndPass(t) PROVE LockInv'
  <2>1. (IF frame[t] \in Callers THEN "idle" ELSE "w_top") \notin CorePcs \cup RefrPcs
    BY DEF CorePcs, RefrPcs, PassPcs
  <2>2. QED BY <1>2, <2>1, LockMove DEF EndPass, CorePcs, RefrPcs, PassPcs
<1>3. ASSUME NEW t \in Actors, AcquireCore(t) PROVE LockInv'
  <2>1. PICK w \in CoreWaits : LockCore(t, w[1], w[2])
    BY <1>3 DEF AcquireCore
  <2>2. w[1] \notin CorePcs \cup RefrPcs /\ w[2] \in CorePcs /\ w[2] \notin RefrPcs
    BY <2>1 DEF CoreWaits, CorePcs, RefrPcs, PassPcs
  <2>3. QED BY <2>1, <2>2, LockMove DEF LockCore
<1>4. ASSUME NEW t \in Actors, AcquireRefr(t) PROVE LockInv'
  <2>1. CASE Goto(t, "c_refr", "c_free")
    <3>1. core = t
      BY <2>1 DEF LockInv, Goto, CorePcs
    <3>2. QED BY <1>4, <2>1, <3>1, LockMove DEF AcquireRefr, CorePcs, RefrPcs, PassPcs
  <2>2. CASE Goto(t, "refr_lock", "pass") \/ Goto(t, "w_refr", "pass")
    BY <1>4, <2>2, LockMove DEF AcquireRefr, CorePcs, RefrPcs, PassPcs
  <2>3. QED BY <1>4, <2>1, <2>2 DEF AcquireRefr
<1>5. ASSUME NEW w \in Actors, Worker(w) \/ WorkerWake(w) PROVE LockInv'
  BY <1>5, LockMove
  DEF Worker, WorkerTop, WorkerCheck, WorkerWake, CorePcs, RefrPcs, PassPcs
<1>6. ASSUME NEW t \in Callers,
             CallClear(t) \/ \E a \in BOOLEAN : CallRefresh(t, a) \/ Enable(t, a)
      PROVE  LockInv'
  <2>1. t \in Actors
    BY DEF Actors
  <2>2. CASE UNCHANGED <<pc, locks>>
    BY <2>2 DEF LockInv
  <2>3. CASE ~UNCHANGED <<pc, locks>>
    BY <1>6, <2>1, <2>3, LockMove
    DEF CallClear, CallRefresh, Enable, Goto, CorePcs, RefrPcs, PassPcs
  <2>4. QED BY <2>2, <2>3
<1>7. CASE UNCHANGED vars
  BY <1>7 DEF vars, LockInv
<1>8. ASSUME NEW t \in Actors, ForeignFault(t) PROVE LockInv'
  <2>1. CASE jump = NoThread
    BY <1>8, <2>1 DEF ForeignFault, LockInv
  <2>2. CASE jump # NoThread
    <3>1. jump \in Actors \ {t} /\ frame'[t] = frame'[jump]
      BY <1>8, <2>2 DEF ForeignFault, TypeInv, PcOK, DataOK, HoldersOK
    <3>2. QED BY <3>1 DEF OwnStacks
  <2>3. QED BY <2>1, <2>2
<1>9. QED
  BY <1>1, <1>2, <1>3, <1>4, <1>5, <1>6, <1>7, <1>8, LockRefresh, LockClear
  DEF Next, Work, Acquire

\* No mutex is held at the start.
LEMMA LockInit == Init => LockInv
BY CallersAssumption DEF Init, LockInv, CorePcs, RefrPcs, PassPcs, Actors

\* Two threads that are on one stack stay on one.
LEMMA OwnBefore == TypeInv /\ [Next]_vars /\ OwnStacks' => OwnStacks
<1> SUFFICES ASSUME TypeInv, [Next]_vars, OwnStacks' PROVE OwnStacks
  OBVIOUS
<1>1. CASE frame' = frame
  BY <1>1 DEF OwnStacks
<1>2. ASSUME NEW t \in Actors, jump \in Actors \ {t},
             frame' = [frame EXCEPT ![t] = frame[jump]]
      PROVE  FALSE
  BY <1>2 DEF OwnStacks, TypeInv, PcOK
<1>3. QED BY <1>1, <1>2, FrameStep

\* Types and, while every thread is on its own stack, lock ownership always hold.
LEMMA Locking == Spec => [](TypeInv /\ JumpInv /\ FrameInv)
<1>1. Init => FrameInv
  BY LockInit DEF FrameInv
<1>2. TypeInv /\ FrameInv /\ [Next]_vars => FrameInv'
  BY LockStep, OwnBefore DEF FrameInv
<1>3. QED
  BY <1>1, <1>2, TypeInit, TypeStep, JumpInit, JumpStep, PTL DEF Spec

\* Until a fault of one thread lands in the pass of another, one thread at a time
\* uses the map tree, the two lists and the jump buffer, whatever the callers do,
\* clears at any time included.
THEOREM Exclusion == Spec => []RefreshExclusive
<1>1. FrameInv => RefreshExclusive
  BY DEF FrameInv, LockInv, RefreshExclusive
<1>2. QED BY <1>1, Locking, PTL

-----------------------------------------------------------------------------
(***************************************************************************)
(* From here on callers leave clear alone, switch protection only while    *)
(* the library is not initialised, and fault in guarded accesses only;     *)
(* sa_flags may come out with SA_RESETHAND or without it.  Clear never     *)
(* takes the SIGSEGV handler away from a pass, there is one refresh thread *)
(* at most, and clear leaves nothing behind.                               *)
(***************************************************************************)

ClearInv == TypeInv /\ JumpInv /\ LockInv /\ DisciplineInv

\* What each leaf below may look into; the action comes with the leaf.
USE CallersAssumption DEF Actors, Goto, Quiet, LeaveCall, locks, initVars, workVars,
  segvVars, callVars, TypeInv, PcOK, DataOK, HoldersOK, FlagsOK, HandlerOK, LockInv,
  CorePcs, RefrPcs, PassPcs, CallPcs, ClearPcs, WorkerPcs, PcsOf, ReadyPcs, TailPcs,
  DisciplineInv, ClearAlone, InitInv, WorkerInv, HandlerInv, ClearInv

\* The three ways xh_core_add_sigsegv_handler ends, by what they change.
LEMMA InitAddCases ==
  ASSUME Discipline, NEW t \in Callers, InitAdd(t)
  PROVE  \/ /\ ~enable /\ Goto(t, "init_add", "init_done")
            /\ UNCHANGED <<act, act_old, reset>>
         \/ /\ enable /\ Goto(t, "init_add", "init_done")
            /\ act_old' = act /\ act' = "xh"
         \/ /\ Goto(t, "init_add", "init_end")
            /\ UNCHANGED <<act, act_old, reset>>
BY DEF InitAdd, Discipline

\* Every thread is on its own stack: only refresh threads run the loop, and no
\* fault lands in another's pass.
LEMMA OwnMoves ==
  ASSUME Discipline, ClearInv
  PROVE  /\ \A t \in Actors : Worker(t) \/ WorkerWake(t) => t \in Workers
         /\ \A t \in Actors : ~ForeignFault(t)
<1>1. ASSUME NEW t \in Actors, Worker(t) \/ WorkerWake(t) PROVE t \in Workers
  <2>1. pc[t] \in WorkerPcs
    BY <1>1 DEF Worker, WorkerTop, WorkerCheck, WorkerWake
  <2>2. frame[t] \in Workers /\ frame[t] = t
    BY <2>1, StackOf
  <2>3. QED BY <2>2
<1>2. ASSUME NEW t \in Actors PROVE ~ForeignFault(t)
  BY DEF Discipline, ForeignFault
<1>3. QED BY <1>1, <1>2

\* A signal moves the caller, and a waiting refresh thread perhaps.
LEMMA SignalMoves ==
  ASSUME ClearInv, NEW t \in Callers, NEW to, to # "w_wait",
         pc' \in Signalled([pc EXCEPT ![t] = to])
  PROVE  /\ pc' = [u \in Actors |-> pc'[u]]
         /\ pc'[t] = to
         /\ \A u \in Callers \ {t} : pc'[u] = pc[u]
         /\ \A w \in Workers : \/ pc'[w] = pc[w]
                               \/ pc[w] = "w_wait" /\ pc'[w] = "w_relock"
<1>1. CASE pc' = [pc EXCEPT ![t] = to]
  BY <1>1
<1>2. ASSUME NEW v \in Workers, pc[v] = "w_wait",
             pc' = [pc EXCEPT ![t] = to, ![v] = "w_relock"]
      PROVE  /\ pc' = [u \in Actors |-> pc'[u]]
             /\ pc'[t] = to
             /\ \A u \in Callers \ {t} : pc'[u] = pc[u]
             /\ \A w \in Workers : \/ pc'[w] = pc[w]
                                   \/ pc[w] = "w_wait" /\ pc'[w] = "w_relock"
  <2>1. PcOK /\ v # t
    <3>1. v # t
      BY CallersAssumption
    <3>2. PcOK
      BY DEF ClearInv, TypeInv
    <3>3. QED BY <3>1, <3>2
  <2> HIDE DEF ClearInv
  <2>2. \A u \in Actors : pc'[u] = IF u = v THEN "w_relock" ELSE IF u = t THEN to ELSE pc[u]
    BY <1>2, <2>1
  <2>3. pc' = [u \in Actors |-> pc'[u]]
    BY <1>2, <2>1
  <2>4. QED BY <1>2, <2>1, <2>2, <2>3
<1>3. \A v \in Actors : [pc EXCEPT ![t] = to][v] = IF v = t THEN to ELSE pc[v]
  OBVIOUS
<1>4. \A v \in Actors : [pc EXCEPT ![t] = to][v] = "w_wait" => v \in Workers /\ pc[v] = "w_wait"
  BY <1>3
<1>5. pc' = [pc EXCEPT ![t] = to]
      \/ \E v \in Workers : /\ pc[v] = "w_wait"
                            /\ pc' = [[pc EXCEPT ![t] = to] EXCEPT ![v] = "w_relock"]
  BY <1>4 DEF Signalled
<1>6. QED BY <1>1, <1>2, <1>5

\* The posting of a request, and the stop of the refresh thread, as moves.
MovedReqPost(t) ==
  /\ pc[t] = "req_post" /\ pc'[t] = "idle"
  /\ \A u \in Callers \ {t} : pc'[u] = pc[u]
  /\ \A w \in Workers : \/ pc'[w] = pc[w]
                        \/ pc[w] = "w_wait" /\ pc'[w] = "w_relock"
  /\ UNCHANGED <<initVars, tid, segvVars, joining>>

\* Where a request may go on after it is posted.
LEMMA ReqPostMoves ==
  ASSUME ClearInv, NEW t \in Callers, ReqPost(t)
  PROVE  MovedReqPost(t)
<1> USE DEF MovedReqPost
<1>1. pc' \in Signalled([pc EXCEPT ![t] = "idle"])
  BY DEF ReqPost
<1>2. /\ pc'[t] = "idle"
      /\ \A u \in Callers \ {t} : pc'[u] = pc[u]
      /\ \A w \in Workers : \/ pc'[w] = pc[w]
                            \/ pc[w] = "w_wait" /\ pc'[w] = "w_relock"
  BY <1>1, SignalMoves
<1>3. pc[t] = "req_post" /\ UNCHANGED <<initVars, tid, segvVars, joining>>
  BY DEF ReqPost
<1>4. QED BY <1>2, <1>3

MovedClearStop(t) ==
  /\ pc[t] = "c_stop" /\ pc'[t] = "c_tid"
  /\ \A u \in Callers \ {t} : pc'[u] = pc[u]
  /\ \A w \in Workers : \/ pc'[w] = pc[w]
                        \/ pc[w] = "w_wait" /\ pc'[w] = "w_relock"
  /\ UNCHANGED <<initVars, tid, segvVars, joining>>

\* Where clear goes on after it has stopped the refresh thread.
LEMMA ClearStopMoves ==
  ASSUME ClearInv, NEW t \in Callers, ClearStop(t)
  PROVE  MovedClearStop(t)
<1> USE DEF MovedClearStop
<1>1. pc' \in Signalled([pc EXCEPT ![t] = "c_tid"])
  BY DEF ClearStop
<1>2. /\ pc'[t] = "c_tid"
      /\ \A u \in Callers \ {t} : pc'[u] = pc[u]
      /\ \A w \in Workers : \/ pc'[w] = pc[w]
                            \/ pc[w] = "w_wait" /\ pc'[w] = "w_relock"
  BY <1>1, SignalMoves
<1>3. pc[t] = "c_stop" /\ UNCHANGED <<initVars, tid, segvVars, joining>>
  BY DEF ClearStop
<1>4. QED BY <1>2, <1>3

\* The join frees the one refresh thread there is.
MovedClearJoin(t) ==
  /\ pc[t] = "c_join" /\ pc'[t] = "c_aok0"
  /\ \A u \in Callers \ {t} : pc'[u] = pc[u]
  /\ \A w \in Workers : pc'[w] = "none"
  /\ UNCHANGED <<initVars, workVars, segvVars>>
  /\ \A u \in Callers \ {t} : joining'[u] = joining[u]

\* Where clear goes on after the join.
LEMMA ClearJoinMoves ==
  ASSUME ClearInv, NEW t \in Callers, ClearJoin(t)
  PROVE  MovedClearJoin(t)
<1> USE DEF MovedClearJoin
<1>1. PICK v \in Workers : v = joining[t] /\ pc' = [pc EXCEPT ![t] = "c_aok0", ![v] = "none"]
  BY DEF ClearJoin
<1>2. pc[t] = "c_join" /\ v = tid
  BY <1>1 DEF ClearJoin
<1>3. \A w \in Workers : w # v => pc[w] = "none"
  BY <1>2
<1>4. \A u \in Actors : pc'[u] = IF u = v THEN "none" ELSE IF u = t THEN "c_aok0" ELSE pc[u]
  BY <1>1
<1>5. \A u \in Callers \ {t} : joining'[u] = joining[u]
  BY DEF ClearJoin, LocalsOK
<1>6. UNCHANGED <<initVars, workVars, segvVars>>
  BY DEF ClearJoin
<1>7. QED BY <1>2, <1>3, <1>4, <1>5, <1>6

-----------------------------------------------------------------------------
(* ClearAlone. *)

\* A step of a refresh keeps that other callers are idle while one clears.
LEMMA AloneRefresh ==
  ASSUME Discipline, ClearInv, NEW t \in Callers, Refresh(t) PROVE ClearAlone'
<1>1. CASE InitFast(t)
  BY <1>1 DEF InitFast
<1>2. CASE InitOnce(t)
  BY <1>2 DEF InitOnce
<1>3. CASE InitAdd(t)
  <2>1. UNCHANGED <<initVars, workVars, enable, jump, frame, callVars, locks>>
    BY <1>3 DEF InitAdd
  <2>2. CASE /\ ~enable /\ Goto(t, "init_add", "init_done")
           /\ UNCHANGED <<act, act_old, reset>>
    BY <2>1, <2>2
  <2>3. CASE /\ enable /\ Goto(t, "init_add", "init_done")
           /\ act_old' = act /\ act' = "xh"
    BY <2>1, <2>3
  <2>4. CASE /\ Goto(t, "init_add", "init_end")
           /\ UNCHANGED <<act, act_old, reset>>
    BY <2>1, <2>4
  <2>5. QED BY <1>3, <2>2, <2>3, <2>4, InitAddCases
<1>4. CASE InitDone(t)
  BY <1>4 DEF InitDone
<1>5. CASE InitEnd(t)
  BY <1>5 DEF InitEnd
<1>6. CASE InitCheck(t)
  BY <1>6 DEF InitCheck
<1>7. CASE AsyncFast(t)
  BY <1>7 DEF AsyncFast
<1>8. CASE AsyncOnce(t)
  BY <1>8 DEF AsyncOnce
<1>9. CASE AsyncCreate(t)
  BY <1>9 DEF AsyncCreate
<1>10. CASE AsyncDone(t)
  BY <1>10 DEF AsyncDone
<1>11. CASE AsyncEnd(t)
  BY <1>11 DEF AsyncEnd
<1>12. CASE AsyncCheck(t)
  BY <1>12 DEF AsyncCheck
<1>13. CASE ReqPost(t)
  <2>1. DisciplineInv /\ LockInv
    OBVIOUS
  <2>2. MovedReqPost(t)
    BY <1>13, ReqPostMoves
  <2> HIDE DEF ClearInv
  <2>3. QED BY <2>1, <2>2 DEF MovedReqPost
<1>14. CASE ReturnFailed(t)
  BY <1>14 DEF ReturnFailed
<1>15. QED BY <1>1, <1>2, <1>3, <1>4, <1>5, <1>6, <1>7, <1>8, <1>9, <1>10, <1>11, <1>12, <1>13, <1>14 DEF Refresh

\* A step of a clear keeps that other callers are idle while one clears.
LEMMA AloneClear ==
  ASSUME Discipline, ClearInv, NEW t \in Callers, Clear(t) PROVE ClearAlone'
<1>1. CASE ClearAok(t)
  BY <1>1 DEF ClearAok
<1>2. CASE ClearStop(t)
  <2>1. DisciplineInv /\ LockInv
    OBVIOUS
  <2>2. MovedClearStop(t)
    BY <1>2, ClearStopMoves
  <2> HIDE DEF ClearInv
  <2>3. QED BY <2>1, <2>2 DEF MovedClearStop
<1>3. CASE ClearTid(t)
  BY <1>3 DEF ClearTid
<1>4. CASE ClearJoin(t)
  <2>1. DisciplineInv /\ LockInv
    OBVIOUS
  <2>2. MovedClearJoin(t)
    BY <1>4, ClearJoinMoves
  <2> HIDE DEF ClearInv
  <2>3. QED BY <2>1, <2>2 DEF MovedClearJoin
<1>5. CASE ClearAok0(t)
  BY <1>5 DEF ClearAok0
<1>6. CASE ClearAinit0(t)
  BY <1>6 DEF ClearAinit0
<1>7. CASE ClearIok(t)
  BY <1>7 DEF ClearIok
<1>8. CASE ClearDel(t)
  BY <1>8 DEF ClearDel
<1>9. CASE ClearIok0(t)
  BY <1>9 DEF ClearIok0
<1>10. CASE ClearInit0(t)
  BY <1>10 DEF ClearInit0
<1>11. CASE ClearFree(t)
  BY <1>11 DEF ClearFree
<1>12. QED BY <1>1, <1>2, <1>3, <1>4, <1>5, <1>6, <1>7, <1>8, <1>9, <1>10, <1>11 DEF Clear

\* Any other step keeps that other callers are idle while one clears.
LEMMA AloneOther ==
  ASSUME Discipline, ClearInv,
         \/ \E t \in Actors : \/ BeginAccess(t) \/ EndAccess(t) \/ EndPass(t)
                             \/ GuardFault(t) \/ AcquireCore(t) \/ AcquireRefr(t)
         \/ \E w \in Workers : Worker(w) \/ WorkerWake(w)
         \/ \E t \in Callers : \/ CallClear(t)
                              \/ \E a \in BOOLEAN : CallRefresh(t, a) \/ Enable(t, a)
  PROVE  ClearAlone'
<1>1. ASSUME NEW t \in Actors, BeginAccess(t) PROVE ClearAlone'
  BY <1>1 DEF BeginAccess
<1>2. ASSUME NEW t \in Actors, EndAccess(t) PROVE ClearAlone'
  <2>1. PICK from \in {"guard", "bare", "caught"} : Goto(t, from, "pass")
    BY <1>2 DEF EndAccess
  <2>2. UNCHANGED <<initVars, workVars, enable, act, act_old, reset, frame, joining>>
    BY <1>2 DEF EndAccess
  <2>3. QED BY <2>1, <2>2
<1>3. ASSUME NEW t \in Actors, EndPass(t) PROVE ClearAlone'
  BY <1>3 DEF EndPass
<1>4. ASSUME NEW t \in Actors, GuardFault(t) PROVE ClearAlone'
  BY <1>4 DEF GuardFault, Called
<1>5. ASSUME NEW t \in Actors, AcquireRefr(t) PROVE ClearAlone'
  BY <1>5 DEF AcquireRefr
<1>6. ASSUME NEW t \in Actors, AcquireCore(t) PROVE ClearAlone'
  <2>1. PICK w \in CoreWaits : LockCore(t, w[1], w[2])
    BY <1>6 DEF AcquireCore
  <2>2. QED BY <2>1 DEF LockCore, CoreWaits
<1>7. ASSUME NEW w \in Workers, Worker(w) \/ WorkerWake(w) PROVE ClearAlone'
  <2>1. PICK from \in WorkerPcs, to \in WorkerPcs \cup {"exited"} : Goto(w, from, to)
    BY <1>7 DEF Worker, WorkerTop, WorkerCheck, WorkerWake
  <2>2. UNCHANGED <<initVars, tid, joining, frame>>
    BY <1>7 DEF Worker, WorkerTop, WorkerCheck, WorkerWake
  <2>3. QED BY <2>1, <2>2
<1>8. ASSUME NEW t \in Callers, CallClear(t) PROVE ClearAlone'
  BY <1>8 DEF CallClear, MayCall, Discipline
<1>9. ASSUME NEW t \in Callers, NEW a \in BOOLEAN, CallRefresh(t, a) PROVE ClearAlone'
  BY <1>9 DEF CallRefresh, MayCall, Discipline
<1>10. ASSUME NEW t \in Callers, NEW a \in BOOLEAN, Enable(t, a) PROVE ClearAlone'
  BY <1>10 DEF Enable, Discipline
<1>11. QED BY <1>1, <1>2, <1>3, <1>4, <1>5, <1>6, <1>7, <1>8, <1>9, <1>10

-----------------------------------------------------------------------------
(* InitInv. *)

\* A step of a refresh keeps what each control point knows of init_ok and inited.
LEMMA InitRefresh ==
  ASSUME Discipline, ClearInv, NEW t \in Callers, Refresh(t) PROVE InitInv'
<1>1. CASE InitFast(t)
  BY <1>1 DEF InitFast
<1>2. CASE InitOnce(t)
  BY <1>2 DEF InitOnce
<1>3. CASE InitAdd(t)
  <2>1. UNCHANGED <<initVars, workVars, enable, jump, frame, callVars, locks>>
    BY <1>3 DEF InitAdd
  <2>2. CASE /\ ~enable /\ Goto(t, "init_add", "init_done")
           /\ UNCHANGED <<act, act_old, reset>>
    BY <2>1, <2>2
  <2>3. CASE /\ enable /\ Goto(t, "init_add", "init_done")
           /\ act_old' = act /\ act' = "xh"
    BY <2>1, <2>3
  <2>4. CASE /\ Goto(t, "init_add", "init_end")
           /\ UNCHANGED <<act, act_old, reset>>
    BY <2>1, <2>4
  <2>5. QED BY <1>3, <2>2, <2>3, <2>4, InitAddCases
<1>4. CASE InitDone(t)
  BY <1>4 DEF InitDone
<1>5. CASE InitEnd(t)
  BY <1>5 DEF InitEnd
<1>6. CASE InitCheck(t)
  BY <1>6 DEF InitCheck
<1>7. CASE AsyncFast(t)
  BY <1>7 DEF AsyncFast
<1>8. CASE AsyncOnce(t)
  BY <1>8 DEF AsyncOnce
<1>9. CASE AsyncCreate(t)
  BY <1>9 DEF AsyncCreate
<1>10. CASE AsyncDone(t)
  BY <1>10 DEF AsyncDone
<1>11. CASE AsyncEnd(t)
  BY <1>11 DEF AsyncEnd
<1>12. CASE AsyncCheck(t)
  BY <1>12 DEF AsyncCheck
<1>13. CASE ReqPost(t)
  <2>1. DisciplineInv /\ LockInv
    OBVIOUS
  <2>2. MovedReqPost(t)
    BY <1>13, ReqPostMoves
  <2> HIDE DEF ClearInv
  <2>3. QED BY <2>1, <2>2 DEF MovedReqPost
<1>14. CASE ReturnFailed(t)
  BY <1>14 DEF ReturnFailed
<1>15. QED BY <1>1, <1>2, <1>3, <1>4, <1>5, <1>6, <1>7, <1>8, <1>9, <1>10, <1>11, <1>12, <1>13, <1>14 DEF Refresh

\* A step of a clear keeps what each control point knows of init_ok and inited.
LEMMA InitClear ==
  ASSUME Discipline, ClearInv, NEW t \in Callers, Clear(t) PROVE InitInv'
<1>1. CASE ClearAok(t)
  BY <1>1 DEF ClearAok
<1>2. CASE ClearStop(t)
  <2>1. DisciplineInv /\ LockInv
    OBVIOUS
  <2>2. MovedClearStop(t)
    BY <1>2, ClearStopMoves
  <2> HIDE DEF ClearInv
  <2>3. QED BY <2>1, <2>2 DEF MovedClearStop
<1>3. CASE ClearTid(t)
  BY <1>3 DEF ClearTid
<1>4. CASE ClearJoin(t)
  <2>1. DisciplineInv /\ LockInv
    OBVIOUS
  <2>2. MovedClearJoin(t)
    BY <1>4, ClearJoinMoves
  <2> HIDE DEF ClearInv
  <2>3. QED BY <2>1, <2>2 DEF MovedClearJoin
<1>5. CASE ClearAok0(t)
  BY <1>5 DEF ClearAok0
<1>6. CASE ClearAinit0(t)
  BY <1>6 DEF ClearAinit0
<1>7. CASE ClearIok(t)
  BY <1>7 DEF ClearIok
<1>8. CASE ClearDel(t)
  BY <1>8 DEF ClearDel
<1>9. CASE ClearIok0(t)
  BY <1>9 DEF ClearIok0
<1>10. CASE ClearInit0(t)
  BY <1>10 DEF ClearInit0
<1>11. CASE ClearFree(t)
  BY <1>11 DEF ClearFree
<1>12. QED BY <1>1, <1>2, <1>3, <1>4, <1>5, <1>6, <1>7, <1>8, <1>9, <1>10, <1>11 DEF Clear

\* Any other step keeps what each control point knows of init_ok and inited.
LEMMA InitOther ==
  ASSUME Discipline, ClearInv,
         \/ \E t \in Actors : \/ BeginAccess(t) \/ EndAccess(t) \/ EndPass(t)
                             \/ GuardFault(t) \/ AcquireCore(t) \/ AcquireRefr(t)
         \/ \E w \in Workers : Worker(w) \/ WorkerWake(w)
         \/ \E t \in Callers : \/ CallClear(t)
                              \/ \E a \in BOOLEAN : CallRefresh(t, a) \/ Enable(t, a)
  PROVE  InitInv'
<1>1. ASSUME NEW t \in Actors, BeginAccess(t) PROVE InitInv'
  BY <1>1 DEF BeginAccess
<1>2. ASSUME NEW t \in Actors, EndAccess(t) PROVE InitInv'
  <2>1. PICK from \in {"guard", "bare", "caught"} : Goto(t, from, "pass")
    BY <1>2 DEF EndAccess
  <2>2. UNCHANGED initVars
    BY <1>2 DEF EndAccess
  <2>3. QED BY <2>1, <2>2
<1>3. ASSUME NEW t \in Actors, EndPass(t) PROVE InitInv'
  BY <1>3 DEF EndPass
<1>4. ASSUME NEW t \in Actors, GuardFault(t) PROVE InitInv'
  BY <1>4 DEF GuardFault, Called
<1>5. ASSUME NEW t \in Actors, AcquireRefr(t) PROVE InitInv'
  <2>1. UNCHANGED initVars
    BY <1>5 DEF AcquireRefr
  <2>2. CASE Goto(t, "refr_lock", "pass")
    BY <2>1, <2>2
  <2>3. CASE Goto(t, "w_refr", "pass")
    BY <2>1, <2>3
  <2>4. CASE Goto(t, "c_refr", "c_free")
    BY <2>1, <2>4
  <2>5. QED BY <1>5, <2>2, <2>3, <2>4 DEF AcquireRefr
<1>6. ASSUME NEW t \in Actors, AcquireCore(t) PROVE InitInv'
  <2>1. PICK w \in CoreWaits : LockCore(t, w[1], w[2])
    BY <1>6 DEF AcquireCore
  <2>2. QED BY <2>1 DEF LockCore, CoreWaits
<1>7. ASSUME NEW w \in Workers, Worker(w) \/ WorkerWake(w) PROVE InitInv'
  BY <1>7 DEF Worker, WorkerTop, WorkerCheck, WorkerWake
<1>8. ASSUME NEW t \in Callers, CallClear(t) PROVE InitInv'
  BY <1>8 DEF CallClear, MayCall, Discipline
<1>9. ASSUME NEW t \in Callers, NEW a \in BOOLEAN, CallRefresh(t, a) PROVE InitInv'
  BY <1>9 DEF CallRefresh, MayCall, Discipline
<1>10. ASSUME NEW t \in Callers, NEW a \in BOOLEAN, Enable(t, a) PROVE InitInv'
  BY <1>10 DEF Enable, Discipline
<1>11. QED BY <1>1, <1>2, <1>3, <1>4, <1>5, <1>6, <1>7, <1>8, <1>9, <1>10

-----------------------------------------------------------------------------
(* WorkerInv. *)

\* A step of a refresh keeps that tid names the one refresh thread.
LEMMA WorkerRefresh ==
  ASSUME Discipline, ClearInv, NEW t \in Callers, Refresh(t) PROVE WorkerInv'
<1>1. CASE InitFast(t)
  BY <1>1 DEF InitFast
<1>2. CASE InitOnce(t)
  BY <1>2 DEF InitOnce
<1>3. CASE InitAdd(t)
  <2>1. UNCHANGED <<initVars, workVars, enable, jump, frame, callVars, locks>>
    BY <1>3 DEF InitAdd
  <2>2. CASE /\ ~enable /\ Goto(t, "init_add", "init_done")
           /\ UNCHANGED <<act, act_old, reset>>
    BY <2>1, <2>2
  <2>3. CASE /\ enable /\ Goto(t, "init_add", "init_done")
           /\ act_old' = act /\ act' = "xh"
    BY <2>1, <2>3
  <2>4. CASE /\ Goto(t, "init_add", "init_end")
           /\ UNCHANGED <<act, act_old, reset>>
    BY <2>1, <2>4
  <2>5. QED BY <1>3, <2>2, <2>3, <2>4, InitAddCases
<1>4. CASE InitDone(t)
  BY <1>4 DEF InitDone
<1>5. CASE InitEnd(t)
  BY <1>5 DEF InitEnd
<1>6. CASE InitCheck(t)
  BY <1>6 DEF InitCheck
<1>7. CASE AsyncFast(t)
  BY <1>7 DEF AsyncFast
<1>8. CASE AsyncOnce(t)
  BY <1>8 DEF AsyncOnce
<1>9. CASE AsyncCreate(t)
  BY <1>9 DEF AsyncCreate
<1>10. CASE AsyncDone(t)
  BY <1>10 DEF AsyncDone
<1>11. CASE AsyncEnd(t)
  BY <1>11 DEF AsyncEnd
<1>12. CASE AsyncCheck(t)
  BY <1>12 DEF AsyncCheck
<1>13. CASE ReqPost(t)
  <2>1. DisciplineInv /\ LockInv
    OBVIOUS
  <2>2. MovedReqPost(t)
    BY <1>13, ReqPostMoves
  <2> HIDE DEF ClearInv
  <2>3. QED BY <2>1, <2>2 DEF MovedReqPost
<1>14. CASE ReturnFailed(t)
  BY <1>14 DEF ReturnFailed
<1>15. QED BY <1>1, <1>2, <1>3, <1>4, <1>5, <1>6, <1>7, <1>8, <1>9, <1>10, <1>11, <1>12, <1>13, <1>14 DEF Refresh

\* A step of a clear keeps that tid names the one refresh thread.
LEMMA WorkerClear ==
  ASSUME Discipline, ClearInv, NEW t \in Callers, Clear(t) PROVE WorkerInv'
<1>1. CASE ClearAok(t)
  BY <1>1 DEF ClearAok
<1>2. CASE ClearStop(t)
  <2>1. DisciplineInv /\ LockInv
    OBVIOUS
  <2>2. MovedClearStop(t)
    BY <1>2, ClearStopMoves
  <2> HIDE DEF ClearInv
  <2>3. QED BY <2>1, <2>2 DEF MovedClearStop
<1>3. CASE ClearTid(t)
  BY <1>3 DEF ClearTid, LocalsOK
<1>4. CASE ClearJoin(t)
  <2>1. DisciplineInv /\ LockInv
    OBVIOUS
  <2>2. MovedClearJoin(t)
    BY <1>4, ClearJoinMoves
  <2> HIDE DEF ClearInv
  <2>3. QED BY <2>1, <2>2 DEF MovedClearJoin
<1>5. CASE ClearAok0(t)
  BY <1>5 DEF ClearAok0
<1>6. CASE ClearAinit0(t)
  BY <1>6 DEF ClearAinit0
<1>7. CASE ClearIok(t)
  BY <1>7 DEF ClearIok
<1>8. CASE ClearDel(t)
  BY <1>8 DEF ClearDel
<1>9. CASE ClearIok0(t)
  BY <1>9 DEF ClearIok0
<1>10. CASE ClearInit0(t)
  BY <1>10 DEF ClearInit0
<1>11. CASE ClearFree(t)
  BY <1>11 DEF ClearFree
<1>12. QED BY <1>1, <1>2, <1>3, <1>4, <1>5, <1>6, <1>7, <1>8, <1>9, <1>10, <1>11 DEF Clear

\* Any other step keeps that tid names the one refresh thread.
LEMMA WorkerOther ==
  ASSUME Discipline, ClearInv,
         \/ \E t \in Actors : \/ BeginAccess(t) \/ EndAccess(t) \/ EndPass(t)
                             \/ GuardFault(t) \/ AcquireCore(t) \/ AcquireRefr(t)
         \/ \E w \in Workers : Worker(w) \/ WorkerWake(w)
         \/ \E t \in Callers : \/ CallClear(t)
                              \/ \E a \in BOOLEAN : CallRefresh(t, a) \/ Enable(t, a)
  PROVE  WorkerInv'
<1>1. ASSUME NEW t \in Actors, BeginAccess(t) PROVE WorkerInv'
  BY <1>1 DEF BeginAccess
<1>2. ASSUME NEW t \in Actors, EndAccess(t) PROVE WorkerInv'
  <2>1. PICK from \in {"guard", "bare", "caught"} : Goto(t, from, "pass")
    BY <1>2 DEF EndAccess
  <2>2. UNCHANGED <<initVars, workVars, enable, act, act_old, reset, frame, joining>>
    BY <1>2 DEF EndAccess
  <2>3. QED BY <2>1, <2>2
<1>3. ASSUME NEW t \in Actors, EndPass(t) PROVE WorkerInv'
  BY <1>3 DEF EndPass
<1>4. ASSUME NEW t \in Actors, GuardFault(t) PROVE WorkerInv'
  BY <1>4 DEF GuardFault, Called
<1>5. ASSUME NEW t \in Actors, AcquireRefr(t) PROVE WorkerInv'
  BY <1>5 DEF AcquireRefr
<1>6. ASSUME NEW t \in Actors, AcquireCore(t) PROVE WorkerInv'
  <2>1. PICK w \in CoreWaits : LockCore(t, w[1], w[2])
    BY <1>6 DEF AcquireCore
  <2>2. QED BY <2>1 DEF LockCore, CoreWaits
<1>7. ASSUME NEW w \in Workers, Worker(w) \/ WorkerWake(w) PROVE WorkerInv'
  <2>1. PICK from \in WorkerPcs, to \in WorkerPcs \cup {"exited"} : Goto(w, from, to)
    BY <1>7 DEF Worker, WorkerTop, WorkerCheck, WorkerWake
  <2>2. UNCHANGED <<initVars, tid, joining, frame>>
    BY <1>7 DEF Worker, WorkerTop, WorkerCheck, WorkerWake
  <2>3. QED BY <2>1, <2>2
<1>8. ASSUME NEW t \in Callers, CallClear(t) PROVE WorkerInv'
  BY <1>8 DEF CallClear, MayCall, Discipline
<1>9. ASSUME NEW t \in Callers, NEW a \in BOOLEAN, CallRefresh(t, a) PROVE WorkerInv'
  BY <1>9 DEF CallRefresh, MayCall, Discipline
<1>10. ASSUME NEW t \in Callers, NEW a \in BOOLEAN, Enable(t, a) PROVE WorkerInv'
  BY <1>10 DEF Enable, Discipline
<1>11. QED BY <1>1, <1>2, <1>3, <1>4, <1>5, <1>6, <1>7, <1>8, <1>9, <1>10

-----------------------------------------------------------------------------
(* HandlerInv. *)

\* A step of a refresh keeps when the handler is installed.
LEMMA HandlerRefresh ==
  ASSUME Discipline, ClearInv, NEW t \in Callers, Refresh(t) PROVE HandlerInv'
<1>1. CASE InitFast(t)
  BY <1>1 DEF InitFast
<1>2. CASE InitOnce(t)
  BY <1>2 DEF InitOnce
<1>3. CASE InitAdd(t)
  <2>1. UNCHANGED <<initVars, workVars, enable, jump, frame, callVars, locks>>
    BY <1>3 DEF InitAdd
  <2>2. CASE /\ ~enable /\ Goto(t, "init_add", "init_done")
           /\ UNCHANGED <<act, act_old, reset>>
    BY <2>1, <2>2
  <2>3. CASE /\ enable /\ Goto(t, "init_add", "init_done")
           /\ act_old' = act /\ act' = "xh"
    <3>1. \A u \in Actors : pc'[u] = IF u = t THEN "init_done" ELSE pc[u]
      BY <2>3
    <3>2. act = "app" /\ inited /\ ~init_ok /\ core = t
      BY <2>3
    <3>3. \A u \in Actors : pc[u] # "guard"
      BY <3>2
    <3>4. \A u \in Callers \ {t} : pc[u] \notin {"init_done", "init_add", "c_iok0"}
      BY <3>2
    <3> HIDE DEF ClearInv
    <3>5. QED BY <2>1, <2>3, <3>1, <3>2, <3>3, <3>4
  <2>4. CASE /\ Goto(t, "init_add", "init_end")
           /\ UNCHANGED <<act, act_old, reset>>
    BY <2>1, <2>4
  <2>5. QED BY <1>3, <2>2, <2>3, <2>4, InitAddCases
<1>4. CASE InitDone(t)
  BY <1>4 DEF InitDone
<1>5. CASE InitEnd(t)
  BY <1>5 DEF InitEnd
<1>6. CASE InitCheck(t)
  BY <1>6 DEF InitCheck
<1>7. CASE AsyncFast(t)
  BY <1>7 DEF AsyncFast
<1>8. CASE AsyncOnce(t)
  BY <1>8 DEF AsyncOnce
<1>9. CASE AsyncCreate(t)
  BY <1>9 DEF AsyncCreate
<1>10. CASE AsyncDone(t)
  BY <1>10 DEF AsyncDone
<1>11. CASE AsyncEnd(t)
  BY <1>11 DEF AsyncEnd
<1>12. CASE AsyncCheck(t)
  BY <1>12 DEF AsyncCheck
<1>13. CASE ReqPost(t)
  <2>1. DisciplineInv /\ LockInv
    OBVIOUS
  <2>2. MovedReqPost(t)
    BY <1>13, ReqPostMoves
  <2> HIDE DEF ClearInv
  <2>3. QED BY <2>1, <2>2 DEF MovedReqPost
<1>14. CASE ReturnFailed(t)
  BY <1>14 DEF ReturnFailed
<1>15. QED BY <1>1, <1>2, <1>3, <1>4, <1>5, <1>6, <1>7, <1>8, <1>9, <1>10, <1>11, <1>12, <1>13, <1>14 DEF Refresh

\* A step of a clear keeps when the handler is installed.
LEMMA HandlerClear ==
  ASSUME Discipline, ClearInv, NEW t \in Callers, Clear(t) PROVE HandlerInv'
<1>1. CASE ClearAok(t)
  BY <1>1 DEF ClearAok
<1>2. CASE ClearStop(t)
  <2>1. DisciplineInv /\ LockInv
    OBVIOUS
  <2>2. MovedClearStop(t)
    BY <1>2, ClearStopMoves
  <2> HIDE DEF ClearInv
  <2>3. QED BY <2>1, <2>2 DEF MovedClearStop
<1>3. CASE ClearTid(t)
  BY <1>3 DEF ClearTid
<1>4. CASE ClearJoin(t)
  <2>1. DisciplineInv /\ LockInv
    OBVIOUS
  <2>2. MovedClearJoin(t)
    BY <1>4, ClearJoinMoves
  <2> HIDE DEF ClearInv
  <2>3. QED BY <2>1, <2>2 DEF MovedClearJoin
<1>5. CASE ClearAok0(t)
  BY <1>5 DEF ClearAok0
<1>6. CASE ClearAinit0(t)
  BY <1>6 DEF ClearAinit0
<1>7. CASE ClearIok(t)
  BY <1>7 DEF ClearIok
<1>8. CASE ClearDel(t)
  BY <1>8 DEF ClearDel
<1>9. CASE ClearIok0(t)
  BY <1>9 DEF ClearIok0
<1>10. CASE ClearInit0(t)
  BY <1>10 DEF ClearInit0
<1>11. CASE ClearFree(t)
  BY <1>11 DEF ClearFree
<1>12. QED BY <1>1, <1>2, <1>3, <1>4, <1>5, <1>6, <1>7, <1>8, <1>9, <1>10, <1>11 DEF Clear

\* Any other step keeps when the handler is installed.
LEMMA HandlerOther ==
  ASSUME Discipline, ClearInv,
         \/ \E t \in Actors : \/ BeginAccess(t) \/ EndAccess(t) \/ EndPass(t)
                             \/ GuardFault(t) \/ AcquireCore(t) \/ AcquireRefr(t)
         \/ \E w \in Workers : Worker(w) \/ WorkerWake(w)
         \/ \E t \in Callers : \/ CallClear(t)
                              \/ \E a \in BOOLEAN : CallRefresh(t, a) \/ Enable(t, a)
  PROVE  HandlerInv'
<1>1. ASSUME NEW t \in Actors, BeginAccess(t) PROVE HandlerInv'
  BY <1>1 DEF BeginAccess
<1>2. ASSUME NEW t \in Actors, EndAccess(t) PROVE HandlerInv'
  <2>1. PICK from \in {"guard", "bare", "caught"} : Goto(t, from, "pass")
    BY <1>2 DEF EndAccess
  <2>2. UNCHANGED <<initVars, workVars, enable, act, act_old, reset, frame, joining>>
    BY <1>2 DEF EndAccess
  <2>3. jump' = jump \/ (jump' = NoThread /\ refr = t)
    BY <1>2 DEF EndAccess
  <2>4. QED BY <2>1, <2>2, <2>3
<1>3. ASSUME NEW t \in Actors, EndPass(t) PROVE HandlerInv'
  BY <1>3 DEF EndPass
<1>4. ASSUME NEW t \in Actors, GuardFault(t) PROVE HandlerInv'
  BY <1>4 DEF GuardFault, Called
<1>5. ASSUME NEW t \in Actors, AcquireRefr(t) PROVE HandlerInv'
  <2>1. UNCHANGED <<initVars, workVars, segvVars, joining>>
    BY <1>5 DEF AcquireRefr
  <2>2. CASE Goto(t, "refr_lock", "pass") \/ Goto(t, "w_refr", "pass")
    BY <2>1, <2>2
  <2>3. CASE Goto(t, "c_refr", "c_free")
    BY <2>1, <2>3
  <2>4. QED BY <1>5, <2>2, <2>3 DEF AcquireRefr
<1>6. ASSUME NEW t \in Actors, AcquireCore(t) PROVE HandlerInv'
  <2>1. PICK w \in CoreWaits : LockCore(t, w[1], w[2])
    BY <1>6 DEF AcquireCore
  <2>2. QED BY <2>1 DEF LockCore, CoreWaits
<1>7. ASSUME NEW w \in Workers, Worker(w) \/ WorkerWake(w) PROVE HandlerInv'
  BY <1>7 DEF Worker, WorkerTop, WorkerCheck, WorkerWake
<1>8. ASSUME NEW t \in Callers, CallClear(t) PROVE HandlerInv'
  BY <1>8 DEF CallClear, MayCall, Discipline
<1>9. ASSUME NEW t \in Callers, NEW a \in BOOLEAN, CallRefresh(t, a) PROVE HandlerInv'
  BY <1>9 DEF CallRefresh, MayCall, Discipline
<1>10. ASSUME NEW t \in Callers, NEW a \in BOOLEAN, Enable(t, a) PROVE HandlerInv'
  BY <1>10 DEF Enable, Discipline
<1>11. QED BY <1>1, <1>2, <1>3, <1>4, <1>5, <1>6, <1>7, <1>8, <1>9, <1>10

-----------------------------------------------------------------------------
(* The theorems. *)

\* The initial state satisfies the invariant.
LEMMA ClearInit == Init => DisciplineInv
<1> SUFFICES ASSUME Init PROVE DisciplineInv
  OBVIOUS
<1>1. \A t \in Actors : pc[t] = IF t \in Callers THEN "idle" ELSE "none"
  BY DEF Init
<1>2. QED BY <1>1 DEF Init

\* Every step keeps the invariant.
LEMMA ClearStep == ASSUME Discipline PROVE ClearInv /\ [Next]_vars => ClearInv'
<1> SUFFICES ASSUME ClearInv, [Next]_vars PROVE ClearInv'
  OBVIOUS
<1>1. TypeInv' /\ JumpInv'
  <2>1. TypeInv /\ JumpInv
    BY DEF ClearInv
  <2> HIDE DEF TypeInv
  <2>2. QED BY <2>1, TypeStep, JumpStep
<1>2. CASE UNCHANGED vars
  <2>1. LockInv' /\ ClearAlone' /\ InitInv'
    BY <1>2 DEF vars
  <2>2. WorkerInv'
    BY <1>2 DEF vars
  <2>3. HandlerInv'
    BY <1>2 DEF vars
  <2> HIDE DEF ClearAlone, InitInv, WorkerInv, HandlerInv, TypeInv, LockInv
  <2>4. QED BY <1>1, <2>1, <2>2, <2>3
<1>3. CASE Next
  <2>0. /\ \A t \in Actors : Worker(t) \/ WorkerWake(t) => t \in Workers
        /\ \A t \in Actors : ~ForeignFault(t)
    BY OwnMoves
  <2> HIDE DEF ClearInv, ClearAlone, InitInv, WorkerInv, HandlerInv, TypeInv, LockInv
  <2>1. ClearAlone'
    BY <1>3, <2>0, AloneRefresh, AloneClear, AloneOther DEF Next, Work, Acquire
  <2>2. InitInv'
    BY <1>3, <2>0, InitRefresh, InitClear, InitOther DEF Next, Work, Acquire
  <2>3. WorkerInv'
    BY <1>3, <2>0, WorkerRefresh, WorkerClear, WorkerOther DEF Next, Work, Acquire
  <2>4. HandlerInv'
    BY <1>3, <2>0, HandlerRefresh, HandlerClear, HandlerOther DEF Next, Work, Acquire
  <2>5. LockInv'
    <3>1. TypeInv /\ LockInv
      BY DEF ClearInv
    <3>2. OwnStacks'
      BY <2>1 DEF ClearAlone, OwnStacks
    <3>3. QED BY <3>1, <3>2, LockStep
  <2>6. QED BY <1>1, <2>1, <2>2, <2>3, <2>4, <2>5 DEF ClearInv, DisciplineInv
<1>4. QED BY <1>2, <1>3

\* With disciplined callers the invariant always holds.
LEMMA Disciplined == ASSUME Discipline PROVE Spec => []ClearInv
<1>1. Init => ClearInv
  BY TypeInit, JumpInit, LockInit, ClearInit DEF ClearInv
<1>2. ClearInv /\ [Next]_vars => ClearInv'
  BY ClearStep
<1>3. QED BY <1>1, <1>2, PTL DEF Spec

\* Every protected access of a pass finds the handler installed and its own
\* stack in the jump buffer, the passes of the refresh thread during a clear
\* included: clear joins that thread before it takes the handler away.
THEOREM GuardedPasses == ASSUME Discipline PROVE Spec => []HandlerGuardsPass
<1>1. ClearInv => HandlerGuardsPass
  BY DEF HandlerGuardsPass
<1>2. QED BY <1>1, Disciplined, PTL

\* There is never a second refresh thread, and pthread_join gets its tid.
THEOREM OneRefreshThread == ASSUME Discipline PROVE Spec => []OneWorker
<1>1. ClearInv => OneWorker
  BY DEF OneWorker
<1>2. QED BY <1>1, Disciplined, PTL

\* Nothing of the library is left after clear: the application's disposition is
\* back, the saved one was never the library's own, no thread remains.
THEOREM NothingLeft == ASSUME Discipline PROVE Spec => []ClearRestores
<1>1. ClearInv => ClearRestores
  <2> SUFFICES ASSUME ClearInv PROVE ClearRestores
    OBVIOUS
  <2>1. act_old # "xh"
    OBVIOUS
  <2>2. ASSUME ~inited PROVE act = "app" /\ \A w \in Workers : pc[w] = "none"
    BY <2>1, <2>2
  <2>3. QED BY <2>1, <2>2 DEF ClearRestores
<1>2. QED BY <1>1, Disciplined, PTL

-----------------------------------------------------------------------------
(* XhCore implements XhService: with disciplined callers every step is a step *)
(* of the abstract service or leaves it alone.                                *)
HIDE CallersAssumption DEF Actors, Goto, Quiet, LeaveCall, locks, initVars, workVars,
  segvVars, callVars, TypeInv, PcOK, DataOK, HoldersOK, FlagsOK, HandlerOK, LockInv,
  CorePcs, RefrPcs, PassPcs, CallPcs, ClearPcs, WorkerPcs, PcsOf, ReadyPcs, TailPcs,
  DisciplineInv, ClearAlone, InitInv, WorkerInv, HandlerInv, ClearInv

\* What a step that the service does not see leaves alone.
Unseen == /\ init_ok' = init_ok
          /\ \A t \in Actors : pc'[t] \in PassPcs <=> pc[t] \in PassPcs

\* The mutex makes the thread that is in a pass unique.
LEMMA PasserOne ==
  ASSUME LockInv
  PROVE  /\ \A t \in Actors : pc[t] \in PassPcs => Passer = t
         /\ (\A t \in Actors : pc[t] \notin PassPcs) => Passer = NoThread
<1>1. \A t, u \in Actors : pc[t] \in PassPcs /\ pc[u] \in PassPcs => t = u
  BY DEF LockInv, RefrPcs
<1>2. QED BY <1>1 DEF Passer

\* The same after a step.
LEMMA PasserNext ==
  ASSUME LockInv'
  PROVE  /\ \A t \in Actors : pc'[t] \in PassPcs => Passer' = t
         /\ (\A t \in Actors : pc'[t] \notin PassPcs) => Passer' = NoThread
<1>1. \A t, u \in Actors : pc'[t] \in PassPcs /\ pc'[u] \in PassPcs => t = u
  BY DEF LockInv, RefrPcs
<1>2. QED BY <1>1 DEF Passer

\* What the service does not see is a stutter of it.
LEMMA UnseenStutters ==
  ASSUME LockInv, LockInv', Unseen
  PROVE  UNCHANGED Service!vars
<1>1. Passer' = Passer
  BY PasserOne, PasserNext DEF Unseen
<1>2. QED BY <1>1 DEF Unseen, Service!vars

-----------------------------------------------------------------------------
(* The steps the service sees. *)

\* The library is initialised.
LEMMA InitStarts ==
  ASSUME ClearInv, LockInv', NEW t \in Callers, InitDone(t)
  PROVE  Service!Start
<1>1. \A u \in Actors : pc'[u] \in PassPcs <=> pc[u] \in PassPcs
  BY DEF ClearInv, TypeInv, PcOK, InitDone, Goto, PassPcs, Actors
<1>2. Passer' = Passer
  BY <1>1, PasserOne, PasserNext DEF ClearInv
<1>3. ~init_ok /\ init_ok'
  BY DEF ClearInv, DisciplineInv, InitInv, InitDone, Goto
<1>4. QED BY <1>2, <1>3 DEF Service!Start

\* Clear takes the initialisation back: the other callers are idle and the refresh
\* thread is gone.
LEMMA ClearStops ==
  ASSUME ClearInv, LockInv', NEW t \in Callers, ClearIok0(t)
  PROVE  Service!Stop
<1>1. \A u \in Actors : pc[u] \notin PassPcs /\ pc'[u] \notin PassPcs
  <2>1. pc[t] = "c_iok0" /\ pc' = [pc EXCEPT ![t] = "c_init0"] /\ PcOK
    BY DEF ClearInv, TypeInv, ClearIok0, Goto
  <2>2. \A u \in Callers \ {t} : pc[u] = "idle"
    BY <2>1 DEF ClearInv, DisciplineInv, ClearAlone, Quiet, ClearPcs
  <2>3. \A w \in Workers : pc[w] = "none"
    BY <2>1 DEF ClearInv, DisciplineInv, WorkerInv, TailPcs
  <2>4. QED BY <2>1, <2>2, <2>3, CallersAssumption DEF PcOK, Actors, PassPcs
<1>2. Passer = NoThread /\ Passer' = NoThread
  BY <1>1, PasserOne, PasserNext DEF ClearInv
<1>3. init_ok /\ init_ok' = FALSE
  BY DEF ClearInv, DisciplineInv, InitInv, ClearIok0, Goto
<1>4. QED BY <1>2, <1>3 DEF Service!Stop

\* A thread begins its pass when it gets the mutex; clear takes it as well.
LEMMA AcquireBegins ==
  ASSUME ClearInv, LockInv', NEW t \in Actors, AcquireRefr(t)
  PROVE  Service!BeginPass(t) \/ UNCHANGED Service!vars
<1>1. \A u \in Actors : pc[u] \notin PassPcs
  BY CallersAssumption DEF ClearInv, LockInv, AcquireRefr, RefrPcs, Actors
<1>2. init_ok' = init_ok
  BY DEF AcquireRefr, initVars
<1>3. CASE Goto(t, "c_refr", "c_free")
  <2>1. \A u \in Actors : pc'[u] \notin PassPcs
    BY <1>1, <1>3 DEF ClearInv, TypeInv, PcOK, Goto, PassPcs
  <2>2. QED BY <1>1, <1>2, <2>1, UnseenStutters DEF Unseen, ClearInv
<1>4. CASE Goto(t, "refr_lock", "pass") \/ Goto(t, "w_refr", "pass")
  <2>1. pc'[t] \in PassPcs
    BY <1>4 DEF ClearInv, TypeInv, PcOK, Goto, PassPcs
  <2>2. Passer = NoThread /\ Passer' = t
    BY <1>1, <2>1, PasserOne, PasserNext DEF ClearInv
  <2>3. init_ok
    <3>1. CASE t \in Callers
      BY <1>4, <3>1, CallersAssumption
      DEF ClearInv, TypeInv, PcOK, PcsOf, CallPcs, ClearPcs, PassPcs, DisciplineInv, ClearAlone, InitInv, ReadyPcs, Goto
    <3>2. CASE t \in Workers
      BY <1>4, <3>2, CallersAssumption
      DEF ClearInv, TypeInv, PcOK, PcsOf, WorkerPcs, PassPcs, DisciplineInv, ClearAlone, InitInv, Goto
    <3>3. QED BY <3>1, <3>2 DEF Actors
  <2>4. QED BY <1>2, <2>2, <2>3 DEF Service!BeginPass
<1>5. QED BY <1>3, <1>4 DEF AcquireRefr

\* A pass ends.
LEMMA PassEnds ==
  ASSUME ClearInv, LockInv', NEW t \in Actors, EndPass(t)
  PROVE  Service!EndPass(t)
<1>1. Passer = t
  BY PasserOne DEF ClearInv, EndPass, Goto, PassPcs
<1>2. \A u \in Actors \ {t} : pc[u] \notin PassPcs
  BY DEF ClearInv, LockInv, EndPass, Goto, RefrPcs, PassPcs
<1>3. \A u \in Actors : pc'[u] \notin PassPcs
  BY <1>2 DEF ClearInv, TypeInv, PcOK, EndPass, Goto, PassPcs
<1>4. Passer' = NoThread
  BY <1>3, PasserNext
<1>5. QED BY <1>1, <1>4 DEF Service!EndPass, EndPass, initVars

-----------------------------------------------------------------------------
(* The steps it does not see. *)

\* One thread moves, and no thread enters or leaves a pass.
LEMMA MoveUnseen ==
  ASSUME ClearInv, NEW t \in Actors, NEW from, NEW to, Goto(t, from, to),
         from \in PassPcs <=> to \in PassPcs, init_ok' = init_ok
  PROVE  Unseen
BY DEF ClearInv, TypeInv, PcOK, Goto, Unseen

\* A signal moves threads that are in no pass.
LEMMA SignalUnseen ==
  ASSUME ClearInv, NEW t \in Callers, NEW to, pc[t] \notin PassPcs, to \notin PassPcs,
         to # "w_wait", pc' \in Signalled([pc EXCEPT ![t] = to]), init_ok' = init_ok
  PROVE  Unseen
<1>1. /\ pc'[t] = to
      /\ \A u \in Callers \ {t} : pc'[u] = pc[u]
      /\ \A w \in Workers : \/ pc'[w] = pc[w]
                            \/ pc[w] = "w_wait" /\ pc'[w] = "w_relock"
  BY SignalMoves DEF ClearInv, TypeInv
<1>2. QED BY <1>1 DEF Unseen, Actors, PassPcs

\* The steps of a refresh call but the end of the initialisation.
LEMMA RefreshUnseen ==
  ASSUME ClearInv, NEW t \in Callers, Refresh(t), ~InitDone(t)
  PROVE  Unseen
<1>1. t \in Actors
  BY DEF Actors
<1>2. CASE InitFast(t) \/ InitOnce(t) \/ InitAdd(t) \/ InitEnd(t) \/ InitCheck(t)
  BY <1>1, <1>2, MoveUnseen
  DEF InitFast, InitOnce, InitAdd, InitEnd, InitCheck, PassPcs, initVars
<1>3. CASE AsyncFast(t) \/ AsyncOnce(t) \/ AsyncDone(t) \/ AsyncEnd(t) \/ AsyncCheck(t) \/ ReturnFailed(t)
  BY <1>1, <1>3, MoveUnseen
  DEF AsyncFast, AsyncOnce, AsyncDone, AsyncEnd, AsyncCheck, ReturnFailed, PassPcs, initVars
<1>4. CASE AsyncCreate(t)
  <2>1. CASE Goto(t, "async_create", "async_end")
    BY <1>1, <1>4, <2>1, MoveUnseen DEF AsyncCreate, PassPcs, initVars
  <2>2. ASSUME NEW w \in Workers, pc[t] = "async_create", pc[w] = "none",
               pc' = [pc EXCEPT ![t] = "async_done", ![w] = "w_top"]
        PROVE  Unseen
    BY <1>1, <1>4, <2>2, CallersAssumption
    DEF ClearInv, TypeInv, PcOK, AsyncCreate, Actors, PassPcs, Unseen, initVars
  <2>3. QED BY <1>4, <2>1, <2>2 DEF AsyncCreate
<1>5. CASE ReqPost(t)
  BY <1>5, SignalUnseen DEF ReqPost, PassPcs, initVars
<1>6. QED BY <1>2, <1>3, <1>4, <1>5 DEF Refresh

\* The steps of clear but the one that takes init_ok back.
LEMMA ClearUnseen ==
  ASSUME ClearInv, NEW t \in Callers, Clear(t), ~ClearIok0(t)
  PROVE  Unseen
<1>1. t \in Actors
  BY DEF Actors
<1>2. CASE ClearAok(t) \/ ClearTid(t) \/ ClearAok0(t) \/ ClearAinit0(t) \/ ClearIok(t)
  BY <1>1, <1>2, MoveUnseen
  DEF ClearAok, ClearTid, ClearAok0, ClearAinit0, ClearIok, PassPcs, initVars
<1>3. CASE ClearDel(t) \/ ClearInit0(t) \/ ClearFree(t)
  BY <1>1, <1>3, MoveUnseen DEF ClearDel, ClearInit0, ClearFree, PassPcs, initVars
<1>4. CASE ClearStop(t)
  BY <1>4, SignalUnseen DEF ClearStop, PassPcs, initVars
<1>5. CASE ClearJoin(t)
  <2>1. PICK w \in Workers : /\ pc[w] \in {"exited", "none"}
                             /\ pc' = [pc EXCEPT ![t] = "c_aok0", ![w] = "none"]
    BY <1>5 DEF ClearJoin
  <2>2. pc[t] = "c_join" /\ init_ok' = init_ok
    BY <1>5 DEF ClearJoin, initVars
  <2>3. QED BY <1>1, <2>1, <2>2, CallersAssumption
    DEF ClearInv, TypeInv, PcOK, Actors, PassPcs, Unseen
<1>6. QED BY <1>2, <1>3, <1>4, <1>5 DEF Clear

\* The accesses of a pass, which stays one, and the first mutex.
LEMMA AccessUnseen ==
  ASSUME ClearInv, NEW t \in Actors,
         BeginAccess(t) \/ EndAccess(t) \/ GuardFault(t) \/ AcquireCore(t)
  PROVE  Unseen
<1>1. CASE BeginAccess(t) \/ EndAccess(t) \/ GuardFault(t)
  BY <1>1, MoveUnseen DEF BeginAccess, EndAccess, GuardFault, PassPcs, initVars
<1>2. CASE AcquireCore(t)
  BY <1>2, MoveUnseen DEF AcquireCore, CoreWaits, LockCore, PassPcs, initVars
<1>3. QED BY <1>1, <1>2

\* The refresh thread outside a pass, and callers outside a call.
LEMMA OtherUnseen ==
  ASSUME ClearInv,
         \/ \E w \in Workers : Worker(w) \/ WorkerWake(w)
         \/ \E t \in Callers : \/ CallClear(t)
                              \/ \E a \in BOOLEAN : CallRefresh(t, a) \/ Enable(t, a)
  PROVE  Unseen
<1>1. ASSUME NEW w \in Workers, Worker(w) \/ WorkerWake(w) PROVE Unseen
  BY <1>1, MoveUnseen DEF Actors, Worker, WorkerTop, WorkerCheck, WorkerWake, PassPcs, initVars
<1>2. ASSUME NEW t \in Callers, CallClear(t) \/ \E a \in BOOLEAN : CallRefresh(t, a) PROVE Unseen
  BY <1>2, MoveUnseen DEF Actors, CallClear, CallRefresh, PassPcs, initVars
<1>3. ASSUME NEW t \in Callers, \E a \in BOOLEAN : Enable(t, a) PROVE Unseen
  BY <1>3 DEF Enable, Unseen, initVars
<1>4. QED BY <1>1, <1>2, <1>3

-----------------------------------------------------------------------------
\* Every step is one of the service, or none.
LEMMA StepImplements ==
  ASSUME Discipline, ClearInv, ClearInv', [Next]_vars
  PROVE  [Service!Next]_(Service!vars)
<1>1. LockInv /\ LockInv'
  BY DEF ClearInv
<1>2. CASE Unseen
  BY <1>1, <1>2, UnseenStutters
<1>3. CASE UNCHANGED vars
  BY <1>2, <1>3 DEF vars, initVars, Unseen
<1>4. ASSUME NEW t \in Actors, Work(t) \/ Acquire(t) \/ GuardFault(t)
      PROVE  [Service!Next]_(Service!vars)
  <2>1. CASE BeginAccess(t) \/ EndAccess(t) \/ GuardFault(t) \/ AcquireCore(t)
    BY <1>2, <2>1, AccessUnseen
  <2>2. CASE EndPass(t)
    BY <1>1, <2>2, PassEnds DEF Service!Next
  <2>3. CASE AcquireRefr(t)
    BY <1>1, <2>3, AcquireBegins DEF Service!Next
  <2>4. CASE t \in Callers /\ Refresh(t)
    BY <1>1, <1>2, <2>4, InitStarts, RefreshUnseen DEF Service!Next
  <2>5. CASE t \in Callers /\ Clear(t)
    BY <1>1, <1>2, <2>5, ClearStops, ClearUnseen DEF Service!Next
  <2>6. CASE Worker(t)
    BY <1>2, <2>6, OwnMoves, OtherUnseen
  <2>7. QED BY <1>4, <2>1, <2>2, <2>3, <2>4, <2>5, <2>6 DEF Work, Acquire
<1>5. CASE Next /\ \A t \in Actors : ~(Work(t) \/ Acquire(t) \/ GuardFault(t))
  BY <1>2, <1>5, OwnMoves, OtherUnseen DEF Next
<1>6. QED BY <1>3, <1>4, <1>5

\* With disciplined callers every behaviour of the calls, the refresh thread and the
\* handler is one of the service, for any threads and passes of any length: passes
\* run one at a time, and clear takes the library down only when none runs.
THEOREM Implements == ASSUME Discipline PROVE Spec => ImplementsService
<1>1. Init => Service!Init
  <2> SUFFICES ASSUME Init PROVE Service!Init
    OBVIOUS
  <2>1. LockInv
    BY LockInit
  <2>2. \A t \in Actors : pc[t] \notin PassPcs
    BY DEF Init, PassPcs
  <2>3. QED BY <2>1, <2>2, PasserOne DEF Init, Service!Init
<1>2. ClearInv /\ ClearInv' /\ [Next]_vars => [Service!Next]_(Service!vars)
  BY StepImplements
<1>3. Spec => []ClearInv
  BY Disciplined
<1>4. QED BY <1>1, <1>2, <1>3, PTL DEF Spec, ImplementsService, Service!Spec

-----------------------------------------------------------------------------
(* Which calls fail. *)

\* Where a call is that began when all it needs was initialised: never at a point that
\* initialises, and what it needs stays until it returns.
SawPcs == {"init_fast", "init_check", "async_fast", "async_check", "req_lock", "req_post",
           "refr_lock"} \cup PassPcs

SawInv == \A t \in Callers : sawInit[t] =>
            /\ pc[t] \in SawPcs
            /\ init_ok /\ (async[t] => async_init_ok)
            /\ pc[t] \in {"async_fast", "async_check"} => async[t]

\* A step that takes back no initialisation and moves no such call elsewhere.
LEMMA SawKept ==
  ASSUME SawInv, init_ok => init_ok', async_init_ok => async_init_ok',
         \A u \in Callers : sawInit'[u] =>
           /\ sawInit[u] /\ async'[u] = async[u]
           /\ pc'[u] = pc[u] \/ (pc'[u] \in SawPcs /\ (pc'[u] \in {"async_fast", "async_check"} => async[u]))
  PROVE  SawInv'
BY DEF SawInv

\* One thread moves, to where such a call may be.
LEMMA SawMove ==
  ASSUME ClearInv, SawInv, NEW t \in Actors, NEW from, NEW to, Goto(t, from, to),
         UNCHANGED <<async, sawInit>>, init_ok => init_ok', async_init_ok => async_init_ok',
         t \in Callers /\ sawInit[t] =>
           to \in SawPcs /\ (to \in {"async_fast", "async_check"} => async[t])
  PROVE  SawInv'
<1>1. \A u \in Actors : pc'[u] = IF u = t THEN to ELSE pc[u]
  BY DEF ClearInv, TypeInv, PcOK, Goto
<1>2. QED BY <1>1, SawKept DEF Actors

\* Who returns from a call forgets it, and no other does.
LEMMA LeftCall ==
  ASSUME ClearInv, NEW t \in Actors, LeaveCall(t)
  PROVE  \A u \in Callers : sawInit'[u] => u # t /\ sawInit[u] /\ async'[u] = async[u]
<1>1. \A u \in Callers : async[u] \in BOOLEAN /\ sawInit[u] \in BOOLEAN
  BY DEF ClearInv, TypeInv, DataOK, LocalsOK
<1>2. \A u \in Callers : /\ async'[u] = (async[u] /\ u # t)
                          /\ sawInit'[u] = (sawInit[u] /\ u # t)
  BY DEF LeaveCall
<1>3. QED BY <1>1, <1>2

\* The steps of a refresh call.
LEMMA SawRefresh ==
  ASSUME ClearInv, SawInv, NEW t \in Callers, Refresh(t) PROVE SawInv'
<1> USE DEF initVars, callVars
<1>0. t \in Actors
  BY DEF Actors
<1>1. CASE InitFast(t) \/ InitCheck(t)
  <2>1. sawInit[t] => init_ok /\ inited
    BY DEF SawInv, ClearInv, DisciplineInv, InitInv
  <2>2. CASE InitFast(t)
    BY <1>0, <2>1, <2>2, SawMove DEF InitFast, SawPcs
  <2>3. CASE InitCheck(t)
    BY <1>0, <2>1, <2>3, SawMove DEF InitCheck, SawPcs
  <2>4. QED BY <1>1, <2>2, <2>3
<1>2. CASE AsyncFast(t) \/ AsyncCheck(t)
  <2>1. sawInit[t] => async[t] /\ async_init_ok /\ async_inited
    BY <1>2 DEF AsyncFast, AsyncCheck, Goto, SawInv, ClearInv, DisciplineInv, WorkerInv
  <2>2. CASE AsyncFast(t)
    BY <1>0, <2>1, <2>2, SawMove DEF AsyncFast, SawPcs
  <2>3. CASE AsyncCheck(t)
    BY <1>0, <2>1, <2>3, SawMove DEF AsyncCheck, SawPcs
  <2>4. QED BY <1>2, <2>2, <2>3
<1>3. CASE InitOnce(t) \/ InitAdd(t) \/ InitDone(t) \/ InitEnd(t)
  <2>1. ~sawInit[t]
    BY <1>3 DEF InitOnce, InitAdd, InitDone, InitEnd, Goto, SawInv, SawPcs, PassPcs
  <2>2. CASE InitOnce(t)
    BY <1>0, <2>1, <2>2, SawMove DEF InitOnce
  <2>3. CASE InitAdd(t) \/ InitEnd(t)
    BY <1>0, <2>1, <2>3, SawMove DEF InitAdd, InitEnd
  <2>4. CASE InitDone(t)
    BY <1>0, <2>1, <2>4, SawMove DEF InitDone
  <2>5. QED BY <1>3, <2>2, <2>3, <2>4
<1>4. CASE AsyncOnce(t) \/ AsyncDone(t) \/ AsyncEnd(t)
  <2>1. ~sawInit[t]
    BY <1>4 DEF AsyncOnce, AsyncDone, AsyncEnd, Goto, SawInv, SawPcs, PassPcs
  <2>2. CASE AsyncOnce(t)
    BY <1>0, <2>1, <2>2, SawMove DEF AsyncOnce
  <2>3. CASE AsyncDone(t)
    BY <1>0, <2>1, <2>3, SawMove DEF AsyncDone
  <2>4. CASE AsyncEnd(t)
    BY <1>0, <2>1, <2>4, SawMove DEF AsyncEnd
  <2>5. QED BY <1>4, <2>2, <2>3, <2>4
<1>5. CASE AsyncCreate(t)
  <2>1. pc[t] = "async_create" /\ UNCHANGED <<initVars, callVars>>
    BY <1>5 DEF AsyncCreate, Goto
  <2>2. ~sawInit[t]
    BY <2>1 DEF SawInv, SawPcs, PassPcs
  <2>3. \A u \in Callers \ {t} : pc'[u] = pc[u]
    BY <1>5, CallersAssumption DEF AsyncCreate, Goto, ClearInv, TypeInv, PcOK, Actors
  <2>4. QED BY <2>1, <2>2, <2>3, SawKept
<1>6. CASE ReqPost(t) \/ ReturnFailed(t)
  <2>1. \A u \in Callers : sawInit'[u] => u # t /\ sawInit[u] /\ async'[u] = async[u]
    BY <1>0, <1>6, LeftCall DEF ReqPost, ReturnFailed
  <2>2. CASE ReqPost(t)
    <3>1. \A u \in Callers \ {t} : pc'[u] = pc[u]
      BY <2>2, SignalMoves DEF ReqPost, ClearInv, TypeInv
    <3>2. QED BY <2>1, <2>2, <3>1, SawKept DEF ReqPost
  <2>3. CASE ReturnFailed(t)
    <3>1. \A u \in Callers \ {t} : pc'[u] = pc[u]
      BY <2>3 DEF ReturnFailed, Goto, ClearInv, TypeInv, PcOK, Actors
    <3>2. QED BY <2>1, <2>3, <3>1, SawKept DEF ReturnFailed
  <2>4. QED BY <1>6, <2>2, <2>3
<1>7. QED BY <1>1, <1>2, <1>3, <1>4, <1>5, <1>6 DEF Refresh

\* While one caller clears no other is in a call.
LEMMA SawClear ==
  ASSUME ClearInv, SawInv, NEW t \in Callers, Clear(t) PROVE SawInv'
<1>1. pc[t] \in ClearPcs
  BY DEF Clear, ClearPcs, ClearAok, ClearStop, ClearTid, ClearJoin, ClearAok0, ClearAinit0,
         ClearIok, ClearDel, ClearIok0, ClearInit0, ClearFree, Goto
<1>2. \A u \in Callers : ~sawInit[u]
  BY <1>1 DEF ClearInv, DisciplineInv, ClearAlone, Quiet, SawInv, SawPcs, ClearPcs, PassPcs
<1>3. sawInit' = sawInit
  BY DEF Clear, ClearAok, ClearStop, ClearTid, ClearJoin, ClearAok0, ClearAinit0,
         ClearIok, ClearDel, ClearIok0, ClearInit0, ClearFree, callVars
<1>4. QED BY <1>2, <1>3 DEF SawInv

\* A pass, and the mutexes.
LEMMA SawPass ==
  ASSUME ClearInv, SawInv, NEW t \in Actors,
         \/ BeginAccess(t) \/ EndAccess(t) \/ GuardFault(t) \/ EndPass(t)
         \/ AcquireCore(t) \/ AcquireRefr(t)
  PROVE  SawInv'
<1> USE DEF initVars, callVars
<1>1. CASE BeginAccess(t)
  BY <1>1, SawMove DEF BeginAccess, SawPcs, PassPcs
<1>2. CASE EndAccess(t) \/ GuardFault(t)
  BY <1>2, SawMove DEF EndAccess, GuardFault, SawPcs, PassPcs
<1>3. CASE EndPass(t)
  <2>1. \A u \in Callers : sawInit'[u] => u # t /\ sawInit[u] /\ async'[u] = async[u]
    BY <1>3, LeftCall DEF EndPass
  <2>2. \A u \in Callers \ {t} : pc'[u] = pc[u]
    BY <1>3 DEF EndPass, Goto, ClearInv, TypeInv, PcOK, Actors
  <2>3. QED BY <1>3, <2>1, <2>2, SawKept DEF EndPass
<1>4. CASE AcquireRefr(t)
  <2>1. UNCHANGED <<initVars, async, sawInit>>
    BY <1>4 DEF AcquireRefr
  <2>2. CASE Goto(t, "refr_lock", "pass") \/ Goto(t, "w_refr", "pass")
    BY <2>1, <2>2, SawMove DEF SawPcs, PassPcs
  <2>3. CASE Goto(t, "c_refr", "c_free")
    <3>1. t \in Callers => ~sawInit[t]
      BY <2>3 DEF Goto, SawInv, SawPcs, PassPcs
    <3>2. QED BY <2>1, <2>3, <3>1, SawMove
  <2>4. QED BY <1>4, <2>2, <2>3 DEF AcquireRefr
<1>5. CASE AcquireCore(t)
  <2>1. PICK w \in CoreWaits : LockCore(t, w[1], w[2])
    BY <1>5 DEF AcquireCore
  <2>2. UNCHANGED <<initVars, callVars>> /\ Goto(t, w[1], w[2])
    BY <2>1 DEF LockCore
  <2>3. t \in Callers /\ sawInit[t] => w[2] = "req_post"
    BY <2>2 DEF Goto, CoreWaits, SawInv, SawPcs, PassPcs
  <2>4. QED BY <2>2, <2>3, SawMove DEF SawPcs
<1>6. QED BY <1>1, <1>2, <1>3, <1>4, <1>5

\* The refresh thread, and the beginning of calls.
LEMMA SawOther ==
  ASSUME ClearInv, SawInv,
         \/ \E w \in Workers : Worker(w) \/ WorkerWake(w)
         \/ \E t \in Callers : \/ CallClear(t)
                              \/ \E a \in BOOLEAN : CallRefresh(t, a) \/ Enable(t, a)
  PROVE  SawInv'
<1> USE DEF initVars, callVars
<1>1. ASSUME NEW w \in Workers, Worker(w) \/ WorkerWake(w) PROVE SawInv'
  <2>1. w \in Actors /\ w \notin Callers
    BY CallersAssumption DEF Actors
  <2>2. CASE WorkerTop(w) \/ WorkerWake(w)
    BY <2>1, <2>2, SawMove DEF WorkerTop, WorkerWake
  <2>3. CASE WorkerCheck(w)
    BY <2>1, <2>3, SawMove DEF WorkerCheck
  <2>4. QED BY <1>1, <2>2, <2>3 DEF Worker
<1>2. ASSUME NEW t \in Callers, CallClear(t) PROVE SawInv'
  <2>1. pc[t] = "idle" /\ UNCHANGED <<initVars, callVars>>
    BY <1>2 DEF CallClear, Goto
  <2>2. ~sawInit[t]
    BY <2>1 DEF SawInv, SawPcs, PassPcs
  <2>3. \A u \in Callers \ {t} : pc'[u] = pc[u]
    BY <1>2 DEF CallClear, Goto, ClearInv, TypeInv, PcOK, Actors
  <2>4. QED BY <2>1, <2>2, <2>3, SawKept
<1>3. ASSUME NEW t \in Callers, NEW a \in BOOLEAN, CallRefresh(t, a) PROVE SawInv'
  BY <1>3 DEF CallRefresh, Goto, SawInv, SawPcs, ClearInv, TypeInv, PcOK, DataOK, LocalsOK, Actors
<1>4. ASSUME NEW t \in Callers, NEW a \in BOOLEAN, Enable(t, a) PROVE SawInv'
  BY <1>4, SawKept DEF Enable
<1>5. QED BY <1>1, <1>2, <1>3, <1>4

\* Every step keeps what such a call relies on.
LEMMA SawStep ==
  ASSUME Discipline, ClearInv, SawInv, [Next]_vars PROVE SawInv'
<1>1. CASE UNCHANGED vars
  BY <1>1, SawKept DEF vars, initVars, callVars
<1>2. CASE Next
  BY <1>2, OwnMoves, SawRefresh, SawClear, SawPass, SawOther DEF Next, Work, Acquire
<1>3. QED BY <1>1, <1>2

\* With disciplined callers a refresh fails only if the initialisation it needs was
\* not complete when it began: FailsOnlyBeforeInit for any threads.
THEOREM FailuresEarly == ASSUME Discipline PROVE Spec => []FailsOnlyBeforeInit
<1>1. Init => SawInv
  BY DEF Init, SawInv
<1>2. ClearInv /\ SawInv /\ [Next]_vars => SawInv'
  BY SawStep
<1>3. SawInv => FailsOnlyBeforeInit
  BY DEF SawInv, SawPcs, PassPcs, FailsOnlyBeforeInit
<1>4. Spec => []ClearInv
  BY Disciplined
<1>5. QED BY <1>1, <1>2, <1>3, <1>4, PTL DEF Spec
=============================================================================
