---------------------------- MODULE InlineHook32 ----------------------------
(***************************************************************************)
(* inline32/inlineHook.c: functions are registered in a table, hooked by a *)
(* jump written over their first instructions, and unhooked by writing the *)
(* instructions back, while other threads run those functions, their       *)
(* trampolines and the replacements.  For each operation a forked child    *)
(* attaches to the threads with ptrace and moves their PCs.                *)
(*                                                                         *)
(* One thread calls the library (it has no lock); it never runs a hooked   *)
(* function itself.  Offsets are in bytes, as in the boundary tables.  The *)
(* registration of a target that is not executable or already registered,  *)
(* and of a NULL proto_addr, leave early and are left out.                 *)
(***************************************************************************)
EXTENDS Relocate32

CONSTANTS
  Targets,   \* functions that may be hooked
  CodeOf,    \* the code at the start of each of them
  Threads,   \* the other threads of the process
  Pages,     \* pages mmap may return
  None,      \* no function, no page, NULL
  MaxItems,  \* items of the table, 1024 in the code
  MaxCalls,  \* bound: calls of the library
  Allowed    \* the faults that may happen, of those below

Faults == {
  "fork",      \* fork fails, and nothing is stopped
  "attach",    \* PTRACE_ATTACH fails, or a thread starts after the listing
  "busy",      \* a thread is stopped where no boundary matches its PC
  "heap",      \* a thread is stopped inside malloc or free
  "reuse",     \* an item is registered in a place that was used before
  "overflow",  \* more boundaries are recorded than orig_boundaries has room for
  "rehook",    \* inlineHookAll moves a thread that was about to enter a hook
  "stale"}     \* the instruction cache is flushed at another item's target

\* int orig_boundaries[4], int trampoline_boundaries[20], one behind the other.
OrigRoom  == 4
TrampRoom == 20

ASSUME CodeAssumption ==
  \A t \in Targets :
    /\ CodeOf[t].thumb \in BOOLEAN
    /\ CodeOf[t].base \in {0, 1}
    /\ CodeOf[t].instrs \in Seq(Instruction)
    /\ \A i \in 1..Len(CodeOf[t].instrs) :
         CodeOf[t].instrs[i].kind \in (IF CodeOf[t].thumb THEN Thumb16 \cup Thumb32 ELSE Arm)
    /\ Length(CodeOf[t]) <= Start(CodeOf[t])[Len(CodeOf[t].instrs) + 1]
ASSUME NamesAssumption == None \notin Targets \cup Pages
ASSUME BoundsAssumption == MaxItems \in Nat \ {0} /\ MaxCalls \in Nat
ASSUME AllowedAssumption == Allowed \subseteq Faults

VARIABLES
  item,    \* info.item, with what was left in the places behind size
  size,    \* info.size
  code,    \* the first bytes of each target: in memory, and as fetched
  page,    \* the function whose trampoline each page holds
  proto,   \* *proto_addr of each target
  thread,  \* where each thread is
  frozen,  \* the threads the child is attached to
  op,      \* the operation under way and its control point
  calls,   \* calls of the library so far
  faults   \* history: the faults that happened

tableVars == <<item, size>>
vars == <<item, size, code, page, proto, thread, frozen, op, calls, faults>>

-----------------------------------------------------------------------------
(* The layout of a target, in bytes.                                        *)

Cell(t)     == IF CodeOf[t].thumb THEN 2 ELSE 4
Count(t)    == Recorded(CodeOf[t])
Last(t)     == Relocated(CodeOf[t])
OrigOff(t, i)  == Cell(t) * Start(CodeOf[t])[i]
TrampOff(t, i) == Cell(t) * At(CodeOf[t])[i]
Patched(t, o)  == o < Cell(t) * PatchLength(CodeOf[t])
JumpOff(t)     == Cell(t) * JumpAt(CodeOf[t])

\* The offset recorded for an instruction that sticks out is that of the jump back.
TrampBoundary(t, i) == TrampOff(t, IF i <= Last(t) THEN i ELSE Last(t) + 1)

\* Behind the first instruction of a relocated sequence; 0 if it has only one.
MidOff(t, i) ==
  LET cells == Emitted(CodeOf[t], i)
      first == IF Len(cells) > 1 /\ cells[2].op = "wide" THEN 2 ELSE 1
  IN IF Len(cells) = first THEN 0 ELSE TrampOff(t, i) + Cell(t) * first

IndexAt(t, o) == {i \in 1..Last(t) + 1 : OrigOff(t, i) = o}
TrampIndexAt(t, o) == {i \in 1..Last(t) + 1 : TrampOff(t, i) = o}
MidIndexAt(t, o) == {i \in 1..Last(t) : MidOff(t, i) = o /\ o # 0}

-----------------------------------------------------------------------------
(* The table.                                                               *)

Boundaries == [0..OrigRoom + TrampRoom - 1 -> Nat]

\* A static variable is zero, and REGISTERED is 0.
Unused == [target |-> None, status |-> "REGISTERED", page |-> None, count |-> 0,
           bounds |-> [j \in 0..OrigRoom + TrampRoom - 1 |-> 0]]

Items == 1..size

Smallest(S) == CHOOSE i \in S : \A j \in S : i <= j

\* The recording loop, from the count the place has: an offset stored behind the
\* end of orig_boundaries overwrites a trampoline offset stored before it.
Record(b, count, t) ==
  [j \in DOMAIN b |->
     IF j - count \in 0..Count(t) - 1 THEN OrigOff(t, j - count + 1)
     ELSE IF j - count - OrigRoom \in 0..Count(t) - 1
       THEN TrampBoundary(t, j - count - OrigRoom + 1)
     ELSE b[j]]

FindItem(t) == {i \in Items : item[i].target = t}

\* doProcessThreadPC: the entries that match an offset of either table.
OrigMatches(it, o)  == {k \in 0..it.count - 1 : it.bounds[k] = o}
TrampMatches(it, o) == {k \in 0..it.count - 1 : it.bounds[OrigRoom + k] = o}

\* Whether, and to which place, an item moves a thread.
Moves(it, th) ==
  IF op.name = "hook"
    THEN th.at = "fn" /\ th.fn = it.target /\ OrigMatches(it, th.off) # {}
    ELSE th.at = "page" /\ th.page = it.page /\ TrampMatches(it, th.off) # {}
MovedBy(it, th) ==
  IF op.name = "hook"
    THEN [th EXCEPT !.at = "page", !.page = it.page,
                    !.off = it.bounds[OrigRoom + Smallest(OrigMatches(it, th.off))]]
    ELSE [th EXCEPT !.at = "fn", !.page = None,
                    !.off = it.bounds[Smallest(TrampMatches(it, th.off))]]

\* processThreadPC: the item of the operation, or the first one that matches.
Movers(th) ==
  {i \in (IF op.all THEN Items ELSE {op.i}) : Moves(item[i], th)}
Moved(th) == IF Movers(th) = {} THEN th ELSE MovedBy(item[Smallest(Movers(th))], th)

-----------------------------------------------------------------------------
Places == {"out", "fn", "page", "proxy", "callee", "heap", "lost"}

\* off is an offset in fn or in page; in a callee it is that of the return
\* address, in fn or in the page if there is one.  next is the instruction of the
\* original function the thread has to execute next, due whether it owes a visit
\* of the replacement, having called a function that was hooked.
ThreadState ==
  [at : Places, fn : Targets \cup {None}, page : Pages \cup {None},
   off : Nat, next : Nat, due : BOOLEAN]

Out == [at |-> "out", fn |-> None, page |-> None, off |-> 0, next |-> 0, due |-> FALSE]

Versions == {"orig", "torn", "hook"}

Pcs == {"idle", "freeze", "attach", "loop", "proto", "patch", "patched", "mark",
        "restore", "restored", "unmap", "delete", "thaw"}

Idle == [pc |-> "idle", name |-> "hook", all |-> FALSE, i |-> 0, tids |-> {}, pid |-> FALSE]

Init ==
  /\ item = [i \in 1..MaxItems |-> Unused] /\ size = 0
  /\ code = [t \in Targets |-> [mem |-> "orig", seen |-> {"orig"}]]
  /\ page = [p \in Pages |-> None]
  /\ proto = [t \in Targets |-> None]
  /\ thread = [x \in Threads |-> Out]
  /\ frozen = {}
  /\ op = Idle
  /\ calls = 0
  /\ faults = {}

Alive == \A x \in Threads : thread[x].at # "lost"

\* A fault happens only where it is allowed.
Fault(S) == S \subseteq Allowed /\ faults' = faults \cup S

FaultIf(name, cond) == IF cond THEN {name} ELSE {}

-----------------------------------------------------------------------------
(* Calls of the library.                                                    *)

Idling == op.pc = "idle" /\ calls < MaxCalls

\* registerInlineHook: malloc, mmap, and the relocation of the instructions.
Register(t) ==
  /\ Idling /\ FindItem(t) = {} /\ size < MaxItems
  /\ \A x \in Threads : thread[x].at # "heap"
  /\ item[size + 1].count + Count(t) <= TrampRoom
  /\ \E p \in Pages :
       /\ page[p] = None
       /\ page' = [page EXCEPT ![p] = t]
       /\ item' = [item EXCEPT ![size + 1] =
                     [target |-> t, status |-> "REGISTERED", page |-> p,
                      count |-> @.count + Count(t),
                      bounds |-> Record(@.bounds, @.count, t)]]
  /\ size' = size + 1
  /\ Fault(FaultIf("reuse", item[size + 1].count # 0)
             \cup FaultIf("overflow", item[size + 1].count + Count(t) > OrigRoom))
  /\ calls' = calls + 1
  /\ UNCHANGED <<code, proto, thread, frozen, op>>

Begin(name, all, i) ==
  /\ Idling
  /\ op' = [Idle EXCEPT !.pc = "freeze", !.name = name, !.all = all, !.i = i]
  /\ calls' = calls + 1
  /\ UNCHANGED <<tableVars, code, page, proto, frozen, faults>>

\* A visit is no longer owed to a replacement that is being taken away.
Forgive(S) ==
  thread' = [x \in Threads |->
               IF thread[x].fn \in S THEN [thread[x] EXCEPT !.due = FALSE] ELSE thread[x]]

\* Mutant: any hooked item will do.
InlineUnHookAny(t) ==
  LET hooked == {i \in Items : item[i].status = "HOOKED"}
  IN hooked # {} /\ Begin("unhook", FALSE, Smallest(hooked)) /\ Forgive({t})

\* inlineHook looks at the first item of the target, inlineUnHook at the first
\* one that is hooked.
InlineHook(t) ==
  /\ FindItem(t) # {} /\ item[Smallest(FindItem(t))].status = "REGISTERED"
  /\ Begin("hook", FALSE, Smallest(FindItem(t))) /\ UNCHANGED thread
InlineUnHook(t) ==
  LET hooked == {i \in FindItem(t) : item[i].status = "HOOKED"}
  IN hooked # {} /\ Begin("unhook", FALSE, Smallest(hooked)) /\ Forgive({t})
InlineHookAll   == Begin("hook", TRUE, 1) /\ UNCHANGED thread
InlineUnHookAll == Begin("unhook", TRUE, 1) /\ Forgive(Targets)

Call ==
  \/ \E t \in Targets : Register(t) \/ InlineHook(t) \/ InlineUnHook(t)
  \/ InlineHookAll \/ InlineUnHookAll

-----------------------------------------------------------------------------
(* freeze and unFreeze.                                                     *)

Fork ==
  /\ op.pc = "freeze"
  /\ op' = [op EXCEPT !.pc = "attach", !.tids = Threads, !.pid = TRUE]
  /\ UNCHANGED <<tableVars, code, page, proto, thread, frozen, calls, faults>>

ForkFails ==
  /\ op.pc = "freeze"
  /\ Fault({"fork"})
  /\ op' = [op EXCEPT !.pc = "loop"]
  /\ UNCHANGED <<tableVars, code, page, proto, thread, frozen, calls>>

\* The items the operation is going to change.
Concerned ==
  {i \in Items :
     /\ op.all \/ i = op.i
     /\ item[i].status = (IF op.name = "hook" THEN "REGISTERED" ELSE "HOOKED")}

\* The thread holds an address in the bytes that are going away, and its PC is
\* none of the recorded ones: it is in the replacement and will call the
\* trampoline, between two recorded instructions, or in a function called from
\* there.
Busy(th) ==
  \E i \in Concerned :
    LET t == item[i].target IN
    IF op.name = "hook"
      THEN th.at = "callee" /\ th.fn = t /\ th.page = None /\ Patched(t, th.off)
      ELSE \/ th.at = "proxy" /\ th.fn = t
           \/ th.at = "callee" /\ th.page = item[i].page
           \/ th.at = "page" /\ th.page = item[i].page
                /\ {k \in 1..Count(t) : TrampBoundary(t, k) = th.off} = {}
           \/ th.at = "fn" /\ th.fn = t /\ th.next = 1 /\ th.off # 0

\* The thread is in the jump of a function that is hooked already.
AtHook(th) ==
  /\ th.at = "fn" /\ Patched(th.fn, th.off)
  /\ \E i \in Movers(th) : item[i].status = "HOOKED"

\* The function is going to be unhooked, or is.
Leaving(t) ==
  /\ op.pc \notin {"idle", "thaw"} /\ op.name = "unhook"
  /\ \E i \in Concerned : item[i].target = t

\* Mutant: the registers are never written back.
AttachUnmoved(x) ==
  /\ op.pc = "attach" /\ x \in op.tids
  /\ op' = [op EXCEPT !.tids = @ \ {x}]
  /\ frozen' = frozen \cup {x}
  /\ Fault(FaultIf("busy", Busy(thread[x]))
             \cup FaultIf("rehook", op.name = "hook" /\ AtHook(thread[x]))
             \cup FaultIf("heap", thread[x].at = "heap"))
  /\ UNCHANGED <<tableVars, code, page, proto, thread, calls>>

Attach(x) ==
  /\ op.pc = "attach" /\ x \in op.tids
  /\ op' = [op EXCEPT !.tids = @ \ {x}]
  /\ frozen' = frozen \cup {x}
  /\ thread' = [thread EXCEPT ![x] = Moved(@)]
  /\ Fault(FaultIf("busy", Busy(thread[x]))
             \cup FaultIf("rehook", op.name = "hook" /\ AtHook(thread[x]))
             \cup FaultIf("heap", thread[x].at = "heap"))
  /\ UNCHANGED <<tableVars, code, page, proto, calls>>

AttachFails(x) ==
  /\ op.pc = "attach" /\ x \in op.tids
  /\ op' = [op EXCEPT !.tids = @ \ {x}]
  /\ Fault({"attach"})
  /\ UNCHANGED <<tableVars, code, page, proto, thread, frozen, calls>>

\* Mutant: the parent does not wait for the child.
FrozenEarly ==
  /\ op.pc = "attach"
  /\ op' = [op EXCEPT !.pc = "loop"]
  /\ UNCHANGED <<tableVars, code, page, proto, thread, frozen, calls, faults>>

\* The child stops itself, and waitpid returns in the parent.
Frozen ==
  /\ op.pc = "attach" /\ op.tids = {}
  /\ op' = [op EXCEPT !.pc = "loop"]
  /\ UNCHANGED <<tableVars, code, page, proto, thread, frozen, calls, faults>>

Detach(x) ==
  /\ op.pc = "thaw" /\ op.pid /\ x \in frozen
  /\ frozen' = frozen \ {x}
  /\ UNCHANGED <<tableVars, code, page, proto, thread, op, calls, faults>>

\* The child is dead, or there is none.
Return ==
  /\ op.pc = "thaw" /\ (op.pid => frozen = {})
  /\ op' = Idle
  /\ UNCHANGED <<tableVars, code, page, proto, thread, frozen, calls, faults>>

-----------------------------------------------------------------------------
(* doInlineHook and doInlineUnHook, for one item or in a loop.              *)

Target == item[op.i].target

Ahead == {i \in Concerned : op.all => op.i <= i}

Loop ==
  /\ op.pc = "loop"
  /\ op' = IF Ahead = {} THEN [op EXCEPT !.pc = "thaw"]
           ELSE [op EXCEPT !.pc = IF op.name = "hook" THEN "proto" ELSE "restore",
                           !.i = Smallest(Ahead)]
  /\ UNCHANGED <<tableVars, code, page, proto, thread, frozen, calls, faults>>

\* One item only, or the rest of the table.
Done(i) == [op EXCEPT !.pc = IF op.all THEN "loop" ELSE "thaw", !.i = i]

Goto(from, to) == op.pc = from /\ op' = [op EXCEPT !.pc = to]

\* Code is written; a thread may fetch what was there until the flush.
Write(t, version) ==
  code' = [code EXCEPT ![t].mem = version, ![t].seen = @ \cup {version}]
Flush(c, t) == [c EXCEPT ![t].seen = {c[t].mem}]

\* Mutant: the test of proto_addr for NULL is the wrong way round.
StoreProtoSkipped ==
  /\ Goto("proto", "patch")
  /\ UNCHANGED <<tableVars, code, page, proto, thread, frozen, calls, faults>>

StoreProto ==
  /\ Goto("proto", "patch")
  /\ proto' = [proto EXCEPT ![Target] = item[op.i].page]
  /\ UNCHANGED <<tableVars, code, page, thread, frozen, calls, faults>>

PatchFirst ==
  /\ Goto("patch", "patched")
  /\ Write(Target, "torn")
  /\ UNCHANGED <<tableVars, page, proto, thread, frozen, calls, faults>>

PatchRest ==
  /\ Goto("patched", "mark")
  /\ Write(Target, "hook")
  /\ UNCHANGED <<tableVars, page, proto, thread, frozen, calls, faults>>

MarkHooked ==
  /\ op.pc = "mark" /\ op' = Done(op.i + 1)
  /\ item' = [item EXCEPT ![op.i].status = "HOOKED"]
  /\ code' = Flush(code, Target)
  /\ UNCHANGED <<size, page, proto, thread, frozen, calls, faults>>

RestoreFirst ==
  /\ Goto("restore", "restored")
  /\ Write(Target, "torn")
  /\ UNCHANGED <<tableVars, page, proto, thread, frozen, calls, faults>>

RestoreRest ==
  /\ Goto("restored", "unmap")
  /\ Write(Target, "orig")
  /\ UNCHANGED <<tableVars, page, proto, thread, frozen, calls, faults>>

\* munmap, and free, which waits for a thread that is inside the allocator.
Unmap ==
  /\ Goto("unmap", "delete")
  /\ \A x \in Threads : thread[x].at # "heap"
  /\ page' = [page EXCEPT ![item[op.i].page] = None]
  /\ UNCHANGED <<tableVars, code, proto, thread, frozen, calls, faults>>

\* Mutant: the last item is dropped, whichever was unhooked.
DeleteLast ==
  /\ op.pc = "delete" /\ op' = Done(op.i)
  /\ size' = size - 1
  /\ code' = Flush(code, Target)
  /\ Fault(FaultIf("stale", op.i # size))
  /\ UNCHANGED <<item, page, proto, thread, frozen, calls>>

\* Mutant: the loop of inlineUnHookAll without its --i.
DeleteAdvance ==
  /\ op.pc = "delete" /\ op' = Done(op.i + 1)
  /\ item' = [item EXCEPT ![op.i] = item[size]]
  /\ size' = size - 1
  /\ code' = Flush(code, item[size].target)
  /\ Fault(FaultIf("stale", op.i # size))
  /\ UNCHANGED <<page, proto, thread, frozen, calls>>

\* Mutant: the item stays, and the loop looks at it again.
DeleteNothing ==
  /\ op.pc = "delete" /\ op' = Done(op.i)
  /\ code' = Flush(code, Target)
  /\ UNCHANGED <<tableVars, page, proto, thread, frozen, calls, faults>>

\* deleteInlineHookItem moves the last item here; the flush reads the target of
\* what is here now.  The loop looks at the same place again.
Delete ==
  /\ op.pc = "delete" /\ op' = Done(op.i)
  /\ item' = [item EXCEPT ![op.i] = item[size]]
  /\ size' = size - 1
  /\ code' = Flush(code, item[size].target)
  /\ Fault(FaultIf("stale", op.i # size))
  /\ UNCHANGED <<page, proto, thread, frozen, calls>>

Operation ==
  \/ Fork \/ ForkFails \/ Frozen \/ Return \/ Loop
  \/ \E x \in Threads : Attach(x) \/ AttachFails(x) \/ Detach(x)
  \/ StoreProto \/ PatchFirst \/ PatchRest \/ MarkHooked
  \/ RestoreFirst \/ RestoreRest \/ Unmap \/ Delete

-----------------------------------------------------------------------------
(* The other threads.                                                       *)

Goes(x, th) ==
  /\ x \notin frozen
  /\ thread' = [thread EXCEPT ![x] = th]
  /\ UNCHANGED <<tableVars, code, page, proto, frozen, op, calls, faults>>

Crash(x) == Goes(x, [thread[x] EXCEPT !.at = "lost"])

Enter(x, t) ==
  /\ thread[x].at = "out"
  /\ Goes(x, [Out EXCEPT !.at = "fn", !.fn = t, !.next = 1,
                         !.due = code[t].seen = {"hook"} /\ ~Leaving(t)])

\* Instruction i is executed, in the function or in the trampoline: a branch
\* leaves the function, a call returns to the next instruction.
Execute(x, i) ==
  LET th  == thread[x]
      ins == CodeOf[th.fn].instrs[i]
      after == [th EXCEPT !.next = i + 1,
                          !.off = IF th.at = "fn" THEN OrigOff(th.fn, i + 1)
                                  ELSE TrampOff(th.fn, i + 1)]
  IN \/ (ins.kind \notin Branches \/ ins.cond) /\ Goes(x, after)
     \/ ins.kind \in Branches \ Links /\ Goes(x, Out)
     \/ ins.kind \in Links /\ Goes(x, [after EXCEPT !.at = "callee"])

\* A fetch in the function, of any version the instruction cache may hold.
FetchOrig(x) ==
  LET th == thread[x] IN
  /\ th.at = "fn"
  /\ Patched(th.fn, th.off) => "orig" \in code[th.fn].seen
  /\ \/ \E i \in IndexAt(th.fn, th.off) :
          IF i <= Last(th.fn) THEN Execute(x, i) ELSE Goes(x, Out)
     \/ IndexAt(th.fn, th.off) = {} /\ Crash(x)

FetchHook(x) ==
  LET th == thread[x] IN
  /\ th.at = "fn" /\ Patched(th.fn, th.off)
  /\ "hook" \in code[th.fn].seen
  /\ IF th.off = JumpOff(th.fn)
       THEN Goes(x, [th EXCEPT !.at = "proxy", !.off = 0, !.due = FALSE])
     ELSE IF th.off = 0 THEN Goes(x, [th EXCEPT !.off = JumpOff(th.fn)])
     ELSE Crash(x)

FetchTorn(x) ==
  LET th == thread[x] IN
  /\ th.at = "fn" /\ Patched(th.fn, th.off)
  /\ "torn" \in code[th.fn].seen
  /\ Crash(x)

\* The replacement returns, or calls the original through *proto_addr.
Proxy(x) ==
  /\ thread[x].at = "proxy"
  /\ \/ Goes(x, Out)
     \/ LET p == proto[thread[x].fn]
        IN IF p = None THEN Crash(x)
           ELSE Goes(x, [thread[x] EXCEPT !.at = "page", !.page = p])

\* A fetch in a trampoline, which may be gone or be another one by now.
FetchPage(x) ==
  LET th == thread[x]
      t  == th.fn
  IN /\ th.at = "page"
     /\ \/ /\ page[th.page] = t
           /\ \/ \E i \in TrampIndexAt(t, th.off) :
                   IF i = Last(t) + 1
                     THEN Goes(x, [th EXCEPT !.at = "fn", !.page = None, !.off = OrigOff(t, i)])
                   ELSE IF MidOff(t, i) = 0 THEN Execute(x, i)
                   ELSE Goes(x, [th EXCEPT !.off = MidOff(t, i)])
              \/ \E i \in MidIndexAt(t, th.off) : Execute(x, i)
              \/ TrampIndexAt(t, th.off) \cup MidIndexAt(t, th.off) = {} /\ Crash(x)
        \/ page[th.page] # t /\ Crash(x)

ReturnFromCallee(x) ==
  /\ thread[x].at = "callee"
  /\ Goes(x, [thread[x] EXCEPT !.at = IF thread[x].page = None THEN "fn" ELSE "page"])

\* malloc and free, one thread at a time.
TakeHeap(x) ==
  /\ thread[x].at = "out" /\ \A y \in Threads : thread[y].at # "heap"
  /\ Goes(x, [Out EXCEPT !.at = "heap"])
DropHeap(x) == thread[x].at = "heap" /\ Goes(x, Out)

Run(x) ==
  \/ \E t \in Targets : Enter(x, t)
  \/ FetchOrig(x) \/ FetchHook(x) \/ FetchTorn(x) \/ FetchPage(x)
  \/ Proxy(x) \/ ReturnFromCallee(x) \/ TakeHeap(x) \/ DropHeap(x)

-----------------------------------------------------------------------------
Next == Alive /\ (Call \/ Operation \/ \E x \in Threads : Run(x))

\* The caller and the child are scheduled, a thread leaves the allocator, and the
\* allocator's lock is not withheld from the caller forever.
Fairness ==
  /\ WF_vars(Alive /\ Operation)
  /\ SF_vars(Alive /\ Unmap)
  /\ \A x \in Threads : WF_vars(Alive /\ DropHeap(x))

Spec == Init /\ [][Next]_vars /\ Fairness

-----------------------------------------------------------------------------
ItemState ==
  [target : Targets \cup {None}, status : {"REGISTERED", "HOOKED"},
   page : Pages \cup {None}, count : 0..TrampRoom, bounds : Boundaries]

\* Type invariant.
TypeOK ==
  /\ item \in [1..MaxItems -> ItemState] /\ size \in 0..MaxItems
  /\ code \in [Targets -> [mem : Versions, seen : SUBSET Versions]]
  /\ page \in [Pages -> Targets \cup {None}]
  /\ proto \in [Targets -> Pages \cup {None}]
  /\ thread \in [Threads -> ThreadState]
  /\ frozen \subseteq Threads
  /\ op \in [pc : Pcs, name : {"hook", "unhook"}, all : BOOLEAN, i : Nat,
             tids : SUBSET Threads, pid : BOOLEAN]
  /\ calls \in 0..MaxCalls
  /\ faults \subseteq Allowed

\* The thread is where the original function would be, or on the way there.
InStep(th) ==
  LET t == th.fn IN
  CASE th.at = "fn" -> \/ th.off = OrigOff(t, th.next)
                       \/ th.next = 1 /\ th.off = JumpOff(t)
    [] th.at = "page" -> /\ page[th.page] = t
                         /\ \/ th.off = TrampOff(t, th.next)
                            \/ th.next <= Last(t) /\ th.off = MidOff(t, th.next)
    [] th.at = "proxy" -> th.next = 1
    [] th.at = "lost" -> FALSE
    [] OTHER -> TRUE

\* Hooking and unhooking under running threads is transparent to them: as long as
\* every thread could be stopped, at a recorded instruction and not at the entry of
\* a hooked function, the boundary tables were right and the flush was for the
\* right function, each thread executes the instructions of the original function
\* in order, wherever they are, and never a byte that is being changed or a
\* trampoline that is gone (freeze, doProcessThreadPC, doInlineUnHook).
Transparent ==
  faults \subseteq {"heap"} => \A x \in Threads : InStep(thread[x])

\* A call made after the function was hooked reaches the replacement, unless the
\* function is unhooked before it does, or inlineHookAll is called again with a
\* hooked function in the table, whatever else goes wrong (processThreadPC).
HookedCallsReachProxy ==
  "rehook" \notin faults =>
    \A x \in Threads : thread[x].due => thread[x].at \in {"fn", "lost"}

\* The jump leads to a replacement that finds its trampoline: from the first
\* byte of the jump to the last, *proto_addr is the mapped page of the function,
\* also when nothing could be stopped (doInlineHook).
JumpHasTrampoline ==
  \A t \in Targets :
    code[t].mem = "hook" =>
      proto[t] # None /\ page[proto[t]] = t

\* Between two operations the table is the truth, whatever went wrong: each
\* target has one item and one page, and is changed exactly if its item says so;
\* no page is left behind.
TableTells ==
  op.pc = "idle" =>
    /\ \A i, j \in Items : item[i].target = item[j].target => i = j
    /\ \A t \in Targets :
         code[t].mem = IF \E i \in FindItem(t) : item[i].status = "HOOKED"
                         THEN "hook" ELSE "orig"
    /\ \A p \in Pages : page[p] # None <=> \E i \in Items : item[i].page = p
    /\ \A i \in Items : page[item[i].page] = item[i].target

\* An operation on the whole table leaves no item it was to change, although the
\* loop of inlineUnHookAll runs over a table that is being compacted.
AllMeansAll ==
  [][op.pc = "thaw" /\ op.all /\ op'.pc = "idle" => Concerned = {}]_vars

\* Every operation ends, unless a thread was stopped inside the allocator: then
\* free waits for it and unFreeze is never reached (doInlineUnHook).
OperationEnds == op.pc = "freeze" ~> (op.pc = "idle" \/ ~Alive \/ "heap" \in faults)
=============================================================================
