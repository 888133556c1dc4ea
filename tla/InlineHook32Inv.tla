-------------------------- MODULE InlineHook32Inv ---------------------------
(* The inductive invariant of the table of inline hooks: how the items, the  *)
(* pages, the code of the targets and *proto_addr agree at every control     *)
(* point of an operation.                                                    *)
EXTENDS InlineHook32

HookPcs   == {"proto", "patch", "patched", "mark"}
UnhookPcs == {"restore", "restored", "unmap", "delete"}

\* What is known of every place of the table, used or not.
ItemShape(r) ==
  /\ DOMAIN r = {"target", "status", "page", "count", "bounds"}
  /\ r.target \in Targets \cup {None}
  /\ r.status \in {"REGISTERED", "HOOKED"}
  /\ r.page \in Pages \cup {None}

TableTypes ==
  /\ DOMAIN item = 1..MaxItems /\ \A i \in 1..MaxItems : ItemShape(item[i])
  /\ size \in 0..MaxItems
  /\ code \in [Targets -> [mem : Versions, seen : SUBSET Versions]]
  /\ page \in [Pages -> Targets \cup {None}]
  /\ proto \in [Targets -> Pages \cup {None}]
  /\ op \in [pc : Pcs, name : {"hook", "unhook"}, all : BOOLEAN, i : Nat,
             tids : SUBSET Threads, pid : BOOLEAN]

\* The operation works on an item of the table that is in the state it changes.
OpInv ==
  /\ op.pc \in {"freeze", "attach", "loop"} /\ ~op.all => op.i \in Items
  /\ op.pc \in HookPcs   => op.i \in Items /\ item[op.i].status = "REGISTERED"
  /\ op.pc \in UnhookPcs => op.i \in Items /\ item[op.i].status = "HOOKED"
  /\ op.pc \in HookPcs   => op.name = "hook"
  /\ op.pc \in UnhookPcs => op.name = "unhook"

\* One item for each target, one page for each item, and no other page.
PagesInv ==
  /\ \A i \in Items : item[i].target \in Targets /\ item[i].page \in Pages
  /\ \A i, j \in Items : i # j => item[i].target # item[j].target
                                    /\ item[i].page # item[j].page
  /\ \A i \in Items :
       page[item[i].page] =
         IF op.pc = "delete" /\ i = op.i THEN None ELSE item[i].target
  /\ \A p \in Pages : page[p] # None => \E i \in Items : item[i].page = p

\* An item that is hooked, up to the first write of the old instructions.
Live(i) ==
  /\ item[i].status = "HOOKED"
  /\ ~(op.pc \in {"restored", "unmap", "delete"} /\ i = op.i)

\* The bytes of a target follow its item.
CodeInv ==
  \A t \in Targets :
    /\ code[t].mem = "torn" <=> op.pc \in {"patched", "restored"} /\ t = Target
    /\ code[t].mem = "hook" <=> \/ \E i \in Items : item[i].target = t /\ Live(i)
                                \/ op.pc = "mark" /\ t = Target

ProtoInv ==
  /\ \A i \in Items : item[i].status = "HOOKED" => proto[item[i].target] = item[i].page
  /\ op.pc \in {"patch", "patched", "mark"} => proto[Target] = item[op.i].page

TableInv == TableTypes /\ OpInv /\ PagesInv /\ CodeInv /\ ProtoInv

-----------------------------------------------------------------------------
(* An operation on the whole table *)

\* In a loop over the table the items in front of the current one are done.
LoopInv ==
  op.pc # "idle" /\ op.all =>
    \A i \in Items : i < op.i =>
      item[i].status = (IF op.name = "hook" THEN "HOOKED" ELSE "REGISTERED")

\* Behind the loop nothing is left to do.
DoneInv == LoopInv /\ (op.pc = "thaw" /\ op.all => Concerned = {})

-----------------------------------------------------------------------------
(* A call that owes a visit *)

\* What is known of every thread.
ThreadShape(th) ==
  DOMAIN th = {"at", "fn", "page", "off", "next", "due"} /\ th.due \in BOOLEAN

ThreadShapes == DOMAIN thread = Threads /\ \A x \in Threads : ThreadShape(thread[x])

\* What is in memory may be fetched.
SeenInv == \A t \in Targets : code[t].mem \in code[t].seen

\* In the jump of a function that is hooked and stays so.
AtEntry(th) ==
  /\ th.at = "fn" /\ th.fn \in Targets /\ th.off \in {0, JumpOff(th.fn)}
  /\ code[th.fn].seen = {"hook"} /\ ~Leaving(th.fn)

DueInv ==
  "rehook" \notin faults =>
    \A x \in Threads : thread[x].due => thread[x].at = "lost" \/ AtEntry(thread[x])

CallInv == ThreadShapes /\ SeenInv /\ DueInv

-----------------------------------------------------------------------------
(* The other threads, when all of them could be stopped *)

Stoppable == faults \subseteq {"heap"}

\* Control points at which all threads stand still.
StillPcs == {"loop"} \cup HookPcs \cup UnhookPcs

\* The child is attached to the threads it has come by, and to none between operations.
FrozenInv ==
  /\ frozen \subseteq Threads /\ op.tids \subseteq Threads
  /\ op.pc \in {"idle", "freeze"} => frozen = {}
  /\ op.pc = "attach" => frozen = Threads \ op.tids
  /\ op.pc \in StillPcs => frozen = Threads
  /\ op.pc \notin {"idle", "freeze"} => op.pid

\* The boundaries of an item are those of its target, and fit.
BoundsInv ==
  /\ \A i \in 1..MaxItems : DOMAIN item[i].bounds = 0..OrigRoom + TrampRoom - 1
  /\ \A i \in Items :
       LET t == item[i].target IN
       /\ item[i].count = Count(t) /\ Count(t) <= OrigRoom
       /\ \A k \in 0..Count(t) - 1 : /\ item[i].bounds[k] = OrigOff(t, k + 1)
                                     /\ item[i].bounds[OrigRoom + k] = TrampBoundary(t, k + 1)

\* Only what is in memory is fetched, except while it is being changed.
FlushInv ==
  \A t \in Targets :
    \/ code[t].seen = {code[t].mem}
    \/ op.pc \in {"patched", "mark", "restored", "unmap", "delete"} /\ t = Target

\* A thread is in the function or its trampoline at the next instruction, or in front of
\* it in the jump or in the relocated sequence; one that is called returns to the next
\* instruction, and the replacement is entered in front of the first.
InFn(th) ==
  /\ th.page = None /\ th.next \in 1..Last(th.fn) + 1
  /\ th.off = OrigOff(th.fn, th.next) \/ (th.next = 1 /\ th.off = JumpOff(th.fn))
InTrampoline(th) ==
  /\ th.page \in Pages /\ th.next \in 1..Last(th.fn) + 1
  /\ \/ th.off = TrampOff(th.fn, th.next)
     \/ th.next <= Last(th.fn) /\ th.off = MidOff(th.fn, th.next) /\ th.off # 0
InCallee(th) ==
  /\ th.page \in Pages \cup {None} /\ th.next \in 2..Last(th.fn) + 1
  /\ th.off = IF th.page = None THEN OrigOff(th.fn, th.next) ELSE TrampOff(th.fn, th.next)
InProxy(th) == th.page = None /\ th.next = 1 /\ th.off = 0

PlaceInv(th) ==
  /\ th.at \in Places \ {"lost"}
  /\ th.at \notin {"out", "heap"} => th.fn \in Targets
  /\ th.at = "fn" => InFn(th)
  /\ th.at = "page" => InTrampoline(th)
  /\ th.at = "callee" => InCallee(th)
  /\ th.at = "proxy" => InProxy(th)

\* In the bytes the jump is written over, or about to return there, but not in front of
\* them.
Deep(th) ==
  /\ th.at = "fn" \/ (th.at = "callee" /\ th.page = None)
  /\ Patched(th.fn, th.off)
  /\ ~(th.at = "fn" /\ th.next = 1)

\* In the jump, behind the instruction that pads it.
InJump(th) == th.at = "fn" /\ th.next = 1 /\ th.off # 0

\* In the trampoline, or about to return there.
InPage(th) == th.at = "page" \/ (th.at = "callee" /\ th.page # None)

Stopped(x) == x \in frozen /\ op.pc \notin {"idle", "freeze", "thaw"}

\* Where a thread is depends on what is written there: a thread deep in the function
\* finds the function, or is stopped until the function is back; one in the jump finds
\* the jump; one in a trampoline or on the way to it finds the trampoline.
FindsCode(x, th) ==
  /\ Deep(th)   => code[th.fn].seen = {"orig"} \/ (Stopped(x) /\ Leaving(th.fn))
  /\ InJump(th) => code[th.fn].seen = {"hook"} /\ ~(Stopped(x) /\ Leaving(th.fn))
FindsPage(th) ==
  /\ InPage(th) => page[th.page] = th.fn
  /\ th.at = "proxy" => proto[th.fn] \in Pages /\ page[proto[th.fn]] = th.fn

\* A stopped thread is in none of the bytes and pages the operation is going to change.
OutOfTheWay(th) ==
  \A i \in Concerned :
    IF op.name = "hook" THEN th.fn = item[i].target => ~Deep(th)
    ELSE /\ th.at = "proxy" => th.fn # item[i].target
         /\ InPage(th) => th.page # item[i].page

WhereInv(x) ==
  LET th == thread[x] IN
  /\ PlaceInv(th) /\ FindsCode(x, th) /\ FindsPage(th)
  /\ Stopped(x) => OutOfTheWay(th)

Following == FrozenInv /\ BoundsInv /\ FlushInv /\ \A x \in Threads : WhereInv(x)
FollowInv == Stoppable => Following
=============================================================================
