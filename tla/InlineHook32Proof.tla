------------------------- MODULE InlineHook32Proof --------------------------
(* The table of inline hooks tells the truth between operations, and a       *)
(* written jump always has its trampoline, for any number of targets,        *)
(* threads, pages and calls, and whatever faults happen.                     *)
EXTENDS InlineHook32Inv, TLAPS, NaturalsInduction, WellFoundedInduction, FiniteSetTheorems

\* A set of places of the table that is not empty has a smallest element.
LEMMA SmallestIn ==
  ASSUME NEW S \in SUBSET Nat, S # {}
  PROVE  Smallest(S) \in S /\ \A i \in S : Smallest(S) <= i
<1> DEFINE R == {ss \in Nat \X Nat : ss[1] < ss[2]}
<1>1. IsWellFoundedOn(R, Nat)
  BY NatLessThanWellFounded DEF OpToRel
<1>2. \E i \in S : \A j \in S : <<j, i>> \notin R
  <2> HIDE DEF R
  <2> QED BY <1>1, WFMin
<1>3. PICK i \in S : \A j \in S : <<j, i>> \notin R
  BY <1>2
<1>4. \A j \in S : i <= j
  <2> TAKE j \in S
  <2>1. ~(j < i)
    BY <1>3
  <2> QED BY <2>1
<1> QED BY <1>4 DEF Smallest

-----------------------------------------------------------------------------
(* The initial state, and the steps that leave the table alone.             *)

\* The empty table satisfies the invariant.
LEMMA InitTable == Init => TableInv
<1> SUFFICES ASSUME Init PROVE TableInv
  OBVIOUS
<1> USE BoundsAssumption, NamesAssumption
<1>1. TableTypes
  BY DEF Init, TableTypes, Unused, ItemShape, Idle, Versions, Pcs
<1>2. Items = {}
  BY DEF Init, Items
<1>3. OpInv /\ PagesInv /\ CodeInv /\ ProtoInv
  BY <1>2 DEF Init, OpInv, PagesInv, CodeInv, ProtoInv, Idle, HookPcs, UnhookPcs
<1> QED BY <1>1, <1>3 DEF TableInv

\* A step that touches nothing of the table keeps it.
LEMMA SameTable ==
  TableInv /\ UNCHANGED <<item, size, code, page, proto, op>> => TableInv'
BY DEF TableInv, TableTypes, OpInv, PagesInv, CodeInv, ProtoInv, Items, Live, Target

\* The other threads touch nothing of the table.
LEMMA RunKeeps ==
  ASSUME NEW x, Run(x)
  PROVE  UNCHANGED <<item, size, code, page, proto, op>>
BY DEF Run, Enter, FetchOrig, FetchHook, FetchTorn, FetchPage, Proxy,
       ReturnFromCallee, TakeHeap, DropHeap, Execute, Crash, Goes, tableVars

\* Control points at which no item is being changed.
Quiet == {"idle", "freeze", "attach", "loop", "thaw"}

\* From one of them to another, only the control point moves.
LEMMA QuietMove ==
  ASSUME TableInv, UNCHANGED <<item, size, code, page, proto>>,
         op.pc \in Quiet, op'.pc \in Quiet,
         op' \in [pc : Pcs, name : {"hook", "unhook"}, all : BOOLEAN, i : Nat,
                  tids : SUBSET Threads, pid : BOOLEAN],
         op'.pc \in {"freeze", "attach", "loop"} /\ ~op'.all => op'.i \in Items
  PROVE  TableInv'
<1>1. TableTypes'
  BY DEF TableInv, TableTypes, ItemShape
<1>2. OpInv'
  BY DEF OpInv, Quiet, HookPcs, UnhookPcs, Items
<1>3. PagesInv'
  BY DEF TableInv, PagesInv, Quiet, Items
<1>4. CodeInv'
  BY DEF TableInv, CodeInv, Quiet, Items, Live
<1>5. ProtoInv'
  BY DEF TableInv, ProtoInv, Quiet, Items
<1> QED BY <1>1, <1>2, <1>3, <1>4, <1>5 DEF TableInv

-----------------------------------------------------------------------------
(* Calls of the library.                                                    *)

\* An operation starts on one item of the table, or on all.
LEMMA BeginKeeps ==
  ASSUME TableInv, NEW name \in {"hook", "unhook"}, NEW all \in BOOLEAN, NEW i \in Nat,
         Begin(name, all, i), ~all => i \in Items
  PROVE  TableInv'
<1>1. op.pc = "idle" /\ op' = [Idle EXCEPT !.pc = "freeze", !.name = name, !.all = all, !.i = i]
  BY DEF Begin, Idling
<1>2. op' \in [pc : Pcs, name : {"hook", "unhook"}, all : BOOLEAN, i : Nat,
               tids : SUBSET Threads, pid : BOOLEAN]
  BY <1>1 DEF Idle, Pcs
<1>3. op'.pc = "freeze" /\ op'.all = all /\ op'.i = i
  BY <1>1 DEF Idle
<1> QED BY <1>1, <1>2, <1>3, QuietMove DEF Begin, tableVars, Quiet

\* inlineHookAll and inlineUnHookAll start an operation on all items.
LEMMA CallsOnAllKeep ==
  ASSUME TableInv, InlineHookAll \/ InlineUnHookAll
  PROVE  TableInv'
BY BeginKeeps DEF InlineHookAll, InlineUnHookAll

\* inlineHook and inlineUnHook find an item of the table before they start.
LEMMA CallsKeep ==
  ASSUME TableInv, NEW t \in Targets, InlineHook(t) \/ InlineUnHook(t)
  PROVE  TableInv'
<1>0. Items \in SUBSET Nat
  BY DEF Items, TableInv, TableTypes
<1>1. CASE InlineHook(t)
  <2>1. Smallest(FindItem(t)) \in FindItem(t)
    BY <1>0, <1>1, SmallestIn DEF InlineHook, FindItem
  <2>2. Smallest(FindItem(t)) \in Items
    BY <2>1 DEF FindItem
  <2> QED BY <1>0, <1>1, <2>2, BeginKeeps DEF InlineHook
<1>2. CASE InlineUnHook(t)
  <2> DEFINE hooked == {i \in FindItem(t) : item[i].status = "HOOKED"}
  <2>1. hooked # {} /\ Begin("unhook", FALSE, Smallest(hooked))
    BY <1>2 DEF InlineUnHook
  <2>2. hooked \in SUBSET Items
    BY DEF FindItem
  <2>3. Smallest(hooked) \in Items
    <3> HIDE DEF hooked
    <3> QED BY <1>0, <2>1, <2>2, SmallestIn
  <2> QED BY <1>0, <2>1, <2>3, BeginKeeps
<1> QED BY <1>1, <1>2

\* registerInlineHook adds an item for a new target with a new page.
LEMMA RegisterKeeps ==
  ASSUME TableInv, NEW t \in Targets, Register(t)
  PROVE  TableInv'
<1> USE NamesAssumption, BoundsAssumption
<1>1. op.pc = "idle" /\ FindItem(t) = {} /\ size < MaxItems /\ size' = size + 1
      /\ UNCHANGED <<code, proto, op>>
  BY DEF Register, Idling
<1>2. PICK p \in Pages :
        /\ page[p] = None
        /\ page' = [page EXCEPT ![p] = t]
        /\ item' = [item EXCEPT ![size + 1] =
                      [target |-> t, status |-> "REGISTERED", page |-> p,
                       count |-> @.count + Count(t),
                       bounds |-> Record(@.bounds, @.count, t)]]
  BY DEF Register
<1>3. size \in Nat /\ size + 1 \in 1..MaxItems /\ Items = 1..size
  BY <1>1 DEF TableInv, TableTypes, Items
<1>4. Items' = Items \cup {size + 1} /\ size + 1 \notin Items
  BY <1>1, <1>3 DEF Items
<1>5. /\ item'[size + 1].target = t /\ item'[size + 1].status = "REGISTERED"
      /\ item'[size + 1].page = p /\ ItemShape(item'[size + 1])
      /\ DOMAIN item' = 1..MaxItems
      /\ \A i \in 1..MaxItems : i # size + 1 => item'[i] = item[i]
  BY <1>2, <1>3 DEF TableInv, TableTypes, ItemShape
<1>6. \A i \in Items : item[i].target # t /\ item[i].page # p
  BY <1>1, <1>2 DEF FindItem, TableInv, PagesInv
<1>7. \A i \in Items : i \in 1..MaxItems /\ item'[i] = item[i]
  BY <1>1, <1>3, <1>4, <1>5
<1>8. page' \in [Pages -> Targets \cup {None}] /\ page'[p] = t
      /\ \A q \in Pages : q # p => page'[q] = page[q]
  BY <1>2 DEF TableInv, TableTypes
<1>9. TableTypes'
  BY <1>1, <1>3, <1>5, <1>8 DEF TableInv, TableTypes, ItemShape
<1>10. OpInv'
  BY <1>1 DEF OpInv, HookPcs, UnhookPcs
<1>11. PagesInv'
  BY <1>1, <1>4, <1>5, <1>6, <1>7, <1>8 DEF TableInv, PagesInv
<1>12. CodeInv'
  BY <1>1, <1>4, <1>5, <1>7 DEF TableInv, CodeInv, Live
<1>13. ProtoInv'
  BY <1>1, <1>4, <1>5, <1>7 DEF TableInv, ProtoInv
<1> QED BY <1>9, <1>10, <1>11, <1>12, <1>13 DEF TableInv

-----------------------------------------------------------------------------
(* Freezing, thawing and the loop.                                          *)

\* freeze and unFreeze change no item.
LEMMA FreezeKeeps ==
  ASSUME TableInv, NEW x,
         Fork \/ ForkFails \/ Frozen \/ Return \/ Attach(x) \/ AttachFails(x) \/ Detach(x)
  PROVE  TableInv'
<1>1. CASE Detach(x)
  BY <1>1, SameTable DEF Detach, tableVars
<1>2. ASSUME Fork \/ ForkFails \/ Frozen \/ Return \/ Attach(x) \/ AttachFails(x)
      PROVE  TableInv'
  <2>0. op \in [pc : Pcs, name : {"hook", "unhook"}, all : BOOLEAN, i : Nat,
                tids : SUBSET Threads, pid : BOOLEAN]
    BY DEF TableInv, TableTypes
  <2>1. UNCHANGED <<item, size, code, page, proto>>
    BY <1>2 DEF Fork, ForkFails, Frozen, Return, Attach, AttachFails, tableVars
  <2>2. /\ op.pc \in {"freeze", "attach", "thaw"}
        /\ \/ op' = [op EXCEPT !.pc = "attach", !.tids = Threads, !.pid = TRUE]
              /\ op.pc = "freeze"
           \/ op' = [op EXCEPT !.pc = "loop"] /\ op.pc \in {"freeze", "attach"}
           \/ op' = [op EXCEPT !.tids = @ \ {x}] /\ op.pc = "attach"
           \/ op' = Idle
    BY <1>2 DEF Fork, ForkFails, Frozen, Return, Attach, AttachFails
  <2>3. /\ op' \in [pc : Pcs, name : {"hook", "unhook"}, all : BOOLEAN, i : Nat,
                    tids : SUBSET Threads, pid : BOOLEAN]
        /\ op'.pc \in {"attach", "loop", "idle"}
        /\ op'.pc # "idle" =>
             op'.all = op.all /\ op'.i = op.i /\ op.pc \in {"freeze", "attach"}
    <3>1. CASE /\ op' = [op EXCEPT !.pc = "attach", !.tids = Threads, !.pid = TRUE]
               /\ op.pc = "freeze"
      BY <2>0, <3>1 DEF Pcs
    <3>2. CASE op' = [op EXCEPT !.pc = "loop"] /\ op.pc \in {"freeze", "attach"}
      BY <2>0, <3>2 DEF Pcs
    <3>3. CASE op' = [op EXCEPT !.tids = @ \ {x}] /\ op.pc = "attach"
      BY <2>0, <3>3 DEF Pcs
    <3>4. CASE op' = Idle
      BY <3>4 DEF Idle, Pcs
    <3> QED BY <2>2, <3>1, <3>2, <3>3, <3>4
  <2>4. op'.pc \in {"freeze", "attach", "loop"} /\ ~op'.all => op'.i \in Items
    BY <2>3 DEF TableInv, OpInv
  <2> QED BY <2>1, <2>2, <2>3, <2>4, QuietMove DEF Quiet
<1> QED BY <1>1, <1>2

\* What an operation is to change are items of the table.
LEMMA ConcernedItems ==
  ASSUME TableInv, op.pc = "loop"
  PROVE  Concerned \in SUBSET Items /\ Items \in SUBSET Nat
BY DEF Concerned, Items, TableInv, TableTypes, OpInv

\* The loop goes on with an item that is in the state it changes, or ends.
LEMMA LoopKeeps ==
  ASSUME TableInv, Loop
  PROVE  TableInv'
<1>1. op.pc = "loop" /\ UNCHANGED <<item, size, code, page, proto>>
  BY DEF Loop, tableVars
<1>2. CASE Ahead = {}
  <2>1. op' = [op EXCEPT !.pc = "thaw"]
    BY <1>2 DEF Loop
  <2>2. op' \in [pc : Pcs, name : {"hook", "unhook"}, all : BOOLEAN, i : Nat,
                 tids : SUBSET Threads, pid : BOOLEAN] /\ op'.pc = "thaw"
    BY <2>1 DEF TableInv, TableTypes, Pcs
  <2> QED BY <1>1, <2>2, QuietMove DEF Quiet
<1>3. CASE Ahead # {}
  <2>1. Ahead \in SUBSET Concerned /\ Ahead \in SUBSET Nat
    BY <1>1, ConcernedItems DEF Ahead
  <2>2. Smallest(Ahead) \in Ahead
    BY <1>3, <2>1, SmallestIn
  <2> DEFINE n == Smallest(Ahead)
  <2>3. n \in Items /\ n \in Nat
        /\ item[n].status = (IF op.name = "hook" THEN "REGISTERED" ELSE "HOOKED")
    BY <1>1, <2>1, <2>2, ConcernedItems DEF Concerned
  <2>4. op' = [op EXCEPT !.pc = IF op.name = "hook" THEN "proto" ELSE "restore", !.i = n]
    BY <1>3 DEF Loop
  <2> HIDE DEF n
  <2>5. /\ op' \in [pc : Pcs, name : {"hook", "unhook"}, all : BOOLEAN, i : Nat,
                    tids : SUBSET Threads, pid : BOOLEAN]
        /\ op'.i = n /\ op'.name = op.name
        /\ op'.pc = IF op.name = "hook" THEN "proto" ELSE "restore"
    BY <2>3, <2>4 DEF TableInv, TableTypes, Pcs
  <2>6. TableTypes'
    BY <1>1, <2>5 DEF TableInv, TableTypes, ItemShape
  <2>7. OpInv'
    BY <1>1, <2>3, <2>5 DEF TableInv, TableTypes, OpInv, HookPcs, UnhookPcs, Items
  <2>8. PagesInv' /\ ProtoInv'
    BY <1>1, <2>5 DEF TableInv, PagesInv, ProtoInv, Items
  <2>9. CodeInv'
    BY <1>1, <2>5 DEF TableInv, CodeInv, Live, Items
  <2> QED BY <2>6, <2>7, <2>8, <2>9 DEF TableInv
<1> QED BY <1>2, <1>3

-----------------------------------------------------------------------------
(* The steps on one item.                                                   *)

OpType == [pc : Pcs, name : {"hook", "unhook"}, all : BOOLEAN, i : Nat,
           tids : SUBSET Threads, pid : BOOLEAN]

\* Where the operation is: on an item of the table, about to go on.
LEMMA AtItem ==
  ASSUME TableInv, op.pc \in HookPcs \cup UnhookPcs
  PROVE  /\ op \in OpType
         /\ op.i \in Items /\ op.i \in 1..MaxItems /\ Items = 1..size
         /\ size \in Nat /\ Items \in SUBSET (1..MaxItems)
         /\ Target \in Targets /\ item[op.i].page \in Pages
         /\ \A i \in Items : item[i].target = Target => i = op.i
         /\ \A i \in Items : item[i].page = item[op.i].page => i = op.i
BY BoundsAssumption
   DEF TableInv, TableTypes, OpInv, PagesInv, Items, Target, OpType, HookPcs, UnhookPcs

\* Going on with the same item moves the control point only.
LEMMA GotoOp ==
  ASSUME op \in OpType, NEW from \in Pcs, NEW to \in Pcs, Goto(from, to)
  PROVE  /\ op' \in OpType /\ op.pc = from /\ op'.pc = to
         /\ op'.i = op.i /\ op'.name = op.name /\ op'.all = op.all
BY DEF OpType, Goto

\* Being done with an item leads back to the loop or out of it.
LEMMA DoneOp ==
  ASSUME op \in OpType, NEW i \in Nat, op' = Done(i)
  PROVE  /\ op' \in OpType /\ op'.pc \in {"loop", "thaw"}
         /\ op'.i = i /\ op'.name = op.name
         /\ op'.pc = "loop" => op'.all
BY DEF OpType, Done, Pcs

\* A write to one target leaves the others alone.
LEMMA WriteCode ==
  ASSUME TableTypes, NEW t \in Targets, NEW v \in Versions, Write(t, v)
  PROVE  /\ code' \in [Targets -> [mem : Versions, seen : SUBSET Versions]]
         /\ code'[t].mem = v
         /\ \A u \in Targets : u # t => code'[u] = code[u]
BY DEF Write, TableTypes

\* A flush changes what may be fetched, never what is in memory.
LEMMA FlushCode ==
  ASSUME TableTypes, NEW t \in Targets, code' = Flush(code, t)
  PROVE  /\ code' \in [Targets -> [mem : Versions, seen : SUBSET Versions]]
         /\ \A u \in Targets : code'[u].mem = code[u].mem
BY DEF Flush, TableTypes

\* *proto_addr is the item's own page before the first byte of its jump.
LEMMA StoreProtoKeeps == TableInv /\ StoreProto => TableInv'
<1> SUFFICES ASSUME TableInv, StoreProto PROVE TableInv'
  OBVIOUS
<1>1. op.pc = "proto" /\ UNCHANGED <<item, size, code, page>>
      /\ proto' = [proto EXCEPT ![Target] = item[op.i].page]
  BY DEF StoreProto, Goto, tableVars
<1>2. /\ op \in OpType /\ op.i \in Items
      /\ Target \in Targets /\ item[op.i].page \in Pages
      /\ \A i \in Items : item[i].target = Target => i = op.i
  BY <1>1, AtItem DEF HookPcs
<1>3. op' \in OpType /\ op'.pc = "patch" /\ op'.i = op.i /\ op'.name = op.name
  BY <1>2, GotoOp DEF StoreProto, Pcs
<1>4. proto' \in [Targets -> Pages \cup {None}] /\ proto'[Target] = item[op.i].page
      /\ \A t \in Targets : t # Target => proto'[t] = proto[t]
  BY <1>1, <1>2 DEF TableInv, TableTypes
<1>5. TableTypes'
  BY <1>1, <1>3, <1>4 DEF TableInv, TableTypes, ItemShape, OpType
<1>6. OpInv' /\ PagesInv'
  BY <1>1, <1>3 DEF TableInv, OpInv, PagesInv, HookPcs, UnhookPcs, Items
<1>7. CodeInv'
  BY <1>1, <1>3 DEF TableInv, CodeInv, Live, Items
<1>8. ProtoInv'
  BY <1>1, <1>2, <1>3, <1>4 DEF TableInv, ProtoInv, PagesInv, Target, Items
<1> QED BY <1>5, <1>6, <1>7, <1>8 DEF TableInv

\* The first and the last write of a jump.
LEMMA PatchKeeps ==
  ASSUME TableInv, PatchFirst \/ PatchRest
  PROVE  TableInv'
<1> DEFINE v == IF op.pc = "patch" THEN "torn" ELSE "hook"
           to == IF op.pc = "patch" THEN "patched" ELSE "mark"
<1>1. op.pc \in {"patch", "patched"} /\ UNCHANGED <<item, size, page, proto>>
  BY DEF PatchFirst, PatchRest, Goto, tableVars
<1>2. /\ op \in OpType /\ op.i \in Items
      /\ Target \in Targets /\ item[op.i].page \in Pages
      /\ \A i \in Items : item[i].target = Target => i = op.i
  BY <1>1, AtItem DEF HookPcs
<1>3. op' \in OpType /\ op'.pc = to /\ op'.i = op.i /\ op'.name = op.name
  BY <1>2, GotoOp DEF PatchFirst, PatchRest, Pcs, Goto
<1>4. Write(Target, v) /\ v \in Versions
  BY DEF PatchFirst, PatchRest, Goto, Versions
<1>5. /\ code' \in [Targets -> [mem : Versions, seen : SUBSET Versions]]
      /\ code'[Target].mem = v /\ \A t \in Targets : t # Target => code'[t] = code[t]
  BY <1>2, <1>4, WriteCode DEF TableInv
<1>6. TableTypes'
  BY <1>1, <1>3, <1>5 DEF TableInv, TableTypes, ItemShape, OpType
<1>7. OpInv'
  BY <1>1, <1>3 DEF TableInv, OpInv, HookPcs, UnhookPcs, Items
<1>8. PagesInv'
  BY <1>1, <1>3 DEF TableInv, PagesInv, Items
<1>9. CodeInv'
  BY <1>1, <1>2, <1>3, <1>5 DEF TableInv, OpInv, CodeInv, Live, Items, Target, HookPcs
<1>10. ProtoInv'
  BY <1>1, <1>3 DEF TableInv, ProtoInv, Target, Items
<1> QED BY <1>6, <1>7, <1>8, <1>9, <1>10 DEF TableInv

\* An item is HOOKED once its jump is written.
LEMMA MarkHookedKeeps == TableInv /\ MarkHooked => TableInv'
<1> SUFFICES ASSUME TableInv, MarkHooked PROVE TableInv'
  OBVIOUS
<1>1. op.pc = "mark" /\ op' = Done(op.i + 1) /\ UNCHANGED <<size, page, proto>>
      /\ item' = [item EXCEPT ![op.i].status = "HOOKED"] /\ code' = Flush(code, Target)
  BY DEF MarkHooked
<1>2. /\ op \in OpType /\ op.i \in Items /\ op.i \in 1..MaxItems /\ op.i \in Nat
      /\ Items \in SUBSET (1..MaxItems)
      /\ Target \in Targets /\ item[op.i].page \in Pages
      /\ \A i \in Items : item[i].target = Target => i = op.i
  BY <1>1, AtItem DEF HookPcs, OpType
<1>3. op' \in OpType /\ op'.pc \in {"loop", "thaw"} /\ (op'.pc = "loop" => op'.all)
  BY <1>1, <1>2, DoneOp
<1>4. /\ code' \in [Targets -> [mem : Versions, seen : SUBSET Versions]]
      /\ \A t \in Targets : code'[t].mem = code[t].mem
  BY <1>1, <1>2, FlushCode DEF TableInv
<1>5. /\ DOMAIN item' = 1..MaxItems
      /\ \A i \in 1..MaxItems :
           /\ ItemShape(item'[i])
           /\ item'[i].target = item[i].target /\ item'[i].page = item[i].page
           /\ i # op.i => item'[i].status = item[i].status
      /\ item'[op.i].status = "HOOKED"
  BY <1>1, <1>2 DEF TableInv, TableTypes, ItemShape
<1>6. Items' = Items
  BY <1>1 DEF Items
<1>7. TableTypes'
  BY <1>1, <1>3, <1>4, <1>5 DEF TableInv, TableTypes, OpType
<1>8. OpInv'
  BY <1>3 DEF OpInv, HookPcs, UnhookPcs
<1>9. PagesInv'
  BY <1>1, <1>2, <1>3, <1>5, <1>6 DEF TableInv, PagesInv
<1>10. CodeInv'
  BY <1>1, <1>2, <1>3, <1>4, <1>5, <1>6 DEF TableInv, CodeInv, Live, Target
<1>11. ProtoInv'
  BY <1>1, <1>2, <1>3, <1>5, <1>6 DEF TableInv, ProtoInv, Target
<1> QED BY <1>7, <1>8, <1>9, <1>10, <1>11 DEF TableInv

\* The first and the last write of the old instructions.
LEMMA RestoreKeeps ==
  ASSUME TableInv, RestoreFirst \/ RestoreRest
  PROVE  TableInv'
<1> DEFINE v == IF op.pc = "restore" THEN "torn" ELSE "orig"
           to == IF op.pc = "restore" THEN "restored" ELSE "unmap"
<1>1. op.pc \in {"restore", "restored"} /\ UNCHANGED <<item, size, page, proto>>
  BY DEF RestoreFirst, RestoreRest, Goto, tableVars
<1>2. /\ op \in OpType /\ op.i \in Items
      /\ Target \in Targets /\ item[op.i].page \in Pages
      /\ \A i \in Items : item[i].target = Target => i = op.i
  BY <1>1, AtItem DEF UnhookPcs
<1>3. op' \in OpType /\ op'.pc = to /\ op'.i = op.i /\ op'.name = op.name
  BY <1>2, GotoOp DEF RestoreFirst, RestoreRest, Pcs, Goto
<1>4. Write(Target, v) /\ v \in Versions
  BY DEF RestoreFirst, RestoreRest, Goto, Versions
<1>5. /\ code' \in [Targets -> [mem : Versions, seen : SUBSET Versions]]
      /\ code'[Target].mem = v /\ \A t \in Targets : t # Target => code'[t] = code[t]
  BY <1>2, <1>4, WriteCode DEF TableInv
<1>6. TableTypes'
  BY <1>1, <1>3, <1>5 DEF TableInv, TableTypes, ItemShape, OpType
<1>7. OpInv'
  BY <1>1, <1>3 DEF TableInv, OpInv, HookPcs, UnhookPcs, Items
<1>8. PagesInv'
  BY <1>1, <1>3 DEF TableInv, PagesInv, Items
<1>9. CodeInv'
  BY <1>1, <1>2, <1>3, <1>5 DEF TableInv, OpInv, CodeInv, Live, Items, Target, UnhookPcs
<1>10. ProtoInv'
  BY <1>1, <1>3 DEF TableInv, ProtoInv, Target, Items
<1> QED BY <1>6, <1>7, <1>8, <1>9, <1>10 DEF TableInv

\* The page of an item goes after its jump is gone.
LEMMA UnmapKeeps == TableInv /\ Unmap => TableInv'
<1> SUFFICES ASSUME TableInv, Unmap PROVE TableInv'
  OBVIOUS
<1>1. op.pc = "unmap" /\ UNCHANGED <<item, size, code, proto>>
      /\ page' = [page EXCEPT ![item[op.i].page] = None]
  BY DEF Unmap, Goto, tableVars
<1>2. /\ op \in OpType /\ op.i \in Items /\ item[op.i].page \in Pages
      /\ \A i \in Items : item[i].page = item[op.i].page => i = op.i
  BY <1>1, AtItem DEF UnhookPcs
<1>3. op' \in OpType /\ op'.pc = "delete" /\ op'.i = op.i /\ op'.name = op.name
  BY <1>2, GotoOp DEF Unmap, Pcs
<1>4. /\ page' \in [Pages -> Targets \cup {None}] /\ page'[item[op.i].page] = None
      /\ \A p \in Pages : p # item[op.i].page => page'[p] = page[p]
  BY <1>1, <1>2 DEF TableInv, TableTypes
<1>5. TableTypes'
  BY <1>1, <1>3, <1>4 DEF TableInv, TableTypes, ItemShape, OpType
<1>6. OpInv'
  BY <1>1, <1>3 DEF TableInv, OpInv, HookPcs, UnhookPcs, Items
<1>7. PagesInv'
  BY <1>1, <1>2, <1>3, <1>4 DEF TableInv, PagesInv, Items
<1>8. CodeInv' /\ ProtoInv'
  BY <1>1, <1>3 DEF TableInv, CodeInv, ProtoInv, Live, Items, Target
<1> QED BY <1>5, <1>6, <1>7, <1>8 DEF TableInv

\* The last item moves to the place of the one that is deleted.
LEMMA DeleteKeeps == TableInv /\ Delete => TableInv'
<1> SUFFICES ASSUME TableInv, Delete PROVE TableInv'
  OBVIOUS
<1> DEFINE d == op.i
<1>1. op.pc = "delete" /\ op' = Done(d) /\ size' = size - 1 /\ UNCHANGED <<page, proto>>
      /\ item' = [item EXCEPT ![d] = item[size]] /\ code' = Flush(code, item[size].target)
  BY DEF Delete
<1>2. /\ op \in OpType /\ d \in Items /\ d \in 1..MaxItems /\ d \in Nat
      /\ Items = 1..size /\ size \in Nat /\ Items \in SUBSET (1..MaxItems)
      /\ item[d].status = "HOOKED"
  BY <1>1, AtItem DEF UnhookPcs, OpType, TableInv, OpInv
<1>3. op' \in OpType /\ op'.pc \in {"loop", "thaw"} /\ (op'.pc = "loop" => op'.all)
  BY <1>1, <1>2, DoneOp
<1>4. size \in Items /\ size' \in 0..MaxItems /\ Items' = 1..(size - 1)
      /\ Items' = Items \ {size}
  <2>1. size \in 1..MaxItems
    BY <1>2 DEF TableInv, TableTypes
  <2>2. Items' = 1..(size - 1)
    BY <1>1 DEF Items
  <2>3. 1..(size - 1) = (1..size) \ {size}
    BY <2>1
  <2> QED BY <1>1, <1>2, <2>1, <2>2, <2>3, BoundsAssumption
<1>5. item[size].target \in Targets
  BY <1>4 DEF TableInv, PagesInv
<1>6. /\ code' \in [Targets -> [mem : Versions, seen : SUBSET Versions]]
      /\ \A t \in Targets : code'[t].mem = code[t].mem
  BY <1>1, <1>5, FlushCode DEF TableInv
<1>7. /\ DOMAIN item' = 1..MaxItems
      /\ \A i \in 1..MaxItems : item'[i] = IF i = d THEN item[size] ELSE item[i]
  BY <1>1 DEF TableInv, TableTypes
\* Where the item of a place came from; nothing but the deleted item is lost.
<1> DEFINE From(i) == IF i = d THEN size ELSE i
<1>8. \A i \in Items' : From(i) \in Items /\ From(i) # d /\ item'[i] = item[From(i)]
  BY <1>2, <1>4, <1>7
<1>9. \A i, j \in Items' : i # j => From(i) # From(j)
  BY <1>4
<1>10. \A k \in Items : k # d => \E i \in Items' : From(i) = k
  <2> SUFFICES ASSUME NEW k \in Items, k # d PROVE \E i \in Items' : From(i) = k
    OBVIOUS
  <2>1. CASE k = size
    <3>1. d \in Items' /\ From(d) = k
      BY <1>2, <1>4, <2>1
    <3> QED BY <3>1
  <2>2. CASE k # size
    <3>1. k \in Items' /\ From(k) = k
      BY <1>4, <2>2
    <3> QED BY <3>1
  <2> QED BY <2>1, <2>2
<1> HIDE DEF d, From
<1>11. TableTypes'
  <2>1. \A i \in 1..MaxItems : ItemShape(item'[i])
    BY <1>2, <1>4, <1>7 DEF TableInv, TableTypes
  <2> QED BY <1>1, <1>3, <1>4, <1>6, <1>7, <2>1 DEF TableInv, TableTypes, OpType, ItemShape
<1>12. OpInv'
  BY <1>3 DEF OpInv, HookPcs, UnhookPcs
<1>13. page[item[d].page] = None /\ \A i \in Items : i # d => page[item[i].page] = item[i].target
  BY <1>1, <1>2 DEF TableInv, PagesInv, d
<1>14. PagesInv'
  <2>1. \A i \in Items' : item'[i].target \in Targets /\ item'[i].page \in Pages
    BY <1>8 DEF TableInv, PagesInv
  <2>2. \A i, j \in Items' : i # j => item'[i].target # item'[j].target
                                       /\ item'[i].page # item'[j].page
    BY <1>8, <1>9 DEF TableInv, PagesInv
  <2>3. \A i \in Items' : page'[item'[i].page] = item'[i].target
    BY <1>1, <1>8, <1>13
  <2>4. \A p \in Pages : page'[p] # None => \E i \in Items' : item'[i].page = p
    <3> SUFFICES ASSUME NEW p \in Pages, page[p] # None
                 PROVE  \E i \in Items' : item'[i].page = p
      BY <1>1
    <3>1. PICK k \in Items : item[k].page = p
      BY DEF TableInv, PagesInv
    <3>2. k # d
      BY <1>13, <3>1
    <3>3. PICK i \in Items' : From(i) = k
      BY <1>10, <3>2
    <3> QED BY <1>8, <3>1, <3>3
  <2> QED BY <1>3, <2>1, <2>2, <2>3, <2>4 DEF PagesInv
<1>15. CodeInv'
  <2> SUFFICES ASSUME NEW t \in Targets
               PROVE  /\ code'[t].mem # "torn"
                      /\ code'[t].mem = "hook" <=>
                           \E i \in Items' : item'[i].target = t /\ item'[i].status = "HOOKED"
    BY <1>3 DEF CodeInv, Live
  <2>1. code[t].mem # "torn"
    BY <1>1 DEF TableInv, CodeInv
  <2>2. code[t].mem = "hook" <=>
          \E k \in Items : k # d /\ item[k].target = t /\ item[k].status = "HOOKED"
    BY <1>1, <1>2 DEF TableInv, CodeInv, Live, d
  <2>3. (\E k \in Items : k # d /\ item[k].target = t /\ item[k].status = "HOOKED") <=>
          \E i \in Items' : item'[i].target = t /\ item'[i].status = "HOOKED"
    BY <1>8, <1>10
  <2> QED BY <1>6, <2>1, <2>2, <2>3
<1>16. ProtoInv'
  BY <1>1, <1>3, <1>8 DEF TableInv, ProtoInv
<1> QED BY <1>11, <1>12, <1>14, <1>15, <1>16 DEF TableInv

-----------------------------------------------------------------------------
(* The theorems.                                                            *)

\* Every step keeps the invariant.
LEMMA NextTable == TableInv /\ [Next]_vars => TableInv'
<1> SUFFICES ASSUME TableInv, [Next]_vars PROVE TableInv'
  OBVIOUS
<1>1. CASE Call
  <2>1. CASE InlineHookAll \/ InlineUnHookAll
    BY <2>1, CallsOnAllKeep
  <2>2. CASE \E t \in Targets : Register(t) \/ InlineHook(t) \/ InlineUnHook(t)
    <3>1. PICK t \in Targets : Register(t) \/ InlineHook(t) \/ InlineUnHook(t)
      BY <2>2
    <3> QED BY <3>1, CallsKeep, RegisterKeeps
  <2> QED BY <1>1, <2>1, <2>2 DEF Call
<1>2. CASE Operation
  <2>1. CASE Fork \/ ForkFails \/ Frozen \/ Return
    BY <2>1, FreezeKeeps
  <2>2. CASE \E x \in Threads : Attach(x) \/ AttachFails(x) \/ Detach(x)
    <3>1. PICK x \in Threads : Attach(x) \/ AttachFails(x) \/ Detach(x)
      BY <2>2
    <3> QED BY <3>1, FreezeKeeps
  <2>3. CASE Loop \/ StoreProto \/ MarkHooked \/ Unmap \/ Delete
    BY <2>3, LoopKeeps, StoreProtoKeeps, MarkHookedKeeps, UnmapKeeps, DeleteKeeps
  <2>4. CASE PatchFirst \/ PatchRest \/ RestoreFirst \/ RestoreRest
    BY <2>4, PatchKeeps, RestoreKeeps
  <2> QED BY <1>2, <2>1, <2>2, <2>3, <2>4 DEF Operation
<1>3. CASE \E x \in Threads : Run(x)
  BY <1>3, RunKeeps, SameTable
<1>4. CASE UNCHANGED vars
  BY <1>4, SameTable DEF vars
<1> QED BY <1>1, <1>2, <1>3, <1>4 DEF Next

\* The inductive invariant of the table, for any table, targets and faults.
THEOREM TableConsistent == Spec => []TableInv
BY InitTable, NextTable, PTL DEF Spec

\* From the first byte of a written jump to the last, *proto_addr is the mapped
\* trampoline of the function, also when no thread could be stopped
\* (doInlineHook, doInlineUnHook).
THEOREM JumpsHaveTrampolines == Spec => []JumpHasTrampoline
<1>1. TableInv => JumpHasTrampoline
  <2> SUFFICES ASSUME TableInv, NEW t \in Targets, code[t].mem = "hook"
               PROVE  proto[t] # None /\ page[proto[t]] = t
    BY DEF JumpHasTrampoline
  <2>1. CASE \E i \in Items : item[i].target = t /\ Live(i)
    BY <2>1, NamesAssumption DEF TableInv, ProtoInv, PagesInv, OpInv, Live, UnhookPcs
  <2>2. CASE op.pc = "mark" /\ t = Target
    BY <2>2, NamesAssumption DEF TableInv, OpInv, ProtoInv, PagesInv, HookPcs, Target
  <2> QED BY <2>1, <2>2 DEF TableInv, CodeInv
<1> QED BY <1>1, TableConsistent, PTL

\* Between two operations every target has one item and one page, and is changed
\* exactly if its item says so (registerInlineHook, deleteInlineHookItem).
THEOREM TableIsTruth == Spec => []TableTells
<1>1. TableInv => TableTells
  <2> SUFFICES ASSUME TableInv, op.pc = "idle" PROVE TableTells
    BY DEF TableTells
  <2>1. \A t \in Targets :
          code[t].mem = IF \E i \in FindItem(t) : item[i].status = "HOOKED"
                          THEN "hook" ELSE "orig"
    <3> TAKE t \in Targets
    <3>1. code[t].mem \in Versions /\ code[t].mem # "torn"
      BY DEF TableInv, TableTypes, CodeInv
    <3>2. code[t].mem = "hook" <=> \E i \in Items : item[i].target = t /\ item[i].status = "HOOKED"
      BY DEF TableInv, CodeInv, Live
    <3>3. (\E i \in Items : item[i].target = t /\ item[i].status = "HOOKED") <=>
            \E i \in FindItem(t) : item[i].status = "HOOKED"
      BY DEF FindItem
    <3> QED BY <3>1, <3>2, <3>3 DEF Versions
  <2>2. \A i, j \in Items : item[i].target = item[j].target => i = j
    BY DEF TableInv, PagesInv
  <2>3. \A i \in Items : page[item[i].page] = item[i].target /\ item[i].target # None
    BY NamesAssumption DEF TableInv, PagesInv
  <2>4. \A p \in Pages : page[p] # None <=> \E i \in Items : item[i].page = p
    BY <2>3 DEF TableInv, PagesInv
  <2> QED BY <2>1, <2>2, <2>3, <2>4 DEF TableTells
<1> QED BY <1>1, TableConsistent, PTL

-----------------------------------------------------------------------------
(* The loop over the table.                                                 *)

\* The initial state, a call of the library, and the threads.
LEMMA LoopOutside ==
  ASSUME TableInv, DoneInv, Call \/ (\E x \in Threads : Run(x)) \/ UNCHANGED vars
  PROVE  DoneInv'
<1>1. CASE \E t \in Targets : Register(t)
  BY <1>1 DEF DoneInv, LoopInv, Register, Idling
<1>2. CASE \E name \in {"hook", "unhook"}, all \in BOOLEAN, i \in Nat :
             Begin(name, all, i) /\ (all => i = 1)
  <2>1. PICK name \in {"hook", "unhook"}, all \in BOOLEAN, i \in Nat :
          Begin(name, all, i) /\ (all => i = 1)
    BY <1>2
  <2>2. op'.pc = "freeze" /\ op'.all = all /\ op'.i = i /\ Items' = Items
    BY <2>1 DEF Begin, Idle, tableVars, Items
  <2>3. Items \in SUBSET Nat /\ \A k \in Items : ~(k < 1)
    BY DEF Items, TableInv, TableTypes
  <2> QED BY <2>1, <2>2, <2>3 DEF DoneInv, LoopInv
<1>3. CASE UNCHANGED <<item, size, op>>
  BY <1>3 DEF DoneInv, LoopInv, Items, Concerned
<1>4. ASSUME NEW t \in Targets, InlineHook(t)
      PROVE  Begin("hook", FALSE, Smallest(FindItem(t))) /\ Smallest(FindItem(t)) \in Nat
  <2>1. FindItem(t) # {} /\ FindItem(t) \in SUBSET Nat
    BY <1>4 DEF InlineHook, FindItem, Items, TableInv, TableTypes
  <2> QED BY <1>4, <2>1, SmallestIn DEF InlineHook
<1>5. ASSUME NEW t \in Targets, InlineUnHook(t)
      PROVE  \E i \in Nat : Begin("unhook", FALSE, i)
  <2> DEFINE hooked == {i \in FindItem(t) : item[i].status = "HOOKED"}
  <2>1. hooked # {} /\ Begin("unhook", FALSE, Smallest(hooked))
    BY <1>5 DEF InlineUnHook
  <2>2. hooked \in SUBSET Nat
    BY DEF FindItem, Items, TableInv, TableTypes
  <2> HIDE DEF hooked
  <2> QED BY <2>1, <2>2, SmallestIn
<1>6. CASE Call
  <2>1. CASE InlineHookAll \/ InlineUnHookAll
    <3>1. Begin("hook", TRUE, 1) \/ Begin("unhook", TRUE, 1)
      BY <2>1 DEF InlineHookAll, InlineUnHookAll
    <3> QED BY <1>2, <3>1
  <2>2. CASE \E t \in Targets : InlineHook(t) \/ InlineUnHook(t)
    <3>1. \E i \in Nat : Begin("hook", FALSE, i) \/ Begin("unhook", FALSE, i)
      BY <1>4, <1>5, <2>2
    <3> QED BY <1>2, <3>1
  <2> QED BY <1>1, <1>6, <2>1, <2>2 DEF Call
<1> QED BY <1>3, <1>6, RunKeeps DEF vars

\* The steps of an operation up to the loop and behind it.
LEMMA LoopAround ==
  ASSUME TableInv, DoneInv, NEW x,
         Fork \/ ForkFails \/ Frozen \/ Return \/ Attach(x) \/ AttachFails(x) \/ Detach(x)
  PROVE  DoneInv'
<1>0. op \in OpType
  BY DEF TableInv, TableTypes, OpType
<1>1. UNCHANGED <<item, size>>
  BY DEF Fork, ForkFails, Frozen, Return, Attach, AttachFails, Detach, tableVars
<1>2. \/ op' = op
      \/ op'.pc = "idle"
      \/ op.pc # "idle" /\ op'.all = op.all /\ op'.i = op.i /\ op'.name = op.name
           /\ op'.pc # "thaw"
  <2>1. CASE Fork
    BY <1>0, <2>1 DEF Fork, OpType
  <2>2. CASE ForkFails \/ Frozen
    BY <1>0, <2>2 DEF ForkFails, Frozen, OpType
  <2>3. CASE Return
    BY <2>3 DEF Return, Idle
  <2>4. CASE Attach(x) \/ AttachFails(x)
    BY <1>0, <2>4 DEF Attach, AttachFails, OpType
  <2> QED BY <2>1, <2>2, <2>3, <2>4 DEF Detach
<1> QED BY <1>1, <1>2 DEF DoneInv, LoopInv, Items, Concerned

\* The loop passes only items that are done.
LEMMA LoopPasses ==
  ASSUME TableInv, DoneInv, Loop
  PROVE  DoneInv'
<1>0. op \in OpType /\ op.pc = "loop" /\ UNCHANGED <<item, size>>
      /\ Items \in SUBSET (1..MaxItems) /\ Items \in SUBSET Nat
  BY BoundsAssumption DEF Loop, tableVars, TableInv, TableTypes, OpType, Items
<1> DEFINE before == IF op.name = "hook" THEN "REGISTERED" ELSE "HOOKED"
           after == IF op.name = "hook" THEN "HOOKED" ELSE "REGISTERED"
<1>1. \A i \in Items : item[i].status # before => item[i].status = after
  BY <1>0 DEF TableInv, TableTypes, ItemShape
<1>2. op.all => \A i \in Items : i < op.i => item[i].status = after
  BY <1>0 DEF DoneInv, LoopInv
<1>3. op.all => \A i \in Items : i \in Ahead <=> op.i <= i /\ item[i].status = before
  BY DEF Ahead, Concerned
<1>4. CASE Ahead = {}
  <2>1. op' = [op EXCEPT !.pc = "thaw"]
    BY <1>4 DEF Loop
  <2>2. op'.pc = "thaw" /\ op'.all = op.all /\ op'.i = op.i /\ op'.name = op.name
    BY <1>0, <2>1 DEF OpType
  <2>3. ASSUME op.all, NEW i \in Items PROVE item[i].status = after
    <3>1. i \in Nat /\ op.i \in Nat
      BY <1>0 DEF OpType
    <3>2. CASE i < op.i
      BY <1>2, <2>3, <3>2
    <3>3. CASE op.i <= i
      BY <1>1, <1>3, <1>4, <2>3, <3>3
    <3> QED BY <3>1, <3>2, <3>3
  <2> QED BY <1>0, <2>2, <2>3 DEF DoneInv, LoopInv, Items, Concerned
<1>5. CASE Ahead # {}
  <2>1. Ahead \in SUBSET Nat
    BY <1>0, ConcernedItems DEF Ahead
  <2> DEFINE m == Smallest(Ahead)
  <2>2. \A i \in Ahead : m <= i
    BY <1>5, <2>1, SmallestIn
  <2>3. m \in Nat
    BY <1>5, <2>1, SmallestIn
  <2>4. op' = [op EXCEPT !.pc = IF op.name = "hook" THEN "proto" ELSE "restore", !.i = m]
    BY <1>5 DEF Loop
  <2> HIDE DEF m
  <2>5. op'.pc # "thaw" /\ op'.all = op.all /\ op'.i = m /\ op'.name = op.name
    BY <1>0, <2>4 DEF OpType
  <2>6. op.all => \A i \in Items : i < m => item[i].status = after
    BY <1>0, <1>1, <1>2, <1>3, <2>2, <2>3 DEF OpType
  <2> QED BY <1>0, <2>5, <2>6 DEF DoneInv, LoopInv, Items
<1> QED BY <1>4, <1>5

\* The steps on one item leave those in front of it alone, and the last of them is done.
LEMMA LoopWorks ==
  ASSUME TableInv, DoneInv,
         \/ StoreProto \/ PatchFirst \/ PatchRest \/ MarkHooked
         \/ RestoreFirst \/ RestoreRest \/ Unmap \/ Delete
  PROVE  DoneInv'
<1>1. op.pc \in HookPcs \cup UnhookPcs
  BY DEF StoreProto, PatchFirst, PatchRest, MarkHooked, RestoreFirst, RestoreRest, Unmap,
         Delete, Goto, HookPcs, UnhookPcs
<1>2. /\ op \in OpType /\ op.i \in Items /\ op.i \in 1..MaxItems /\ op.i \in Nat
      /\ Items \in SUBSET Nat /\ Items = 1..size /\ size \in Nat /\ Items \in SUBSET 1..MaxItems
  BY <1>1, AtItem, BoundsAssumption DEF OpType
<1>3. CASE MarkHooked \/ Delete
  <2>1. op' = Done(op.i + 1) \/ op' = Done(op.i)
    BY <1>3 DEF MarkHooked, Delete
  <2>2. op'.pc = "thaw" => ~op'.all
    <3>1. CASE op.all
      <4>1. op'.pc = "loop"
        BY <1>2, <2>1, <3>1 DEF Done, OpType
      <4> QED BY <4>1
    <3>2. CASE ~op.all
      <4>1. ~op'.all
        BY <1>2, <2>1, <3>2 DEF Done, OpType
      <4> QED BY <4>1
    <3> QED BY <3>1, <3>2
  <2>3. op'.name = op.name /\ op'.all = op.all
    BY <1>2, <2>1 DEF Done, OpType
  <2>4. CASE MarkHooked
    <3>1. op.name = "hook"
      BY <2>4 DEF MarkHooked, TableInv, OpInv, HookPcs
    <3>2. op'.i = op.i + 1 /\ Items' = Items
      BY <1>2, <2>4 DEF MarkHooked, Done, OpType, Items
    <3>3. \A i \in Items : item'[i].status = IF i = op.i THEN "HOOKED" ELSE item[i].status
      BY <1>2, <2>4 DEF MarkHooked, TableInv, TableTypes, ItemShape
    <3>4. \A i \in Items : i < op.i + 1 => i < op.i \/ i = op.i
      BY <1>2
    <3> QED BY <1>1, <2>2, <2>3, <3>1, <3>2, <3>3, <3>4
            DEF DoneInv, LoopInv, HookPcs, UnhookPcs
  <2>5. CASE Delete
    <3>1. op'.i = op.i
      BY <1>2, <2>5 DEF Delete, Done, OpType
    <3>2. size' = size - 1 /\ \A i \in Items : i # op.i => item'[i] = item[i]
      BY <1>2, <2>5 DEF Delete, TableInv, TableTypes
    <3>3. \A i \in Items' : i \in Items
      BY <1>2, <3>2 DEF Items
    <3> QED BY <1>1, <1>2, <2>2, <2>3, <3>1, <3>2, <3>3
            DEF DoneInv, LoopInv, HookPcs, UnhookPcs
  <2> QED BY <1>3, <2>4, <2>5
<1>4. CASE StoreProto \/ PatchFirst \/ PatchRest \/ RestoreFirst \/ RestoreRest \/ Unmap
  <2>1. /\ op'.i = op.i /\ op'.name = op.name /\ op'.all = op.all
        /\ op'.pc \notin {"idle", "thaw"}
    BY <1>2, <1>4 DEF StoreProto, PatchFirst, PatchRest, RestoreFirst, RestoreRest, Unmap,
                      Goto, OpType
  <2>2. UNCHANGED <<item, size>>
    BY <1>4 DEF StoreProto, PatchFirst, PatchRest, RestoreFirst, RestoreRest, Unmap, tableVars
  <2> QED BY <1>1, <2>1, <2>2 DEF DoneInv, LoopInv, Items, HookPcs, UnhookPcs
<1> QED BY <1>3, <1>4

\* Every step keeps what the loop has done.
LEMMA NextDone == TableInv /\ DoneInv /\ [Next]_vars => DoneInv'
<1> SUFFICES ASSUME TableInv, DoneInv, [Next]_vars PROVE DoneInv'
  OBVIOUS
<1>1. CASE Operation
  <2>1. CASE \E x \in Threads : Attach(x) \/ AttachFails(x) \/ Detach(x)
    <3>1. PICK x \in Threads : Attach(x) \/ AttachFails(x) \/ Detach(x)
      BY <2>1
    <3> QED BY <3>1, LoopAround
  <2> QED BY <1>1, <2>1, LoopAround, LoopPasses, LoopWorks DEF Operation
<1> QED BY <1>1, LoopOutside DEF Next

LEMMA InitDone == Init => DoneInv
BY DEF Init, Idle, DoneInv, LoopInv

\* An operation on the whole table leaves no item it was to change, although the
\* loop of inlineUnHookAll runs over a table that is being compacted
\* (inlineHookAll, inlineUnHookAll, deleteInlineHookItem).
THEOREM AllAreDone == Spec => AllMeansAll
<1>1. TableInv /\ DoneInv /\ [Next]_vars =>
        [op.pc = "thaw" /\ op.all /\ op'.pc = "idle" => Concerned = {}]_vars
  BY DEF DoneInv
<1> QED BY <1>1, InitTable, InitDone, NextTable, NextDone, PTL DEF Spec, AllMeansAll

-----------------------------------------------------------------------------
(* Calls that owe a visit.                                                  *)

\* The jump, with or without the instruction that pads it, is in the changed bytes.
LEMMA JumpPatched ==
  ASSUME NEW t \in Targets
  PROVE  JumpOff(t) \in Nat /\ Patched(t, 0) /\ Patched(t, JumpOff(t))
BY CodeAssumption DEF JumpOff, Cell, JumpAt, Patched, PatchLength

\* A function that may only be fetched as a jump has an item that is hooked; so the
\* operation does not write to it, unless it unhooks it.
LEMMA HookedItem ==
  ASSUME TableInv, SeenInv, NEW t \in Targets, code[t].seen = {"hook"}
  PROVE  /\ code[t].mem = "hook"
         /\ op.pc # "mark" \/ t # Target =>
              \E i \in Items : item[i].target = t /\ Live(i)
         /\ op.pc \in {"patch", "patched", "restored"} => t # Target
<1>1. code[t].mem = "hook"
  BY DEF SeenInv
<1>2. op.pc # "mark" \/ t # Target => \E i \in Items : item[i].target = t /\ Live(i)
  BY <1>1 DEF TableInv, CodeInv
<1>3. ASSUME op.pc \in {"patched", "restored"} PROVE t # Target
  BY <1>1, <1>3 DEF TableInv, CodeInv
<1>4. ASSUME op.pc = "patch" PROVE t # Target
  BY <1>2, <1>4, AtItem DEF Live, HookPcs, TableInv, OpInv
<1> QED BY <1>1, <1>2, <1>3, <1>4

\* Threads at the entry of a hooked function stay there in a step that moves no thread,
\* changes the code of such a function in no way, and begins to unhook none.
LEMMA StillDue ==
  ASSUME CallInv, thread' = thread, faults \subseteq faults', SeenInv',
         \A t \in Targets : code[t].seen = {"hook"} /\ ~Leaving(t) =>
                              code'[t].seen = {"hook"} /\ ~Leaving(t)'
  PROVE  CallInv'
<1>1. ThreadShapes'
  BY DEF CallInv, ThreadShapes
<1>2. DueInv'
  <2> SUFFICES ASSUME "rehook" \notin faults', NEW x \in Threads, thread[x].due,
                      thread[x].at # "lost"
               PROVE  AtEntry(thread[x])'
    BY DEF DueInv
  <2>1. AtEntry(thread[x])
    BY DEF CallInv, DueInv
  <2> QED BY <2>1 DEF AtEntry
<1> QED BY <1>1, <1>2 DEF CallInv

\* A write adds to what may be fetched, and a flush leaves what is in memory.
LEMMA WriteSeen ==
  ASSUME TableInv, SeenInv, NEW t \in Targets, NEW v \in Versions, Write(t, v)
  PROVE  SeenInv' /\ \A u \in Targets : u # t => code'[u] = code[u]
<1>1. code'[t].mem = v /\ code'[t].seen = code[t].seen \cup {v}
      /\ \A u \in Targets : u # t => code'[u] = code[u]
  BY DEF Write, TableInv, TableTypes
<1> QED BY <1>1 DEF SeenInv

LEMMA FlushSeen ==
  ASSUME TableInv, SeenInv, NEW t \in Targets, code' = Flush(code, t)
  PROVE  /\ SeenInv'
         /\ \A u \in Targets : code[u].seen = {"hook"} => code'[u].seen = {"hook"}
<1>1. code'[t].mem = code[t].mem /\ code'[t].seen = {code[t].mem}
      /\ \A u \in Targets : u # t => code'[u] = code[u]
  BY DEF Flush, TableInv, TableTypes
<1>2. code[t].seen = {"hook"} => code[t].mem = "hook"
  BY DEF SeenInv
<1> QED BY <1>1, <1>2 DEF SeenInv

\* Calls of the library: who is in a function that is going to be unhooked is forgiven.
LEMMA CallKeepsDue ==
  ASSUME TableInv, CallInv, Call
  PROVE  CallInv'
<1>0. op.pc = "idle" /\ UNCHANGED code /\ faults \subseteq faults' /\ SeenInv'
  BY DEF Call, Register, InlineHook, InlineUnHook, InlineHookAll, InlineUnHookAll, Begin,
         Idling, Fault, CallInv, SeenInv
<1>1. CASE \E t \in Targets : Register(t)
  <2>1. op' = op /\ thread' = thread
    BY <1>1 DEF Register
  <2>2. \A t \in Targets : ~Leaving(t)'
    BY <1>0, <2>1 DEF Leaving
  <2> QED BY <1>0, <2>1, <2>2, StillDue
<1>2. CASE (\E t \in Targets : InlineHook(t)) \/ InlineHookAll
  <2>1. thread' = thread /\ op'.name = "hook"
    BY <1>2 DEF InlineHook, InlineHookAll, Begin, Idle
  <2>2. \A t \in Targets : ~Leaving(t)'
    BY <2>1 DEF Leaving
  <2> QED BY <1>0, <2>1, <2>2, StillDue
<1>3. ASSUME NEW S \in SUBSET Targets, Forgive(S), \A t \in Targets : Leaving(t)' => t \in S
      PROVE  CallInv'
  <2>1. DOMAIN thread' = Threads
    BY <1>3 DEF Forgive
  <2>2. \A x \in Threads :
          /\ ThreadShape(thread[x])
          /\ thread'[x] = IF thread[x].fn \in S THEN [thread[x] EXCEPT !.due = FALSE]
                          ELSE thread[x]
    BY <1>3 DEF Forgive, CallInv, ThreadShapes
  <2>3. \A x \in Threads :
          /\ ThreadShape(thread'[x])
          /\ thread'[x].due => thread'[x] = thread[x] /\ thread[x].fn \notin S
    BY <2>2 DEF ThreadShape
  <2>4. DueInv'
    <3> SUFFICES ASSUME "rehook" \notin faults', NEW x \in Threads, thread'[x].due,
                        thread'[x].at # "lost"
                 PROVE  AtEntry(thread[x])'
      BY DEF DueInv
    <3>1. thread'[x] = thread[x] /\ thread[x].fn \notin S /\ AtEntry(thread[x])
      BY <1>0, <2>3 DEF CallInv, DueInv
    <3> QED BY <1>0, <1>3, <3>1 DEF AtEntry
  <2> QED BY <1>0, <2>1, <2>3, <2>4 DEF CallInv, ThreadShapes
<1>4. ASSUME NEW t \in Targets, InlineUnHook(t)
      PROVE  CallInv'
  <2> DEFINE hooked == {i \in FindItem(t) : item[i].status = "HOOKED"}
             m == Smallest(hooked)
  <2>1. hooked # {} /\ Begin("unhook", FALSE, m) /\ Forgive({t})
    BY <1>4 DEF InlineUnHook
  <2>2. hooked \in SUBSET Nat
    BY DEF FindItem, Items, TableInv, TableTypes
  <2>3. m \in hooked
    <3> HIDE DEF hooked
    <3> QED BY <2>1, <2>2, SmallestIn
  <2>4. item[m].target = t
    BY <2>3 DEF FindItem
  <2> HIDE DEF m, hooked
  <2>5. op'.all = FALSE /\ op'.i = m /\ UNCHANGED <<item, size>>
    BY <2>1 DEF Begin, Idle, tableVars
  <2>6. \A u \in Targets : Leaving(u)' => u = t
    BY <2>4, <2>5 DEF Leaving, Concerned
  <2> QED BY <1>3, <2>1, <2>6
<1>5. CASE InlineUnHookAll
  <2>1. Forgive(Targets)
    BY <1>5 DEF InlineUnHookAll
  <2> QED BY <1>3, <2>1
<1> QED BY <1>1, <1>2, <1>4, <1>5 DEF Call

\* Stopping a thread moves none that is at the entry of a hooked function.
LEMMA AttachKeepsDue ==
  ASSUME TableInv, CallInv, NEW x \in Threads, Attach(x)
  PROVE  CallInv'
<1>0. op.pc = "attach" /\ op \in OpType /\ Items \in SUBSET Nat /\ op.i \in Nat
  BY DEF Attach, TableInv, TableTypes, OpType, Items
<1>1. UNCHANGED <<item, size, code>> /\ faults \subseteq faults'
  BY DEF Attach, Fault, tableVars
<1>2. op'.pc = "attach" /\ op'.name = op.name /\ op'.all = op.all /\ op'.i = op.i
  BY <1>0 DEF Attach, OpType
<1>3. \A t \in Targets : Leaving(t)' <=> Leaving(t)
  BY <1>0, <1>1, <1>2 DEF Leaving, Concerned, Items
<1>4. thread' = [thread EXCEPT ![x] = Moved(thread[x])] /\ ThreadShape(thread[x])
      /\ DOMAIN thread = Threads
  BY DEF Attach, CallInv, ThreadShapes
<1>5. Movers(thread[x]) \in SUBSET Nat
  BY <1>0 DEF Movers
<1> DEFINE m == Smallest(Movers(thread[x]))
<1>6. ThreadShape(Moved(thread[x])) /\ (Moved(thread[x]).due <=> thread[x].due)
  BY <1>4 DEF Moved, MovedBy, ThreadShape
<1>7. ASSUME Movers(thread[x]) # {}, thread[x].due, "rehook" \notin faults' PROVE FALSE
  <2>1. PICK i \in Movers(thread[x]) : TRUE
    BY <1>7
  <2>2. Moves(item[i], thread[x]) /\ (op.all \/ i = op.i) /\ i \in Items
    BY <1>0, <2>1 DEF Movers, TableInv, OpInv
  <2>3. AtEntry(thread[x]) /\ op.name = "hook" /\ thread[x].fn = item[i].target
    BY <1>1, <1>7, <2>2 DEF Moves, CallInv, DueInv, AtEntry
  <2>4. thread[x].at = "fn" /\ thread[x].fn \in Targets /\ code[thread[x].fn].seen = {"hook"}
        /\ Patched(thread[x].fn, thread[x].off)
    BY <2>3, JumpPatched DEF AtEntry
  <2>5. PICK j \in Items : item[j].target = thread[x].fn /\ Live(j)
    BY <1>0, <2>4, HookedItem DEF CallInv
  <2>6. j = i
    BY <2>2, <2>3, <2>5 DEF TableInv, PagesInv
  <2>7. AtHook(thread[x])
    BY <2>1, <2>4, <2>5, <2>6 DEF AtHook, Live
  <2> QED BY <1>7, <2>3, <2>7 DEF Attach, Fault, FaultIf
<1>8. Movers(thread[x]) = {} => Moved(thread[x]) = thread[x]
  BY DEF Moved
<1>9. DueInv'
  <2> SUFFICES ASSUME "rehook" \notin faults', NEW y \in Threads, thread'[y].due,
                      thread'[y].at # "lost"
               PROVE  AtEntry(thread[y])'
    BY DEF DueInv
  <2>1. thread'[y] = thread[y]
    BY <1>4, <1>6, <1>7, <1>8
  <2>2. AtEntry(thread[y])
    BY <1>1, <2>1 DEF CallInv, DueInv
  <2> QED BY <1>1, <1>3, <2>1, <2>2 DEF AtEntry
<1>10. ThreadShapes'
  BY <1>4, <1>6 DEF CallInv, ThreadShapes
<1>11. SeenInv'
  BY <1>1 DEF CallInv, SeenInv
<1> QED BY <1>9, <1>10, <1>11 DEF CallInv

\* The other steps of an operation around the loop begin to unhook nothing.
LEMMA AroundKeepsDue ==
  ASSUME TableInv, CallInv, NEW x,
         Fork \/ ForkFails \/ Frozen \/ Return \/ AttachFails(x) \/ Detach(x) \/ Loop
  PROVE  CallInv'
<1>0. op \in OpType
  BY DEF TableInv, TableTypes, OpType
<1>1. UNCHANGED <<item, size, code, thread>> /\ faults \subseteq faults'
  BY DEF Fork, ForkFails, Frozen, Return, AttachFails, Detach, Loop, tableVars, Fault
<1>2. \/ op'.pc \in {"idle", "thaw"}
      \/ op.pc \notin {"idle", "thaw"} /\ op'.name = op.name /\ op'.all = op.all
           /\ (op.all \/ op'.i = op.i)
  <2>1. CASE Fork
    BY <1>0, <2>1 DEF Fork, OpType
  <2>2. CASE ForkFails \/ Frozen
    BY <1>0, <2>2 DEF ForkFails, Frozen, OpType
  <2>3. CASE Return
    BY <2>3 DEF Return, Idle
  <2>4. CASE AttachFails(x)
    BY <1>0, <2>4 DEF AttachFails, OpType
  <2>5. CASE Detach(x)
    BY <2>5 DEF Detach
  <2>6. CASE Loop
    <3>1. op.pc = "loop" /\ Concerned \in SUBSET Items /\ Items \in SUBSET Nat
      BY <2>6, ConcernedItems DEF Loop
    <3>2. CASE Ahead = {}
      BY <1>0, <2>6, <3>2 DEF Loop, OpType
    <3>3. CASE Ahead # {}
      <4>1. Smallest(Ahead) \in Ahead
        BY <3>1, <3>3, SmallestIn DEF Ahead
      <4>2. op.all \/ Smallest(Ahead) = op.i
        BY <4>1 DEF Ahead, Concerned
      <4>3. op' = [op EXCEPT !.pc = IF op.name = "hook" THEN "proto" ELSE "restore",
                             !.i = Smallest(Ahead)]
        BY <2>6, <3>3 DEF Loop
      <4> QED BY <1>0, <3>1, <4>2, <4>3 DEF OpType
    <3> QED BY <3>2, <3>3
  <2> QED BY <2>1, <2>2, <2>3, <2>4, <2>5, <2>6
<1>3. \A t \in Targets : Leaving(t)' => Leaving(t)
  BY <1>1, <1>2 DEF Leaving, Concerned, Items
<1>4. SeenInv'
  BY <1>1 DEF CallInv, SeenInv
<1> QED BY <1>1, <1>3, <1>4, StillDue

\* Hooking writes to a function that is not hooked, unhooking to one that is leaving.
LEMMA WorkKeepsDue ==
  ASSUME TableInv, CallInv,
         \/ StoreProto \/ PatchFirst \/ PatchRest \/ MarkHooked
         \/ RestoreFirst \/ RestoreRest \/ Unmap \/ Delete
  PROVE  CallInv'
<1>0. op.pc \in HookPcs \cup UnhookPcs /\ thread' = thread /\ faults \subseteq faults'
  BY DEF StoreProto, PatchFirst, PatchRest, MarkHooked, RestoreFirst, RestoreRest, Unmap,
         Delete, Goto, HookPcs, UnhookPcs, Fault
<1>1. /\ op \in OpType /\ op.i \in Items /\ op.i \in 1..MaxItems /\ op.i \in Nat
      /\ Items = 1..size /\ size \in Nat /\ Items \in SUBSET (1..MaxItems)
      /\ Target \in Targets
      /\ op.pc \in HookPcs => op.name = "hook" /\ item[op.i].status = "REGISTERED"
      /\ op.pc \in UnhookPcs => op.name = "unhook" /\ item[op.i].status = "HOOKED"
  BY <1>0, AtItem DEF TableInv, OpInv, OpType
<1>2. CASE MarkHooked
  <2>1. op'.name = "hook" /\ code' = Flush(code, Target)
    BY <1>1, <1>2 DEF MarkHooked, Done, OpType, HookPcs
  <2>2. \A t \in Targets : ~Leaving(t)'
    BY <2>1 DEF Leaving
  <2> QED BY <1>0, <1>1, <2>1, <2>2, FlushSeen, StillDue DEF CallInv
<1>3. CASE Delete
  <2>1. /\ op.pc = "delete" /\ op' = Done(op.i) /\ size' = size - 1
        /\ item' = [item EXCEPT ![op.i] = item[size]] /\ code' = Flush(code, item[size].target)
    BY <1>3 DEF Delete
  <2>2. size \in Items /\ \A i \in Items' : i \in Items
    BY <1>1, <2>1 DEF Items
  <2>3. item[size].target \in Targets
    BY <2>2 DEF TableInv, PagesInv
  <2>4. ASSUME NEW t \in Targets, Leaving(t)' PROVE Leaving(t)
    <3>1. op'.pc = "loop" /\ op.all /\ op'.name = op.name /\ op.name = "unhook"
      BY <1>1, <2>1, <2>4 DEF Done, OpType, Leaving, UnhookPcs
    <3>2. PICK i \in Items' : item'[i].status = "HOOKED" /\ item'[i].target = t
      BY <2>4, <3>1 DEF Leaving, Concerned
    <3>3. PICK k \in Items : item'[i] = item[k]
      BY <1>1, <2>1, <2>2, <3>2 DEF TableInv, TableTypes
    <3> QED BY <2>1, <3>1, <3>2, <3>3 DEF Leaving, Concerned
  <2> QED BY <1>0, <2>1, <2>3, <2>4, FlushSeen, StillDue DEF CallInv
<1>4. CASE StoreProto \/ PatchFirst \/ PatchRest
  <2>1. op'.name = "hook"
    BY <1>1, <1>4 DEF StoreProto, PatchFirst, PatchRest, Goto, OpType, HookPcs
  <2>2. \A t \in Targets : ~Leaving(t)'
    BY <2>1 DEF Leaving
  <2>3. CASE StoreProto
    <3>1. code' = code
      BY <2>3 DEF StoreProto
    <3> QED BY <1>0, <2>2, <3>1, StillDue DEF CallInv, SeenInv
  <2>4. CASE PatchFirst \/ PatchRest
    <3>1. op.pc \in {"patch", "patched"} /\ \E v \in Versions : Write(Target, v)
      BY <2>4 DEF PatchFirst, PatchRest, Goto, Versions
    <3>2. SeenInv' /\ \A u \in Targets : u # Target => code'[u] = code[u]
      BY <1>1, <3>1, WriteSeen DEF CallInv
    <3>3. \A u \in Targets : code[u].seen = {"hook"} => u # Target
      BY <3>1, HookedItem DEF CallInv
    <3> QED BY <1>0, <2>2, <3>2, <3>3, StillDue
  <2> QED BY <1>4, <2>3, <2>4
<1>5. CASE RestoreFirst \/ RestoreRest \/ Unmap
  <2>1. /\ op.pc \in UnhookPcs /\ op'.i = op.i /\ op'.name = op.name /\ op'.all = op.all
        /\ UNCHANGED <<item, size>>
    BY <1>1, <1>5 DEF RestoreFirst, RestoreRest, Unmap, Goto, OpType, UnhookPcs, tableVars
  <2>2. \A t \in Targets : Leaving(t)' => Leaving(t)
    BY <2>1 DEF Leaving, Concerned, Items, UnhookPcs
  <2>3. Leaving(Target)
    BY <1>1, <2>1 DEF Leaving, Concerned, Target, UnhookPcs
  <2>4. CASE Unmap
    <3>1. code' = code
      BY <2>4 DEF Unmap
    <3> QED BY <1>0, <2>2, <3>1, StillDue DEF CallInv, SeenInv
  <2>5. CASE RestoreFirst \/ RestoreRest
    <3>1. \E v \in Versions : Write(Target, v)
      BY <2>5 DEF RestoreFirst, RestoreRest, Versions
    <3>2. SeenInv' /\ \A u \in Targets : u # Target => code'[u] = code[u]
      BY <1>1, <3>1, WriteSeen DEF CallInv
    <3> QED BY <1>0, <2>2, <2>3, <3>2, StillDue
  <2> QED BY <1>5, <2>4, <2>5
<1> QED BY <1>2, <1>3, <1>4, <1>5

\* A thread at the entry of a hooked function fetches nothing but the jump.
LEMMA RunKeepsDue ==
  ASSUME TableInv, CallInv, NEW x \in Threads, Run(x)
  PROVE  CallInv'
<1> DEFINE Good(th) ==
      ThreadShape(th) /\ ("rehook" \notin faults /\ th.due => th.at = "lost" \/ AtEntry(th))
<1>1. \A y \in Threads : Good(thread[y])
  BY DEF CallInv, ThreadShapes, DueInv
<1>2. ASSUME NEW th, Goes(x, th), Good(th) PROVE CallInv'
  <2>1. UNCHANGED <<item, size, code, op, faults>> /\ thread' = [thread EXCEPT ![x] = th]
    BY <1>2 DEF Goes, tableVars
  <2>2. DOMAIN thread' = Threads /\ \A y \in Threads : Good(thread'[y])
    BY <1>1, <1>2, <2>1 DEF CallInv, ThreadShapes
  <2>3. SeenInv'
    BY <2>1 DEF CallInv, SeenInv
  <2>4. \A t : Leaving(t)' <=> Leaving(t)
    BY <2>1 DEF Leaving, Concerned, Items
  <2>5. \A y \in Threads : thread'[y].at = "fn" /\ AtEntry(thread'[y]) => AtEntry(thread[y])'
    BY <2>1, <2>4 DEF AtEntry
  <2>6. \A y \in Threads : AtEntry(thread'[y]) => thread'[y].at = "fn"
    BY DEF AtEntry
  <2>7. ThreadShapes' /\ DueInv'
    BY <2>1, <2>2, <2>5, <2>6 DEF ThreadShapes, DueInv
  <2> QED BY <2>3, <2>7 DEF CallInv
<1> DEFINE th == thread[x]
<1>3. Good(th) /\ ThreadShape(th)
  BY <1>1
<1>4. ASSUME NEW w, Goes(x, w), ThreadShape(w), ~w.due PROVE CallInv'
  BY <1>2, <1>4
<1>5. Crash(x) => CallInv'
  <2> SUFFICES ASSUME Crash(x) PROVE CallInv'
    OBVIOUS
  <2> DEFINE w == [th EXCEPT !.at = "lost"]
  <2>1. Goes(x, w)
    BY DEF Crash
  <2>2. ThreadShape(w) /\ w.at = "lost"
    BY <1>3 DEF ThreadShape
  <2> HIDE DEF w
  <2> QED BY <1>2, <2>1, <2>2
<1>6. ASSUME NEW t \in Targets, Enter(x, t) PROVE CallInv'
  <2> DEFINE w == [Out EXCEPT !.at = "fn", !.fn = t, !.next = 1,
                              !.due = code[t].seen = {"hook"} /\ ~Leaving(t)]
  <2>1. Goes(x, w)
    BY <1>6 DEF Enter
  <2>2. /\ ThreadShape(w) /\ w.at = "fn" /\ w.fn = t /\ w.off = 0
        /\ w.due => code[t].seen = {"hook"} /\ ~Leaving(t)
    BY DEF Out, ThreadShape
  <2> HIDE DEF w
  <2> QED BY <1>2, <2>1, <2>2 DEF AtEntry
<1>7. \A w : Goes(x, w) /\ w = Out => CallInv'
  <2>1. ThreadShape(Out) /\ ~Out.due
    BY DEF Out, ThreadShape
  <2> QED BY <1>4, <2>1
<1>8. "rehook" \notin faults /\ th.due /\ th.at # "lost" =>
        /\ th.at = "fn" /\ Patched(th.fn, th.off) /\ th.off \in {0, JumpOff(th.fn)}
        /\ th.fn \in Targets /\ code[th.fn].seen = {"hook"} /\ ~Leaving(th.fn)
  BY <1>3, JumpPatched DEF AtEntry
<1>9. ASSUME "rehook" \notin faults => ~th.due, NEW i, Execute(x, i) PROVE CallInv'
  <2> DEFINE after == [th EXCEPT !.next = i + 1,
                                 !.off = IF th.at = "fn" THEN OrigOff(th.fn, i + 1)
                                         ELSE TrampOff(th.fn, i + 1)]
  <2>1. Goes(x, after) \/ Goes(x, Out) \/ Goes(x, [after EXCEPT !.at = "callee"])
    BY <1>9 DEF Execute
  <2>2. ThreadShape(after) /\ (after.due <=> th.due)
    BY <1>3 DEF ThreadShape
  <2>3. ThreadShape([after EXCEPT !.at = "callee"])
        /\ ([after EXCEPT !.at = "callee"].due <=> th.due)
    <3> HIDE DEF after
    <3> QED BY <2>2 DEF ThreadShape
  <2> HIDE DEF after
  <2> QED BY <1>2, <1>7, <1>9, <2>1, <2>2, <2>3
<1>10. CASE FetchOrig(x)
  <2>1. "rehook" \notin faults => ~th.due
    BY <1>8, <1>10 DEF FetchOrig
  <2>2. (\E i \in IndexAt(th.fn, th.off) : Execute(x, i) \/ Goes(x, Out)) \/ Crash(x)
    BY <1>10 DEF FetchOrig
  <2> QED BY <1>5, <1>7, <1>9, <2>1, <2>2
<1>11. CASE FetchHook(x)
  <2>1. CASE th.off = JumpOff(th.fn)
    <3> DEFINE w == [th EXCEPT !.at = "proxy", !.off = 0, !.due = FALSE]
    <3>1. Goes(x, w)
      BY <1>11, <2>1 DEF FetchHook
    <3>2. ThreadShape(w) /\ ~w.due
      BY <1>3 DEF ThreadShape
    <3> HIDE DEF w
    <3> QED BY <1>4, <3>1, <3>2
  <2>2. CASE th.off = 0 /\ th.off # JumpOff(th.fn)
    <3> DEFINE w == [th EXCEPT !.off = JumpOff(th.fn)]
    <3>1. Goes(x, w) /\ th.at = "fn"
      BY <1>11, <2>2 DEF FetchHook
    <3>2. ThreadShape(w) /\ w.at = "fn" /\ w.fn = th.fn /\ w.off = JumpOff(th.fn)
          /\ (w.due <=> th.due)
      BY <1>3, <3>1 DEF ThreadShape
    <3> HIDE DEF w
    <3>3. Good(w)
      BY <1>8, <3>1, <3>2 DEF AtEntry
    <3> QED BY <1>2, <3>1, <3>3
  <2> QED BY <1>5, <1>11, <2>1, <2>2 DEF FetchHook
<1>12. CASE FetchTorn(x)
  BY <1>5, <1>12 DEF FetchTorn
<1>13. CASE Proxy(x)
  <2>1. "rehook" \notin faults => ~th.due
    BY <1>8, <1>13 DEF Proxy
  <2> DEFINE w(p) == [th EXCEPT !.at = "page", !.page = p]
  <2>2. Goes(x, Out) \/ Crash(x) \/ \E p : Goes(x, w(p))
    BY <1>13 DEF Proxy
  <2>3. \A p : ThreadShape(w(p)) /\ (w(p).due <=> th.due)
    BY <1>3 DEF ThreadShape
  <2> HIDE DEF w
  <2> QED BY <1>2, <1>5, <1>7, <2>1, <2>2, <2>3
<1>14. CASE FetchPage(x)
  <2>1. "rehook" \notin faults => ~th.due
    BY <1>8, <1>14 DEF FetchPage
  <2> DEFINE v(i) == [th EXCEPT !.at = "fn", !.page = None, !.off = OrigOff(th.fn, i)]
             w(i) == [th EXCEPT !.off = MidOff(th.fn, i)]
  <2>2. Crash(x) \/ \E i : Execute(x, i) \/ Goes(x, v(i)) \/ Goes(x, w(i))
    BY <1>14 DEF FetchPage
  <2>3. \A i : /\ ThreadShape(v(i)) /\ (v(i).due <=> th.due)
               /\ ThreadShape(w(i)) /\ (w(i).due <=> th.due)
    BY <1>3 DEF ThreadShape
  <2> HIDE DEF v, w
  <2> QED BY <1>2, <1>5, <1>9, <2>1, <2>2, <2>3
<1>15. CASE ReturnFromCallee(x)
  <2>1. "rehook" \notin faults => ~th.due
    BY <1>8, <1>15 DEF ReturnFromCallee
  <2> DEFINE w == [th EXCEPT !.at = IF th.page = None THEN "fn" ELSE "page"]
  <2>2. Goes(x, w)
    BY <1>15 DEF ReturnFromCallee
  <2>3. ThreadShape(w) /\ (w.due <=> th.due)
    BY <1>3 DEF ThreadShape
  <2> HIDE DEF w
  <2> QED BY <1>2, <2>1, <2>2, <2>3
<1>16. CASE TakeHeap(x) \/ DropHeap(x)
  <2> DEFINE w == [Out EXCEPT !.at = "heap"]
  <2>1. Goes(x, Out) \/ Goes(x, w)
    BY <1>16 DEF TakeHeap, DropHeap
  <2>2. ThreadShape(w) /\ ~w.due
    BY DEF Out, ThreadShape
  <2> HIDE DEF w
  <2> QED BY <1>4, <1>7, <2>1, <2>2
<1> QED BY <1>6, <1>10, <1>11, <1>12, <1>13, <1>14, <1>15, <1>16 DEF Run

\* Every step keeps the debts.
LEMMA NextDue == TableInv /\ CallInv /\ [Next]_vars => CallInv'
<1> SUFFICES ASSUME TableInv, CallInv, [Next]_vars PROVE CallInv'
  OBVIOUS
<1>1. CASE Operation
  <2>1. CASE \E x \in Threads : Attach(x) \/ AttachFails(x) \/ Detach(x)
    BY <2>1, AttachKeepsDue, AroundKeepsDue
  <2>2. CASE Fork \/ ForkFails \/ Frozen \/ Return \/ Loop
    BY <2>2, AroundKeepsDue
  <2> QED BY <1>1, <2>1, <2>2, WorkKeepsDue DEF Operation
<1>2. CASE UNCHANGED vars
  BY <1>2 DEF vars, CallInv, ThreadShapes, SeenInv, DueInv, AtEntry, Leaving, Concerned, Items
<1> QED BY <1>1, <1>2, CallKeepsDue, RunKeepsDue DEF Next

LEMMA InitDue == Init => CallInv
<1> SUFFICES ASSUME Init PROVE CallInv
  OBVIOUS
<1>1. DOMAIN thread = Threads /\ \A x \in Threads : thread[x] = Out
  BY DEF Init
<1>2. ThreadShape(Out) /\ ~Out.due
  BY DEF Out, ThreadShape
<1>3. SeenInv
  BY DEF Init, SeenInv
<1> QED BY <1>1, <1>2, <1>3 DEF CallInv, ThreadShapes, DueInv

\* A call made after the function was hooked reaches the replacement, unless the
\* function is unhooked before it does, or inlineHookAll is called again with a hooked
\* function in the table, whatever else goes wrong (processThreadPC).
THEOREM CallsReachProxy == Spec => []HookedCallsReachProxy
<1>1. CallInv => HookedCallsReachProxy
  BY DEF CallInv, DueInv, AtEntry, HookedCallsReachProxy
<1> QED BY <1>1, InitTable, InitDue, NextTable, NextDue, PTL DEF Spec

-----------------------------------------------------------------------------
(* Numbers: what goes up step by step, and sets without holes.              *)

\* A set of numbers that is not empty has a least member.
LEMMA Least ==
  ASSUME NEW S \in SUBSET Nat, S # {}
  PROVE  \E i \in S : \A j \in S : i <= j
BY SmallestIn

\* What is true of 0 and goes from every number to the next is true of all up to n.
\* The set stands for the property.
LEMMA UpTo ==
  ASSUME NEW n \in Nat, NEW S, 0 \in S, \A k \in 0..n : k \in S /\ k < n => k + 1 \in S
  PROVE  n \in S
<1> SUFFICES ASSUME n \notin S PROVE FALSE
  OBVIOUS
<1> DEFINE T == {k \in 0..n : k \notin S}
<1>1. PICK k \in T : \A j \in T : k <= j
  <2>1. n \in T /\ T \in SUBSET Nat
    OBVIOUS
  <2> HIDE DEF T
  <2> QED BY <2>1, Least
<1>2. k # 0 /\ k \in Nat /\ k - 1 \in 0..n /\ k - 1 < n
  BY <1>1
<1>3. k - 1 \in S
  BY <1>1, <1>2
<1>4. (k - 1) + 1 \in S
  BY <1>2, <1>3
<1> QED BY <1>1, <1>2, <1>4

\* The places at which things of given lengths begin, one behind the other.
Sums(f, n, w) ==
  DOMAIN f = 1..n + 1 /\ f[1] = 0 /\ \A i \in 1..n : f[i + 1] = f[i] + w[i]

LEMMA SumsExist ==
  ASSUME NEW n \in Nat, NEW w \in [1..n -> Nat]
  PROVE  \E g \in [1..n + 1 -> Nat] : Sums(g, n, w)
<1> DEFINE Fits(g, k) == g \in [1..n + 1 -> Nat] /\ g[1] = 0
                           /\ \A i \in 1..k : g[i + 1] = g[i] + w[i]
           Some(k) == \E g : Fits(g, k)
           S == {k \in 0..n : Some(k)}
<1>1. Some(0)
  <2>1. Fits([i \in 1..n + 1 |-> 0], 0)
    OBVIOUS
  <2> HIDE DEF Fits
  <2> QED BY <2>1
<1>2. ASSUME NEW k \in 0..n, Some(k), k < n PROVE Some(k + 1)
  <2>1. PICK g : Fits(g, k)
    BY <1>2
  <2> DEFINE h == [g EXCEPT ![k + 2] = g[k + 1] + w[k + 1]]
  <2>2. k + 1 \in 1..n /\ k + 2 \in 1..n + 1 /\ k + 1 \in 1..n + 1
    BY <1>2
  <2>3. g[k + 1] \in Nat /\ w[k + 1] \in Nat
    BY <2>1, <2>2
  <2>4. h \in [1..n + 1 -> Nat] /\ h[1] = 0
    BY <2>1, <2>2, <2>3
  <2>5. ASSUME NEW i \in 1..k + 1 PROVE h[i + 1] = h[i] + w[i]
    <3>1. i \in 1..n + 1 /\ i + 1 \in 1..n + 1 /\ i # k + 2
      BY <2>2
    <3>2. CASE i = k + 1
      BY <2>1, <2>2, <2>3, <3>1, <3>2
    <3>3. CASE i # k + 1
      <4>1. i \in 1..k /\ i + 1 # k + 2
        BY <3>3
      <4> QED BY <2>1, <3>1, <4>1
    <3> QED BY <3>2, <3>3
  <2>6. Fits(h, k + 1)
    BY <2>4, <2>5
  <2> HIDE DEF Fits, h
  <2> QED BY <2>6
<1> HIDE DEF Some
<1>3. n \in S
  <2>1. 0 \in S /\ \A k \in 0..n : k \in S /\ k < n => k + 1 \in S
    BY <1>1, <1>2
  <2> HIDE DEF S
  <2> QED BY <2>1, UpTo
<1> QED BY <1>3 DEF Some, Sums

\* Only one function gives them.
LEMMA SumsSame ==
  ASSUME NEW n \in Nat, NEW w, NEW g, Sums(g, n, w), NEW f, Sums(f, n, w)
  PROVE  \A i \in 1..n + 1 : f[i] = g[i]
<1> DEFINE Same(k) == \A i \in 1..k + 1 : f[i] = g[i]
           S == {k \in 0..n : Same(k)}
<1>1. Same(0)
  BY DEF Sums
<1>2. ASSUME NEW k \in 0..n, Same(k), k < n PROVE Same(k + 1)
  <2>1. k + 1 \in 1..n /\ (k + 1) + 1 = k + 2
    BY <1>2
  <2>2. f[k + 1] = g[k + 1]
    BY <1>2, <2>1
  <2>3. f[k + 2] = g[k + 2]
    BY <2>1, <2>2 DEF Sums
  <2>4. \A i \in 1..k + 2 : i \in 1..k + 1 \/ i = k + 2
    BY <1>2
  <2> QED BY <1>2, <2>3, <2>4
<1> HIDE DEF Same
<1>3. n \in S
  <2>1. 0 \in S /\ \A k \in 0..n : k \in S /\ k < n => k + 1 \in S
    BY <1>1, <1>2
  <2> HIDE DEF S
  <2> QED BY <2>1, UpTo
<1> QED BY <1>3 DEF Same

\* Places that go up from each to the next go up from any to any later one.
LEMMA Rises ==
  ASSUME NEW n \in Nat, NEW f \in [1..n + 1 -> Nat], \A i \in 1..n : f[i] < f[i + 1]
  PROVE  \A i, j \in 1..n + 1 : i < j => f[i] < f[j]
<1> SUFFICES ASSUME NEW i \in 1..n + 1 PROVE \A j \in 1..n + 1 : i < j => f[i] < f[j]
  OBVIOUS
<1> DEFINE Below(k) == \A j \in 1..k + 1 : i < j => f[i] < f[j]
           S == {k \in 0..n : Below(k)}
<1>1. Below(0)
  OBVIOUS
<1>2. ASSUME NEW k \in 0..n, Below(k), k < n PROVE Below(k + 1)
  <2>1. k + 1 \in 1..n /\ (k + 1) + 1 = k + 2 /\ k + 1 \in 1..n + 1 /\ k + 2 \in 1..n + 1
    BY <1>2
  <2>2. f[k + 1] < f[k + 2] /\ f[k + 1] \in Nat /\ f[k + 2] \in Nat /\ f[i] \in Nat
    BY <2>1
  <2>3. i < k + 2 => f[i] < f[k + 2]
    <3>1. CASE i < k + 1
      BY <1>2, <2>1, <2>2, <3>1
    <3>2. CASE i = k + 1
      BY <2>2, <3>2
    <3> QED BY <3>1, <3>2
  <2>4. \A j \in 1..(k + 1) + 1 : j \in 1..k + 1 \/ j = k + 2
    BY <1>2
  <2> QED BY <1>2, <2>3, <2>4
<1> HIDE DEF Below
<1>3. n \in S
  <2>1. 0 \in S /\ \A k \in 0..n : k \in S /\ k < n => k + 1 \in S
    BY <1>1, <1>2
  <2> HIDE DEF S
  <2> QED BY <2>1, UpTo
<1> QED BY <1>3 DEF Below

\* A set of numbers from 1 on that has no holes is as long as it has members.
LEMMA Prefix ==
  ASSUME NEW n \in Nat, NEW P \in SUBSET (1..n), \A i \in P, j \in 1..n : j < i => j \in P
  PROVE  Cardinality(P) \in 0..n /\ P = 1..Cardinality(P)
<1> DEFINE Q == {i \in 1..n + 1 : i \notin P}
<1>1. PICK m \in Q : \A j \in Q : m <= j
  <2>1. n + 1 \in Q /\ Q \in SUBSET Nat
    OBVIOUS
  <2> HIDE DEF Q
  <2> QED BY <2>1, Least
<1>2. \A j \in 1..m - 1 : j \in P
  BY <1>1
<1>3. \A j \in P : j \in 1..m - 1
  BY <1>1
<1>4. P = 1..m - 1
  BY <1>2, <1>3
<1>5. Cardinality(1..m - 1) = m - 1
  BY <1>1, FS_Interval
<1> QED BY <1>1, <1>4, <1>5

-----------------------------------------------------------------------------
(* The layout of a target and of its trampoline.                            *)

\* The instructions of a target are of its instruction set.
LEMMA Instructions ==
  ASSUME NEW t \in Targets
  PROVE  LET c == CodeOf[t]  n == Len(c.instrs) IN
         /\ n \in Nat /\ c.thumb \in BOOLEAN /\ c.base \in {0, 1}
         /\ \A i \in 1..n : /\ c.instrs[i] \in Instruction
                            /\ c.instrs[i].kind \in
                                 (IF c.thumb THEN Thumb16 \cup Thumb32 ELSE Arm)
                            /\ Width(c.instrs[i].kind) \in {1, 2}
                            /\ ~c.thumb => Width(c.instrs[i].kind) = 1
<1> QED BY CodeAssumption DEF Width, Arm, Thumb32

LEMMA Starts ==
  ASSUME NEW t \in Targets
  PROVE  LET c == CodeOf[t]  n == Len(c.instrs) IN
         /\ Start(c) \in [1..n + 1 -> Nat] /\ Start(c)[1] = 0
         /\ \A i \in 1..n : Start(c)[i + 1] = Start(c)[i] + Width(c.instrs[i].kind)
         /\ \A i, j \in 1..n + 1 : i < j => Start(c)[i] < Start(c)[j]
<1> DEFINE c == CodeOf[t]
           n == Len(c.instrs)
           w == [i \in 1..n |-> Width(c.instrs[i].kind)]
           Is(f) == f = [i \in 1..n + 1 |->
                           IF i = 1 THEN 0 ELSE f[i - 1] + Width(c.instrs[i - 1].kind)]
<1>1. n \in Nat /\ \A i \in 1..n : Width(c.instrs[i].kind) \in {1, 2}
  BY Instructions
<1>2. w \in [1..n -> Nat] /\ \A i \in 1..n : w[i] = Width(c.instrs[i].kind)
  BY <1>1
<1>3. Start(c) = CHOOSE f : Is(f)
  BY DEF Start
<1> HIDE DEF n, w
<1>4. PICK g \in [1..n + 1 -> Nat] : Sums(g, n, w)
  BY <1>1, <1>2, SumsExist
<1>5. Is(g)
  <2>1. ASSUME NEW i \in 1..n + 1, i # 1 PROVE g[i] = g[i - 1] + Width(c.instrs[i - 1].kind)
    <3>1. i - 1 \in 1..n /\ (i - 1) + 1 = i
      BY <1>1, <2>1
    <3> QED BY <1>2, <1>4, <3>1 DEF Sums
  <2> QED BY <1>4, <2>1 DEF Sums
<1>6. Is(Start(c))
  <2> HIDE DEF Is
  <2> QED BY <1>3, <1>5
<1> DEFINE f == Start(c)
<1>7. DOMAIN f = 1..n + 1 /\ f[1] = 0 /\ \A i \in 1..n : f[i + 1] = f[i] + w[i]
  <2>1. ASSUME NEW i \in 1..n PROVE f[i + 1] = f[i] + w[i]
    <3>1. i + 1 \in 1..n + 1 /\ i + 1 # 1 /\ (i + 1) - 1 = i
      BY <1>1, <2>1
    <3> QED BY <1>2, <1>6, <3>1
  <2>2. 1 \in 1..n + 1
    BY <1>1
  <2>3. f[1] = 0
    BY <1>6, <2>2
  <2>4. DOMAIN f = 1..n + 1
    BY <1>6
  <2> QED BY <2>1, <2>3, <2>4
<1> HIDE DEF f
<1>8. \A i \in 1..n + 1 : f[i] = g[i]
  <2>1. Sums(f, n, w)
    BY <1>7 DEF Sums
  <2> QED BY <1>1, <1>4, <2>1, SumsSame
<1>9. f \in [1..n + 1 -> Nat]
  <2>1. f = [i \in 1..n + 1 |-> f[i]]
    BY <1>6 DEF f
  <2> QED BY <1>8, <2>1
<1>10. ASSUME NEW i \in 1..n PROVE f[i] < f[i + 1]
  <2>1. w[i] \in {1, 2} /\ i \in 1..n + 1 /\ f[i] \in Nat
    BY <1>1, <1>2, <1>9
  <2> QED BY <1>7, <2>1
<1>11. \A i, j \in 1..n + 1 : i < j => f[i] < f[j]
  BY <1>1, <1>9, <1>10, Rises
<1> QED BY <1>2, <1>7, <1>9, <1>11 DEF f, n

\* A run of cells, whatever they hold.
IsRun(s) == \E S : s \in Seq(S) /\ Len(s) > 0

\* Short runs, and two that make one.
LEMMA ShortRuns ==
  /\ \A a : IsRun(<<a>>)
  /\ \A a, b : IsRun(<<a, b>>)
  /\ \A a, b, c : IsRun(<<a, b, c>>)
  /\ \A a, b, c, d : IsRun(<<a, b, c, d>>)
<1>1. ASSUME NEW a PROVE IsRun(<<a>>)
  <2>1. <<a>> \in Seq({a}) /\ Len(<<a>>) > 0
    OBVIOUS
  <2> QED BY <2>1 DEF IsRun
<1>2. ASSUME NEW a, NEW b PROVE IsRun(<<a, b>>)
  <2>1. <<a, b>> \in Seq({a, b}) /\ Len(<<a, b>>) > 0
    OBVIOUS
  <2> QED BY <2>1 DEF IsRun
<1>3. ASSUME NEW a, NEW b, NEW c PROVE IsRun(<<a, b, c>>)
  <2>1. <<a, b, c>> \in Seq({a, b, c}) /\ Len(<<a, b, c>>) > 0
    OBVIOUS
  <2> QED BY <2>1 DEF IsRun
<1>4. ASSUME NEW a, NEW b, NEW c, NEW d PROVE IsRun(<<a, b, c, d>>)
  <2>1. <<a, b, c, d>> \in Seq({a, b, c, d}) /\ Len(<<a, b, c, d>>) > 0
    OBVIOUS
  <2> QED BY <2>1 DEF IsRun
<1> QED BY <1>1, <1>2, <1>3, <1>4

LEMMA RunsJoin ==
  ASSUME NEW a, NEW b, IsRun(a), IsRun(b)
  PROVE  IsRun(a \o b)
<1>1. PICK S : a \in Seq(S) /\ Len(a) > 0
  BY DEF IsRun
<1>2. PICK T : b \in Seq(T) /\ Len(b) > 0
  BY DEF IsRun
<1>3. a \in Seq(S \cup T) /\ b \in Seq(S \cup T)
  BY <1>1, <1>2
<1>4. a \o b \in Seq(S \cup T) /\ Len(a \o b) > 0
  BY <1>1, <1>2, <1>3
<1> QED BY <1>4 DEF IsRun

\* The parts relocated instructions are made of.
LEMMA PartRuns ==
  /\ \A o : IsRun(Lone(o))
  /\ \A v : IsRun(Literal(v)) /\ IsRun(ThumbJump(v)) /\ IsRun(ArmJump(v))
  /\ \A v : IsRun(Conditional(ThumbJump(v)))
<1>1. \A o : IsRun(Lone(o))
  BY ShortRuns DEF Lone
<1>2. \A v : IsRun(Literal(v)) /\ IsRun(ThumbJump(v)) /\ IsRun(ArmJump(v))
  BY ShortRuns DEF Literal, ThumbJump, ArmJump
<1>3. IsRun(Lone("cond") \o <<Op("skip", 3)>>)
  BY <1>1, ShortRuns, RunsJoin
<1>4. ASSUME NEW v PROVE IsRun(Conditional(ThumbJump(v)))
  BY <1>2, <1>3, RunsJoin DEF Conditional
<1> QED BY <1>1, <1>2, <1>4

\* Everything that is emitted is a run of cells: in Thumb code,
LEMMA ThumbRuns ==
  ASSUME NEW i, i.kind \in Thumb16, NEW pc
  PROVE  IsRun(EmitThumb16(i, pc))
<1> USE ShortRuns, PartRuns, RunsJoin
<1>1. CASE i.kind \in {"B1_THUMB16", "CB_THUMB16"}
  <2>1. EmitThumb16(i, pc) = Conditional(ThumbJump(Place(pc + i.label, TRUE)))
    <3>1. CASE i.kind = "B1_THUMB16"
      BY ONLY <3>1 DEF EmitThumb16
    <3>2. CASE i.kind = "CB_THUMB16"
      BY ONLY <3>2 DEF EmitThumb16
    <3> QED BY <1>1, <3>1, <3>2
  <2> QED BY <2>1
<1>2. CASE i.kind = "B2_THUMB16"
  <2>1. EmitThumb16(i, pc) = ThumbJump(Place(pc + i.label, TRUE))
    BY ONLY <1>2 DEF EmitThumb16
  <2> QED BY <2>1
<1>3. CASE i.kind = "BX_THUMB16"
  <2>1. EmitThumb16(i, pc) = ThumbJump(Place(pc, TRUE))
    BY ONLY <1>3 DEF EmitThumb16
  <2> QED BY <2>1
<1>4. CASE i.kind = "ADD_THUMB16"
  <2> DEFINE a == Lone("push") \o <<Op("ldr", 4)>>
             b == a \o Lone("copy")
             c == b \o Lone("pop")
             d == c \o <<Op("skip", 2)>>
             e == d \o Lone("nop")
  <2>1. EmitThumb16(i, pc) = e \o Literal(pc)
    BY ONLY <1>4 DEF EmitThumb16
  <2>2. IsRun(a)
    OBVIOUS
  <2> HIDE DEF a
  <2>3. IsRun(b)
    BY <2>2
  <2> HIDE DEF b
  <2>4. IsRun(c)
    BY <2>3
  <2> HIDE DEF c
  <2>5. IsRun(d)
    BY <2>4
  <2> HIDE DEF d
  <2>6. IsRun(e)
    BY <2>5
  <2> HIDE DEF e
  <2> QED BY <2>1, <2>6
<1>5. CASE i.kind \in {"MOV_THUMB16", "ADR_THUMB16", "LDR_THUMB16"}
  <2>1. \E v : EmitThumb16(i, pc) = <<Op("ldr", 0), Op("skip", 1)>> \o Literal(v)
    <3>1. CASE i.kind = "MOV_THUMB16"
      BY ONLY <3>1 DEF EmitThumb16
    <3>2. CASE i.kind = "ADR_THUMB16"
      BY ONLY <3>2 DEF EmitThumb16
    <3>3. CASE i.kind = "LDR_THUMB16"
      BY ONLY <3>3 DEF EmitThumb16
    <3> QED BY <1>5, <3>1, <3>2, <3>3
  <2> QED BY <2>1
<1>6. CASE i.kind = "OTHER_THUMB16"
  <2>1. EmitThumb16(i, pc) = Lone("copy") \o Lone("nop")
    BY ONLY <1>6 DEF EmitThumb16
  <2> QED BY <2>1
<1> QED BY ONLY i.kind \in Thumb16, <1>1, <1>2, <1>3, <1>4, <1>5, <1>6 DEF Thumb16

LEMMA WideRuns ==
  ASSUME NEW i, i.kind \in Thumb32, NEW pc
  PROVE  IsRun(EmitThumb32(i, pc))
<1> USE ShortRuns, PartRuns, RunsJoin
<1> DEFINE label == AlignPc(pc) + i.label
           link == <<Op("set_lr", 4), Op("wide", 0)>>
<1>1. CASE i.kind \in {"BLX_THUMB32", "BL_THUMB32"}
  <2>1. \E v : EmitThumb32(i, pc) = link \o ThumbJump(v)
    <3>1. CASE i.kind = "BLX_THUMB32"
      <4> DEFINE same == [kind |-> "BLX_THUMB32", label |-> i.label]
      <4>1. EmitThumb32(i, pc) = EmitThumb32(same, pc)
        BY ONLY <3>1 DEF EmitThumb32
      <4>2. EmitThumb32(same, pc) = link \o ThumbJump(Place(label, FALSE))
        BY ONLY TRUE DEF EmitThumb32
      <4> HIDE DEF link, same
      <4> QED BY ONLY <4>1, <4>2
    <3>2. CASE i.kind = "BL_THUMB32"
      <4> DEFINE same == [kind |-> "BL_THUMB32", label |-> i.label]
      <4>1. EmitThumb32(i, pc) = EmitThumb32(same, pc)
        BY ONLY <3>2 DEF EmitThumb32
      <4>2. EmitThumb32(same, pc) = link \o ThumbJump(Place(label, TRUE))
        BY ONLY TRUE DEF EmitThumb32
      <4> HIDE DEF link, same
      <4> QED BY ONLY <4>1, <4>2
    <3> QED BY <1>1, <3>1, <3>2
  <2>2. IsRun(link)
    OBVIOUS
  <2> HIDE DEF link
  <2> QED BY <2>1, <2>2
<1>2. CASE i.kind = "B1_THUMB32"
  <2>1. EmitThumb32(i, pc) = Conditional(ThumbJump(Place(label, TRUE)))
    BY ONLY <1>2 DEF EmitThumb32
  <2> QED BY <2>1
<1>3. CASE i.kind = "B2_THUMB32"
  <2>1. EmitThumb32(i, pc) = ThumbJump(Place(label, TRUE))
    BY ONLY <1>3 DEF EmitThumb32
  <2> QED BY <2>1
<1>4. CASE i.kind = "LDR_THUMB32"
  <2> DEFINE a == <<Op("ldr", 2), Op("wide", 0)>> \o Lone("nop")
             b == a \o <<Op("skip", 1)>>
  <2>1. EmitThumb32(i, pc) = b \o Literal(label)
    BY ONLY <1>4 DEF EmitThumb32
  <2>2. IsRun(a)
    OBVIOUS
  <2> HIDE DEF a, label
  <2>3. IsRun(b)
    BY <2>2
  <2> HIDE DEF b
  <2> QED BY <2>1, <2>3
<1>5. CASE i.kind = "OTHER_THUMB32"
  <2>1. EmitThumb32(i, pc) = Lone("copy") \o Lone("wide")
    BY ONLY <1>5 DEF EmitThumb32
  <2> QED BY <2>1
<1> QED BY ONLY i.kind \in Thumb32, <1>1, <1>2, <1>3, <1>4, <1>5 DEF Thumb32

\* and in ARM code.
LEMMA ArmRuns ==
  ASSUME NEW i, i.kind \in Arm, NEW pc
  PROVE  IsRun(EmitArm(i, pc))
<1> USE ShortRuns, PartRuns, RunsJoin
<1> DEFINE label == pc + i.label
           link == <<Op("set_lr", 1)>>
<1>1. CASE i.kind \in {"BLX_ARM", "BL_ARM"}
  <2>1. \E v : EmitArm(i, pc) = link \o ArmJump(v)
    <3>1. CASE i.kind = "BLX_ARM"
      <4> DEFINE same == [kind |-> "BLX_ARM", label |-> i.label]
      <4>1. EmitArm(i, pc) = EmitArm(same, pc)
        BY ONLY <3>1 DEF EmitArm
      <4>2. EmitArm(same, pc) = link \o ArmJump(Place(label, TRUE))
        BY ONLY TRUE DEF EmitArm
      <4> HIDE DEF link, same
      <4> QED BY ONLY <4>1, <4>2
    <3>2. CASE i.kind = "BL_ARM"
      <4> DEFINE same == [kind |-> "BL_ARM", label |-> i.label]
      <4>1. EmitArm(i, pc) = EmitArm(same, pc)
        BY ONLY <3>2 DEF EmitArm
      <4>2. EmitArm(same, pc) = link \o ArmJump(Place(label, FALSE))
        BY ONLY TRUE DEF EmitArm
      <4> HIDE DEF link, same
      <4> QED BY ONLY <4>1, <4>2
    <3> QED BY <1>1, <3>1, <3>2
  <2>2. IsRun(link)
    OBVIOUS
  <2> HIDE DEF link
  <2> QED BY <2>1, <2>2
<1>2. CASE i.kind = "B_ARM"
  <2>1. EmitArm(i, pc) = ArmJump(Place(label, FALSE))
    BY ONLY <1>2 DEF EmitArm
  <2> QED BY <2>1
<1>3. CASE i.kind = "BX_ARM"
  <2>1. EmitArm(i, pc) = ArmJump(Place(pc, FALSE))
    BY ONLY <1>3 DEF EmitArm
  <2> QED BY <2>1
<1>4. CASE i.kind = "ADD_ARM"
  <2> DEFINE a == Lone("push") \o <<Op("ldr", 2)>>
             b == a \o Lone("copy")
             c == b \o Lone("pop")
  <2>1. EmitArm(i, pc) = c \o <<Op("skip", 0), Op("word", pc)>>
    BY ONLY <1>4 DEF EmitArm
  <2>2. IsRun(a)
    OBVIOUS
  <2> HIDE DEF a
  <2>3. IsRun(b)
    BY <2>2
  <2> HIDE DEF b
  <2>4. IsRun(c)
    BY <2>3
  <2> HIDE DEF c
  <2> QED BY <2>1, <2>4
<1>5. CASE i.kind \in {"ADR_ARM", "MOV_ARM", "LDR_ARM"}
  <2>1. \E v : EmitArm(i, pc) = <<Op("ldr", 0), Op("skip", 0), Op("word", v)>>
    <3>1. CASE i.kind = "ADR_ARM"
      BY ONLY <3>1 DEF EmitArm
    <3>2. CASE i.kind = "MOV_ARM"
      BY ONLY <3>2 DEF EmitArm
    <3>3. CASE i.kind = "LDR_ARM"
      BY ONLY <3>3 DEF EmitArm
    <3> QED BY <1>5, <3>1, <3>2, <3>3
  <2> QED BY <2>1
<1>6. CASE i.kind = "OTHER_ARM"
  <2>1. EmitArm(i, pc) = Lone("copy")
    BY ONLY <1>6 DEF EmitArm
  <2> QED BY <2>1
<1> QED BY ONLY i.kind \in Arm, <1>1, <1>2, <1>3, <1>4, <1>5, <1>6 DEF Arm

LEMMA EmitRuns ==
  ASSUME NEW i, i.kind \in Thumb16 \cup Thumb32 \cup Arm, NEW pc
  PROVE  IsRun(Emit(i, pc))
BY ThumbRuns, WideRuns, ArmRuns DEF Emit

\* The instructions that are relocated and those that are recorded are the first ones;
\* at most one is recorded without being relocated.
LEMMA Windows ==
  ASSUME NEW t \in Targets
  PROVE  LET c == CodeOf[t]  n == Len(c.instrs) IN
         /\ Last(t) \in 0..n /\ Count(t) \in 0..n
         /\ \A i \in 1..n : i <= Last(t) <=> Start(c)[i + 1] <= Length(c)
         /\ \A i \in 1..n : i <= Count(t) <=> Start(c)[i] < Length(c)
         /\ Last(t) <= Count(t) /\ Count(t) <= Last(t) + 1
<1> DEFINE c == CodeOf[t]
           n == Len(c.instrs)
           f == Start(c)
           l == Length(c)
           P == {i \in 1..n : f[i + 1] <= l}
           Q == {i \in 1..n : f[i] < l}
<1>1. /\ n \in Nat /\ f \in [1..n + 1 -> Nat]
      /\ \A i, j \in 1..n + 1 : i < j => f[i] < f[j]
      /\ l \in Nat
  BY Instructions, Starts DEF Length
<1>2. Last(t) = Cardinality(P) /\ Count(t) = Cardinality(Q)
  BY DEF Last, Count, Relocated, Recorded
<1> HIDE DEF n, f, l
<1>3. ASSUME NEW i \in 1..n
      PROVE  i \in 1..n + 1 /\ i + 1 \in 1..n + 1 /\ f[i] \in Nat /\ f[i + 1] \in Nat
  BY <1>1
<1>4. \A i \in P, j \in 1..n : j < i => j \in P
  BY <1>1, <1>3
<1>5. \A i \in Q, j \in 1..n : j < i => j \in Q
  BY <1>1, <1>3
<1>6. P \in SUBSET (1..n) /\ Q \in SUBSET (1..n)
  OBVIOUS
<1>7. /\ Last(t) \in 0..n /\ P = 1..Last(t)
      /\ Count(t) \in 0..n /\ Q = 1..Count(t)
  <2> HIDE DEF P, Q
  <2> QED BY <1>1, <1>2, <1>4, <1>5, <1>6, Prefix
<1>8. \A i \in 1..n : (i <= Last(t) <=> f[i + 1] <= l) /\ (i <= Count(t) <=> f[i] < l)
  <2> SUFFICES ASSUME NEW i \in 1..n
               PROVE  (i <= Last(t) <=> f[i + 1] <= l) /\ (i <= Count(t) <=> f[i] < l)
    OBVIOUS
  <2>1. (i \in P <=> f[i + 1] <= l) /\ (i \in Q <=> f[i] < l)
    OBVIOUS
  <2>2. (i <= Last(t) <=> i \in 1..Last(t)) /\ (i <= Count(t) <=> i \in 1..Count(t))
    BY <1>1, <1>7
  <2> HIDE DEF P, Q
  <2> QED BY <1>7, <2>1, <2>2
<1>9. Last(t) <= Count(t)
  <2>1. CASE Last(t) = 0
    BY <1>7, <2>1
  <2>2. CASE Last(t) # 0
    <3>1. Last(t) \in 1..n
      BY <1>1, <1>7, <2>2
    <3>2. f[Last(t) + 1] <= l /\ f[Last(t)] < f[Last(t) + 1]
      BY <1>1, <1>3, <1>8, <3>1
    <3> QED BY <1>1, <1>3, <1>8, <3>1, <3>2
  <2> QED BY <2>1, <2>2
<1>10. Count(t) <= Last(t) + 1
  <2> SUFFICES ASSUME Count(t) > Last(t) + 1 PROVE FALSE
    BY <1>1, <1>7
  <2>1. Last(t) + 1 \in 1..n /\ Last(t) + 2 \in 1..n /\ (Last(t) + 1) + 1 = Last(t) + 2
    BY <1>1, <1>7
  <2>2. Last(t) + 2 <= Count(t)
    BY <1>1, <1>7
  <2>3. f[Last(t) + 2] < l
    BY <1>8, <2>1, <2>2
  <2>4. f[Last(t) + 2] \in Nat /\ ~(Last(t) + 1 <= Last(t))
    BY <1>3, <1>7, <2>1
  <2>5. ~(f[(Last(t) + 1) + 1] <= l)
    BY <1>8, <2>1, <2>4
  <2> QED BY <1>1, <2>1, <2>3, <2>4, <2>5
<1> QED BY <1>7, <1>8, <1>9, <1>10 DEF n, f, l

\* Where the relocated instructions are in the trampoline.
LEMMA Ats ==
  ASSUME NEW t \in Targets
  PROVE  LET c == CodeOf[t] IN
         /\ At(c) \in [1..Last(t) + 1 -> Nat] /\ At(c)[1] = 0
         /\ \A i \in 1..Last(t) : /\ Len(Emitted(c, i)) \in Nat \ {0}
                                  /\ At(c)[i + 1] = At(c)[i] + Len(Emitted(c, i))
         /\ \A i, j \in 1..Last(t) + 1 : i < j => At(c)[i] < At(c)[j]
<1> DEFINE c == CodeOf[t]
           n == Last(t)
           w == [i \in 1..n |-> Len(Emitted(c, i))]
           Is(f) == f = [i \in 1..n + 1 |->
                           IF i = 1 THEN 0 ELSE f[i - 1] + Len(Emitted(c, i - 1))]
<1>1. n \in Nat
  BY Windows, Instructions
<1>2. ASSUME NEW i \in 1..n
      PROVE  Len(Emitted(c, i)) \in Nat /\ Len(Emitted(c, i)) > 0
  <2>1. i \in 1..Len(c.instrs) /\ i \in 1..Len(c.instrs) + 1
    BY Windows, Instructions
  <2>2. c.instrs[i].kind \in Thumb16 \cup Thumb32 \cup Arm
    BY <2>1, Instructions
  <2>3. IsRun(Emitted(c, i))
    BY <2>2, EmitRuns DEF Emitted
  <2> QED BY <2>3 DEF IsRun
<1>3. w \in [1..n -> Nat] /\ \A i \in 1..n : w[i] = Len(Emitted(c, i)) /\ w[i] > 0
  BY <1>2
<1>4. At(c) = CHOOSE f : Is(f)
  BY DEF At, Last
<1> HIDE DEF n, w
<1>5. PICK g \in [1..n + 1 -> Nat] : Sums(g, n, w)
  BY <1>1, <1>3, SumsExist
<1>6. Is(g)
  <2>1. ASSUME NEW i \in 1..n + 1, i # 1 PROVE g[i] = g[i - 1] + Len(Emitted(c, i - 1))
    <3>1. i - 1 \in 1..n /\ (i - 1) + 1 = i
      BY <1>1, <2>1
    <3> QED BY <1>3, <1>5, <3>1 DEF Sums
  <2> QED BY <1>5, <2>1 DEF Sums
<1>7. Is(At(c))
  <2> HIDE DEF Is
  <2> QED BY <1>4, <1>6
<1> DEFINE f == At(c)
<1>8. DOMAIN f = 1..n + 1 /\ f[1] = 0 /\ \A i \in 1..n : f[i + 1] = f[i] + w[i]
  <2>1. ASSUME NEW i \in 1..n PROVE f[i + 1] = f[i] + w[i]
    <3>1. i + 1 \in 1..n + 1 /\ i + 1 # 1 /\ (i + 1) - 1 = i
      BY <1>1, <2>1
    <3> QED BY <1>3, <1>7, <3>1
  <2>2. 1 \in 1..n + 1
    BY <1>1
  <2>3. f[1] = 0
    BY <1>7, <2>2
  <2>4. DOMAIN f = 1..n + 1
    BY <1>7
  <2> QED BY <2>1, <2>3, <2>4
<1>9. \A i \in 1..n + 1 : f[i] = g[i]
  <2> HIDE DEF f
  <2>1. Sums(f, n, w)
    BY <1>8 DEF Sums
  <2> QED BY <1>1, <1>5, <2>1, SumsSame
<1>10. f = [i \in 1..n + 1 |-> f[i]]
  BY <1>7
<1> HIDE DEF f
<1>11. f \in [1..n + 1 -> Nat]
  BY <1>9, <1>10
<1>12. ASSUME NEW i \in 1..n PROVE f[i] < f[i + 1]
  <2>1. w[i] \in Nat /\ w[i] > 0 /\ i \in 1..n + 1 /\ f[i] \in Nat
    BY <1>1, <1>3, <1>11
  <2> QED BY <1>8, <2>1
<1>13. \A i, j \in 1..n + 1 : i < j => f[i] < f[j]
  BY <1>1, <1>11, <1>12, Rises
<1> QED BY <1>2, <1>3, <1>8, <1>11, <1>13 DEF f, n

\* Offsets of cells are in the order of the cells.
LEMMA Offsets ==
  ASSUME NEW t \in Targets, NEW a \in Nat, NEW b \in Nat
  PROVE  /\ Cell(t) * a \in Nat
         /\ a < b <=> Cell(t) * a < Cell(t) * b
         /\ Cell(t) * a = Cell(t) * b <=> a = b
         /\ Cell(t) * 0 = 0
         /\ Cell(t) * (a + b) = Cell(t) * a + Cell(t) * b
<1>1. Cell(t) \in {2, 4}
  BY DEF Cell
<1>2. CASE Cell(t) = 2
  BY <1>2
<1>3. CASE Cell(t) = 4
  BY <1>3
<1> QED BY <1>1, <1>2, <1>3

\* The boundaries are in order in the function and in the trampoline; what is behind the
\* first instruction of a relocated sequence lies between two of them; the first
\* instruction that stays in the function is behind the jump.
LEMMA Layout ==
  ASSUME NEW t \in Targets
  PROVE  LET L == Last(t) IN
         /\ L \in Nat /\ Count(t) \in Nat /\ L <= Count(t) /\ Count(t) <= L + 1
         /\ \A i \in 1..L + 1 : OrigOff(t, i) \in Nat /\ TrampOff(t, i) \in Nat
         /\ OrigOff(t, 1) = 0 /\ TrampOff(t, 1) = 0
         /\ \A i, j \in 1..L + 1 : OrigOff(t, i) = OrigOff(t, j) => i = j
         /\ \A i, j \in 1..L + 1 : TrampOff(t, i) = TrampOff(t, j) => i = j
         /\ \A i \in 1..L, j \in 1..L + 1 : MidOff(t, i) # 0 => MidOff(t, i) # TrampOff(t, j)
         /\ \A i, j \in 1..L : MidOff(t, i) # 0 /\ MidOff(t, i) = MidOff(t, j) => i = j
         /\ ~Patched(t, OrigOff(t, L + 1))
         /\ \A i \in 1..L : Patched(t, OrigOff(t, i + 1)) => Patched(t, OrigOff(t, i))
<1> DEFINE c == CodeOf[t]
           n == Len(c.instrs)
           L == Last(t)
           f == Start(c)
           g == At(c)
           Off(a) == Cell(t) * a
<1>0. /\ \A a \in Nat : Off(a) \in Nat
      /\ \A a, b \in Nat : (a < b <=> Off(a) < Off(b)) /\ (Off(a) = Off(b) <=> a = b)
      /\ \A a, b \in Nat : Off(a + b) = Off(a) + Off(b)
      /\ Off(0) = 0
  BY Offsets
<1>1. /\ n \in Nat /\ L \in 0..n /\ Count(t) \in 0..n /\ L <= Count(t) /\ Count(t) <= L + 1
      /\ \A i \in 1..n : i <= L <=> f[i + 1] <= Length(c)
  BY Instructions, Windows
<1>2. /\ f \in [1..n + 1 -> Nat] /\ f[1] = 0
      /\ \A i \in 1..n : f[i + 1] = f[i] + Width(c.instrs[i].kind)
      /\ \A i, j \in 1..n + 1 : i < j => f[i] < f[j]
  BY Starts
<1>3. /\ g \in [1..L + 1 -> Nat] /\ g[1] = 0
      /\ \A i \in 1..L : Len(Emitted(c, i)) \in Nat \ {0} /\ g[i + 1] = g[i] + Len(Emitted(c, i))
      /\ \A i, j \in 1..L + 1 : i < j => g[i] < g[j]
  BY Ats
<1>4. \A i : OrigOff(t, i) = Off(f[i]) /\ TrampOff(t, i) = Off(g[i])
  BY DEF OrigOff, TrampOff
<1>5. \A a \in Nat : Patched(t, Off(a)) <=> a < PatchLength(c)
  <2>1. PatchLength(c) \in Nat
    BY DEF PatchLength
  <2> QED BY <2>1, <1>0 DEF Patched
<1> HIDE DEF Off
<1>6. PatchLength(c) <= f[L + 1]
  <2>1. L + 1 \in 1..n + 1 /\ f[L + 1] \in Nat
    BY <1>1, <1>2
  <2>2. CASE L = n
    <3>1. Length(c) <= f[L + 1]
      BY <2>2, CodeAssumption
    <3> QED BY <2>1, <3>1 DEF Length, PatchLength
  <2>3. CASE L # n
    <3>1. L + 1 \in 1..n /\ ~(L + 1 <= L)
      BY <1>1, <2>3
    <3>2. ~(f[(L + 1) + 1] <= Length(c))
      BY <1>1, <3>1
    <3>3. f[(L + 1) + 1] = f[L + 1] + Width(c.instrs[L + 1].kind)
      BY <1>2, <3>1
    <3>4. /\ Width(c.instrs[L + 1].kind) \in {1, 2}
          /\ ~c.thumb => Width(c.instrs[L + 1].kind) = 1
      BY <3>1, Instructions
    <3> QED BY <2>1, <3>2, <3>3, <3>4 DEF Length, PatchLength
  <2> QED BY <2>2, <2>3
<1>7. ASSUME NEW i \in 1..L
      PROVE  MidOff(t, i) # 0 => \E a \in Nat : MidOff(t, i) = Off(a) /\ g[i] < a /\ a < g[i + 1]
  <2> DEFINE cells == Emitted(c, i)
             first == IF Len(cells) > 1 /\ cells[2].op = "wide" THEN 2 ELSE 1
  <2>1. MidOff(t, i) = IF Len(cells) = first THEN 0 ELSE TrampOff(t, i) + Off(first)
    BY DEF MidOff, Off
  <2>0. i \in 1..L + 1 /\ g[i] \in Nat
    <3>1. i \in 1..L + 1
      BY <1>1
    <3> QED BY <1>3, <3>1
  <2>2. /\ Len(cells) \in Nat \ {0} /\ first \in {1, 2}
        /\ g[i] \in Nat /\ g[i + 1] = g[i] + Len(cells)
        /\ Len(cells) = 1 => first = 1
    BY <1>3, <2>0
  <2>3. first <= Len(cells)
    BY <2>2
  <2> HIDE DEF cells, first
  <2>4. CASE Len(cells) # first
    <3>1. MidOff(t, i) = Off(g[i]) + Off(first)
      BY <1>4, <2>1, <2>4
    <3>2. MidOff(t, i) = Off(g[i] + first)
      <4>1. first \in Nat /\ g[i] \in Nat
        BY <2>2
      <4>2. Off(g[i] + first) = Off(g[i]) + Off(first)
        BY <1>0, <4>1
      <4> QED BY <3>1, <4>2
    <3>3. g[i] + first \in Nat /\ g[i] < g[i] + first /\ g[i] + first < g[i + 1]
      BY <2>2, <2>3, <2>4
    <3> QED BY <3>2, <3>3
  <2> QED BY <2>1, <2>4
<1>8. /\ L \in Nat /\ Count(t) \in Nat
      /\ \A i \in 1..L + 1 : i \in 1..n + 1 /\ f[i] \in Nat /\ g[i] \in Nat
      /\ 1 \in 1..L + 1 /\ L + 1 \in 1..L + 1
      /\ \A i \in 1..L : i \in 1..L + 1 /\ i + 1 \in 1..L + 1
  <2>1. L \in Nat /\ Count(t) \in Nat /\ n \in Nat /\ L <= n
    BY <1>1
  <2>2. \A i \in 1..L + 1 : i \in 1..n + 1
    BY <2>1
  <2> HIDE DEF L, n, f, g
  <2>3. \A i \in 1..L + 1 : f[i] \in Nat
    BY <1>2, <2>2
  <2>4. \A i \in 1..L + 1 : g[i] \in Nat
    BY <1>3
  <2>5. 1 \in 1..L + 1 /\ L + 1 \in 1..L + 1
        /\ \A i \in 1..L : i \in 1..L + 1 /\ i + 1 \in 1..L + 1
    BY <2>1
  <2> QED BY <2>1, <2>2, <2>3, <2>4, <2>5
<1>9. \A i, j \in 1..L + 1 : (i < j => f[i] < f[j]) /\ (i < j => g[i] < g[j])
  BY <1>2, <1>3, <1>8
<1> HIDE DEF f, g, n, L, c
<1>10. ASSUME NEW i \in 1..L + 1 PROVE OrigOff(t, i) \in Nat /\ TrampOff(t, i) \in Nat
  <2>1. OrigOff(t, i) = Off(f[i]) /\ TrampOff(t, i) = Off(g[i])
    BY <1>4
  <2>2. f[i] \in Nat /\ g[i] \in Nat
    BY <1>8
  <2> QED BY <1>0, <2>1, <2>2
<1>11. OrigOff(t, 1) = 0 /\ TrampOff(t, 1) = 0
  BY <1>2, <1>3, <1>4, <1>0
<1>12. ASSUME NEW i \in 1..L + 1, NEW j \in 1..L + 1
       PROVE  /\ OrigOff(t, i) = OrigOff(t, j) => i = j
              /\ TrampOff(t, i) = TrampOff(t, j) => i = j
  <2>1. (f[i] = f[j] => i = j) /\ (g[i] = g[j] => i = j)
    BY <1>8, <1>9
  <2>2. /\ OrigOff(t, i) = Off(f[i]) /\ TrampOff(t, i) = Off(g[i])
        /\ OrigOff(t, j) = Off(f[j]) /\ TrampOff(t, j) = Off(g[j])
    BY <1>4
  <2>3. f[i] \in Nat /\ g[i] \in Nat /\ f[j] \in Nat /\ g[j] \in Nat
    BY <1>8
  <2>4. (Off(f[i]) = Off(f[j]) => f[i] = f[j]) /\ (Off(g[i]) = Off(g[j]) => g[i] = g[j])
    <3>1. \A a, b \in Nat : Off(a) = Off(b) => a = b
      BY <1>0
    <3> QED BY ONLY <2>3, <3>1
  <2> QED BY ONLY <2>1, <2>2, <2>4
<1>13. ASSUME NEW i \in 1..L, NEW j \in 1..L + 1, MidOff(t, i) # 0
       PROVE  MidOff(t, i) # TrampOff(t, j)
  <2>1. PICK a \in Nat : MidOff(t, i) = Off(a) /\ g[i] < a /\ a < g[i + 1]
    BY <1>7, <1>13
  <2>2. i < j => i + 1 = j \/ i + 1 < j
    BY <1>8
  <2>3. a # g[j]
    BY <1>8, <1>9, <2>1, <2>2
  <2> QED BY <1>4, <1>8, <2>1, <2>3, <1>0
<1>14. ASSUME NEW i \in 1..L, NEW j \in 1..L, MidOff(t, i) # 0, MidOff(t, i) = MidOff(t, j)
       PROVE  i = j
  <2>1. PICK a \in Nat : MidOff(t, i) = Off(a) /\ g[i] < a /\ a < g[i + 1]
    BY <1>7, <1>14
  <2>2. PICK b \in Nat : MidOff(t, j) = Off(b) /\ g[j] < b /\ b < g[j + 1]
    BY <1>7, <1>14
  <2>3. a = b
    BY <1>14, <2>1, <2>2, <1>0
  <2>4. (i < j => i + 1 = j \/ i + 1 < j) /\ (j < i => j + 1 = i \/ j + 1 < i)
    BY <1>8
  <2> QED BY <1>8, <1>9, <2>1, <2>2, <2>3, <2>4
<1>15. ~Patched(t, OrigOff(t, L + 1))
  <2>1. PatchLength(c) \in Nat /\ f[L + 1] \in Nat /\ ~(f[L + 1] < PatchLength(c))
    BY <1>6, <1>8 DEF PatchLength
  <2> QED BY <1>4, <1>5, <2>1
<1>16. ASSUME NEW i \in 1..L, Patched(t, OrigOff(t, i + 1)) PROVE Patched(t, OrigOff(t, i))
  <2>1. i < i + 1 /\ f[i] < f[i + 1] /\ f[i] \in Nat /\ f[i + 1] \in Nat /\ PatchLength(c) \in Nat
    BY <1>8, <1>9 DEF PatchLength
  <2> QED BY <1>4, <1>5, <1>16, <2>1
<1> QED BY <1>1, <1>8, <1>10, <1>11, <1>12, <1>13, <1>14, <1>15, <1>16 DEF L

-----------------------------------------------------------------------------
(* Following the threads: what the steps of an operation do to it.          *)

WorkStep ==
  \/ StoreProto \/ PatchFirst \/ PatchRest \/ MarkHooked
  \/ RestoreFirst \/ RestoreRest \/ Unmap \/ Delete

\* The steps on one item move no thread, and go on with the item or are done with it.
LEMMA WorkOp ==
  ASSUME TableInv, WorkStep
  PROVE  /\ op.pc \in HookPcs \cup UnhookPcs /\ op' \in OpType
         /\ op'.name = op.name /\ op'.all = op.all /\ op'.tids = op.tids /\ op'.pid = op.pid
         /\ thread' = thread /\ frozen' = frozen
         /\ \/ op'.pc \in HookPcs \cup UnhookPcs /\ op'.i = op.i
            \/ op'.pc = "loop" /\ op.all
            \/ op'.pc = "thaw" /\ ~op.all
<1>0. op.pc \in HookPcs \cup UnhookPcs /\ thread' = thread /\ frozen' = frozen
  BY DEF WorkStep, StoreProto, PatchFirst, PatchRest, MarkHooked, RestoreFirst, RestoreRest,
         Unmap, Delete, Goto, HookPcs, UnhookPcs
<1>1. op \in OpType /\ op.i \in Nat
  BY <1>0, AtItem DEF OpType
<1>2. CASE MarkHooked \/ Delete
  <2>1. PICK i \in Nat : op' = Done(i)
    BY <1>1, <1>2 DEF MarkHooked, Delete
  <2>2. op' \in OpType
    BY <1>1, <2>1, DoneOp
  <2>3. CASE op.all
    BY <1>0, <1>1, <2>1, <2>2, <2>3 DEF Done, OpType
  <2>4. CASE ~op.all
    BY <1>0, <1>1, <2>1, <2>2, <2>4 DEF Done, OpType
  <2> QED BY <2>3, <2>4
<1>3. ASSUME NEW from, NEW to \in HookPcs \cup UnhookPcs, Goto(from, to)
      PROVE  /\ op' \in OpType /\ op'.pc = to /\ op'.i = op.i /\ op'.name = op.name
             /\ op'.all = op.all /\ op'.tids = op.tids /\ op'.pid = op.pid
  BY <1>1, <1>3 DEF Goto, OpType, Pcs, HookPcs, UnhookPcs
<1>4. CASE StoreProto \/ PatchFirst \/ PatchRest \/ RestoreFirst \/ RestoreRest \/ Unmap
  <2>1. \E from, to : to \in HookPcs \cup UnhookPcs /\ Goto(from, to)
    BY <1>4 DEF StoreProto, PatchFirst, PatchRest, RestoreFirst, RestoreRest, Unmap,
                HookPcs, UnhookPcs
  <2> QED BY <1>0, <1>3, <2>1
<1> QED BY <1>2, <1>4 DEF WorkStep

\* The steps of an operation, sorted.
LEMMA OperationSteps ==
  ASSUME Operation
  PROVE  \/ Fork \/ ForkFails \/ Frozen \/ Return \/ Loop \/ WorkStep
         \/ \E x \in Threads : Attach(x) \/ AttachFails(x) \/ Detach(x)
BY DEF Operation, WorkStep

\* No fault is ever forgotten.
LEMMA FaultsGrow == [Next]_vars => faults \subseteq faults'
<1> SUFFICES ASSUME [Next]_vars PROVE faults \subseteq faults'
  OBVIOUS
<1>1. CASE Call
  BY <1>1 DEF Call, Register, InlineHook, InlineUnHook, InlineHookAll, InlineUnHookAll, Begin,
              Fault
<1>2. CASE Operation
  BY <1>2 DEF Operation, Fork, ForkFails, Frozen, Return, Loop, Attach, AttachFails, Detach,
              StoreProto, PatchFirst, PatchRest, MarkHooked, RestoreFirst, RestoreRest, Unmap,
              Delete, Fault
<1>3. ASSUME NEW x \in Threads, Run(x) PROVE faults' = faults
  BY <1>3 DEF Run, Enter, FetchOrig, FetchHook, FetchTorn, FetchPage, Proxy,
              ReturnFromCallee, TakeHeap, DropHeap, Execute, Crash, Goes
<1>4. CASE UNCHANGED vars
  BY <1>4 DEF vars
<1> QED BY <1>1, <1>2, <1>3, <1>4 DEF Next

\* Calls start with the control point alone, and change neither code nor *proto_addr.
LEMMA CallSteps ==
  ASSUME Call
  PROVE  /\ op.pc = "idle" /\ UNCHANGED <<code, proto, frozen>>
         /\ \/ \E t \in Targets : Register(t)
            \/ /\ op'.pc = "freeze" /\ op'.tids = {} /\ op'.pid = FALSE
               /\ UNCHANGED <<item, size, page>>
               /\ thread' = thread \/ \E S : Forgive(S)
BY DEF Call, Register, InlineHook, InlineUnHook, InlineHookAll, InlineUnHookAll, Begin,
       Idling, Idle, tableVars

\* Whatever else is the case, the other threads leave this alone.
LEMMA RunSteps ==
  ASSUME NEW x, Run(x)
  PROVE  x \notin frozen /\ frozen' = frozen
BY DEF Run, Enter, FetchOrig, FetchHook, FetchTorn, FetchPage, Proxy,
       ReturnFromCallee, TakeHeap, DropHeap, Execute, Crash, Goes

\* All threads stand still while the code is changed, if all could be stopped.
LEMMA FrozenKept ==
  ASSUME TableInv, FrozenInv, Stoppable', [Next]_vars
  PROVE  FrozenInv'
<1>0. op \in OpType
  BY DEF TableInv, TableTypes, OpType
<1>1. CASE Call
  <2>1. CASE \E t \in Targets : Register(t)
    BY <2>1 DEF Register, FrozenInv
  <2> QED BY <1>1, <2>1, CallSteps DEF FrozenInv, StillPcs, HookPcs, UnhookPcs
<1>2. CASE \E x \in Threads : Run(x)
  BY <1>2, RunSteps, RunKeeps DEF FrozenInv
<1>3. CASE UNCHANGED vars
  BY <1>3 DEF vars, FrozenInv
<1>4. CASE WorkStep
  <2>1. op.pc \in StillPcs
    BY <1>4, WorkOp DEF StillPcs
  <2> QED BY <1>4, <2>1, WorkOp DEF FrozenInv, StillPcs, HookPcs, UnhookPcs
<1>5. CASE Fork
  <2>1. op' = [op EXCEPT !.pc = "attach", !.tids = Threads, !.pid = TRUE] /\ op.pc = "freeze"
        /\ frozen' = frozen
    BY <1>5 DEF Fork
  <2>2. op'.pc = "attach" /\ op'.tids = Threads /\ op'.pid = TRUE
    BY <1>0, <2>1 DEF OpType
  <2> QED BY <2>1, <2>2 DEF FrozenInv, StillPcs, HookPcs, UnhookPcs
<1>6. ~ForkFails /\ \A x : ~AttachFails(x)
  BY DEF ForkFails, AttachFails, Fault, Stoppable
<1>7. CASE Frozen
  <2>1. op' = [op EXCEPT !.pc = "loop"] /\ op.pc = "attach" /\ op.tids = {}
        /\ frozen' = frozen
    BY <1>7 DEF Frozen
  <2>2. op'.pc = "loop" /\ op'.tids = {} /\ op'.pid = op.pid
    BY <1>0, <2>1 DEF OpType
  <2> QED BY <2>1, <2>2 DEF FrozenInv, StillPcs, HookPcs, UnhookPcs
<1>8. CASE Return
  BY <1>8 DEF Return, Idle, FrozenInv, StillPcs, HookPcs, UnhookPcs
<1>9. CASE Loop
  <2>1. op.pc = "loop" /\ frozen' = frozen
    BY <1>9 DEF Loop
  <2>2. /\ op'.pc \in StillPcs \cup {"thaw"} /\ op'.tids = op.tids /\ op'.pid = op.pid
    <3>1. CASE Ahead = {}
      BY <1>0, <1>9, <3>1 DEF Loop, OpType
    <3>2. CASE Ahead # {}
      <4>1. op' = [op EXCEPT !.pc = IF op.name = "hook" THEN "proto" ELSE "restore",
                             !.i = Smallest(Ahead)]
        BY <1>9, <3>2 DEF Loop
      <4> QED BY <1>0, <4>1 DEF OpType, StillPcs, HookPcs, UnhookPcs
    <3> QED BY <3>1, <3>2
  <2> QED BY <2>1, <2>2 DEF FrozenInv, StillPcs, HookPcs, UnhookPcs
<1>10. ASSUME NEW x \in Threads, Attach(x) PROVE FrozenInv'
  <2>1. /\ op.pc = "attach" /\ x \in op.tids /\ op' = [op EXCEPT !.tids = @ \ {x}]
        /\ frozen' = frozen \cup {x}
    BY <1>10 DEF Attach
  <2>2. op'.pc = "attach" /\ op'.tids = op.tids \ {x} /\ op'.pid = op.pid
    BY <1>0, <2>1 DEF OpType
  <2> QED BY <2>1, <2>2 DEF FrozenInv, StillPcs, HookPcs, UnhookPcs
<1>11. ASSUME NEW x \in Threads, Detach(x) PROVE FrozenInv'
  BY <1>11 DEF Detach, FrozenInv, StillPcs, HookPcs, UnhookPcs
<1> QED BY <1>1, <1>2, <1>3, <1>4, <1>5, <1>6, <1>7, <1>8, <1>9, <1>10, <1>11, OperationSteps
        DEF Next

\* The boundaries of a place that is used for the first time are those of its target.
LEMMA BoundsKept ==
  ASSUME TableInv, BoundsInv, Stoppable', [Next]_vars
  PROVE  BoundsInv'
<1>0. Items = 1..size /\ size \in 0..MaxItems /\ Items \in SUBSET (1..MaxItems)
  BY BoundsAssumption DEF Items, TableInv, TableTypes
<1>1. CASE UNCHANGED <<item, size>>
  BY <1>1 DEF BoundsInv, Items
<1>2. ASSUME NEW t \in Targets, Register(t) PROVE BoundsInv'
  <2> DEFINE n == size + 1
             b == item[n].bounds
             r == item'[n]
  <2>1. /\ size' = size + 1 /\ n \in 1..MaxItems
        /\ \E p \in Pages :
             item' = [item EXCEPT ![n] =
                        [target |-> t, status |-> "REGISTERED", page |-> p,
                         count |-> item[n].count + Count(t),
                         bounds |-> Record(b, item[n].count, t)]]
        /\ item[n].count = 0 /\ item[n].count + Count(t) <= OrigRoom
    <3>1. size + 1 \in 1..MaxItems
      <4>1. size < MaxItems
        BY <1>2 DEF Register
      <4> QED BY <1>0, <4>1, BoundsAssumption
    <3>2. "reuse" \notin faults' /\ "overflow" \notin faults'
      BY DEF Stoppable
    <3>3. item[n].count = 0 /\ ~(item[n].count + Count(t) > OrigRoom)
      BY <1>2, <3>2 DEF Register, Fault, FaultIf
    <3>4. Count(t) \in Nat
      BY Layout
    <3>5. item[n].count + Count(t) <= OrigRoom
      BY <3>3, <3>4 DEF OrigRoom
    <3> QED BY <1>2, <3>1, <3>3, <3>5 DEF Register
  <2>2. Count(t) \in Nat /\ Count(t) <= 4
    BY <2>1, Layout DEF OrigRoom
  <2>3. r.target = t /\ r.count = Count(t) /\ r.bounds = Record(b, 0, t)
        /\ \A i \in 1..MaxItems : i # n => item'[i] = item[i]
    BY <2>1, <2>2 DEF TableInv, TableTypes
  <2>4. DOMAIN b = 0..23 /\ DOMAIN r.bounds = 0..23
    BY <2>1, <2>3 DEF BoundsInv, Record, OrigRoom, TrampRoom
  <2>5. ASSUME NEW k \in 0..Count(t) - 1
        PROVE  r.bounds[k] = OrigOff(t, k + 1) /\ r.bounds[OrigRoom + k] = TrampBoundary(t, k + 1)
    <3>1. k \in 0..23 /\ 4 + k \in 0..23 /\ k - 0 \in 0..Count(t) - 1 /\ k - 0 + 1 = k + 1
      BY <2>2
    <3>2. 4 + k - 0 \notin 0..Count(t) - 1 /\ 4 + k - 0 - 4 \in 0..Count(t) - 1
          /\ 4 + k - 0 - 4 + 1 = k + 1
      BY <2>2
    <3> HIDE DEF b, r
    <3>3. r.bounds[k] = OrigOff(t, k - 0 + 1)
      BY <2>3, <2>4, <3>1 DEF Record
    <3>4. r.bounds[4 + k] = TrampBoundary(t, 4 + k - 0 - 4 + 1)
      BY <2>3, <2>4, <3>1, <3>2 DEF Record, OrigRoom
    <3> QED BY <3>1, <3>2, <3>3, <3>4 DEF OrigRoom
  <2>6. Items' = Items \cup {n} /\ n \notin Items
    BY <1>0, <2>1 DEF Items
  <2>7. \A i \in 1..MaxItems : DOMAIN item'[i].bounds = 0..OrigRoom + TrampRoom - 1
    BY <2>3, <2>4 DEF BoundsInv, OrigRoom, TrampRoom
  <2>8. \A i \in Items : item'[i] = item[i]
    BY <1>0, <2>3, <2>6
  <2> HIDE DEF n, b
  <2> QED BY <2>2, <2>3, <2>5, <2>6, <2>7, <2>8 DEF BoundsInv, OrigRoom
<1>3. CASE MarkHooked
  <2>1. op.i \in 1..MaxItems
    BY <1>0, <1>3 DEF MarkHooked, TableInv, OpInv, HookPcs
  <2>2. size' = size /\ DOMAIN item' = 1..MaxItems
        /\ \A i \in 1..MaxItems : /\ item'[i].target = item[i].target
                                  /\ item'[i].count = item[i].count
                                  /\ item'[i].bounds = item[i].bounds
    BY <1>3, <2>1 DEF MarkHooked, TableInv, TableTypes, ItemShape
  <2>3. \A i \in Items : i \in 1..MaxItems
    BY <1>0
  <2> QED BY <2>2, <2>3 DEF BoundsInv, Items
<1>4. CASE Delete
  <2>1. op.i \in Items
    BY <1>4 DEF Delete, TableInv, OpInv, UnhookPcs
  <2>2. size \in Items /\ size' = size - 1
        /\ \A i \in 1..MaxItems : item'[i] = IF i = op.i THEN item[size] ELSE item[i]
    BY <1>0, <1>4, <2>1 DEF Delete, TableInv, TableTypes
  <2>3. \A i \in Items' : i \in Items
    BY <1>0, <2>2 DEF Items
  <2>4. \A i \in 1..MaxItems :
          \E k \in 1..MaxItems : item'[i] = item[k] /\ (i \in Items => k \in Items)
    BY <1>0, <2>1, <2>2
  <2> DEFINE Room(r) == DOMAIN r.bounds = 0..OrigRoom + TrampRoom - 1
             Fits(r) ==
               /\ r.count = Count(r.target) /\ Count(r.target) <= OrigRoom
               /\ \A k \in 0..Count(r.target) - 1 :
                    /\ r.bounds[k] = OrigOff(r.target, k + 1)
                    /\ r.bounds[OrigRoom + k] = TrampBoundary(r.target, k + 1)
  <2>5. (\A i \in 1..MaxItems : Room(item[i])) /\ \A i \in Items : Fits(item[i])
    BY DEF BoundsInv
  <2>6. (\A i \in 1..MaxItems : Room(item'[i])) /\ \A i \in Items' : Fits(item'[i])
    <3> HIDE DEF Room, Fits
    <3> QED BY <1>0, <2>3, <2>4, <2>5
  <2> QED BY <2>6 DEF BoundsInv
<1>5. CASE Call
  BY <1>1, <1>2, <1>5, CallSteps
<1>6. CASE Operation
  <2>1. Operation => MarkHooked \/ Delete \/ UNCHANGED <<item, size>>
    BY DEF Operation, Fork, ForkFails, Frozen, Return, Loop, Attach, AttachFails, Detach,
           StoreProto, PatchFirst, PatchRest, RestoreFirst, RestoreRest, Unmap, tableVars
  <2> QED BY <1>1, <1>3, <1>4, <1>6, <2>1
<1> QED BY <1>1, <1>5, <1>6, RunKeeps DEF Next, vars

\* The flush is for the function that was written to.
LEMMA FlushKept ==
  ASSUME TableInv, FlushInv, Stoppable', [Next]_vars
  PROVE  FlushInv'
<1>0. op \in OpType
  BY DEF TableInv, TableTypes, OpType
<1>1. CASE code' = code /\ op.pc \notin {"patched", "mark", "restored", "unmap", "delete"}
  BY <1>1 DEF FlushInv
<1>2. CASE UNCHANGED <<code, item, op>>
  BY <1>2 DEF FlushInv, Target
<1>3. CASE WorkStep
  <2>1. /\ op.pc \in HookPcs \cup UnhookPcs /\ Target \in Targets
        /\ op.i \in Items /\ op.i \in 1..MaxItems
    BY <1>3, WorkOp, AtItem
  <2>2. ASSUME NEW v \in Versions, Write(Target, v), UNCHANGED item,
               NEW from, NEW to \in {"patched", "mark", "restored", "unmap"}, Goto(from, to)
        PROVE  FlushInv'
    <3>1. op'.pc = to /\ op'.i = op.i
      BY <1>0, <2>2 DEF Goto, OpType
    <3>2. \A t \in Targets : t # Target => code'[t] = code[t]
      BY <2>1, <2>2, WriteCode DEF TableInv
    <3>3. Target' = Target
      BY <2>2, <3>1 DEF Target
    <3> QED BY <2>2, <3>1, <3>2, <3>3 DEF FlushInv
  <2>3. CASE PatchFirst \/ PatchRest \/ RestoreFirst \/ RestoreRest
    <3>1. \E v, from, to : /\ v \in Versions /\ to \in {"patched", "mark", "restored", "unmap"}
                          /\ Write(Target, v) /\ Goto(from, to)
      BY <2>3 DEF PatchFirst, PatchRest, RestoreFirst, RestoreRest, Versions
    <3>2. UNCHANGED item
      BY <2>3 DEF PatchFirst, PatchRest, RestoreFirst, RestoreRest, tableVars
    <3> QED BY <2>2, <3>1, <3>2
  <2>4. CASE MarkHooked \/ Delete
    <3>1. code' = Flush(code, Target)
      <4>1. CASE MarkHooked
        BY <4>1 DEF MarkHooked
      <4>2. CASE Delete
        <5>1. op.i = size
          BY <4>2 DEF Delete, Fault, FaultIf, Stoppable
        <5> QED BY <4>2, <5>1 DEF Delete, Target
      <4> QED BY <2>4, <4>1, <4>2
    <3>2. /\ code'[Target].seen = {code'[Target].mem}
          /\ \A t \in Targets : t # Target => code'[t] = code[t]
      BY <2>1, <3>1 DEF Flush, TableInv, TableTypes
    <3> QED BY <3>2 DEF FlushInv
  <2>5. CASE StoreProto
    BY <1>1, <2>5 DEF StoreProto, Goto
  <2>6. CASE Unmap
    <3>1. code' = code /\ UNCHANGED item /\ op'.pc = "delete" /\ op'.i = op.i
      BY <1>0, <2>6 DEF Unmap, Goto, OpType, tableVars
    <3> QED BY <3>1 DEF FlushInv, Target
  <2> QED BY <1>3, <2>3, <2>4, <2>5, <2>6 DEF WorkStep
<1>4. CASE Call
  BY <1>1, <1>4, CallSteps
<1>5. CASE Fork \/ ForkFails \/ Frozen \/ Return \/ Loop
           \/ \E x \in Threads : Attach(x) \/ AttachFails(x) \/ Detach(x)
  BY <1>1, <1>5 DEF Fork, ForkFails, Frozen, Return, Loop, Attach, AttachFails, Detach
<1> QED BY <1>2, <1>3, <1>4, <1>5, OperationSteps, RunKeeps DEF Next, vars

-----------------------------------------------------------------------------
(* Where the threads are: the operation.                                    *)

\* What is to be shown of a thread after a step.
LEMMA WhereNext ==
  ASSUME NEW x \in Threads, NEW th, thread'[x] = th, PlaceInv(th),
         Deep(th) => code'[th.fn].seen = {"orig"} \/ (Stopped(x)' /\ Leaving(th.fn)'),
         InJump(th) => code'[th.fn].seen = {"hook"} /\ ~(Stopped(x)' /\ Leaving(th.fn)'),
         InPage(th) => page'[th.page] = th.fn,
         th.at = "proxy" => proto'[th.fn] \in Pages /\ page'[proto'[th.fn]] = th.fn,
         Stopped(x)' =>
           \A i \in Concerned' :
             IF op'.name = "hook" THEN th.fn = item'[i].target => ~Deep(th)
             ELSE /\ th.at = "proxy" => th.fn # item'[i].target
                  /\ InPage(th) => th.page # item'[i].page
  PROVE  WhereInv(x)'
BY DEF WhereInv, FindsCode, FindsPage, OutOfTheWay

\* An operation that stays what it is concerns the same items.
LEMMA SameConcerned ==
  ASSUME UNCHANGED <<item, size>>, op'.name = op.name, op'.all = op.all,
         op.all \/ op'.i = op.i
  PROVE  /\ Concerned' = Concerned
         /\ op.pc \notin {"idle", "thaw"} /\ op'.pc \notin {"idle", "thaw"} =>
              \A t : Leaving(t)' <=> Leaving(t)
<1>1. Items' = Items
  BY DEF Items
<1>2. Concerned' = Concerned
  BY <1>1 DEF Concerned
<1> QED BY <1>2 DEF Leaving

\* A step that changes only the control point, or another thread.
LEMMA QuietWhere ==
  ASSUME NEW x \in Threads, WhereInv(x), thread'[x] = thread[x],
         UNCHANGED <<item, size, code, page, proto>>,
         Stopped(x)' <=> Stopped(x),
         Stopped(x) => /\ op'.name = op.name /\ Concerned' = Concerned
                       /\ \A t : Leaving(t)' <=> Leaving(t)
  PROVE  WhereInv(x)'
<1>1. PICK th : th = thread[x]
  OBVIOUS
<1>2. PlaceInv(th) /\ FindsCode(x, th) /\ FindsPage(th) /\ (Stopped(x) => OutOfTheWay(th))
  BY <1>1 DEF WhereInv
<1> QED BY <1>1, <1>2, WhereNext DEF FindsCode, FindsPage, OutOfTheWay

\* Nothing is stopped before an operation; a call starts one, or maps a new page.
LEMMA CallWhere ==
  ASSUME TableInv, CallInv, FrozenInv, Call, NEW x \in Threads, WhereInv(x)
  PROVE  WhereInv(x)'
<1>0. op.pc = "idle" /\ frozen = {} /\ frozen' = {} /\ ~Stopped(x) /\ ~Stopped(x)'
      /\ UNCHANGED <<code, proto>>
  BY CallSteps DEF FrozenInv, Stopped
<1>1. PICK th : th = thread[x]
  OBVIOUS
<1>2. PlaceInv(th) /\ FindsCode(x, th) /\ FindsPage(th) /\ ThreadShape(th)
  BY <1>1 DEF WhereInv, CallInv, ThreadShapes
<1>3. CASE \E t \in Targets : Register(t)
  <2>1. PICK t \in Targets, p \in Pages :
          page[p] = None /\ page' = [page EXCEPT ![p] = t] /\ thread' = thread
    BY <1>3 DEF Register
  <2>2. \A q : q \in Pages /\ page[q] \in Targets => page'[q] = page[q]
    BY <2>1, NamesAssumption
  <2>3. InPage(th) => th.page \in Pages /\ th.fn \in Targets
    BY <1>2 DEF InPage, PlaceInv, InTrampoline, InCallee
  <2>4. th.at = "proxy" => th.fn \in Targets
    BY <1>2 DEF PlaceInv
  <2> QED BY <1>0, <1>1, <1>2, <2>1, <2>2, <2>3, <2>4, WhereNext DEF FindsCode, FindsPage
<1>4. CASE \E S : Forgive(S)
  <2>1. PICK S : Forgive(S)
    BY <1>4
  <2>2. PICK w : w = thread'[x]
    OBVIOUS
  <2>3. w = th \/ w = [th EXCEPT !.due = FALSE]
    BY <1>1, <2>1, <2>2 DEF Forgive
  <2>4. w.at = th.at /\ w.fn = th.fn /\ w.page = th.page /\ w.off = th.off /\ w.next = th.next
    BY <1>2, <2>3 DEF ThreadShape
  <2>5. PlaceInv(w)
    BY <1>2, <2>4 DEF PlaceInv, InFn, InTrampoline, InCallee, InProxy
  <2>6. (Deep(w) => Deep(th)) /\ (InJump(w) => InJump(th)) /\ (InPage(w) => InPage(th))
    BY <2>4 DEF Deep, InJump, InPage
  <2>7. ~(\E t \in Targets : Register(t)) => page' = page
    BY CallSteps
  <2> QED BY <1>0, <1>2, <1>3, <2>2, <2>4, <2>5, <2>6, <2>7, WhereNext DEF FindsCode, FindsPage
<1>5. CASE thread' = thread /\ page' = page
  BY <1>0, <1>1, <1>2, <1>5, WhereNext DEF FindsCode, FindsPage
<1> QED BY <1>3, <1>4, <1>5, CallSteps

\* The steps of freeze and unFreeze but for Attach, and the loop when it goes on.
LEMMA AroundWhere ==
  ASSUME TableInv, FrozenInv, NEW x \in Threads, WhereInv(x),
         Fork \/ Frozen \/ Return \/ (\E y \in Threads : Detach(y))
  PROVE  WhereInv(x)'
<1>0. op \in OpType /\ UNCHANGED <<item, size, code, page, proto, thread>>
  BY DEF TableInv, TableTypes, OpType, Fork, Frozen, Return, Detach, tableVars
<1>1. CASE Fork
  <2>1. op.pc = "freeze" /\ frozen' = frozen
    BY <1>1 DEF Fork
  <2> QED BY <1>0, <2>1, QuietWhere DEF FrozenInv, Stopped
<1>2. CASE Frozen
  <2>1. op.pc = "attach" /\ frozen' = frozen /\ op' = [op EXCEPT !.pc = "loop"]
    BY <1>2 DEF Frozen
  <2>2. op'.pc = "loop" /\ op'.name = op.name /\ op'.all = op.all /\ op'.i = op.i
    BY <1>0, <2>1 DEF OpType
  <2>3. Concerned' = Concerned /\ \A t : Leaving(t)' <=> Leaving(t)
    BY <1>0, <2>1, <2>2, SameConcerned
  <2>4. Stopped(x)' <=> Stopped(x)
    BY <2>1, <2>2 DEF Stopped
  <2> QED BY <1>0, <2>2, <2>3, <2>4, QuietWhere
<1>3. CASE Return \/ \E y \in Threads : Detach(y)
  <2>1. ~Stopped(x) /\ ~Stopped(x)'
    BY <1>3 DEF Return, Detach, Idle, Stopped
  <2> QED BY <1>0, <2>1, QuietWhere
<1> QED BY <1>1, <1>2, <1>3

\* The loop goes on to an item it has to change, or there is none left.
LEMMA LoopWhere ==
  ASSUME TableInv, FrozenInv, DoneInv', Loop, NEW x \in Threads, WhereInv(x)
  PROVE  WhereInv(x)'
<1>0. op \in OpType /\ UNCHANGED <<item, size, code, page, proto, thread, frozen>>
      /\ op.pc = "loop" /\ Stopped(x)
  BY DEF TableInv, TableTypes, OpType, Loop, tableVars, FrozenInv, StillPcs, Stopped
<1>1. CASE Ahead = {}
  <2>1. op' = [op EXCEPT !.pc = "thaw"]
    BY <1>1 DEF Loop
  <2>2. op'.pc = "thaw" /\ op'.name = op.name /\ op'.all = op.all /\ op'.i = op.i
    BY <1>0, <2>1 DEF OpType
  <2>3. Concerned' = Concerned
    BY <1>0, <2>2, SameConcerned
  <2>4. Concerned = {}
    <3>1. CASE op.all
      BY <2>2, <2>3, <3>1 DEF DoneInv
    <3>2. CASE ~op.all
      BY <1>1, <3>2 DEF Ahead
    <3> QED BY <3>1, <3>2
  <2>5. \A t : ~Leaving(t)
    BY <2>4 DEF Leaving
  <2>6. ~Stopped(x)'
    BY <2>2 DEF Stopped
  <2>7. PICK th : th = thread[x]
    OBVIOUS
  <2>8. PlaceInv(th) /\ FindsCode(x, th) /\ FindsPage(th)
    BY <2>7 DEF WhereInv
  <2> QED BY <1>0, <2>5, <2>6, <2>7, <2>8, WhereNext DEF FindsCode, FindsPage
<1>2. CASE Ahead # {}
  <2>1. op' = [op EXCEPT !.pc = IF op.name = "hook" THEN "proto" ELSE "restore",
                         !.i = Smallest(Ahead)]
    BY <1>2 DEF Loop
  <2>2. Smallest(Ahead) \in Ahead
    BY <1>0, <1>2, ConcernedItems, SmallestIn DEF Ahead
  <2>3. op.all \/ Smallest(Ahead) = op.i
    BY <2>2 DEF Ahead, Concerned
  <2>4. op'.pc \in {"proto", "restore"} /\ op'.name = op.name /\ op'.all = op.all
        /\ (op.all \/ op'.i = op.i)
    BY <1>0, <2>1, <2>3 DEF OpType
  <2>5. Concerned' = Concerned /\ \A t : Leaving(t)' <=> Leaving(t)
    BY <1>0, <2>4, SameConcerned
  <2>6. Stopped(x)'
    BY <1>0, <2>4 DEF Stopped
  <2> QED BY <1>0, <2>4, <2>5, <2>6, QuietWhere
<1> QED BY <1>1, <1>2

\* All threads are stopped while an item is changed, and it is one of those the operation
\* concerns.
LEMMA AtWork ==
  ASSUME TableInv, FrozenInv, op.pc \in HookPcs \cup UnhookPcs, NEW x \in Threads, WhereInv(x)
  PROVE  /\ Stopped(x) /\ OutOfTheWay(thread[x]) /\ op.i \in Concerned
         /\ op.pc \in UnhookPcs => Leaving(Target)
         /\ op.pc \in HookPcs => op.name = "hook" /\ \A t : ~Leaving(t)
         /\ op.pc \in UnhookPcs => op.name = "unhook"
<1>1. Stopped(x)
  BY DEF FrozenInv, StillPcs, Stopped, HookPcs, UnhookPcs
<1>2. op.i \in Concerned
  BY DEF TableInv, OpInv, Concerned, HookPcs, UnhookPcs
<1>3. /\ op.pc \in HookPcs => op.name = "hook"
      /\ op.pc \in UnhookPcs => op.name = "unhook"
  BY DEF TableInv, OpInv
<1>4. op.pc \in UnhookPcs => Leaving(Target)
  BY <1>2, <1>3 DEF Leaving, Target, UnhookPcs
<1> QED BY <1>1, <1>2, <1>3, <1>4 DEF WhereInv, Leaving

\* What the steps on one item leave as it is.
LEMMA GoingOn ==
  ASSUME TableInv, FrozenInv, WorkStep, UNCHANGED <<item, size>>,
         ~MarkHooked, ~Delete, NEW x \in Threads, WhereInv(x)
  PROVE  /\ op'.name = op.name /\ Concerned' = Concerned /\ Stopped(x)'
         /\ \A t : Leaving(t)' <=> Leaving(t)
         /\ thread' = thread
<1>1. op'.pc \in HookPcs \cup UnhookPcs /\ op'.i = op.i
  <2>1. op \in OpType
    BY DEF TableInv, TableTypes, OpType
  <2> QED BY <2>1 DEF WorkStep, StoreProto, PatchFirst, PatchRest, RestoreFirst, RestoreRest,
                      Unmap, Goto, OpType, HookPcs, UnhookPcs
<1>2. op.pc \in HookPcs \cup UnhookPcs /\ op'.name = op.name /\ op'.all = op.all
      /\ frozen' = frozen /\ thread' = thread
  BY WorkOp
<1>3. Stopped(x)
  BY <1>2, AtWork
<1>4. Concerned' = Concerned /\ \A t : Leaving(t)' <=> Leaving(t)
  BY <1>1, <1>2, SameConcerned DEF HookPcs, UnhookPcs
<1> QED BY <1>1, <1>2, <1>3, <1>4 DEF Stopped, HookPcs, UnhookPcs

\* *proto_addr is set to the page of the function.
LEMMA StoreProtoWhere ==
  ASSUME TableInv, FrozenInv, StoreProto, NEW x \in Threads, WhereInv(x)
  PROVE  WhereInv(x)'
<1>1. /\ op.pc = "proto" /\ UNCHANGED <<item, size, code, page, thread>>
      /\ proto' = [proto EXCEPT ![Target] = item[op.i].page]
  BY DEF StoreProto, Goto, tableVars
<1>2. WorkStep /\ ~MarkHooked /\ ~Delete /\ op.i \in Items /\ item[op.i].page \in Pages
      /\ Target \in Targets
  BY <1>1, AtItem DEF WorkStep, MarkHooked, Delete, HookPcs
<1>3. /\ op'.name = op.name /\ Concerned' = Concerned /\ Stopped(x)' /\ Stopped(x)
      /\ \A t : Leaving(t)' <=> Leaving(t)
  BY <1>1, <1>2, GoingOn, AtWork DEF HookPcs
<1>4. page[item[op.i].page] = Target
  BY <1>1, <1>2 DEF TableInv, PagesInv, Target
<1>5. proto'[Target] = item[op.i].page /\ \A t : t # Target => proto'[t] = proto[t]
  BY <1>1, <1>2 DEF TableInv, TableTypes
<1>6. PICK th : th = thread[x]
  OBVIOUS
<1>7. PlaceInv(th) /\ FindsCode(x, th) /\ FindsPage(th) /\ OutOfTheWay(th)
  BY <1>3, <1>6 DEF WhereInv
<1> QED BY <1>1, <1>2, <1>3, <1>4, <1>5, <1>6, <1>7, WhereNext DEF FindsCode, FindsPage, OutOfTheWay

\* No thread is in the function while the jump is written.
LEMMA PatchWhere ==
  ASSUME TableInv, CallInv, FrozenInv, PatchFirst \/ PatchRest, NEW x \in Threads, WhereInv(x)
  PROVE  WhereInv(x)'
<1>1. op.pc \in {"patch", "patched"} /\ UNCHANGED <<item, size, page, proto, thread>>
      /\ \E v \in Versions : Write(Target, v)
  BY DEF PatchFirst, PatchRest, Goto, tableVars, Versions
<1>2. WorkStep /\ ~MarkHooked /\ ~Delete /\ Target \in Targets
  BY <1>1, AtItem DEF WorkStep, MarkHooked, Delete, HookPcs
<1>3. /\ op'.name = op.name /\ Concerned' = Concerned /\ Stopped(x)' /\ Stopped(x)
      /\ \A t : Leaving(t)' <=> Leaving(t)
      /\ op.name = "hook" /\ op.i \in Concerned /\ \A t : ~Leaving(t)
  BY <1>1, <1>2, GoingOn, AtWork DEF HookPcs
<1>4. \A t \in Targets : t # Target => code'[t] = code[t]
  BY <1>1, <1>2, WriteCode DEF TableInv
<1>5. code[Target].seen # {"hook"}
  BY <1>1, <1>2, HookedItem DEF CallInv
<1>6. PICK th : th = thread[x]
  OBVIOUS
<1>7. PlaceInv(th) /\ FindsCode(x, th) /\ FindsPage(th) /\ OutOfTheWay(th)
  BY <1>3, <1>6 DEF WhereInv
<1>8. Deep(th) => th.fn \in Targets /\ th.fn # Target
  BY <1>3, <1>7 DEF Deep, PlaceInv, OutOfTheWay, Target
<1>9. InJump(th) => th.fn \in Targets /\ th.fn # Target
  BY <1>5, <1>7 DEF InJump, PlaceInv, FindsCode
<1> QED BY <1>1, <1>3, <1>4, <1>6, <1>7, <1>8, <1>9, WhereNext DEF FindsCode, FindsPage, OutOfTheWay

\* Threads in the jump of the function are let go with the jump flushed.
LEMMA MarkWhere ==
  ASSUME TableInv, CallInv, FrozenInv, MarkHooked, NEW x \in Threads, WhereInv(x)
  PROVE  WhereInv(x)'
<1>1. /\ op.pc = "mark" /\ UNCHANGED <<size, page, proto, thread>> /\ code' = Flush(code, Target)
      /\ item' = [item EXCEPT ![op.i].status = "HOOKED"]
  BY DEF MarkHooked
<1>2. /\ Target \in Targets /\ op.i \in 1..MaxItems /\ Items \in SUBSET (1..MaxItems)
      /\ op'.name = op.name /\ op'.all = op.all /\ frozen' = frozen
      /\ op'.pc = "thaw" \/ (op'.pc = "loop" /\ op.all)
  <2>1. WorkStep /\ op'.pc \in {"loop", "thaw"}
    BY DEF WorkStep, MarkHooked, Done
  <2> QED BY <1>1, <2>1, AtItem, WorkOp DEF HookPcs, UnhookPcs
<1>3. /\ Stopped(x) /\ op.name = "hook" /\ op.i \in Concerned /\ \A t : ~Leaving(t)
  BY <1>1, AtWork DEF HookPcs
<1>4. \A t : ~Leaving(t)'
  BY <1>2, <1>3 DEF Leaving
<1>5. \A t \in Targets : t # Target => code'[t] = code[t]
  BY <1>1, <1>2 DEF Flush, TableInv, TableTypes
<1>6. code[Target].seen = {"hook"} => code'[Target].seen = {"hook"}
  BY <1>1, <1>2, FlushSeen DEF CallInv
<1>7. \A i \in Items : item'[i].target = item[i].target
                         /\ (item'[i].status = "REGISTERED" => item[i].status = "REGISTERED")
  BY <1>1, <1>2 DEF TableInv, TableTypes, ItemShape
<1>8. op'.pc = "loop" => \A i \in Concerned' : i \in Concerned /\ item'[i].target = item[i].target
  <2>1. Items' = Items
    BY <1>1 DEF Items
  <2> QED BY <1>2, <1>3, <1>7, <2>1 DEF Concerned
<1>9. PICK th : th = thread[x]
  OBVIOUS
<1>10. PlaceInv(th) /\ FindsCode(x, th) /\ FindsPage(th) /\ OutOfTheWay(th)
  BY <1>3, <1>9 DEF WhereInv
<1>11. Deep(th) => th.fn \in Targets /\ th.fn # Target
  BY <1>3, <1>10 DEF Deep, PlaceInv, OutOfTheWay, Target
<1>12. InJump(th) => th.fn \in Targets
  BY <1>10 DEF InJump, PlaceInv
<1>13. Stopped(x)' => op'.pc = "loop"
  BY <1>2 DEF Stopped
<1> QED BY <1>1, <1>2, <1>3, <1>4, <1>5, <1>6, <1>8, <1>9, <1>10, <1>11, <1>12, <1>13, WhereNext
        DEF FindsCode, FindsPage, OutOfTheWay

\* Threads may be stopped deep in the function while it is put back, none in the jump.
LEMMA RestoreWhere ==
  ASSUME TableInv, FrozenInv, RestoreFirst \/ RestoreRest, NEW x \in Threads, WhereInv(x)
  PROVE  WhereInv(x)'
<1>1. op.pc \in {"restore", "restored"} /\ UNCHANGED <<item, size, page, proto, thread>>
      /\ \E v \in Versions : Write(Target, v)
  BY DEF RestoreFirst, RestoreRest, Goto, tableVars, Versions
<1>2. WorkStep /\ ~MarkHooked /\ ~Delete /\ Target \in Targets
  BY <1>1, AtItem DEF WorkStep, MarkHooked, Delete, UnhookPcs
<1>3. /\ op'.name = op.name /\ Concerned' = Concerned /\ Stopped(x)' /\ Stopped(x)
      /\ \A t : Leaving(t)' <=> Leaving(t)
      /\ Leaving(Target)
  BY <1>1, <1>2, GoingOn, AtWork DEF UnhookPcs
<1>4. \A t \in Targets : t # Target => code'[t] = code[t]
  BY <1>1, <1>2, WriteCode DEF TableInv
<1>5. PICK th : th = thread[x]
  OBVIOUS
<1>6. PlaceInv(th) /\ FindsCode(x, th) /\ FindsPage(th) /\ OutOfTheWay(th)
  BY <1>3, <1>5 DEF WhereInv
<1>7. Deep(th) => th.fn \in Targets
  BY <1>6 DEF Deep, PlaceInv
<1>8. InJump(th) => th.fn \in Targets /\ th.fn # Target
  BY <1>3, <1>6 DEF InJump, PlaceInv, FindsCode
<1>9. Deep(th) /\ th.fn = Target => Leaving(th.fn)'
  BY <1>3
<1> QED BY <1>1, <1>3, <1>4, <1>5, <1>6, <1>7, <1>8, <1>9, WhereNext
        DEF FindsCode, FindsPage, OutOfTheWay

\* No thread is in the trampoline when it goes, or on its way there.
LEMMA UnmapWhere ==
  ASSUME TableInv, FrozenInv, Unmap, NEW x \in Threads, WhereInv(x)
  PROVE  WhereInv(x)'
<1>1. op.pc = "unmap" /\ UNCHANGED <<item, size, code, proto, thread>>
      /\ page' = [page EXCEPT ![item[op.i].page] = None]
  BY DEF Unmap, Goto, tableVars
<1>2. WorkStep /\ ~MarkHooked /\ ~Delete /\ Target \in Targets /\ op.i \in Items
      /\ item[op.i].page \in Pages
  BY <1>1, AtItem DEF WorkStep, MarkHooked, Delete, UnhookPcs
<1>3. /\ op'.name = op.name /\ Concerned' = Concerned /\ Stopped(x)' /\ Stopped(x)
      /\ \A t : Leaving(t)' <=> Leaving(t)
      /\ op.i \in Concerned /\ op.name = "unhook"
  BY <1>1, <1>2, GoingOn, AtWork DEF UnhookPcs
<1>4. page[item[op.i].page] = Target
  BY <1>1, <1>2 DEF TableInv, PagesInv, Target
<1>5. \A p \in Pages : p # item[op.i].page => page'[p] = page[p]
  BY <1>1
<1>6. PICK th : th = thread[x]
  OBVIOUS
<1>7. PlaceInv(th) /\ FindsCode(x, th) /\ FindsPage(th) /\ OutOfTheWay(th)
  BY <1>3, <1>6 DEF WhereInv
<1>8. InPage(th) => th.page \in Pages /\ th.page # item[op.i].page
  BY <1>3, <1>7 DEF InPage, PlaceInv, InTrampoline, InCallee, OutOfTheWay
<1>9. th.at = "proxy" => th.fn # Target
  BY <1>3, <1>7 DEF OutOfTheWay, Target
<1>10. th.at = "proxy" => proto[th.fn] \in Pages /\ proto[th.fn] # item[op.i].page
  BY <1>4, <1>7, <1>9 DEF FindsPage
<1> QED BY <1>1, <1>3, <1>5, <1>6, <1>7, <1>8, <1>10, WhereNext
        DEF FindsCode, FindsPage, OutOfTheWay

\* Threads deep in the function are let go with the function flushed.
LEMMA DeleteWhere ==
  ASSUME TableInv, CallInv, FrozenInv, Stoppable', Delete, NEW x \in Threads, WhereInv(x)
  PROVE  WhereInv(x)'
<1>1. /\ op.pc = "delete" /\ UNCHANGED <<page, proto, thread>> /\ size' = size - 1
      /\ item' = [item EXCEPT ![op.i] = item[size]] /\ code' = Flush(code, item[size].target)
      /\ op.i = size
  BY DEF Delete, Fault, FaultIf, Stoppable
<1>2. /\ Target \in Targets /\ op.i \in 1..MaxItems /\ Items \in SUBSET (1..MaxItems)
      /\ Items = 1..size /\ size \in Nat /\ op.i \in Items
      /\ \A i \in Items : item[i].target = Target => i = op.i
      /\ op'.name = op.name /\ op'.all = op.all /\ frozen' = frozen
      /\ (op'.pc = "thaw" /\ ~op.all) \/ (op'.pc = "loop" /\ op.all)
  <2>1. WorkStep /\ op'.pc \in {"loop", "thaw"}
    BY DEF WorkStep, Delete, Done
  <2> QED BY <1>1, <2>1, AtItem, WorkOp DEF HookPcs, UnhookPcs
<1>3. Stopped(x) /\ op.name = "unhook" /\ op.i \in Concerned /\ Leaving(Target)
  BY <1>1, AtWork DEF UnhookPcs
<1>4. code' = Flush(code, Target)
  BY <1>1 DEF Target
<1>5. \A t \in Targets : t # Target => code'[t] = code[t]
  BY <1>2, <1>4 DEF Flush, TableInv, TableTypes
<1>6. code'[Target].seen = {"orig"}
  <2>1. code[Target].mem \in Versions /\ code[Target].mem # "torn"
    BY <1>1, <1>2 DEF TableInv, TableTypes, CodeInv
  <2>2. code[Target].mem # "hook"
    BY <1>1, <1>2 DEF TableInv, CodeInv, Live
  <2>3. code'[Target].seen = {code[Target].mem}
    BY <1>2, <1>4 DEF Flush, TableInv, TableTypes
  <2> QED BY <2>1, <2>2, <2>3 DEF Versions
<1>7. Items' = Items \ {op.i} /\ \A i \in Items' : item'[i] = item[i]
  <2>1. Items' = 1..(size - 1) /\ size \in 1..MaxItems
    BY <1>1, <1>2 DEF Items
  <2>2. 1..(size - 1) = (1..size) \ {size}
    BY <2>1
  <2>3. Items' = Items \ {op.i}
    BY <1>1, <1>2, <2>1, <2>2
  <2>4. \A i \in Items' : i \in 1..MaxItems /\ i # op.i
    BY <1>2, <2>3
  <2> QED BY <1>1, <2>3, <2>4 DEF TableInv, TableTypes
<1>8. op'.pc = "loop" => Concerned' = Concerned \ {op.i} /\ \A i \in Concerned' : item'[i] = item[i]
  BY <1>2, <1>3, <1>7 DEF Concerned
<1>9. op'.pc = "loop" => \A t : t # Target => (Leaving(t)' <=> Leaving(t))
  BY <1>1, <1>2, <1>3, <1>7, <1>8 DEF Leaving, Target
<1>10. op'.pc = "thaw" => \A t : t # Target => ~Leaving(t)
  BY <1>2 DEF Leaving, Concerned, Target
<1>11. PICK th : th = thread[x]
  OBVIOUS
<1>12. PlaceInv(th) /\ FindsCode(x, th) /\ FindsPage(th) /\ OutOfTheWay(th)
  BY <1>3, <1>11 DEF WhereInv
<1>13. Deep(th) => th.fn \in Targets
  BY <1>12 DEF Deep, PlaceInv
<1>14. InJump(th) => th.fn \in Targets /\ th.fn # Target
  BY <1>3, <1>12 DEF InJump, PlaceInv, FindsCode
<1>15. (Stopped(x)' <=> op'.pc = "loop")
  BY <1>2, <1>3 DEF Stopped
<1>16. Deep(th) => code'[th.fn].seen = {"orig"} \/ (Stopped(x)' /\ Leaving(th.fn)')
  <2>1. CASE th.fn = Target
    BY <1>6, <2>1
  <2>2. CASE th.fn # Target
    BY <1>2, <1>5, <1>9, <1>10, <1>12, <1>13, <1>15, <2>2 DEF FindsCode
  <2> QED BY <2>1, <2>2
<1>17. InJump(th) => code'[th.fn].seen = {"hook"} /\ ~(Stopped(x)' /\ Leaving(th.fn)')
  BY <1>3, <1>5, <1>9, <1>12, <1>14, <1>15 DEF FindsCode
<1>18. InPage(th) => page'[th.page] = th.fn
  BY <1>1, <1>12 DEF FindsPage
<1>19. th.at = "proxy" => proto'[th.fn] \in Pages /\ page'[proto'[th.fn]] = th.fn
  BY <1>1, <1>12 DEF FindsPage
<1>20. Stopped(x)' =>
         \A i \in Concerned' :
           IF op'.name = "hook" THEN th.fn = item'[i].target => ~Deep(th)
           ELSE /\ th.at = "proxy" => th.fn # item'[i].target
                /\ InPage(th) => th.page # item'[i].page
  BY <1>2, <1>3, <1>8, <1>12, <1>15 DEF OutOfTheWay
<1> QED BY <1>1, <1>11, <1>12, <1>16, <1>17, <1>18, <1>19, <1>20, WhereNext

\* The steps on one item, together.
LEMMA WorkWhere ==
  ASSUME TableInv, CallInv, FrozenInv, Stoppable', WorkStep, NEW x \in Threads, WhereInv(x)
  PROVE  WhereInv(x)'
BY StoreProtoWhere, PatchWhere, MarkWhere, RestoreWhere, UnmapWhere, DeleteWhere DEF WorkStep

-----------------------------------------------------------------------------
(* Where the threads are: a thread is stopped and moved.                    *)

\* A thread that is not stopped fetches what is in memory, and all of it is written.
LEMMA WhileRunning ==
  ASSUME TableInv, FrozenInv, FlushInv, NEW x \in Threads, x \notin frozen, NEW t \in Targets
  PROVE  /\ op.pc \notin HookPcs \cup UnhookPcs
         /\ code[t].seen = {code[t].mem} /\ code[t].mem \in {"orig", "hook"}
<1>1. op.pc \notin HookPcs \cup UnhookPcs
  BY DEF FrozenInv, StillPcs
<1>2. op.pc \notin {"patched", "mark", "restored", "unmap", "delete"}
  BY <1>1 DEF HookPcs, UnhookPcs
<1>3. code[t].mem \in Versions /\ code[t].mem # "torn"
  BY <1>2 DEF TableInv, TableTypes, CodeInv
<1> QED BY <1>1, <1>2, <1>3 DEF FlushInv, Versions

\* A function that is fetched with its jump is that of a hooked item, with its page.
LEMMA WhileHooked ==
  ASSUME TableInv, CallInv, op.pc \notin HookPcs \cup UnhookPcs,
         NEW t \in Targets, code[t].seen = {"hook"}
  PROVE  /\ \E i \in Items : item[i].target = t /\ item[i].status = "HOOKED"
         /\ proto[t] \in Pages /\ page[proto[t]] = t
<1>1. PICK i \in Items : item[i].target = t /\ Live(i)
  BY HookedItem DEF CallInv, HookPcs
<1>2. item[i].status = "HOOKED" /\ proto[t] = item[i].page
  BY <1>1 DEF Live, TableInv, ProtoInv
<1>3. item[i].page \in Pages /\ page[item[i].page] = t
  BY <1>1 DEF TableInv, PagesInv, UnhookPcs
<1> QED BY <1>1, <1>2, <1>3

\* The entries of an item, by the instruction they are of.
LEMMA Entries ==
  ASSUME TableInv, BoundsInv, NEW i \in Items
  PROVE  LET it == item[i]  t == item[i].target IN
         /\ t \in Targets
         /\ \A k \in 0..it.count - 1 :
              /\ k + 1 \in 1..Last(t) + 1
              /\ it.bounds[k] = OrigOff(t, k + 1) /\ it.bounds[OrigRoom + k] = TrampOff(t, k + 1)
         /\ \A n \in 1..Last(t) : n - 1 \in OrigMatches(it, OrigOff(t, n))
         /\ \A n \in 1..Count(t) : n - 1 \in TrampMatches(it, TrampBoundary(t, n))
<1> DEFINE it == item[i]
           t == it.target
<1>1. t \in Targets /\ it.count = Count(t)
      /\ \A k \in 0..Count(t) - 1 : /\ it.bounds[k] = OrigOff(t, k + 1)
                                    /\ it.bounds[OrigRoom + k] = TrampBoundary(t, k + 1)
  BY DEF TableInv, PagesInv, BoundsInv
<1> HIDE DEF it, t
<1>2. Last(t) \in Nat /\ Count(t) \in Nat /\ Last(t) <= Count(t) /\ Count(t) <= Last(t) + 1
  BY <1>1, Layout
<1>3. ASSUME NEW k \in 0..it.count - 1
      PROVE  /\ k + 1 \in 1..Last(t) + 1
             /\ it.bounds[k] = OrigOff(t, k + 1) /\ it.bounds[OrigRoom + k] = TrampOff(t, k + 1)
  <2>1. k \in 0..Count(t) - 1 /\ k + 1 \in 1..Last(t) + 1
    BY <1>1, <1>2
  <2>2. (IF k + 1 <= Last(t) THEN k + 1 ELSE Last(t) + 1) = k + 1
    BY <1>2, <2>1
  <2> QED BY <1>1, <2>1, <2>2 DEF TrampBoundary
<1>4. ASSUME NEW n \in 1..Last(t) PROVE n - 1 \in OrigMatches(it, OrigOff(t, n))
  <2>1. n - 1 \in 0..Count(t) - 1 /\ n - 1 + 1 = n
    BY <1>2
  <2> QED BY <1>1, <2>1 DEF OrigMatches
<1>5. ASSUME NEW n \in 1..Count(t) PROVE n - 1 \in TrampMatches(it, TrampBoundary(t, n))
  <2>1. n - 1 \in 0..Count(t) - 1 /\ n - 1 + 1 = n
    BY <1>2
  <2> QED BY <1>1, <2>1 DEF TrampMatches
<1> QED BY <1>1, <1>3, <1>4, <1>5 DEF it, t

\* The item that moves a thread, and the entry it does it by.
LEMMA Mover ==
  ASSUME TableInv, op.pc = "attach", NEW th, Movers(th) # {}
  PROVE  \E i \in Items :
           /\ i \in Movers(th) /\ Moves(item[i], th) /\ Moved(th) = MovedBy(item[i], th)
           /\ op.all \/ i = op.i
<1>1. Movers(th) \in SUBSET Items /\ Items \in SUBSET Nat
  BY DEF Movers, TableInv, OpInv, Items
<1>2. Smallest(Movers(th)) \in Movers(th)
  BY <1>1, SmallestIn
<1> QED BY <1>1, <1>2 DEF Movers, Moved

\* What Attach finds when nothing went wrong.
LEMMA AttachFinds ==
  ASSUME TableInv, FrozenInv, Stoppable', NEW x \in Threads, Attach(x)
  PROVE  /\ op.pc = "attach" /\ x \notin frozen /\ ~Busy(thread[x])
         /\ op.name = "hook" => ~AtHook(thread[x])
         /\ op'.pc = "attach" /\ op'.name = op.name /\ Concerned' = Concerned
         /\ \A t : Leaving(t)' <=> Leaving(t)
         /\ frozen' = frozen \cup {x} /\ thread' = [thread EXCEPT ![x] = Moved(@)]
         /\ UNCHANGED <<item, size, code, page, proto>>
<1>1. /\ op.pc = "attach" /\ x \in op.tids /\ op' = [op EXCEPT !.tids = @ \ {x}]
      /\ UNCHANGED <<item, size, code, page, proto>>
      /\ frozen' = frozen \cup {x} /\ thread' = [thread EXCEPT ![x] = Moved(@)]
  BY DEF Attach, tableVars
<1>2. op \in OpType
  BY DEF TableInv, TableTypes, OpType
<1>3. /\ op'.pc = "attach" /\ op'.name = op.name /\ op'.all = op.all /\ op'.i = op.i
  BY <1>1, <1>2 DEF OpType
<1>4. Concerned' = Concerned /\ \A t : Leaving(t)' <=> Leaving(t)
  BY <1>1, <1>3, SameConcerned
<1>5. "busy" \notin faults' /\ "rehook" \notin faults'
  BY DEF Stoppable
<1>6. ~Busy(thread[x]) /\ (op.name = "hook" => ~AtHook(thread[x]))
  BY <1>5 DEF Attach, Fault, FaultIf
<1> QED BY <1>1, <1>3, <1>4, <1>6 DEF FrozenInv

\* A thread that stays where it is.
LEMMA UnmovedWhere ==
  ASSUME TableInv, CallInv, FrozenInv, BoundsInv, FlushInv, Stoppable',
         NEW x \in Threads, WhereInv(x), Attach(x), Movers(thread[x]) = {}
  PROVE  WhereInv(x)'
<1>0. /\ op.pc = "attach" /\ x \notin frozen /\ ~Busy(thread[x])
      /\ op'.name = op.name /\ Concerned' = Concerned
      /\ \A t : Leaving(t)' <=> Leaving(t)
      /\ UNCHANGED <<item, size, code, page, proto>>
  BY AttachFinds
<1>1. PICK th : th = thread[x]
  OBVIOUS
<1>2. PlaceInv(th) /\ FindsCode(x, th) /\ FindsPage(th) /\ ~Stopped(x) /\ ~Busy(th)
      /\ Movers(th) = {}
  BY <1>0, <1>1 DEF WhereInv, Stopped
<1>3. thread'[x] = th
  BY <1>1, <1>2, AttachFinds DEF Moved, CallInv, ThreadShapes
<1>4. Concerned \in SUBSET Items
  BY DEF Concerned
<1>5. ASSUME NEW i \in Concerned, Moves(item[i], th) PROVE FALSE
  BY <1>2, <1>4, <1>5 DEF Movers, Concerned
<1>6. CASE op.name = "hook"
  <2>1. ASSUME NEW i \in Concerned, th.fn = item[i].target, Deep(th) PROVE FALSE
    <3>1. th.at # "callee"
      BY <1>2, <1>6, <2>1 DEF Busy, Deep
    <3>2. th.at = "fn" /\ th.fn \in Targets /\ InFn(th) /\ Patched(th.fn, th.off) /\ th.next # 1
      BY <1>2, <2>1, <3>1 DEF Deep, PlaceInv
    <3>3. th.off = OrigOff(th.fn, th.next) /\ th.next \in 1..Last(th.fn) + 1
      BY <3>2 DEF InFn
    <3>4. ~Patched(th.fn, OrigOff(th.fn, Last(th.fn) + 1)) /\ Last(th.fn) \in Nat
      BY <3>2, Layout
    <3>5. th.next \in 1..Last(th.fn)
      BY <3>2, <3>3, <3>4
    <3>6. th.next - 1 \in OrigMatches(item[i], th.off)
      BY <1>4, <2>1, <3>3, <3>5, Entries
    <3>7. Moves(item[i], th)
      BY <1>6, <2>1, <3>2, <3>6 DEF Moves
    <3> QED BY <1>5, <3>7
  <2>2. \A t : ~Leaving(t)
    BY <1>6 DEF Leaving
  <2> QED BY <1>0, <1>2, <1>3, <1>6, <2>1, <2>2, WhereNext DEF FindsCode, FindsPage
<1>7. CASE op.name # "hook"
  <2>1. ASSUME NEW i \in Concerned
        PROVE  /\ th.at = "proxy" => th.fn # item[i].target
               /\ InPage(th) => th.page # item[i].page
    <3> DEFINE t == item[i].target
    <3>1. ~(th.at = "proxy" /\ th.fn = t) /\ ~(th.at = "callee" /\ th.page = item[i].page)
          /\ ~(th.at = "page" /\ th.page = item[i].page
                 /\ {k \in 1..Count(t) : TrampBoundary(t, k) = th.off} = {})
      BY <1>2, <1>7 DEF Busy
    <3>2. ASSUME th.at = "page", th.page = item[i].page PROVE FALSE
      <4>1. PICK k \in 1..Count(t) : TrampBoundary(t, k) = th.off
        BY <3>1, <3>2
      <4>2. k - 1 \in TrampMatches(item[i], th.off)
        BY <1>4, <4>1, Entries
      <4>3. Moves(item[i], th)
        BY <1>7, <3>2, <4>2 DEF Moves
      <4> QED BY <1>5, <4>3
    <3> QED BY <3>1, <3>2 DEF InPage
  <2>2. InJump(th) => ~Leaving(th.fn)
    BY <1>2, <1>7 DEF InJump, Leaving, Busy
  <2> QED BY <1>0, <1>2, <1>3, <1>7, <2>1, <2>2, WhereNext DEF FindsCode, FindsPage
<1> QED BY <1>6, <1>7

\* A thread in a function that is going to be hooked goes on in the trampoline.
LEMMA MovedInWhere ==
  ASSUME TableInv, CallInv, FrozenInv, BoundsInv, FlushInv, Stoppable',
         NEW x \in Threads, WhereInv(x), Attach(x), Movers(thread[x]) # {}, op.name = "hook"
  PROVE  WhereInv(x)'
<1>0. /\ op.pc = "attach" /\ x \notin frozen /\ ~AtHook(thread[x])
      /\ op'.name = "hook" /\ UNCHANGED <<item, size, code, page, proto>>
  BY AttachFinds
<1>1. PICK th : th = thread[x]
  OBVIOUS
<1>2. PlaceInv(th) /\ FindsCode(x, th) /\ FindsPage(th) /\ ~AtHook(th)
      /\ Movers(th) # {} /\ ThreadShape(th)
  BY <1>0, <1>1 DEF WhereInv, CallInv, ThreadShapes
<1>3. PICK i \in Items : i \in Movers(th) /\ Moves(item[i], th) /\ Moved(th) = MovedBy(item[i], th)
  BY <1>0, <1>2, Mover
<1>4. PICK it : it = item[i]
  OBVIOUS
<1>5. PICK t : t = it.target
  OBVIOUS
<1>6. th.at = "fn" /\ th.fn = t /\ t \in Targets /\ InFn(th) /\ OrigMatches(it, th.off) # {}
  BY <1>2, <1>3, <1>4, <1>5 DEF Moves, PlaceInv
<1>7. PICK k \in 0..it.count - 1 :
        it.bounds[k] = th.off /\ k = Smallest(OrigMatches(it, th.off))
  <2>1. it.count \in Nat
    BY <1>4, <1>5, <1>6, Layout DEF BoundsInv
  <2>2. OrigMatches(it, th.off) \in SUBSET Nat
    BY <2>1 DEF OrigMatches
  <2>3. Smallest(OrigMatches(it, th.off)) \in OrigMatches(it, th.off)
    BY <1>6, <2>2, SmallestIn
  <2> QED BY <2>3 DEF OrigMatches
<1>8. /\ k + 1 \in 1..Last(t) + 1 /\ it.bounds[k] = OrigOff(t, k + 1)
      /\ it.bounds[OrigRoom + k] = TrampOff(t, k + 1)
  BY <1>4, <1>5, <1>7, Entries
<1>9. ~InJump(th)
  <2>1. SUFFICES ASSUME InJump(th) PROVE FALSE
    OBVIOUS
  <2>2. code[t].seen = {"hook"} /\ th.off = JumpOff(t) /\ th.off # 0
    BY <1>2, <1>6, <2>1, Layout DEF InJump, FindsCode, InFn
  <2>3. \E j \in Items : item[j].target = t /\ item[j].status = "HOOKED"
    BY <1>0, <1>6, <2>2, WhileHooked DEF HookPcs, UnhookPcs
  <2>4. item[i].status = "HOOKED"
    BY <1>4, <1>5, <2>3 DEF TableInv, PagesInv
  <2>5. Patched(th.fn, th.off)
    BY <1>6, <2>2, JumpPatched
  <2> QED BY <1>2, <1>3, <1>6, <2>4, <2>5 DEF AtHook
<1>10. k + 1 = th.next
  <2>1. th.off = OrigOff(t, th.next) /\ th.next \in 1..Last(t) + 1
    BY <1>6, <1>9, Layout DEF InFn, InJump
  <2> QED BY <1>6, <1>7, <1>8, <2>1, Layout
<1>11. PICK w : w = MovedBy(it, th)
  OBVIOUS
<1>12. thread'[x] = w
  BY <1>1, <1>3, <1>4, <1>11, AttachFinds DEF CallInv, ThreadShapes
<1>13. w = [th EXCEPT !.at = "page", !.page = it.page, !.off = it.bounds[OrigRoom + k]]
  BY <1>7, <1>11 DEF MovedBy
<1>14. /\ w.at = "page" /\ w.page = it.page /\ w.off = TrampOff(t, w.next)
       /\ w.fn = t /\ w.next = th.next
  BY <1>2, <1>6, <1>8, <1>10, <1>13 DEF ThreadShape
<1>15. it.page \in Pages /\ page[it.page] = t
  BY <1>0, <1>4, <1>5 DEF TableInv, PagesInv
<1>16. PlaceInv(w)
  BY <1>6, <1>8, <1>10, <1>14, <1>15 DEF PlaceInv, InTrampoline, Places
<1> QED BY <1>0, <1>12, <1>14, <1>15, <1>16, WhereNext DEF Deep, InJump

\* A thread in a trampoline that is going away goes on in the function.
LEMMA MovedBackWhere ==
  ASSUME TableInv, CallInv, FrozenInv, BoundsInv, FlushInv, Stoppable',
         NEW x \in Threads, WhereInv(x), Attach(x), Movers(thread[x]) # {}, op.name # "hook"
  PROVE  WhereInv(x)'
<1>0. /\ op.pc = "attach" /\ x \notin frozen /\ op.name = "unhook"
      /\ op'.name = op.name /\ op'.pc = "attach" /\ frozen' = frozen \cup {x}
      /\ UNCHANGED <<item, size, code, page, proto>>
      /\ \A t : Leaving(t)' <=> Leaving(t)
  BY AttachFinds DEF TableInv, TableTypes
<1>1. PICK th : th = thread[x]
  OBVIOUS
<1>2. PlaceInv(th) /\ FindsCode(x, th) /\ FindsPage(th) /\ Movers(th) # {} /\ ThreadShape(th)
  BY <1>1 DEF WhereInv, CallInv, ThreadShapes
<1>3. PICK i \in Items : /\ i \in Movers(th) /\ Moves(item[i], th)
                         /\ Moved(th) = MovedBy(item[i], th) /\ (op.all \/ i = op.i)
  BY <1>0, <1>2, Mover
<1>4. PICK it : it = item[i]
  OBVIOUS
<1>5. PICK t : t = it.target
  OBVIOUS
<1>6. th.at = "page" /\ th.page = it.page /\ TrampMatches(it, th.off) # {} /\ InTrampoline(th)
  BY <1>0, <1>2, <1>3, <1>4 DEF Moves, PlaceInv
<1>7. t \in Targets /\ th.fn = t
  <2>1. page[it.page] = t /\ t \in Targets
    BY <1>0, <1>4, <1>5 DEF TableInv, PagesInv
  <2> QED BY <1>2, <1>6, <2>1 DEF FindsPage, InPage
<1>8. PICK k \in 0..it.count - 1 :
        it.bounds[OrigRoom + k] = th.off /\ k = Smallest(TrampMatches(it, th.off))
  <2>1. it.count \in Nat
    BY <1>4, <1>5, <1>7, Layout DEF BoundsInv
  <2>2. TrampMatches(it, th.off) \in SUBSET Nat
    BY <2>1 DEF TrampMatches
  <2>3. Smallest(TrampMatches(it, th.off)) \in TrampMatches(it, th.off)
    BY <1>6, <2>2, SmallestIn
  <2> QED BY <2>3 DEF TrampMatches
<1>9. /\ k + 1 \in 1..Last(t) + 1 /\ it.bounds[k] = OrigOff(t, k + 1)
      /\ it.bounds[OrigRoom + k] = TrampOff(t, k + 1)
  BY <1>4, <1>5, <1>8, Entries
<1>10. k + 1 = th.next
  <2>1. th.next \in 1..Last(t) + 1
        /\ (th.off = TrampOff(t, th.next)
              \/ (th.next <= Last(t) /\ th.off = MidOff(t, th.next) /\ th.off # 0))
    BY <1>6, <1>7 DEF InTrampoline
  <2>2. Last(t) \in Nat
    BY <1>7, Layout
  <2>3. CASE th.off = TrampOff(t, th.next)
    BY <1>7, <1>8, <1>9, <2>1, <2>3, Layout
  <2>4. CASE th.next <= Last(t) /\ th.off = MidOff(t, th.next) /\ th.off # 0
    <3>1. th.next \in 1..Last(t)
      BY <2>1, <2>2, <2>4
    <3>2. MidOff(t, th.next) # 0 /\ MidOff(t, th.next) = TrampOff(t, k + 1)
      BY <1>8, <1>9, <2>4
    <3> QED BY <1>7, <1>9, <3>1, <3>2, Layout
  <2> QED BY <2>1, <2>3, <2>4
<1>11. PICK w : w = MovedBy(it, th)
  OBVIOUS
<1>12. thread'[x] = w
  BY <1>1, <1>3, <1>4, <1>11, AttachFinds DEF CallInv, ThreadShapes
<1>13. w = [th EXCEPT !.at = "fn", !.page = None, !.off = it.bounds[k]]
  BY <1>0, <1>8, <1>11 DEF MovedBy
<1>14. /\ w.at = "fn" /\ w.page = None /\ w.off = OrigOff(t, w.next)
       /\ w.fn = t /\ w.next = th.next
  BY <1>2, <1>7, <1>9, <1>10, <1>13 DEF ThreadShape
<1>15. PlaceInv(w)
  BY <1>7, <1>9, <1>10, <1>14 DEF PlaceInv, InFn, Places
<1>16. ~InJump(w) /\ ~InPage(w) /\ w.at # "proxy"
  BY <1>7, <1>14, Layout DEF InJump, InPage
<1>17. code[t].seen = {"orig"} \/ Leaving(t)
  <2>1. CASE item[i].status = "HOOKED"
    BY <1>0, <1>3, <1>4, <1>5, <2>1 DEF Leaving, Concerned
  <2>2. CASE item[i].status # "HOOKED"
    <3>1. code[t].mem # "hook"
      BY <1>0, <1>4, <1>5, <1>7, <2>2 DEF TableInv, CodeInv, PagesInv, Live
    <3> QED BY <1>0, <1>7, <3>1, WhileRunning
  <2> QED BY <2>1, <2>2
<1>18. Stopped(x)'
  BY <1>0 DEF Stopped
<1> QED BY <1>0, <1>12, <1>14, <1>15, <1>16, <1>17, <1>18, WhereNext

\* The other threads do not notice.
LEMMA AttachWhere ==
  ASSUME TableInv, CallInv, FrozenInv, BoundsInv, FlushInv, Stoppable',
         NEW x \in Threads, WhereInv(x), NEW y \in Threads, Attach(y)
  PROVE  WhereInv(x)'
<1>1. CASE x = y
  BY <1>1, UnmovedWhere, MovedInWhere, MovedBackWhere
<1>2. CASE x # y
  <2>1. /\ op.pc = "attach" /\ op'.pc = "attach" /\ op'.name = op.name /\ Concerned' = Concerned
        /\ \A t : Leaving(t)' <=> Leaving(t)
        /\ frozen' = frozen \cup {y} /\ thread' = [thread EXCEPT ![y] = Moved(@)]
        /\ UNCHANGED <<item, size, code, page, proto>>
    BY AttachFinds
  <2>2. thread'[x] = thread[x] /\ (Stopped(x)' <=> Stopped(x))
    BY <1>2, <2>1 DEF CallInv, ThreadShapes, Stopped
  <2> QED BY <2>1, <2>2, QuietWhere
<1> QED BY <1>1, <1>2

-----------------------------------------------------------------------------
(* Where the threads are: the threads themselves.                           *)

\* What is to be shown of a thread that goes somewhere.
LEMMA GoesWhere ==
  ASSUME CallInv, NEW x \in Threads, NEW w, Goes(x, w), PlaceInv(w),
         Deep(w)   => code[w.fn].seen = {"orig"},
         InJump(w) => code[w.fn].seen = {"hook"},
         InPage(w) => page[w.page] = w.fn,
         w.at = "proxy" => proto[w.fn] \in Pages /\ page[proto[w.fn]] = w.fn
  PROVE  WhereInv(x)'
<1>1. /\ x \notin frozen /\ thread'[x] = w
      /\ UNCHANGED <<item, size, code, page, proto, frozen, op>>
  BY DEF Goes, CallInv, ThreadShapes, tableVars
<1>2. ~Stopped(x)'
  BY <1>1 DEF Stopped
<1> QED BY <1>1, <1>2, WhereNext

\* A thread that leaves a hooked function leaves everything.
LEMMA OutWhere ==
  ASSUME CallInv, NEW x \in Threads, NEW w \in {Out, [Out EXCEPT !.at = "heap"]}, Goes(x, w)
  PROVE  WhereInv(x)'
<1>1. w.at \in {"out", "heap"}
  BY DEF Out
<1>2. PlaceInv(w) /\ ~Deep(w) /\ ~InJump(w) /\ ~InPage(w)
  BY <1>1 DEF PlaceInv, Places, Deep, InJump, InPage
<1> QED BY <1>1, <1>2, GoesWhere

\* An instruction is executed where its bytes, or those of its copy, are.
LEMMA ExecuteWhere ==
  ASSUME CallInv, NEW x \in Threads, NEW th, th = thread[x], NEW t \in Targets, th.fn = t,
         NEW i \in 1..Last(t), Execute(x, i),
         \/ /\ th.at = "fn" /\ th.page = None
            /\ Patched(t, OrigOff(t, i)) => code[t].seen = {"orig"}
         \/ th.at = "page" /\ th.page \in Pages /\ page[th.page] = t
  PROVE  WhereInv(x)'
<1> DEFINE after == [th EXCEPT !.next = i + 1,
                               !.off = IF th.at = "fn" THEN OrigOff(th.fn, i + 1)
                                       ELSE TrampOff(th.fn, i + 1)]
           there == [after EXCEPT !.at = "callee"]
<1>1. Goes(x, after) \/ Goes(x, there) \/ Goes(x, Out)
  BY DEF Execute
<1>2. ThreadShape(th)
  BY DEF CallInv, ThreadShapes
<1>3. Last(t) \in Nat /\ (Patched(t, OrigOff(t, i + 1)) => Patched(t, OrigOff(t, i)))
  BY Layout
<1>4. i + 1 \in 2..Last(t) + 1 /\ i + 1 \in 1..Last(t) + 1 /\ i + 1 # 1
  BY <1>3
<1>5. ASSUME NEW w, Goes(x, w), w.fn = t, w.page = th.page, w.next = i + 1,
             w.at \in {th.at, "callee"},
             w.off = IF th.at = "fn" THEN OrigOff(t, i + 1) ELSE TrampOff(t, i + 1)
      PROVE  WhereInv(x)'
  <2>1. CASE /\ th.at = "fn" /\ th.page = None
             /\ Patched(t, OrigOff(t, i)) => code[t].seen = {"orig"}
    <3>1. PlaceInv(w)
      BY <1>4, <1>5, <2>1 DEF PlaceInv, InFn, InCallee, Places
    <3>2. Deep(w) => code[w.fn].seen = {"orig"}
      BY <1>3, <1>5, <2>1 DEF Deep
    <3>3. ~InJump(w) /\ ~InPage(w) /\ w.at # "proxy"
      BY <1>4, <1>5, <2>1 DEF InJump, InPage
    <3> QED BY <1>5, <3>1, <3>2, <3>3, GoesWhere
  <2>2. CASE th.at = "page" /\ th.page \in Pages /\ page[th.page] = t
    <3>1. th.page # None
      BY <2>2, NamesAssumption
    <3>2. PlaceInv(w)
      BY <1>4, <1>5, <2>2, <3>1 DEF PlaceInv, InTrampoline, InCallee, Places
    <3>3. ~Deep(w) /\ ~InJump(w) /\ w.at # "proxy" /\ page[w.page] = w.fn
      BY <1>5, <2>2, <3>1 DEF Deep, InJump
    <3> QED BY <1>5, <3>2, <3>3, GoesWhere
  <2> QED BY <2>1, <2>2
<1>6. /\ after.fn = t /\ after.page = th.page /\ after.next = i + 1 /\ after.at = th.at
      /\ after.off = IF th.at = "fn" THEN OrigOff(t, i + 1) ELSE TrampOff(t, i + 1)
      /\ DOMAIN after = DOMAIN th
  BY <1>2 DEF ThreadShape
<1>7. PICK a : a = after
  OBVIOUS
<1>8. CASE Goes(x, after)
  <2> HIDE DEF after
  <2> QED BY <1>5, <1>6, <1>8
<1>9. CASE Goes(x, there)
  <2>1. there = [a EXCEPT !.at = "callee"]
    BY <1>7
  <2> HIDE DEF after, there
  <2>2. /\ there.fn = t /\ there.page = th.page /\ there.next = i + 1 /\ there.at = "callee"
        /\ there.off = IF th.at = "fn" THEN OrigOff(t, i + 1) ELSE TrampOff(t, i + 1)
    BY <1>2, <1>6, <1>7, <2>1 DEF ThreadShape
  <2> QED BY <1>5, <1>9, <2>2
<1>10. CASE Goes(x, Out)
  BY <1>10, OutWhere
<1> QED BY <1>1, <1>8, <1>9, <1>10

\* A function is called, or left by a call of malloc.
LEMMA OutsideWhere ==
  ASSUME CallInv, NEW x \in Threads, TakeHeap(x) \/ DropHeap(x) \/ \E t \in Targets : Enter(x, t)
  PROVE  WhereInv(x)'
<1>1. ASSUME NEW t \in Targets, Enter(x, t) PROVE WhereInv(x)'
  <2>1. PICK w : /\ Goes(x, w)
                 /\ w = [Out EXCEPT !.at = "fn", !.fn = t, !.next = 1,
                                    !.due = code[t].seen = {"hook"} /\ ~Leaving(t)]
    BY <1>1 DEF Enter
  <2>2. w.at = "fn" /\ w.fn = t /\ w.next = 1 /\ w.off = 0 /\ w.page = None
    BY <2>1 DEF Out
  <2>3. PlaceInv(w)
    BY <2>2, Layout DEF PlaceInv, InFn, Places
  <2>4. ~Deep(w) /\ ~InJump(w) /\ ~InPage(w)
    BY <2>2 DEF Deep, InJump, InPage
  <2> QED BY <2>1, <2>2, <2>3, <2>4, GoesWhere
<1> QED BY <1>1, OutWhere DEF TakeHeap, DropHeap

\* In the function a thread executes the next instruction, or enters the jump in front
\* of the first one, or goes on in it.
LEMMA FetchWhere ==
  ASSUME TableInv, CallInv, FrozenInv, FlushInv, NEW x \in Threads, WhereInv(x),
         FetchOrig(x) \/ FetchHook(x) \/ FetchTorn(x)
  PROVE  WhereInv(x)'
<1>1. PICK th : th = thread[x]
  OBVIOUS
<1>2. PlaceInv(th) /\ FindsCode(x, th) /\ ThreadShape(th)
  BY <1>1 DEF WhereInv, CallInv, ThreadShapes
<1>3. PICK t : t = th.fn
  OBVIOUS
<1>4. th.at = "fn" /\ t \in Targets /\ InFn(th)
  BY <1>1, <1>2, <1>3 DEF FetchOrig, FetchHook, FetchTorn, PlaceInv
<1>5. x \notin frozen /\ ~Stopped(x)
  BY RunSteps DEF Run, Stopped
<1>6. /\ op.pc \notin HookPcs \cup UnhookPcs
      /\ code[t].seen = {code[t].mem} /\ code[t].mem \in {"orig", "hook"}
  BY <1>4, <1>5, WhileRunning
<1>7. /\ th.page = None /\ th.next \in 1..Last(t) + 1 /\ Last(t) \in Nat
      /\ th.off = OrigOff(t, th.next) \/ (InJump(th) /\ th.off = JumpOff(t))
  BY <1>3, <1>4, Layout DEF InFn, InJump
<1>8. CASE FetchOrig(x)
  <2>1. Patched(t, th.off) => code[t].seen = {"orig"}
    BY <1>1, <1>3, <1>6, <1>8 DEF FetchOrig
  <2>2. ~InJump(th)
    <3>1. InJump(th) => th.off = JumpOff(t) /\ code[t].seen = {"hook"}
      BY <1>2, <1>3, <1>4, <1>7, Layout DEF InJump, FindsCode
    <3> QED BY <1>4, <2>1, <3>1, JumpPatched
  <2>3. th.off = OrigOff(t, th.next)
    BY <1>7, <2>2
  <2>4. \A i \in IndexAt(t, th.off) : i = th.next
    BY <1>4, <1>7, <2>3, Layout DEF IndexAt
  <2>5. th.next \in IndexAt(t, th.off)
    BY <1>7, <2>3 DEF IndexAt
  <2>6. IF th.next <= Last(t) THEN Execute(x, th.next) ELSE Goes(x, Out)
    BY <1>1, <1>3, <1>8, <2>4, <2>5 DEF FetchOrig
  <2>7. CASE th.next <= Last(t)
    <3>1. th.next \in 1..Last(t)
      BY <1>7, <2>7
    <3> QED BY <1>1, <1>3, <1>4, <1>7, <2>1, <2>3, <2>6, <3>1, ExecuteWhere
  <2> QED BY <2>6, <2>7, OutWhere
<1>9. CASE FetchHook(x)
  <2>1. Patched(t, th.off) /\ code[t].seen = {"hook"}
    BY <1>1, <1>3, <1>6, <1>9 DEF FetchHook
  <2>2. th.next = 1
    BY <1>2, <1>3, <1>4, <1>5, <2>1 DEF Deep, FindsCode
  <2>3. th.off = 0 \/ th.off = JumpOff(t)
    BY <1>4, <1>7, <2>2, Layout
  <2>4. PICK w : Goes(x, w) /\ w = IF th.off = JumpOff(t)
                                     THEN [th EXCEPT !.at = "proxy", !.off = 0, !.due = FALSE]
                                   ELSE [th EXCEPT !.off = JumpOff(t)]
    BY <1>1, <1>3, <1>9, <2>3 DEF FetchHook
  <2>5. CASE th.off = JumpOff(t)
    <3>1. w.at = "proxy" /\ w.fn = t /\ w.off = 0 /\ w.next = 1 /\ w.page = None
      BY <1>2, <1>3, <1>7, <2>2, <2>4, <2>5 DEF ThreadShape
    <3>2. PlaceInv(w)
      BY <1>4, <3>1 DEF PlaceInv, InProxy, Places
    <3>3. proto[t] \in Pages /\ page[proto[t]] = t
      BY <1>4, <1>6, <2>1, WhileHooked
    <3> QED BY <2>4, <3>1, <3>2, <3>3, GoesWhere DEF Deep, InJump, InPage
  <2>6. CASE th.off # JumpOff(t)
    <3>1. w.at = "fn" /\ w.fn = t /\ w.off = JumpOff(t) /\ w.next = 1 /\ w.page = None
      BY <1>2, <1>3, <1>4, <1>7, <2>2, <2>4, <2>6 DEF ThreadShape
    <3>2. PlaceInv(w)
      BY <1>4, <1>7, <2>2, <3>1 DEF PlaceInv, InFn, Places
    <3>3. ~Deep(w) /\ ~InPage(w)
      BY <3>1 DEF Deep, InPage
    <3> QED BY <2>1, <2>4, <3>1, <3>2, <3>3, GoesWhere
  <2> QED BY <2>5, <2>6
<1>10. ~FetchTorn(x)
  BY <1>1, <1>3, <1>6 DEF FetchTorn
<1> QED BY <1>8, <1>9, <1>10

\* In the trampoline a thread executes the next instruction, or jumps back behind the
\* bytes of the jump.
LEMMA FetchPageWhere ==
  ASSUME TableInv, CallInv, FrozenInv, FlushInv, NEW x \in Threads, WhereInv(x), FetchPage(x)
  PROVE  WhereInv(x)'
<1>1. PICK th : th = thread[x]
  OBVIOUS
<1>2. PlaceInv(th) /\ FindsPage(th) /\ ThreadShape(th)
  BY <1>1 DEF WhereInv, CallInv, ThreadShapes
<1>3. PICK t : t = th.fn
  OBVIOUS
<1>4. th.at = "page" /\ t \in Targets /\ InTrampoline(th) /\ page[th.page] = t
  BY <1>1, <1>2, <1>3 DEF FetchPage, PlaceInv, FindsPage, InPage
<1>5. th.page \in Pages /\ th.next \in 1..Last(t) + 1 /\ Last(t) \in Nat
  BY <1>3, <1>4, Layout DEF InTrampoline
<1>6. \/ th.off = TrampOff(t, th.next)
      \/ th.next \in 1..Last(t) /\ th.off = MidOff(t, th.next) /\ th.off # 0
  BY <1>3, <1>4, <1>5 DEF InTrampoline
<1>7. \A i \in TrampIndexAt(t, th.off) : i = th.next
  <2> SUFFICES ASSUME NEW i \in 1..Last(t) + 1, TrampOff(t, i) = th.off PROVE i = th.next
    BY DEF TrampIndexAt
  <2> QED BY <1>4, <1>5, <1>6, Layout
<1>8. \A i \in MidIndexAt(t, th.off) : i = th.next
  <2> SUFFICES ASSUME NEW i \in 1..Last(t), MidOff(t, i) = th.off, th.off # 0 PROVE i = th.next
    BY DEF MidIndexAt
  <2> QED BY <1>4, <1>5, <1>6, Layout
<1>9. th.next \in TrampIndexAt(t, th.off) \cup MidIndexAt(t, th.off)
  BY <1>5, <1>6 DEF TrampIndexAt, MidIndexAt
<1>10. ASSUME NEW i \in 1..Last(t), Execute(x, i) PROVE WhereInv(x)'
  BY <1>1, <1>3, <1>4, <1>5, <1>10, ExecuteWhere
<1>11. CASE \E i \in MidIndexAt(t, th.off) : Execute(x, i)
  BY <1>10, <1>11 DEF MidIndexAt
<1>12. ASSUME NEW i \in TrampIndexAt(t, th.off), i # Last(t) + 1, MidOff(t, i) = 0, Execute(x, i)
       PROVE  WhereInv(x)'
  <2>1. i \in 1..Last(t)
    BY <1>5, <1>12 DEF TrampIndexAt
  <2> QED BY <1>10, <1>12, <2>1
<1>13. ASSUME NEW i \in TrampIndexAt(t, th.off), i # Last(t) + 1, MidOff(t, i) # 0,
              Goes(x, [th EXCEPT !.off = MidOff(t, i)])
       PROVE  WhereInv(x)'
  <2>1. i = th.next /\ i \in 1..Last(t) /\ th.next <= Last(t)
    BY <1>5, <1>7, <1>13 DEF TrampIndexAt
  <2>2. PICK w : Goes(x, w) /\ w = [th EXCEPT !.off = MidOff(t, i)]
    BY <1>13
  <2>3. /\ w.at = "page" /\ w.fn = t /\ w.page = th.page /\ w.next = th.next
        /\ w.off = MidOff(t, th.next) /\ w.off # 0
    BY <1>2, <1>3, <1>4, <1>13, <2>1, <2>2 DEF ThreadShape
  <2>4. PlaceInv(w)
    BY <1>4, <1>5, <2>1, <2>3 DEF PlaceInv, InTrampoline, Places
  <2> QED BY <1>4, <2>2, <2>3, <2>4, GoesWhere DEF Deep, InJump
<1>14. ASSUME NEW i \in TrampIndexAt(t, th.off), i = Last(t) + 1,
              Goes(x, [th EXCEPT !.at = "fn", !.page = None, !.off = OrigOff(t, i)])
       PROVE  WhereInv(x)'
  <2>1. i = th.next
    BY <1>7, <1>14
  <2>2. PICK w : Goes(x, w) /\ w = [th EXCEPT !.at = "fn", !.page = None, !.off = OrigOff(t, i)]
    BY <1>14
  <2>3. /\ w.at = "fn" /\ w.fn = t /\ w.page = None /\ w.next = Last(t) + 1
        /\ w.off = OrigOff(t, Last(t) + 1)
    BY <1>2, <1>3, <1>14, <2>1, <2>2 DEF ThreadShape
  <2>4. PlaceInv(w)
    BY <1>4, <1>5, <2>3 DEF PlaceInv, InFn, Places
  <2>5. ~Deep(w) /\ ~InPage(w) /\ w.at # "proxy"
    BY <1>4, <2>3, Layout DEF Deep, InPage
  <2>6. ~InJump(w)
    BY <1>4, <2>3, Layout DEF InJump
  <2> QED BY <2>2, <2>4, <2>5, <2>6, GoesWhere
<1> QED BY <1>1, <1>3, <1>4, <1>9, <1>11, <1>12, <1>13, <1>14 DEF FetchPage

\* The replacement calls the trampoline, and a function returns to where it was called.
LEMMA BackWhere ==
  ASSUME TableInv, CallInv, FrozenInv, FlushInv, NEW x \in Threads, WhereInv(x),
         Proxy(x) \/ ReturnFromCallee(x)
  PROVE  WhereInv(x)'
<1>1. PICK th : th = thread[x]
  OBVIOUS
<1>2. PlaceInv(th) /\ FindsCode(x, th) /\ FindsPage(th) /\ ThreadShape(th)
  BY <1>1 DEF WhereInv, CallInv, ThreadShapes
<1>3. PICK t : t = th.fn
  OBVIOUS
<1>4. t \in Targets
  BY <1>1, <1>2, <1>3 DEF Proxy, ReturnFromCallee, PlaceInv
<1>5. x \notin frozen /\ ~Stopped(x)
  BY RunSteps DEF Run, Stopped
<1>6. CASE Proxy(x)
  <2>1. th.at = "proxy" /\ th.page = None /\ th.next = 1 /\ th.off = 0
        /\ proto[t] \in Pages /\ page[proto[t]] = t /\ proto[t] # None
    BY <1>1, <1>2, <1>3, <1>6, NamesAssumption DEF Proxy, PlaceInv, InProxy, FindsPage
  <2>2. Goes(x, Out) \/ Goes(x, [th EXCEPT !.at = "page", !.page = proto[t]])
    BY <1>1, <1>3, <1>6, <2>1 DEF Proxy
  <2>3. CASE Goes(x, [th EXCEPT !.at = "page", !.page = proto[t]])
    <3>1. PICK w : Goes(x, w) /\ w = [th EXCEPT !.at = "page", !.page = proto[t]]
      BY <2>3
    <3>2. w.at = "page" /\ w.page = proto[t] /\ w.fn = t /\ w.next = 1 /\ w.off = 0
      BY <1>2, <1>3, <2>1, <3>1 DEF ThreadShape
    <3>3. PlaceInv(w)
      BY <1>4, <2>1, <3>2, Layout DEF PlaceInv, InTrampoline, Places
    <3> QED BY <2>1, <3>1, <3>2, <3>3, GoesWhere DEF Deep, InJump
  <2> QED BY <2>2, <2>3, OutWhere
<1>7. CASE ReturnFromCallee(x)
  <2>1. th.at = "callee" /\ InCallee(th)
    BY <1>1, <1>2, <1>7 DEF ReturnFromCallee, PlaceInv
  <2>2. PICK w : /\ Goes(x, w)
                 /\ w = [th EXCEPT !.at = IF th.page = None THEN "fn" ELSE "page"]
    BY <1>1, <1>7 DEF ReturnFromCallee
  <2>3. /\ w.at = IF th.page = None THEN "fn" ELSE "page"
        /\ w.page = th.page /\ w.fn = t /\ w.next = th.next /\ w.off = th.off
    BY <1>2, <1>3, <2>2 DEF ThreadShape
  <2>4. Last(t) \in Nat /\ th.next \in 2..Last(t) + 1
    BY <1>3, <1>4, <2>1, Layout DEF InCallee
  <2>5. th.next \in 1..Last(t) + 1 /\ th.next # 1
    BY <2>4
  <2>6. PlaceInv(w)
    BY <1>3, <1>4, <2>1, <2>3, <2>5 DEF PlaceInv, InCallee, InFn, InTrampoline, Places
  <2>7. Deep(w) => code[t].seen = {"orig"}
    BY <1>2, <1>3, <1>5, <2>1, <2>3 DEF Deep, FindsCode
  <2>8. InPage(w) => page[w.page] = t
    BY <1>2, <1>3, <2>1, <2>3 DEF InPage, FindsPage
  <2>9. ~InJump(w) /\ w.at # "proxy"
    BY <2>3, <2>5 DEF InJump
  <2> QED BY <2>2, <2>3, <2>6, <2>7, <2>8, <2>9, GoesWhere
<1> QED BY <1>6, <1>7

\* The other threads do not notice.
LEMMA RunWhere ==
  ASSUME TableInv, CallInv, FrozenInv, FlushInv, NEW x \in Threads, WhereInv(x),
         NEW y \in Threads, Run(y)
  PROVE  WhereInv(x)'
<1>1. CASE x = y
  BY <1>1, OutsideWhere, FetchWhere, FetchPageWhere, BackWhere DEF Run
<1>2. CASE x # y
  <2>1. \E w : Goes(y, w)
    BY DEF Run, Enter, FetchOrig, FetchHook, FetchTorn, FetchPage, Proxy,
           ReturnFromCallee, TakeHeap, DropHeap, Execute, Crash
  <2>2. /\ thread'[x] = thread[x]
        /\ UNCHANGED <<item, size, code, page, proto, frozen, op>>
    BY <1>2, <2>1 DEF Goes, CallInv, ThreadShapes, tableVars
  <2>3. Concerned' = Concerned /\ (Stopped(x)' <=> Stopped(x))
    BY <2>2 DEF Concerned, Items, Stopped
  <2>4. \A t : Leaving(t)' <=> Leaving(t)
    BY <2>2, <2>3 DEF Leaving
  <2> QED BY <2>2, <2>3, <2>4, QuietWhere
<1> QED BY <1>1, <1>2

-----------------------------------------------------------------------------
(* The threads follow the code.                                             *)

LEMMA InitFollow == Init => FollowInv
<1> SUFFICES ASSUME Init PROVE Following
  BY DEF FollowInv
<1>1. FrozenInv
  BY DEF Init, Idle, FrozenInv, StillPcs, HookPcs, UnhookPcs
<1>2. BoundsInv
  <2>1. \A i \in 1..MaxItems : item[i] = Unused
    BY DEF Init
  <2>2. Items = {}
    BY DEF Init, Items
  <2> QED BY <2>1, <2>2 DEF BoundsInv, Unused
<1>3. FlushInv
  BY DEF Init, FlushInv
<1>4. ASSUME NEW x \in Threads PROVE WhereInv(x)
  <2>1. PICK th : th = thread[x]
    OBVIOUS
  <2>2. th = Out
    BY <2>1 DEF Init
  <2>3. th.at = "out"
    BY <2>2 DEF Out
  <2>4. ~Stopped(x)
    BY DEF Init, Stopped
  <2> QED BY <2>1, <2>3, <2>4 DEF WhereInv, PlaceInv, Places, FindsCode, FindsPage,
                                   Deep, InJump, InPage
<1> QED BY <1>1, <1>2, <1>3, <1>4 DEF Following

LEMMA NextFollow ==
  TableInv /\ DoneInv /\ CallInv /\ FollowInv /\ [Next]_vars => FollowInv'
<1> SUFFICES ASSUME TableInv, DoneInv, CallInv, FollowInv, [Next]_vars, Stoppable'
             PROVE  Following'
  BY DEF FollowInv
<1>1. Stoppable
  BY FaultsGrow DEF Stoppable
<1>2. FrozenInv /\ BoundsInv /\ FlushInv /\ \A x \in Threads : WhereInv(x)
  BY <1>1 DEF FollowInv, Following
<1>3. FrozenInv' /\ BoundsInv' /\ FlushInv'
  BY <1>2, FrozenKept, BoundsKept, FlushKept
<1>4. ASSUME NEW x \in Threads PROVE WhereInv(x)'
  <2>1. WhereInv(x)
    BY <1>2
  <2>2. CASE Call
    BY <1>2, <2>1, <2>2, CallWhere
  <2>3. CASE \E y \in Threads : Run(y)
    BY <1>2, <2>1, <2>3, RunWhere
  <2>4. CASE Operation
    <3>1. ~ForkFails /\ \A y : ~AttachFails(y)
      BY DEF ForkFails, AttachFails, Fault, Stoppable
    <3>2. CASE Loop
      BY <1>2, <2>1, <3>2, LoopWhere, NextDone
    <3>3. CASE WorkStep
      BY <1>2, <2>1, <3>3, WorkWhere
    <3>4. CASE \E y \in Threads : Attach(y)
      BY <1>2, <2>1, <3>4, AttachWhere
    <3>5. CASE Fork \/ Frozen \/ Return \/ \E y \in Threads : Detach(y)
      BY <1>2, <2>1, <3>5, AroundWhere
    <3> QED BY <2>4, <3>1, <3>2, <3>3, <3>4, <3>5, OperationSteps
  <2>5. CASE UNCHANGED vars
    <3>1. UNCHANGED <<item, size, code, page, proto, thread, frozen, op>>
      BY <2>5 DEF vars
    <3>2. Concerned' = Concerned /\ (Stopped(x)' <=> Stopped(x)) /\ thread'[x] = thread[x]
      BY <3>1 DEF Concerned, Items, Stopped
    <3>3. \A t : Leaving(t)' <=> Leaving(t)
      BY <3>1, <3>2 DEF Leaving
    <3> QED BY <2>1, <3>1, <3>2, <3>3, QuietWhere
  <2> QED BY <2>2, <2>3, <2>4, <2>5 DEF Next
<1> QED BY <1>3, <1>4 DEF Following

\* Hooking and unhooking under running threads is transparent to them: as long as no
\* fault but a thread stopped in malloc happens, each thread is at the instruction the
\* original function would be at, in the function, the jump or a trampoline that is
\* mapped (freeze, doProcessThreadPC, doInlineHook, doInlineUnHook).
THEOREM ThreadsFollow == Spec => []Transparent
<1>1. CallInv /\ FollowInv => Transparent
  <2> SUFFICES ASSUME FollowInv, faults \subseteq {"heap"}, NEW x \in Threads
               PROVE  InStep(thread[x])
    BY DEF Transparent
  <2>1. PICK th : th = thread[x]
    OBVIOUS
  <2>2. PlaceInv(th) /\ FindsPage(th)
    BY <2>1 DEF FollowInv, Following, Stoppable, WhereInv
  <2> QED BY <2>1, <2>2 DEF InStep, PlaceInv, InFn, InTrampoline, InProxy, FindsPage, InPage,
                            Places
<1> QED BY <1>1, InitTable, InitDone, InitDue, InitFollow, NextTable, NextDone, NextDue, NextFollow,
        PTL DEF Spec
=============================================================================
