-------------------------- MODULE XhRefreshProof ----------------------------
(* Proofs about XhRefresh: types, the ownership of the cached entries, the    *)
(* saved original functions, what is ignored and what is hooked, for any      *)
(* libraries, hooks and disturbances.                                         *)
EXTENDS XhRefreshInv, FiniteSetTheorems, WellFoundedInduction, TLAPS

\* The empty lists have their types.
LEMMA EmptyLists ==
  /\ << >> \in Seq(HookInfos) /\ << >> \in Seq(IgnoreInfos)
  /\ 0 \in 0..Len(<< >>)
OBVIOUS

\* Types hold at the start.
LEMMA TypeInit == Init => TypeOK
<1> SUFFICES ASSUME Init PROVE TypeOK
  OBVIOUS
<1> USE DEF Init
<1>1. /\ mem \in [Bases -> Paths \cup {None}]
      /\ slot \in [Bases -> [Slots -> Fns \cup Syms]]
      /\ past \in [Bases -> SUBSET Paths]
  BY LibraryAssumption DEF Pristine
<1>2. /\ hooks \in Seq(HookInfos) /\ ignores \in Seq(IgnoreInfos)
      /\ hook \in 0..Len(hooks) /\ line \in 0..NumBases
  BY EmptyLists, NumBasesAssumption
<1>3. /\ old \in [Fns -> Fns \cup Syms \cup {None}]
      /\ tree \in [Paths -> Bases \cup {None}]
      /\ newtree \in [Paths -> Bases \cup {None}]
  BY DEF NoEntries
<1> QED
  BY <1>1, <1>2, <1>3 DEF TypeOK, Inside, Stages

\* Every step keeps the types.
LEMMA TypeStep == TypeOK /\ [Next]_vars => TypeOK'
<1> SUFFICES ASSUME TypeOK, [Next]_vars PROVE TypeOK'
  OBVIOUS
<1> USE NamesAssumption, LibraryAssumption, NumBasesAssumption, InfosAssumption
    DEF TypeOK, Bases, Inside, Stages, NoEntries, Pristine, HookInfo
<1>1. ASSUME NEW b \in Bases, NEW p \in Paths, Dlopen(b, p) PROVE TypeOK'
  BY <1>1 DEF Dlopen, listVars, treeVars, posVars, elfVars
<1>2. ASSUME NEW b \in Bases, Dlclose(b) PROVE TypeOK'
  BY <1>2 DEF Dlclose, listVars, treeVars, posVars, elfVars
<1>3. ASSUME NEW h \in HookInfos, Register(h) PROVE TypeOK'
  BY <1>3 DEF Register, libVars, treeVars, posVars, elfVars
<1>4. ASSUME NEW i \in IgnoreInfos, IgnoreTest(i) PROVE TypeOK'
  BY <1>4 DEF IgnoreTest, libVars, treeVars, posVars, elfVars
<1>5. CASE IgnoreAppend
  BY <1>5 DEF IgnoreAppend, libVars, treeVars, posVars, elfVars
<1>6. CASE BeginPass
  BY <1>6 DEF BeginPass, libVars, treeVars, posVars, elfVars
<1>7. CASE NextLine
  BY <1>7 DEF NextLine, libVars, listVars, treeVars, elfVars
<1>8. CASE LastLine
  BY <1>8 DEF LastLine, libVars, listVars, treeVars, posVars, elfVars
<1>9. CASE CheckHeader
  BY <1>9 DEF CheckHeader, libVars, listVars, treeVars, posVars, elfVars
<1>10. CASE Fault
  BY <1>10 DEF Fault, libVars, listVars, treeVars, posVars
<1>11. CASE UpdateEntry
  BY <1>11 DEF UpdateEntry, libVars, listVars, posVars, elfVars
<1>12. CASE CreateEntry
  BY <1>12 DEF CreateEntry, libVars, listVars, posVars, elfVars
<1>13. CASE ElfInit
  BY <1>13 DEF ElfInit, libVars, listVars, treeVars, posVars
<1>14. CASE NextHook
  BY <1>14 DEF NextHook, SlotsOf, libVars, listVars, treeVars, posVars
<1>15. CASE LastHook
  BY <1>15 DEF LastHook, libVars, listVars, treeVars, posVars
<1>16. CASE GiveUpSymbol
  BY <1>16 DEF GiveUpSymbol, libVars, listVars, treeVars, posVars
<1>17. CASE WriteSlot
  BY <1>17 DEF WriteSlot, listVars, treeVars, posVars
<1>18. CASE EndPass
  BY <1>18 DEF EndPass, libVars, listVars, elfVars
<1>19. ASSUME NEW s \in Slots, SkipSlot(s) PROVE TypeOK'
  BY <1>19 DEF SkipSlot, libVars, listVars, treeVars, posVars
<1>20. ASSUME NEW s \in Slots, SaveOld(s) PROVE TypeOK'
  BY <1>20 DEF SaveOld, libVars, listVars, treeVars, posVars
<1>21. CASE Clear
  BY <1>21, EmptyLists DEF Clear, libVars, posVars, elfVars
<1>22. CASE RefuseElf
  BY <1>22 DEF RefuseElf, libVars, listVars, treeVars, posVars, elfVars
<1>23. CASE UNCHANGED vars
  BY <1>23 DEF vars, libVars, listVars, treeVars, posVars, elfVars
<1> QED
  BY <1>1, <1>2, <1>3, <1>4, <1>5, <1>6, <1>7, <1>8, <1>9, <1>10, <1>11, <1>12,
     <1>13, <1>14, <1>15, <1>16, <1>17, <1>18, <1>19, <1>20, <1>21, <1>22, <1>23
  DEF Next, Pass

\* Every variable keeps its type, and the position inside an image is reset
\* whenever the pass leaves it (xh_core_refresh_impl).
THEOREM RefreshTypes == Spec => []TypeOK
BY TypeInit, TypeStep, PTL DEF Spec

\* Every step keeps the two trees apart.
LEMMA EntriesStep == TypeOK /\ EntriesInv /\ [Next]_vars => EntriesInv'
<1> SUFFICES ASSUME TypeOK, EntriesInv, [Next]_vars PROVE EntriesInv'
  OBVIOUS
<1> USE DEF EntriesInv, TreesDisjoint
<1>1. CASE UpdateEntry
  BY <1>1, NamesAssumption DEF UpdateEntry, TypeOK, Bases
<1>2. CASE CreateEntry
  BY <1>2, NamesAssumption DEF CreateEntry, TypeOK, Bases
<1>3. CASE EndPass
  BY <1>3 DEF EndPass, NoEntries
<1>4. CASE Clear
  BY <1>4 DEF Clear, NoEntries
<1>5. CASE UNCHANGED treeVars /\ (at' = "idle" => at = "idle")
  BY <1>5 DEF treeVars
<1>6. ASSUME UNCHANGED vars \/ (\E b \in Bases : Dlclose(b) \/ \E p \in Paths : Dlopen(b, p))
             \/ (\E h \in HookInfos : Register(h)) \/ (\E i \in IgnoreInfos : IgnoreTest(i))
             \/ IgnoreAppend \/ BeginPass
      PROVE UNCHANGED treeVars /\ (at' = "idle" => at = "idle")
  BY <1>6 DEF vars, Dlclose, Dlopen, Register, IgnoreTest, IgnoreAppend, BeginPass
<1>7. ASSUME NextLine \/ LastLine \/ CheckHeader \/ Fault \/ RefuseElf \/ ElfInit \/ NextHook
             \/ LastHook \/ GiveUpSymbol \/ WriteSlot
             \/ \E s \in Slots : SkipSlot(s) \/ SaveOld(s)
      PROVE UNCHANGED treeVars /\ (at' = "idle" => at = "idle")
  BY <1>7 DEF NextLine, LastLine, CheckHeader, Fault, RefuseElf, ElfInit, NextHook, LastHook,
     GiveUpSymbol, WriteSlot, SkipSlot, SaveOld
<1> QED
  BY <1>1, <1>2, <1>3, <1>4, <1>5, <1>6, <1>7 DEF Next, Pass

\* No path is ever cached in both trees (xh_core_refresh_impl).
THEOREM OneEntryEach == Spec => []TreesDisjoint
<1>1. Init => EntriesInv
  BY DEF Init, EntriesInv, TreesDisjoint, NoEntries
<1>2. EntriesInv => TreesDisjoint
  BY DEF EntriesInv
<1> QED
  BY <1>1, <1>2, TypeInit, TypeStep, EntriesStep, PTL DEF Spec

-----------------------------------------------------------------------------

\* At the start every slot holds its original.
LEMMA ReplaceInit == Init => ReplaceInv
BY DEF Init, ReplaceInv, SlotInv, VisitInv, Pristine

\* Every step keeps replacements and saved originals together.
LEMMA ReplaceStep ==
  ASSUME OneReplacement
  PROVE TypeOK /\ ReplaceInv /\ [Next]_vars => ReplaceInv'
<1> SUFFICES ASSUME TypeOK, ReplaceInv, [Next]_vars PROVE ReplaceInv'
  OBVIOUS
<1> USE NamesAssumption, LibraryAssumption, InfosAssumption
    DEF ReplaceInv, SlotInv, VisitInv, TypeOK, Inside, HookInfo, Stages
<1>1. ASSUME NEW b \in Bases, NEW p \in Paths, Dlopen(b, p) PROVE ReplaceInv'
  BY <1>1 DEF Dlopen, Pristine, listVars, posVars, elfVars
<1>2. ASSUME NEW b \in Bases, Dlclose(b) PROVE ReplaceInv'
  BY <1>2 DEF Dlclose, Pristine, listVars, posVars, elfVars
<1>3. ASSUME NEW h \in HookInfos, Register(h) PROVE ReplaceInv'
  BY <1>3 DEF Register, libVars, posVars, elfVars
<1>4. CASE NextHook
  BY <1>4 DEF NextHook, SlotsOf, libVars, listVars, posVars
<1>5. CASE WriteSlot
  BY <1>5 DEF WriteSlot, listVars, posVars
<1>6. ASSUME NEW s \in Slots, SaveOld(s) PROVE ReplaceInv'
  <2> DEFINE f == hooks[hook].new
  <2>1. hooks[hook] \in HookInfos /\ line \in Bases /\ s \in todo
    BY <1>6 DEF SaveOld
  <2>2. slot[line][s] = Symbol[s]
    BY <1>6, <2>1, OneReplacement DEF SaveOld, OneReplacement
  <2>3. old' = [old EXCEPT ![f] = Symbol[s]] /\ f \in Fns
    BY <1>6, <2>1, <2>2 DEF SaveOld
  <2>4. UNCHANGED <<slot, hooks, hook, todo>> /\ writing' = s
    BY <1>6 DEF SaveOld, libVars, listVars
  <2>5. SlotInv'
    BY <2>1, <2>3, <2>4, OneReplacement DEF OneReplacement
  <2>6. VisitInv'
    BY <2>1, <2>3, <2>4
  <2> QED
    BY <2>5, <2>6
<1>7. CASE Clear
  BY <1>7 DEF Clear, libVars, posVars, elfVars
<1>8. CASE UNCHANGED <<slot, hooks, old, hook, writing, at>> /\ todo' \subseteq todo
  BY <1>8
<1>9. CASE UNCHANGED <<slot, hooks, old>> /\ todo' = {} /\ at' # "write"
  BY <1>9
<1>10. ASSUME UNCHANGED vars \/ (\E i \in IgnoreInfos : IgnoreTest(i)) \/ IgnoreAppend
              \/ GiveUpSymbol \/ \E s \in Slots : SkipSlot(s)
       PROVE UNCHANGED <<slot, hooks, old, hook, writing, at>> /\ todo' \subseteq todo
  BY <1>10 DEF vars, IgnoreTest, IgnoreAppend, GiveUpSymbol, SkipSlot, libVars, listVars,
     elfVars
<1>11. ASSUME BeginPass \/ NextLine \/ LastLine \/ CheckHeader \/ Fault \/ RefuseElf \/ UpdateEntry
              \/ CreateEntry \/ ElfInit \/ LastHook \/ EndPass
       PROVE UNCHANGED <<slot, hooks, old>> /\ todo' = {} /\ at' # "write"
  BY <1>11 DEF BeginPass, NextLine, LastLine, CheckHeader, Fault, RefuseElf, UpdateEntry,
     CreateEntry, ElfInit, LastHook, EndPass, libVars, listVars, elfVars
<1> QED
  BY <1>1, <1>2, <1>3, <1>4, <1>5, <1>6, <1>7, <1>8, <1>9, <1>10, <1>11 DEF Next, Pass

\* With one replacement for each symbol the saved function of every replacement in
\* use is the original, through any sequence of passes, failures, reloads and
\* clears (xh_elf_replace_function).
THEOREM OriginalsKept ==
  ASSUME OneReplacement
  PROVE Spec => []OldIsOriginal
<1>1. TypeOK /\ ReplaceInv => OldIsOriginal
  BY NamesAssumption, LibraryAssumption DEF TypeOK, ReplaceInv, SlotInv, OldIsOriginal
<1>2. TypeOK /\ ReplaceInv /\ [Next]_vars => ReplaceInv'
  BY ReplaceStep
<1> QED
  BY <1>1, <1>2, TypeInit, TypeStep, ReplaceInit, PTL DEF Spec

-----------------------------------------------------------------------------

\* What is kept from replacement, slot by slot.
Kept == \A b \in Bases, s \in Slots :
          mem[b] # None /\ s \in Imports[mem[b]] /\ slot[b][s] \in Fns
            => ~Ignores(mem[b], Symbol[s])

LEMMA KeptEach == IgnoredKept <=> Kept
<1>1. ASSUME IgnoredKept, NEW b \in Bases, NEW s \in Slots,
             mem[b] # None /\ s \in Imports[mem[b]] /\ slot[b][s] \in Fns
      PROVE ~Ignores(mem[b], Symbol[s])
  <2>1. <<b, s>> \in Live
    BY <1>1 DEF Live
  <2> QED
    BY <2>1, <1>1 DEF IgnoredKept
<1>2. Kept => IgnoredKept
  BY DEF Kept, IgnoredKept, Live
<1> QED
  BY <1>1, <1>2 DEF Kept

\* The same of the next state.
LEMMA KeptEachThen == Kept' => IgnoredKept'
BY DEF Kept, IgnoredKept, Live

\* A slot that is pristine holds no replacement.
LEMMA PristineIsNone == \A s \in Slots : Pristine[s] \notin Fns
BY NamesAssumption, LibraryAssumption DEF Pristine

\* At the start nothing is replaced.
LEMMA KeptInit == Init => KeptInv
<1> SUFFICES ASSUME Init PROVE KeptInv
  OBVIOUS
<1>1. ListsInv /\ LineInv /\ TodoInv
  BY DEF Init, ListsInv, LineInv, TodoInv, Handling, Inside
<1>2. Kept
  BY PristineIsNone DEF Init, Kept
<1> QED
  BY <1>1, <1>2, KeptEach DEF KeptInv

\* Every step keeps what is ignored from replacement.
LEMMA KeptStep ==
  ASSUME IgnoresFirst
  PROVE TypeOK /\ KeptInv /\ [Next]_vars => KeptInv'
<1> SUFFICES ASSUME TypeOK, KeptInv, [Next]_vars PROVE KeptInv'
  OBVIOUS
<1> DEFINE K == ListsInv /\ LineInv /\ TodoInv /\ Kept
<1>0. K /\ (K' => KeptInv')
  BY KeptEach, KeptEachThen DEF KeptInv
<1> SUFFICES K'
  BY <1>0
<1> USE NamesAssumption, LibraryAssumption, InfosAssumption, PristineIsNone
    DEF ListsInv, LineInv, TodoInv, Kept, Handling, Inside, Ignores, TypeOK, Stages
<1>1. ASSUME NEW b \in Bases, NEW p \in Paths, Dlopen(b, p) PROVE K'
  BY <1>0, <1>1 DEF Dlopen, listVars, posVars, elfVars
<1>2. ASSUME NEW b \in Bases, Dlclose(b) PROVE K'
  BY <1>0, <1>2 DEF Dlclose, listVars, posVars, elfVars
<1>3. ASSUME NEW h \in HookInfos, Register(h) PROVE K'
  BY <1>0, <1>3 DEF Register, libVars, posVars, elfVars, SlotsOf
<1>4. ASSUME NEW i \in IgnoreInfos, IgnoreTest(i) PROVE K'
  BY <1>0, <1>4 DEF IgnoreTest, libVars, posVars, elfVars
<1>5. CASE IgnoreAppend
  BY <1>0, <1>5 DEF IgnoreAppend, libVars, posVars, elfVars
<1>6. CASE BeginPass
  BY <1>0, <1>6, IgnoresFirst DEF IgnoresFirst, BeginPass, libVars, posVars, elfVars
<1>7. CASE NextLine
  BY <1>0, <1>7 DEF NextLine, libVars, listVars, elfVars
<1>8. CASE ElfInit
  BY <1>0, <1>8 DEF ElfInit, libVars, listVars, posVars
<1>9. CASE NextHook
  BY <1>0, <1>9 DEF NextHook, libVars, listVars, posVars
<1>10. CASE WriteSlot
  BY <1>0, <1>10 DEF WriteSlot, SlotsOf, listVars, posVars
<1>11. ASSUME NEW s \in Slots, SkipSlot(s) PROVE K'
  BY <1>0, <1>11 DEF SkipSlot, libVars, listVars, posVars
<1>12. ASSUME NEW s \in Slots, SaveOld(s) PROVE K'
  BY <1>0, <1>12 DEF SaveOld, libVars, listVars, posVars
<1>13. CASE GiveUpSymbol
  BY <1>0, <1>13 DEF GiveUpSymbol, libVars, listVars, posVars
<1>14. CASE Fault \/ LastHook
  BY <1>0, <1>14 DEF Fault, LastHook, libVars, listVars, posVars
<1>15. CASE LastLine \/ CheckHeader \/ RefuseElf \/ UpdateEntry \/ CreateEntry
  BY <1>0, <1>15 DEF LastLine, CheckHeader, RefuseElf, UpdateEntry, CreateEntry, libVars,
     listVars, posVars, elfVars
<1>16. CASE EndPass
  BY <1>0, <1>16 DEF EndPass, libVars, listVars, elfVars
<1>17. ~Clear
  BY IgnoresFirst DEF Clear, IgnoresFirst
<1>18. CASE UNCHANGED vars
  BY <1>0, <1>18 DEF vars, libVars, listVars, posVars, elfVars
<1> QED
  BY <1>1, <1>2, <1>3, <1>4, <1>5, <1>6, <1>7, <1>8, <1>9, <1>10, <1>11, <1>12, <1>13,
     <1>14, <1>15, <1>16, <1>17, <1>18 DEF Next, Pass

\* When every ignore comes before the first pass, a slot that is ignored is never replaced,
\* whatever is unloaded, comes back or takes the address of the line being handled
\* (xh_core_hook_impl and the test in xh_core_ignore).
THEOREM IgnoredUntouched ==
  ASSUME IgnoresFirst
  PROVE Spec => []IgnoredKept
<1>1. TypeOK /\ KeptInv /\ [Next]_vars => KeptInv'
  BY KeptStep
<1>2. KeptInv => IgnoredKept
  BY DEF KeptInv
<1> QED
  BY <1>1, <1>2, TypeInit, TypeStep, KeptInit, PTL DEF Spec

-----------------------------------------------------------------------------

\* A set of numbers that is not empty has a least member.
LEMMA Least ==
  ASSUME NEW S \in SUBSET Nat, S # {}
  PROVE  \E n \in S : \A m \in S : n <= m
<1>1. PICK n \in S : \A m \in S : <<m, n>> \notin OpToRel(<, Nat)
  BY NatLessThanWellFounded, WFMin
<1>2. \A m \in S : ~ m < n
  BY <1>1 DEF OpToRel
<1> QED
  BY <1>2

\* A path the pass does not look into has nothing to replace: with whole libraries
\* ignored, the first hook that matches decides for all of them.
LEMMA NotWantedDone ==
  ASSUME TypeOK, NothingMissed, NEW p \in Paths, ~Wanted(p), NEW b \in Bases
  PROVE  Done(b, p)
<1> SUFFICES ASSUME NEW s \in Imports[p], NEW i \in DOMAIN hooks, Applies(i, p, s)
             PROVE FALSE
  BY DEF Done
<1> DEFINE S == {j \in DOMAIN hooks : p \in hooks[j].regex}
<1>1. hooks \in Seq(HookInfos) /\ ignores \in Seq(IgnoreInfos)
  BY DEF TypeOK
<1>2. i \in S /\ S \subseteq Nat
  BY <1>1 DEF Applies
<1>3. PICK j \in S : \A k \in S : j <= k
  BY <1>2, Least
<1>4. \A k \in 1..(j - 1) : p \notin hooks[k].regex
  BY <1>1, <1>3
<1>5. \A k \in DOMAIN ignores : ignores[k].symbol = AllSyms
  BY <1>1 DEF NothingMissed
<1>6. ~Ignores(p, hooks[j].symbol)
  BY <1>5 DEF Applies, Ignores
<1> QED
  BY <1>3, <1>4, <1>6 DEF Wanted

\* A library stays done as long as no hook is added and no replacement undone.
LEMMA DoneStays ==
  ASSUME UNCHANGED hooks, NEW b, NEW p,
         \A q, s : Ignores(q, s) => Ignores(q, s)',
         \A s \in Slots : slot[b][s] \in Fns => slot'[b][s] \in Fns,
         Imports[p] \subseteq Slots,
         Done(b, p)
  PROVE  Done(b, p)'
BY DEF Done, Applies

\* An ignore that is added ignores no less.
LEMMA IgnoresGrow ==
  ASSUME TypeOK, IgnoreAppend, NEW q, NEW s, Ignores(q, s)
  PROVE  Ignores(q, s)'
<1>1. ignores \in Seq(IgnoreInfos) /\ pending \in IgnoreInfos
  BY DEF TypeOK, IgnoreAppend
<1>2. \A i \in DOMAIN ignores : i \in DOMAIN ignores' /\ ignores'[i] = ignores[i]
  BY <1>1 DEF IgnoreAppend
<1> QED
  BY <1>2 DEF Ignores

\* Every step keeps what has been met.
LEMMA MetStep == TypeOK /\ MetInv /\ [Next]_vars => MetInv'
<1> SUFFICES ASSUME TypeOK, MetInv, [Next]_vars PROVE MetInv'
  OBVIOUS
<1> USE NamesAssumption DEF MetInv, Handling, TypeOK, Bases, Stages
<1>1. ASSUME NEW b \in Bases, NEW p \in Paths, Dlopen(b, p) PROVE MetInv'
  BY <1>1 DEF Dlopen, treeVars, posVars
<1>2. ASSUME NEW b \in Bases, Dlclose(b) PROVE MetInv'
  BY <1>2 DEF Dlclose, treeVars, posVars
<1>3. CASE NextLine
  BY <1>3 DEF NextLine, libVars, treeVars
<1>4. CASE UpdateEntry
  BY <1>4 DEF UpdateEntry, libVars, posVars
<1>5. CASE CreateEntry
  <2>1. /\ UNCHANGED <<mem, past, tree, line, path>> /\ at = "entry"
        /\ at' \in {"init", "maps"}
    BY <1>5 DEF CreateEntry, libVars, posVars
  <2>2. newtree' \in {newtree, [newtree EXCEPT ![path] = IF @ = None THEN line ELSE @]}
    BY <1>5 DEF CreateEntry
  <2>3. \A p \in Paths : newtree'[p] = newtree[p] \/ (p = path /\ newtree'[p] = line)
    BY <2>2
  <2> QED
    BY <2>1, <2>3
<1>6. CASE EndPass
  BY <1>6 DEF EndPass, libVars, NoEntries
<1>7. CASE Clear
  BY <1>7 DEF Clear, libVars, posVars, NoEntries
<1>8. CASE UNCHANGED <<libVars, treeVars, posVars>> /\ (Handling' => Handling)
  BY <1>8 DEF libVars, treeVars, posVars
<1>9. ASSUME UNCHANGED vars \/ (\E h \in HookInfos : Register(h))
             \/ (\E i \in IgnoreInfos : IgnoreTest(i)) \/ IgnoreAppend \/ BeginPass
             \/ LastLine \/ CheckHeader \/ Fault \/ RefuseElf \/ ElfInit \/ NextHook
             \/ LastHook \/ GiveUpSymbol
             \/ \E s \in Slots : SkipSlot(s) \/ SaveOld(s)
      PROVE UNCHANGED <<libVars, treeVars, posVars>> /\ (Handling' => Handling)
  BY <1>9 DEF vars, Register, IgnoreTest, IgnoreAppend, BeginPass, LastLine, CheckHeader,
     Fault, RefuseElf, ElfInit, NextHook, LastHook, GiveUpSymbol, SkipSlot, SaveOld
<1>10. CASE WriteSlot
  BY <1>10 DEF WriteSlot, treeVars, posVars
<1> QED
  BY <1>1, <1>2, <1>3, <1>4, <1>5, <1>6, <1>7, <1>8, <1>9, <1>10 DEF Next, Pass

\* Every step keeps the order in which the lines are gone through.
LEMMA OrderStep ==
  TypeOK /\ MetInv /\ OrderInv /\ [Next]_vars => OrderInv'
<1> SUFFICES ASSUME TypeOK, MetInv, OrderInv, [Next]_vars PROVE OrderInv'
  OBVIOUS
<1> USE NamesAssumption, NumBasesAssumption
    DEF OrderInv, Handling, Inside, TypeOK, Bases, Stages, NoEntries
<1>1. ASSUME NEW b \in Bases, NEW p \in Paths, Dlopen(b, p) PROVE OrderInv'
  BY <1>1 DEF Dlopen, treeVars, posVars, elfVars
<1>2. ASSUME NEW b \in Bases, Dlclose(b) PROVE OrderInv'
  BY <1>2 DEF Dlclose, treeVars, posVars, elfVars
<1>3. CASE NextLine
  BY <1>3 DEF NextLine, libVars, treeVars, elfVars, MetInv
<1>4. CASE LastLine
  BY <1>4 DEF LastLine, libVars, treeVars, posVars, elfVars
<1>5. CASE UpdateEntry
  BY <1>5 DEF UpdateEntry, libVars, posVars, elfVars
<1>6. CASE CreateEntry
  BY <1>6 DEF CreateEntry, libVars, posVars, elfVars
<1>7. CASE EndPass
  BY <1>7 DEF EndPass, libVars, elfVars
<1>8. CASE Clear
  BY <1>8 DEF Clear, libVars, posVars, elfVars
<1>9. CASE BeginPass
  BY <1>9 DEF BeginPass, libVars, treeVars, posVars, elfVars
<1>10. CASE ElfInit
  BY <1>10 DEF ElfInit, libVars, treeVars, posVars
<1>11. CASE WriteSlot
  BY <1>11 DEF WriteSlot, treeVars, posVars
<1>12. CASE CheckHeader \/ RefuseElf
  BY <1>12 DEF CheckHeader, RefuseElf, libVars, treeVars, posVars, elfVars
<1>13. CASE Fault \/ NextHook \/ LastHook
  BY <1>13 DEF Fault, NextHook, LastHook, libVars, treeVars, posVars
<1>14. CASE UNCHANGED <<libVars, treeVars, posVars, image, calm>>
            /\ (at' # at => at = "hook" /\ at' = "write")
  BY <1>14 DEF libVars, treeVars, posVars
<1>15. ASSUME UNCHANGED vars \/ (\E h \in HookInfos : Register(h))
              \/ (\E i \in IgnoreInfos : IgnoreTest(i)) \/ IgnoreAppend
              \/ GiveUpSymbol \/ \E s \in Slots : SkipSlot(s) \/ SaveOld(s)
       PROVE UNCHANGED <<libVars, treeVars, posVars, image, calm>>
             /\ (at' # at => at = "hook" /\ at' = "write")
  BY <1>15 DEF vars, Register, IgnoreTest, IgnoreAppend, GiveUpSymbol, SkipSlot, SaveOld,
     elfVars
<1> QED
  BY <1>1, <1>2, <1>3, <1>4, <1>5, <1>6, <1>7, <1>8, <1>9, <1>10, <1>11, <1>12, <1>13,
     <1>14, <1>15 DEF Next, Pass
\* None is no address and no path.
LEMMA NoneIsNone == None \notin Bases /\ None \notin Paths
BY NamesAssumption DEF Bases

\* Where a step leaves the entries alone and the lists but for an ignore, what is cached
\* stays done, unless the pass leaves the entry in hand.
LEMMA CachedFrame ==
  ASSUME TypeOK, CachedInv, UNCHANGED <<mem, treeVars, hooks, posVars, inited>>,
         \A q, s : Ignores(q, s) => Ignores(q, s)',
         \A b \in Bases, s \in Slots : slot[b][s] \in Fns => slot'[b][s] \in Fns,
         at = "idle" => at' = "idle",
         at \in {"init", "hook", "write"} =>
           \/ at' \in {"init", "hook", "write"}
           \/ mem[line] # path
           \/ Done(line, path)
  PROVE  CachedInv'
<1> USE NoneIsNone, LibraryAssumption DEF TypeOK, treeVars, posVars
<1>1. ASSUME NEW b \in Bases, NEW p \in Paths, Done(b, p) PROVE Done(b, p)'
  BY <1>1, DoneStays
<1>2. (~inited => at = "idle" /\ tree = NoEntries)'
  BY DEF CachedInv, NoEntries
<1>3. ASSUME NEW p \in Paths, NEW b \in Bases, tree[p] = b, mem[b] = p PROVE Done(b, p)'
  BY <1>1, <1>3 DEF CachedInv
<1>4. ASSUME NEW p \in Paths, NEW b \in Bases, newtree[p] = b, mem[b] = p
      PROVE \/ Done(b, p)'
            \/ at' \in {"init", "hook", "write"} /\ path = p /\ line = b
  <2>1. CASE Done(b, p)
    BY <1>1, <2>1
  <2>2. CASE at \in {"init", "hook", "write"} /\ path = p /\ line = b
    BY <1>1, <1>4, <2>2
  <2> QED
    BY <1>4, <2>1, <2>2 DEF CachedInv
<1> QED
  BY <1>2, <1>3, <1>4 DEF CachedInv

\* What the pass has gone through of the library in hand is all of it in the end.
LEMMA LastHookDone ==
  ASSUME TypeOK, InHandInv, Inside, todo = {}, hook = Len(hooks), mem[line] = path
  PROVE  Done(line, path)
<1>1. hooks \in Seq(HookInfos) /\ DOMAIN hooks = 1..hook
  BY DEF TypeOK
<1> QED
  BY <1>1 DEF InHandInv, Progress, Done

\* A library that goes or comes leaves what is cached done.
LEMMA CachedLink ==
  ASSUME NothingMissed, TypeOK, MetInv, CachedInv, NEW b \in Bases,
         Dlclose(b) \/ \E p \in Paths : Dlopen(b, p)
  PROVE  CachedInv'
<1> USE NoneIsNone, LibraryAssumption DEF TypeOK
<1>1. UNCHANGED <<hooks, ignores, inited, tree, newtree, at, line, path>>
  BY DEF Dlclose, Dlopen, listVars, treeVars, posVars
<1>2. ASSUME NEW c \in Bases, NEW p \in Paths, p \in past[c], mem'[c] = p
      PROVE c # b /\ mem[c] = p
  BY <1>2 DEF Dlclose, Dlopen, NothingMissed
<1>3. ASSUME NEW c \in Bases, c # b PROVE slot'[c] = slot[c]
  BY <1>3 DEF Dlclose, Dlopen
<1>4. ASSUME NEW c \in Bases, c # b, NEW p \in Paths, Done(c, p) PROVE Done(c, p)'
  BY <1>1, <1>3, <1>4 DEF Done, Applies, Ignores
<1>5. ASSUME NEW p \in Paths, NEW c \in Bases, tree[p] = c, mem'[c] = p PROVE Done(c, p)'
  <2>1. p \in past[c]
    BY <1>5 DEF MetInv
  <2>2. c # b /\ mem[c] = p
    BY <1>2, <1>5, <2>1
  <2> QED
    BY <1>4, <1>5, <2>2 DEF CachedInv
<1>6. ASSUME NEW p \in Paths, NEW c \in Bases, newtree[p] = c, mem'[c] = p
      PROVE \/ Done(c, p)'
            \/ at \in {"init", "hook", "write"} /\ path = p /\ line = c
  <2>1. p \in past[c]
    BY <1>6 DEF MetInv
  <2>2. c # b /\ mem[c] = p
    BY <1>2, <1>6, <2>1
  <2> QED
    BY <1>4, <1>6, <2>2 DEF CachedInv
<1> QED
  BY <1>1, <1>5, <1>6 DEF CachedInv, NoEntries

\* An entry that moves to the new tree, or is created there, is in hand unless it is
\* done.
LEMMA CachedEntry ==
  ASSUME NothingMissed, TypeOK, OrderInv, CachedInv, UpdateEntry \/ CreateEntry
  PROVE  CachedInv'
<1> USE NoneIsNone DEF TypeOK
<1>1. /\ UNCHANGED <<mem, slot, hooks, ignores, inited, line, path>>
      /\ at = "entry" /\ line \in Bases /\ path \in Paths
  BY DEF UpdateEntry, CreateEntry, libVars, listVars, posVars
<1>2. newtree' = [newtree EXCEPT ![path] = IF @ = None THEN line ELSE @]
  BY DEF UpdateEntry, CreateEntry, NothingMissed
<1>3. \A p \in Paths : tree'[p] \in {tree[p], None}
  BY DEF UpdateEntry, CreateEntry
<1>4. newtree[path] = None => at' = "init" \/ tree[path] = line
  BY DEF UpdateEntry, CreateEntry, NothingMissed
<1>5. ASSUME NEW b \in Bases, NEW p \in Paths, Done(b, p) PROVE Done(b, p)'
  BY <1>1, <1>5 DEF Done, Applies, Ignores
<1>6. ASSUME NEW p \in Paths, NEW b \in Bases, tree'[p] = b, mem[b] = p PROVE Done(b, p)'
  BY <1>3, <1>5, <1>6 DEF CachedInv
<1>7. ASSUME NEW p \in Paths, NEW b \in Bases, newtree'[p] = b, mem[b] = p
      PROVE \/ Done(b, p)'
            \/ at' \in {"init", "hook", "write"} /\ path = p /\ line = b
  <2>1. CASE newtree[p] # None
    BY <1>1, <1>2, <1>5, <1>7, <2>1 DEF CachedInv
  <2>2. CASE newtree[p] = None
    BY <1>1, <1>2, <1>4, <1>5, <1>7, <2>2 DEF CachedInv
  <2> QED
    BY <2>1, <2>2
<1> QED
  BY <1>1, <1>6, <1>7 DEF CachedInv

\* Every step leaves what is cached done.
LEMMA CachedStep ==
  ASSUME NothingMissed
  PROVE TypeOK /\ HookedInv /\ [Next]_vars => CachedInv'
<1> SUFFICES ASSUME TypeOK, HookedInv, [Next]_vars PROVE CachedInv'
  OBVIOUS
<1>0. MetInv /\ OrderInv /\ CachedInv /\ InHandInv /\ PassedInv
  BY DEF HookedInv
<1>1. ASSUME NEW b \in Bases, Dlclose(b) \/ \E p \in Paths : Dlopen(b, p) PROVE CachedInv'
  BY <1>0, <1>1, CachedLink
<1>2. CASE UpdateEntry \/ CreateEntry
  BY <1>0, <1>2, CachedEntry
<1>3. ASSUME NEW h \in HookInfos, Register(h) PROVE CachedInv'
  <2>1. ~inited /\ UNCHANGED <<mem, inited, at, tree, newtree>>
    BY <1>3, NothingMissed DEF NothingMissed, Register, libVars, treeVars
  <2> QED
    BY <1>0, <2>1, NoneIsNone DEF CachedInv, OrderInv, NoEntries
<1>4. CASE BeginPass
  <2>1. UNCHANGED <<mem, slot, hooks, ignores, tree, newtree>> /\ inited' /\ at = "idle"
    BY <1>4 DEF BeginPass, libVars, treeVars
  <2> QED
    BY <1>0, <2>1 DEF CachedInv, OrderInv, NoEntries, Done, Applies, Ignores
<1>5. CASE NextLine
  <2>1. /\ UNCHANGED <<mem, slot, hooks, ignores, inited, tree, newtree>>
        /\ at = "maps" /\ at' # "idle"
    BY <1>5 DEF NextLine, libVars, listVars, treeVars
  <2> QED
    BY <1>0, <2>1 DEF CachedInv, Done, Applies, Ignores
<1>6. CASE EndPass
  <2>1. /\ UNCHANGED <<mem, slot, hooks, ignores, inited>>
        /\ at = "end" /\ tree' = newtree /\ newtree' = NoEntries /\ at' = "idle"
    BY <1>6 DEF EndPass, libVars, listVars
  <2>2. ASSUME NEW b \in Bases, NEW p \in Paths, Done(b, p) PROVE Done(b, p)'
    BY <2>1, <2>2 DEF Done, Applies, Ignores
  <2> QED
    BY <1>0, <2>1, <2>2, NoneIsNone DEF CachedInv, NoEntries
<1>7. CASE Clear
  <2>1. /\ UNCHANGED <<mem, newtree, at>>
        /\ at = "idle" /\ tree' = NoEntries
    BY <1>7 DEF Clear, libVars
  <2> QED
    BY <1>0, <2>1, NoneIsNone DEF CachedInv, OrderInv, NoEntries
<1>8. CASE IgnoreAppend
  BY <1>0, <1>8, IgnoresGrow, CachedFrame DEF IgnoreAppend, libVars, treeVars, posVars
<1>9. CASE WriteSlot
  <2>1. /\ UNCHANGED <<mem, hooks, ignores, inited, tree, newtree, line, path>>
        /\ at' = "hook"
        /\ slot' = [slot EXCEPT ![line][writing] = hooks[hook].new]
    BY <1>9 DEF WriteSlot, listVars, treeVars, posVars
  <2>2. hooks[hook].new \in Fns
    BY <1>9, InfosAssumption DEF WriteSlot, TypeOK, HookInfo
  <2>3. \A b \in Bases, s \in Slots : slot[b][s] \in Fns => slot'[b][s] \in Fns
    BY <2>1, <2>2 DEF TypeOK
  <2> QED
    BY <1>0, <2>1, <2>3, <1>9, CachedFrame DEF WriteSlot, Ignores, treeVars, posVars
<1>10. CASE LastHook
  <2>1. mem[line] = path => Done(line, path)
    BY <1>0, <1>10, LastHookDone DEF LastHook, Inside
  <2> QED
    BY <1>0, <1>10, <2>1, CachedFrame
    DEF LastHook, Ignores, libVars, listVars, treeVars, posVars
<1>11. CASE Fault
  <2>1. at \in {"init", "hook", "write"} => mem[line] # path
    BY <1>11, NamesAssumption DEF Fault, TypeOK
  <2> QED
    BY <1>0, <1>11, <2>1, CachedFrame
    DEF Fault, Ignores, libVars, listVars, treeVars, posVars
<1>12. CASE LastLine \/ CheckHeader
  BY <1>0, <1>12, CachedFrame
  DEF LastLine, CheckHeader, Ignores, libVars, listVars, treeVars, posVars
<1>13. CASE ElfInit \/ NextHook
  BY <1>0, <1>13, CachedFrame
  DEF ElfInit, NextHook, Ignores, libVars, listVars, treeVars, posVars
<1>14. ASSUME NEW s \in Slots, SkipSlot(s) \/ SaveOld(s) PROVE CachedInv'
  BY <1>0, <1>14, CachedFrame
  DEF SkipSlot, SaveOld, Ignores, libVars, listVars, treeVars, posVars
<1>15. CASE GiveUpSymbol
  BY <1>0, <1>15, CachedFrame
  DEF GiveUpSymbol, Ignores, libVars, listVars, treeVars, posVars
<1>16. ASSUME NEW i \in IgnoreInfos, IgnoreTest(i) PROVE CachedInv'
  BY <1>0, <1>16, CachedFrame DEF IgnoreTest, Ignores, libVars, treeVars, posVars
<1>17. CASE UNCHANGED vars
  BY <1>0, <1>17, CachedFrame DEF vars, Ignores, libVars, listVars, treeVars, posVars
<1>18. ~RefuseElf
  BY NothingMissed DEF NothingMissed, RefuseElf
<1> QED
  BY <1>1, <1>2, <1>3, <1>4, <1>5, <1>6, <1>7, <1>8, <1>9, <1>10, <1>11, <1>12, <1>13,
     <1>14, <1>15, <1>16, <1>17, <1>18 DEF Next, Pass
\* The next hook visits every slot it applies to, in the library the line names.
LEMMA InHandNext ==
  ASSUME TypeOK, OrderInv, InHandInv, NextHook, mem[line] = path, NEW s \in Imports[path],
         NEW i \in 1..(hook + 1), Applies(i, path, s)
  PROVE  slot[line][s] \in Fns \/ (i = hook + 1 /\ s \in todo')
<1> USE NoneIsNone, LibraryAssumption DEF TypeOK, Inside
<1>1. at = "hook" /\ todo = {} /\ image = path /\ hook \in Nat
  BY DEF NextHook, OrderInv
<1>2. CASE i # hook + 1
  BY <1>1, <1>2 DEF InHandInv, Progress
<1>3. CASE i = hook + 1
  BY <1>1, <1>3 DEF NextHook, Applies, SlotsOf
<1> QED
  BY <1>2, <1>3

\* Every step keeps the hooks before the current one done.
LEMMA InHandStep ==
  ASSUME NothingMissed
  PROVE TypeOK /\ HookedInv /\ [Next]_vars => InHandInv'
<1> SUFFICES ASSUME TypeOK, HookedInv, [Next]_vars PROVE InHandInv'
  OBVIOUS
<1>0. OrderInv /\ CachedInv /\ InHandInv
  BY DEF HookedInv
<1> USE NoneIsNone, LibraryAssumption DEF Inside, Stages, TypeOK
<1>1. ASSUME NEW b \in Bases, Dlclose(b) \/ \E p \in Paths : Dlopen(b, p) PROVE InHandInv'
  <2>1. /\ UNCHANGED <<hooks, ignores, at, line, path, hook, todo>>
        /\ mem'[line] = path /\ Inside =>
             mem[line] = path /\ slot'[line] = slot[line]
    BY <1>1 DEF Dlclose, Dlopen, listVars, posVars, elfVars
  <2> QED
    BY <1>0, <2>1 DEF InHandInv, Progress, Applies, Ignores
<1>2. ASSUME NEW h \in HookInfos, Register(h) PROVE InHandInv'
  BY <1>0, <1>2, NothingMissed DEF NothingMissed, Register, CachedInv, InHandInv
<1>3. CASE IgnoreAppend
  <2>1. UNCHANGED <<mem, slot, hooks, at, line, path, hook, todo>>
    BY <1>3 DEF IgnoreAppend, libVars, posVars, elfVars
  <2> QED
    BY <1>0, <1>3, <2>1, IgnoresGrow DEF InHandInv, Progress, Applies
<1>4. CASE NextHook
  <2>1. UNCHANGED <<mem, slot, hooks, ignores, at, line, path>> /\ hook' = hook + 1
    BY <1>4 DEF NextHook, libVars, listVars, posVars
  <2>2. ASSUME mem[line] = path, NEW s \in Imports[path], NEW i \in 1..(hook + 1),
               Applies(i, path, s)
        PROVE slot[line][s] \in Fns \/ (i = hook + 1 /\ s \in todo')
    BY <1>0, <1>4, <2>2, InHandNext
  <2> QED
    BY <2>1, <2>2 DEF InHandInv, Progress, Applies, Ignores
<1>5. CASE ElfInit
  BY <1>5 DEF ElfInit, InHandInv, Progress
<1>6. ASSUME NEW s \in Slots, SkipSlot(s) PROVE InHandInv'
  <2>1. /\ UNCHANGED <<mem, slot, hooks, ignores, at, line, path, hook>>
        /\ slot[line][s] \in Fns /\ todo' = todo \ {s} /\ at = "hook"
    BY <1>6, InfosAssumption DEF SkipSlot, HookInfo, libVars, listVars, posVars
  <2> QED
    BY <1>0, <2>1 DEF InHandInv, Progress, Applies, Ignores
<1>7. ASSUME NEW s \in Slots, SaveOld(s) PROVE InHandInv'
  <2>1. UNCHANGED <<mem, slot, hooks, ignores, line, path, hook, todo>> /\ at = "hook"
    BY <1>7 DEF SaveOld, libVars, listVars, posVars
  <2> QED
    BY <1>0, <2>1 DEF InHandInv, Progress, Applies, Ignores
<1>8. CASE WriteSlot
  <2>1. /\ UNCHANGED <<mem, hooks, ignores, line, path, hook>>
        /\ slot' = [slot EXCEPT ![line][writing] = hooks[hook].new]
        /\ at = "write" /\ todo' = todo \ {writing} /\ hooks[hook].new \in Fns
    BY <1>8, InfosAssumption DEF WriteSlot, HookInfo, listVars, posVars
  <2> QED
    BY <1>0, <2>1 DEF InHandInv, Progress, Applies, Ignores
<1>9. CASE ~Inside'
  BY <1>9 DEF InHandInv
<1>10. ASSUME BeginPass \/ NextLine \/ LastLine \/ CheckHeader \/ Fault \/ UpdateEntry
              \/ CreateEntry \/ LastHook \/ EndPass \/ Clear
       PROVE ~Inside'
  BY <1>10 DEF BeginPass, NextLine, LastLine, CheckHeader, Fault, UpdateEntry, CreateEntry,
     LastHook, EndPass, Clear
<1>11. ASSUME UNCHANGED vars \/ \E i \in IgnoreInfos : IgnoreTest(i) PROVE InHandInv'
  <2>1. UNCHANGED <<mem, slot, hooks, ignores, at, line, path, hook, todo>>
    BY <1>11 DEF vars, IgnoreTest, libVars, listVars, posVars, elfVars
  <2> QED
    BY <1>0, <2>1 DEF InHandInv, Progress, Applies, Ignores
<1>12. CASE GiveUpSymbol
  <2>1. mem'[line'] # path'
    BY <1>12, NothingMissed DEF NothingMissed, GiveUpSymbol, libVars, posVars
  <2> QED
    BY <2>1 DEF InHandInv
<1>13. ~RefuseElf
  BY NothingMissed DEF NothingMissed, RefuseElf
<1> QED
  BY <1>1, <1>2, <1>3, <1>4, <1>5, <1>6, <1>7, <1>8, <1>9, <1>10, <1>11, <1>12, <1>13
  DEF Next, Pass

\* Where nothing comes, hooks stay and no replacement is undone, what the pass is past
\* stays done, but for the line it leaves.
LEMMA PassedFrame ==
  ASSUME TypeOK, PassedInv, at # "idle", UNCHANGED <<hooks, posVars, calm>>,
         \A q, s : Ignores(q, s) => Ignores(q, s)',
         \A b \in Bases : mem'[b] # None =>
           /\ mem'[b] = mem[b]
           /\ \A s \in Slots : slot[b][s] \in Fns => slot'[b][s] \in Fns,
         calm /\ Handling /\ mem[line] # None => Handling' \/ Done(line, mem[line])
  PROVE  PassedInv'
<1> USE NoneIsNone, LibraryAssumption DEF TypeOK, posVars
<1> SUFFICES ASSUME calm, at' # "idle", NEW b \in Bases, mem'[b] # None, b <= line
             PROVE  Done(b, mem[b])' \/ (b = line /\ Handling')
  BY DEF PassedInv
<1>1. PICK p \in Paths : p = mem[b]
  OBVIOUS
<1>2. mem'[b] = p
  BY <1>1
<1>3. Done(b, p) => Done(b, p)'
  BY DoneStays
<1>4. Done(b, p)' => Done(b, mem[b])'
  BY <1>2
<1>5. Done(b, p) \/ (b = line /\ Handling)
  BY <1>1 DEF PassedInv
<1>6. Done(b, p) \/ (b = line /\ Handling')
  BY <1>1, <1>5
<1> QED
  BY <1>3, <1>4, <1>6

\* The next line is the next library's, and one that is not looked into has nothing to
\* replace.
LEMMA PassedNext ==
  ASSUME NothingMissed, TypeOK, PassedInv, NextLine
  PROVE  PassedInv'
<1> USE NoneIsNone DEF TypeOK, Bases
<1>1. /\ UNCHANGED <<mem, slot, hooks, ignores, calm>> /\ at = "maps" /\ line' \in Bases
      /\ \A c \in Bases : c > line /\ mem[c] # None => line' <= c
      /\ at' = IF Wanted(mem[line']) THEN "check" ELSE "maps"
  BY DEF NextLine, libVars, listVars, elfVars
<1> SUFFICES ASSUME calm, NEW b \in Bases, NEW p \in Paths, mem[b] = p, b <= line',
                    ~(b = line' /\ Handling')
             PROVE  Done(b, p)'
  BY <1>1 DEF PassedInv
<1>2. CASE b <= line
  <2>1. Done(b, p)
    BY <1>1, <1>2 DEF PassedInv, Handling
  <2> QED
    BY <1>1, <2>1 DEF Done, Applies, Ignores
<1>3. CASE ~ b <= line
  <2>1. b = line' /\ ~Wanted(p)
    BY <1>1, <1>3, NumBasesAssumption DEF Handling
  <2>2. Done(b, p)
    BY <2>1, NotWantedDone
  <2> QED
    BY <1>1, <2>2 DEF Done, Applies, Ignores
<1> QED
  BY <1>2, <1>3

\* Every step leaves done what the pass is past.
LEMMA PassedStep ==
  ASSUME NothingMissed
  PROVE TypeOK /\ HookedInv /\ [Next]_vars => PassedInv'
<1> SUFFICES ASSUME TypeOK, HookedInv, [Next]_vars PROVE PassedInv'
  OBVIOUS
<1>0. OrderInv /\ CachedInv /\ InHandInv /\ PassedInv
  BY DEF HookedInv
<1> USE NoneIsNone
<1>1. CASE at' = "idle"
  BY <1>1 DEF PassedInv
<1>2. ASSUME NEW b \in Bases, NEW p \in Paths, Dlopen(b, p) PROVE PassedInv'
  BY <1>2 DEF Dlopen, PassedInv
<1>3. CASE BeginPass
  <2>1. line' = 0
    BY <1>0, <1>3 DEF BeginPass, OrderInv, posVars
  <2> QED
    BY <2>1 DEF PassedInv, Bases
<1>4. CASE NextLine
  BY <1>0, <1>4, PassedNext
<1>5. CASE at # "idle" /\ \E b \in Bases : Dlclose(b)
  <2>1. PICK b \in Bases : Dlclose(b)
    BY <1>5
  <2>2. /\ UNCHANGED <<hooks, posVars, calm>> /\ (Handling => Handling')
        /\ \A q, s : Ignores(q, s) => Ignores(q, s)'
    BY <2>1 DEF Dlclose, listVars, Handling, Ignores
  <2>3. \A c \in Bases : mem'[c] # None => mem'[c] = mem[c] /\ slot'[c] = slot[c]
    BY <2>1 DEF Dlclose, TypeOK
  <2> QED
    BY <1>0, <1>5, <2>2, <2>3, PassedFrame
<1>6. ASSUME NEW h \in HookInfos, Register(h) PROVE at' = "idle"
  BY <1>0, <1>6, NothingMissed DEF NothingMissed, Register, CachedInv
<1>7. CASE at # "idle" /\ IgnoreAppend
  BY <1>0, <1>7, IgnoresGrow, PassedFrame DEF IgnoreAppend, libVars, Handling
<1>8. CASE WriteSlot
  <2>1. /\ UNCHANGED <<mem, hooks, ignores, posVars, calm>> /\ at # "idle" /\ Handling'
        /\ slot' = [slot EXCEPT ![line][writing] = hooks[hook].new]
        /\ hooks[hook].new \in Fns
    BY <1>8, InfosAssumption DEF WriteSlot, TypeOK, HookInfo, listVars, Handling
  <2>2. \A b \in Bases, s \in Slots : slot[b][s] \in Fns => slot'[b][s] \in Fns
    BY <2>1 DEF TypeOK
  <2> QED
    BY <1>0, <2>1, <2>2, PassedFrame DEF Ignores
<1>9. CASE UpdateEntry \/ CreateEntry
  <2>1. /\ UNCHANGED <<mem, slot, hooks, ignores, posVars, calm>> /\ at = "entry"
    BY <1>9 DEF UpdateEntry, CreateEntry, libVars, listVars
  <2>2. ASSUME calm, mem[line] # None PROVE Handling' \/ Done(line, mem[line])
    <3>1. mem[line] = path /\ newtree[path] = None /\ line \in Bases /\ path \in Paths
      BY <1>0, <2>1, <2>2 DEF OrderInv, Handling, TypeOK
    <3>2. at' = "init" \/ tree[path] = line
      BY <1>9, <3>1, NothingMissed DEF UpdateEntry, CreateEntry, NothingMissed
    <3> QED
      BY <1>0, <3>1, <3>2 DEF CachedInv, Handling
  <2> QED
    BY <1>0, <2>1, <2>2, PassedFrame DEF Ignores
<1>10. CASE LastHook
  <2>1. /\ UNCHANGED <<mem, slot, hooks, ignores, posVars, calm>> /\ at = "hook"
    BY <1>10 DEF LastHook, libVars, listVars
  <2>2. ASSUME calm, mem[line] # None PROVE Done(line, mem[line])
    BY <1>0, <1>10, <2>1, <2>2, LastHookDone DEF LastHook, Inside, OrderInv, Handling
  <2> QED
    BY <1>0, <2>1, <2>2, PassedFrame DEF Ignores
<1>11. CASE Fault
  BY <1>0, <1>11, PassedFrame DEF Fault, Ignores, libVars, listVars
<1>12. CASE LastLine
  BY <1>0, <1>12, PassedFrame DEF LastLine, Ignores, libVars, listVars, Handling
<1>13. CASE \/ CheckHeader \/ ElfInit \/ NextHook \/ GiveUpSymbol
            \/ \E s \in Slots : SkipSlot(s) \/ SaveOld(s)
  <2>1. /\ UNCHANGED <<mem, slot, hooks, ignores, posVars, calm>>
        /\ at # "idle" /\ Handling'
    BY <1>13 DEF CheckHeader, ElfInit, NextHook, GiveUpSymbol, SkipSlot, SaveOld, libVars,
       listVars, Handling
  <2> QED
    BY <1>0, <2>1, PassedFrame DEF Ignores
<1>14. CASE at # "idle" /\ (UNCHANGED vars \/ \E i \in IgnoreInfos : IgnoreTest(i))
  <2>1. /\ UNCHANGED <<mem, slot, hooks, ignores, posVars, calm, at>>
    BY <1>14 DEF vars, IgnoreTest, libVars, listVars
  <2> QED
    BY <1>0, <1>14, <2>1, PassedFrame DEF Ignores, Handling
<1>15. EndPass \/ Clear => at' = "idle"
  BY DEF EndPass, Clear
<1>16. at = "idle" /\ (UNCHANGED vars \/ IgnoreAppend \/ (\E b \in Bases : Dlclose(b))
                         \/ \E i \in IgnoreInfos : IgnoreTest(i)) => at' = "idle"
  BY DEF vars, IgnoreAppend, Dlclose, IgnoreTest
<1>17. ~RefuseElf
  BY NothingMissed DEF NothingMissed, RefuseElf
<1> QED
  BY <1>1, <1>2, <1>3, <1>4, <1>5, <1>6, <1>7, <1>8, <1>9, <1>10, <1>11, <1>12, <1>13,
     <1>14, <1>15, <1>16, <1>17 DEF Next, Pass

\* At the start nothing is mapped or cached.
LEMMA HookedInit == Init => HookedInv
<1> SUFFICES ASSUME Init PROVE HookedInv
  OBVIOUS
<1> USE NoneIsNone DEF Init, Handling, Inside, NoEntries
<1>1. MetInv /\ OrderInv
  BY DEF MetInv, OrderInv
<1>2. CachedInv /\ InHandInv /\ PassedInv
  BY DEF CachedInv, InHandInv, PassedInv
<1> QED
  BY <1>1, <1>2 DEF HookedInv

\* When no hook is registered after the first pass, no library comes back at an address
\* it had, nothing fails and whole libraries are ignored, a pass during which nothing is
\* mapped ends with every slot replaced that a hook matches and no ignore excludes, in
\* the libraries it has hooked and in those it found cached (xh_core_refresh_impl).
THEOREM EverythingHooked ==
  ASSUME NothingMissed
  PROVE Spec => []PassHooksAll
<1>1. TypeOK /\ HookedInv /\ [Next]_vars => HookedInv'
  <2> SUFFICES ASSUME TypeOK, HookedInv, [Next]_vars PROVE HookedInv'
    OBVIOUS
  <2>1. MetInv' /\ OrderInv'
    BY MetStep, OrderStep DEF HookedInv
  <2>2. CachedInv' /\ InHandInv' /\ PassedInv'
    BY CachedStep, InHandStep, PassedStep
  <2> QED
    BY <2>1, <2>2 DEF HookedInv
<1>2. TypeOK /\ HookedInv => PassHooksAll
  <2> SUFFICES ASSUME TypeOK, HookedInv, at = "end", calm, NEW bs \in Live,
                      NEW i \in DOMAIN hooks, Applies(i, mem[bs[1]], bs[2])
               PROVE  slot[bs[1]][bs[2]] \in Fns
    BY DEF PassHooksAll, Applies
  <2>1. /\ bs[1] \in Bases /\ mem[bs[1]] # None /\ bs[2] \in Imports[mem[bs[1]]]
    BY DEF Live
  <2>2. bs[1] <= line
    BY <2>1, NumBasesAssumption DEF HookedInv, OrderInv, TypeOK, Bases
  <2>3. Done(bs[1], mem[bs[1]])
    BY <2>1, <2>2 DEF HookedInv, PassedInv, Handling
  <2> QED
    BY <2>1, <2>3 DEF Done
<1> QED
  BY <1>1, <1>2, TypeInit, TypeStep, HookedInit, PTL DEF Spec

-----------------------------------------------------------------------------

\* The pass keeps to the line in hand and to the order of the lines.
LEMMA PlaceStep ==
  ASSUME HookedOnce
  PROVE TypeOK /\ EntriesInv /\ PlaceInv /\ [Next]_vars => PlaceInv'
<1> SUFFICES ASSUME TypeOK, EntriesInv, PlaceInv, [Next]_vars PROVE PlaceInv'
  OBVIOUS
<1> USE NamesAssumption, NumBasesAssumption
    DEF PlaceInv, LineInv, Inside, TypeOK, Bases, Stages, NoEntries
<1>1. ASSUME NEW b \in Bases, NEW p \in Paths, Dlopen(b, p) PROVE PlaceInv'
  BY <1>1 DEF Dlopen, listVars, treeVars, posVars, elfVars
<1>2. ASSUME NEW b \in Bases, Dlclose(b) PROVE PlaceInv'
  BY <1>2 DEF Dlclose, listVars, treeVars, posVars, elfVars
<1>3. ASSUME NEW h \in HookInfos, Register(h) PROVE PlaceInv'
  BY <1>3 DEF Register, libVars, treeVars, posVars, elfVars
<1>4. CASE NextLine
  BY <1>4 DEF NextLine, libVars, listVars, treeVars, elfVars
<1>5. CASE UpdateEntry
  BY <1>5 DEF UpdateEntry, libVars, listVars, posVars, elfVars, EntriesInv, TreesDisjoint
<1>6. CASE CreateEntry
  BY <1>6 DEF CreateEntry, libVars, listVars, posVars, elfVars
<1>7. CASE ElfInit
  BY <1>7 DEF ElfInit, libVars, listVars, treeVars, posVars
<1>8. CASE NextHook
  BY <1>8 DEF NextHook, libVars, listVars, treeVars, posVars
<1>9. CASE Fault \/ LastHook
  BY <1>9 DEF Fault, LastHook, libVars, listVars, treeVars, posVars
<1>10. CASE WriteSlot
  BY <1>10 DEF WriteSlot, listVars, treeVars, posVars
<1>11. CASE EndPass
  BY <1>11 DEF EndPass, libVars, listVars, elfVars
<1>12. ~Clear
  BY HookedOnce DEF HookedOnce, Clear
<1>13. CASE GiveUpSymbol \/ \E s \in Slots : SkipSlot(s) \/ SaveOld(s)
  BY <1>13 DEF GiveUpSymbol, SkipSlot, SaveOld, libVars, listVars, treeVars, posVars
<1>14. CASE BeginPass \/ LastLine \/ CheckHeader \/ RefuseElf
  BY <1>14, EntriesInv DEF EntriesInv, BeginPass, LastLine, CheckHeader, RefuseElf, libVars,
     listVars, treeVars, posVars, elfVars
<1>15. CASE UNCHANGED vars \/ IgnoreAppend \/ \E i \in IgnoreInfos : IgnoreTest(i)
  BY <1>15 DEF vars, IgnoreAppend, IgnoreTest, libVars, listVars, treeVars, posVars, elfVars
<1> QED
  BY <1>1, <1>2, <1>3, <1>4, <1>5, <1>6, <1>7, <1>8, <1>9, <1>10, <1>11, <1>12, <1>13, <1>14,
     <1>15 DEF Next, Pass

\* The first hook that matches a path stays the first, and an ignore that is added
\* ignores no less: no path that is matched comes to be wanted.
LEMMA WantedOnly ==
  ASSUME TypeOK, NEW p,
         UNCHANGED <<hooks, ignores>> \/ (\E h \in HookInfos : Register(h)) \/ IgnoreAppend,
         Matched(p)
  PROVE  Matched(p)' /\ (Wanted(p)' => Wanted(p))
<1>1. hooks \in Seq(HookInfos) /\ ignores \in Seq(IgnoreInfos)
  BY DEF TypeOK
<1>2. CASE UNCHANGED <<hooks, ignores>>
  BY <1>2 DEF Matched, Wanted, Ignores
<1>3. ASSUME NEW h \in HookInfos, Register(h) PROVE Matched(p)' /\ (Wanted(p)' => Wanted(p))
  <2>1. /\ ignores' = ignores
        /\ \A i \in DOMAIN hooks : i \in DOMAIN hooks' /\ hooks'[i] = hooks[i]
    BY <1>1, <1>3 DEF Register
  <2>2. DOMAIN hooks' = 1..(Len(hooks) + 1) /\ DOMAIN hooks = 1..Len(hooks) /\ Len(hooks) \in Nat
    BY <1>1, <1>3 DEF Register
  <2>3. PICK k \in DOMAIN hooks : p \in hooks[k].regex
    BY DEF Matched
  <2>4. Matched(p)'
    BY <2>1, <2>3 DEF Matched
  <2>5. ASSUME NEW i \in DOMAIN hooks', p \in hooks'[i].regex,
               \A j \in 1..(i - 1) : p \notin hooks'[j].regex, ~Ignores(p, hooks[i].symbol)'
        PROVE  Wanted(p)
    <3>1. i \in DOMAIN hooks
      <4> SUFFICES ASSUME i = Len(hooks) + 1 PROVE FALSE
        BY <2>2
      <4>1. k \in 1..(i - 1)
        BY <2>2, <2>3
      <4> QED
        BY <4>1, <2>1, <2>3, <2>5
    <3>2. \A j \in 1..(i - 1) : p \notin hooks[j].regex
      BY <3>1, <2>1, <2>2, <2>5
    <3>3. ~Ignores(p, hooks[i].symbol)
      BY <3>1, <2>1, <2>5 DEF Ignores
    <3> QED
      BY <3>1, <3>2, <3>3, <2>1, <2>5 DEF Wanted
  <2> QED
    BY <2>4, <2>5 DEF Wanted
<1>4. CASE IgnoreAppend
  <2>1. hooks' = hooks
    BY <1>4 DEF IgnoreAppend
  <2>2. \A s : Ignores(p, s) => Ignores(p, s)'
    BY <1>4, IgnoresGrow
  <2> QED
    BY <2>1, <2>2 DEF Matched, Wanted
<1> QED
  BY <1>2, <1>3, <1>4

\* No step but the end of clear, which is excluded, makes a path wanted again.
LEMMA WantedNext ==
  ASSUME HookedOnce, TypeOK, [Next]_vars, NEW p, Matched(p)
  PROVE  Matched(p)' /\ (Wanted(p)' => Wanted(p))
<1>1. ~Clear
  BY HookedOnce DEF HookedOnce, Clear
<1>2. ASSUME UNCHANGED vars \/ (\E b \in Bases : Dlclose(b) \/ \E q \in Paths : Dlopen(b, q))
             \/ (\E i \in IgnoreInfos : IgnoreTest(i)) \/ BeginPass
      PROVE UNCHANGED <<hooks, ignores>>
  BY <1>2 DEF vars, Dlclose, Dlopen, IgnoreTest, BeginPass, listVars
<1>3. ASSUME Pass PROVE UNCHANGED <<hooks, ignores>>
  BY <1>3 DEF Pass, NextLine, LastLine, CheckHeader, Fault, RefuseElf, UpdateEntry, CreateEntry,
     ElfInit, NextHook, LastHook, GiveUpSymbol, WriteSlot, EndPass, SkipSlot, SaveOld, listVars
<1>4. UNCHANGED <<hooks, ignores>> \/ (\E h \in HookInfos : Register(h)) \/ IgnoreAppend
  BY <1>1, <1>2, <1>3 DEF Next
<1> QED
  BY <1>4, WantedOnly

\* A library with a replaced slot stays in the cache for as long as it is wanted.
LEMMA TouchedStep ==
  ASSUME HookedOnce
  PROVE TypeOK /\ EntriesInv /\ PlaceInv /\ TouchedInv /\ [Next]_vars => TouchedInv'
<1> SUFFICES ASSUME TypeOK, EntriesInv, PlaceInv, TouchedInv, [Next]_vars PROVE TouchedInv'
  OBVIOUS
<1>0. \A p : Matched(p) => Matched(p)' /\ (Wanted(p)' => Wanted(p))
  BY HookedOnce, WantedNext
<1> USE <1>0, NamesAssumption, NumBasesAssumption
    DEF TouchedInv, Touched, TypeOK, Bases, Stages
<1>1. ASSUME NEW b \in Bases, NEW p \in Paths, Dlopen(b, p) PROVE TouchedInv'
  BY <1>1 DEF Dlopen, treeVars, posVars
<1>2. ASSUME NEW b \in Bases, Dlclose(b) PROVE TouchedInv'
  BY <1>2 DEF Dlclose, treeVars, posVars
<1>3. CASE NextLine
  BY <1>3, PlaceInv DEF NextLine, libVars, treeVars, PlaceInv
<1>4. CASE LastLine
  BY <1>4 DEF LastLine, libVars, treeVars, posVars
<1>5. CASE UpdateEntry
  <2>1. /\ UNCHANGED <<mem, slot, line, path>> /\ at = "entry" /\ at' \in {"init", "maps"}
        /\ path \in Paths /\ line \in Bases
        /\ at' = "init" => tree[path] # line
    BY <1>5 DEF UpdateEntry, libVars, posVars
  <2>2. newtree[path] = None
    BY <1>5, <2>1, EntriesInv DEF UpdateEntry, EntriesInv, TreesDisjoint
  <2>3. /\ newtree' = [newtree EXCEPT ![path] = line]
        /\ \A p \in Paths : p # path => tree'[p] = tree[p]
    BY <1>5, <2>1, <2>2 DEF UpdateEntry
  <2>4. \A b \in Bases : Touched(b) /\ mem[b] = path => b = line
    BY <2>1
  <2>5. ASSUME NEW b \in Bases, Touched(b)
        PROVE  /\ mem[b] # None /\ Matched(mem[b])'
               /\ Wanted(mem[b])' => /\ tree'[mem[b]] = b \/ newtree'[mem[b]] = b
                                     /\ b <= line => newtree'[mem[b]] = b
    <3>1. mem[b] \in Paths /\ Matched(mem[b])
      BY <2>5
    <3>2. Matched(mem[b])' /\ (Wanted(mem[b])' => Wanted(mem[b]))
      BY <2>1, <3>1
    <3>3. CASE mem[b] = path
      BY <2>1, <2>3, <2>4, <2>5, <3>1, <3>2, <3>3
    <3>4. CASE mem[b] # path
      <4>1. b # line
        BY <2>1, <2>5, <3>4
      <4> QED
        BY <2>1, <2>3, <2>5, <3>1, <3>2, <3>4, <4>1
    <3> QED
      BY <3>3, <3>4
  <2>6. at' = "init" => ~Touched(line)
    BY <2>1
  <2> QED
    BY <2>1, <2>4, <2>5, <2>6
<1>6. CASE CreateEntry
  BY <1>6 DEF CreateEntry, libVars, posVars
<1>7. CASE WriteSlot
  <2>1. mem[line] = path /\ newtree[path] = line /\ Matched(path)
    <3>1. writing \in todo /\ hook \in DOMAIN hooks
      BY <1>7 DEF WriteSlot, Inside
    <3> QED
      BY <1>7, <3>1, PlaceInv DEF WriteSlot, PlaceInv, LineInv, Inside, Matched
  <2>2. \A b \in Bases : slot'[b] # slot[b] => b = line
    BY <1>7 DEF WriteSlot
  <2> QED
    BY <1>7, <2>1, <2>2 DEF WriteSlot, treeVars, posVars
<1>8. CASE EndPass
  BY <1>8 DEF EndPass, libVars, NoEntries
<1>9. ~Clear
  BY HookedOnce DEF HookedOnce, Clear
<1>10. CASE UNCHANGED <<mem, slot, treeVars, posVars>> /\ at' = at
  BY <1>10 DEF treeVars, posVars
<1>11. ASSUME UNCHANGED vars \/ (\E h \in HookInfos : Register(h))
              \/ (\E i \in IgnoreInfos : IgnoreTest(i)) \/ IgnoreAppend \/ NextHook
              \/ GiveUpSymbol \/ \E s \in Slots : SkipSlot(s)
       PROVE UNCHANGED <<mem, slot, treeVars, posVars>> /\ at' = at
  BY <1>11 DEF vars, Register, IgnoreTest, IgnoreAppend, NextHook, GiveUpSymbol, SkipSlot,
     libVars, treeVars, posVars
<1>12. CASE CheckHeader \/ Fault \/ RefuseElf \/ ElfInit
  <2>1. CASE CheckHeader \/ RefuseElf \/ ElfInit
    BY <1>12, <2>1 DEF CheckHeader, RefuseElf, ElfInit, libVars, treeVars, posVars
  <2>2. CASE Fault
    <3>1. /\ UNCHANGED <<mem, slot, treeVars, posVars>>
          /\ at \in {"check", "init", "hook", "write"} /\ at' = "maps" /\ mem[line] = None
      BY <2>2 DEF Fault, libVars
    <3> QED
      BY <3>1 DEF treeVars, posVars
  <2> QED
    BY <1>12, <2>1, <2>2
<1>13. CASE BeginPass \/ LastHook \/ \E s \in Slots : SaveOld(s)
  <2>1. /\ UNCHANGED <<mem, slot, treeVars, posVars>>
        /\ at \in {"idle", "hook"} /\ at' \in {"idle", "maps", "write"}
    BY <1>13 DEF BeginPass, LastHook, SaveOld, libVars
  <2> QED
    BY <2>1 DEF treeVars, posVars
<1> QED
  BY <1>1, <1>2, <1>3, <1>4, <1>5, <1>6, <1>7, <1>8, <1>9, <1>10, <1>11, <1>12, <1>13
  DEF Next, Pass

\* Hooks are only added, and what is saved stays saved.
LEMMA OnlyMore ==
  ASSUME HookedOnce, TypeOK, [Next]_vars
  PROVE  /\ \A i \in DOMAIN hooks : i \in DOMAIN hooks' /\ hooks'[i] = hooks[i]
         /\ \A f \in Fns : old[f] # None => old'[f] # None
<1> USE DEF TypeOK
<1>1. ASSUME NEW h \in HookInfos, Register(h)
      PROVE /\ \A i \in DOMAIN hooks : i \in DOMAIN hooks' /\ hooks'[i] = hooks[i]
            /\ old' = old
  BY <1>1 DEF Register
<1>2. ASSUME NEW s \in Slots, SaveOld(s)
      PROVE hooks' = hooks /\ \A f \in Fns : old[f] # None => old'[f] # None
  <2>1. line \in Bases /\ slot[line][s] # None
    BY <1>2, NamesAssumption DEF SaveOld
  <2> QED
    BY <1>2, <2>1 DEF SaveOld, listVars
<1>3. ~Clear
  BY HookedOnce DEF HookedOnce, Clear
<1>4. ASSUME UNCHANGED vars \/ (\E b \in Bases : Dlclose(b) \/ \E q \in Paths : Dlopen(b, q))
             \/ (\E i \in IgnoreInfos : IgnoreTest(i)) \/ IgnoreAppend \/ BeginPass
      PROVE UNCHANGED <<hooks, old>>
  BY <1>4 DEF vars, Dlclose, Dlopen, IgnoreTest, IgnoreAppend, BeginPass, listVars
<1>5. ASSUME NextLine \/ LastLine \/ CheckHeader \/ Fault \/ RefuseElf \/ UpdateEntry
             \/ CreateEntry \/ ElfInit \/ NextHook \/ LastHook \/ GiveUpSymbol \/ WriteSlot
             \/ EndPass \/ \E s \in Slots : SkipSlot(s)
      PROVE UNCHANGED <<hooks, old>>
  BY <1>5 DEF NextLine, LastLine, CheckHeader, Fault, RefuseElf, UpdateEntry, CreateEntry,
     ElfInit, NextHook, LastHook, GiveUpSymbol, WriteSlot, EndPass, SkipSlot, listVars
<1>6. CASE UNCHANGED <<hooks, old>>
  BY <1>6
<1> QED
  BY <1>1, <1>2, <1>3, <1>4, <1>5, <1>6 DEF Next, Pass

\* What is behind a symbol stays behind it.
LEMMA BehindStays ==
  ASSUME HookedOnce, TypeOK, [Next]_vars, NEW symbol, NEW f, NEW n \in Nat, NEW m \in Nat,
         n <= m, n <= Len(hooks), Behind(symbol, n, f)
  PROVE  Behind(symbol, m, f)'
<1>1. hooks \in Seq(HookInfos) /\ \A i \in DOMAIN hooks : hooks[i].new \in Fns
  BY InfosAssumption DEF TypeOK, HookInfo
<1>2. \A i \in 1..n : i \in 1..m /\ i \in DOMAIN hooks
  BY <1>1
<1>3. /\ \A i \in DOMAIN hooks : hooks'[i] = hooks[i]
      /\ \A g \in Fns : old[g] # None => old'[g] # None
  BY HookedOnce, OnlyMore
<1>4. CASE f = symbol
  BY <1>4 DEF Behind
<1>5. ASSUME NEW i \in 1..n, hooks[i].symbol = symbol /\ f = hooks[i].new /\ old[f] # None
      PROVE Behind(symbol, m, f)'
  <2>1. i \in 1..m /\ hooks'[i].symbol = symbol /\ f = hooks'[i].new /\ old'[f] # None
    BY <1>1, <1>2, <1>3, <1>5
  <2> QED
    BY <2>1 DEF Behind
<1> QED
  BY <1>4, <1>5 DEF Behind

\* A hook that is added has nothing saved, or what another hook of its replacement and of
\* its symbol has saved.
LEMMA NewOneHasLess ==
  ASSUME TypeOK, SavedInv, RegisteredTogether', NEW h \in HookInfos, Register(h),
         NEW i \in DOMAIN hooks', old[hooks'[i].new] # None
  PROVE  \E j \in DOMAIN hooks : /\ j <= i /\ hooks[j].new = hooks'[i].new
                                 /\ hooks[j].symbol = hooks'[i].symbol
<1>1. hooks \in Seq(HookInfos) /\ h.new \in Fns
  BY InfosAssumption DEF TypeOK, HookInfo
<1>2. /\ DOMAIN hooks = 1..Len(hooks) /\ DOMAIN hooks' = 1..(Len(hooks) + 1)
      /\ hooks'[Len(hooks) + 1] = h /\ Len(hooks) \in Nat
      /\ \A j \in DOMAIN hooks : hooks'[j] = hooks[j] /\ j \in DOMAIN hooks'
  BY <1>1 DEF Register
<1>3. CASE i \in DOMAIN hooks
  BY <1>2, <1>3
<1>4. CASE i = Len(hooks) + 1
  <2>1. hooks'[i] = h
    BY <1>2, <1>4
  <2>2. PICK j \in DOMAIN hooks : hooks[j].new = h.new
    BY <1>1, <2>1 DEF SavedInv
  <2>3. hooks[j].symbol = h.symbol
    BY <1>2, <2>1, <2>2 DEF RegisteredTogether
  <2> QED
    BY <1>2, <1>4, <2>1, <2>2, <2>3
<1> QED
  BY <1>2, <1>3, <1>4

\* The steps that leave everything but the slots still to visit as it is.
LEMMA OnlyTodo ==
  ASSUME UNCHANGED vars \/ (\E i \in IgnoreInfos : IgnoreTest(i)) \/ IgnoreAppend
         \/ GiveUpSymbol \/ \E s \in Slots : SkipSlot(s)
  PROVE  UNCHANGED <<slot, hooks, old, line, hook, at>> /\ todo' \subseteq todo
BY DEF vars, IgnoreTest, IgnoreAppend, GiveUpSymbol, SkipSlot, libVars, listVars, elfVars, posVars

\* The steps after which the pass is not inside an image.
LEMMA NotInside ==
  ASSUME TypeOK,
         BeginPass \/ NextLine \/ LastLine \/ CheckHeader \/ Fault \/ RefuseElf \/ UpdateEntry
         \/ CreateEntry \/ LastHook \/ EndPass
  PROVE  UNCHANGED <<slot, hooks, old>> /\ todo' = {} /\ at' \notin {"hook", "write"}
<1>1. ~Inside => todo = {}
  BY DEF TypeOK
<1>2. CASE BeginPass \/ LastLine \/ CheckHeader \/ RefuseElf \/ UpdateEntry \/ CreateEntry
           \/ EndPass
  BY <1>1, <1>2 DEF BeginPass, LastLine, CheckHeader, RefuseElf, UpdateEntry, CreateEntry, EndPass,
     libVars, listVars, elfVars, Inside
<1>3. CASE NextLine
  BY <1>1, <1>3 DEF NextLine, libVars, listVars, elfVars, Inside
<1>4. CASE Fault \/ LastHook
  BY <1>4 DEF Fault, LastHook, libVars, listVars
<1> QED
  BY <1>2, <1>3, <1>4

\* What is known where a function is saved.
LEMMA Saves ==
  ASSUME TypeOK, SavedInv, NEW s \in Slots, SaveOld(s)
  PROVE  LET f == hooks[hook].new IN
         /\ s \in todo /\ hook \in DOMAIN hooks /\ line \in Bases /\ Inside
         /\ Symbol[s] = hooks[hook].symbol /\ slot[line][s] # f /\ f \in Fns
         /\ UNCHANGED <<slot, hooks, line, hook, todo>> /\ at' = "write"
         /\ old' = [old EXCEPT ![f] = slot[line][s]]
         /\ slot[line][s] \in Fns \cup Syms /\ slot[line][s] # None
<1>1. s \in todo /\ at = "hook" /\ slot[line][s] # hooks[hook].new
  BY DEF SaveOld
<1>2. hook \in DOMAIN hooks /\ line \in Bases /\ Inside
  BY <1>1 DEF TypeOK, Inside
<1>3. hooks[hook].new \in Fns /\ Symbol[s] = hooks[hook].symbol
  BY <1>1, <1>2, InfosAssumption DEF TypeOK, HookInfo, SavedInv
<1>4. slot[line][s] \in Fns \cup Syms /\ slot[line][s] # None
  BY <1>2, NamesAssumption DEF TypeOK
<1>5. /\ UNCHANGED <<slot, hooks, line, hook, todo>> /\ at' = "write"
      /\ old' = [old EXCEPT ![hooks[hook].new] = slot[line][s]]
  BY DEF SaveOld, libVars, listVars, posVars
<1> QED
  BY <1>1, <1>2, <1>3, <1>4, <1>5

\* Each replacement has saved what is behind it, and each slot holds one that is.
LEMMA SavedStep ==
  ASSUME HookedOnce
  PROVE TypeOK /\ PlaceInv /\ TouchedInv /\ SavedInv /\ RegisteredTogether' /\ [Next]_vars
          => SavedInv'
<1> SUFFICES ASSUME TypeOK, PlaceInv, TouchedInv, SavedInv, RegisteredTogether', [Next]_vars
             PROVE SavedInv'
  OBVIOUS
<1>h. /\ hooks \in Seq(HookInfos) /\ Len(hooks) \in Nat /\ DOMAIN hooks = 1..Len(hooks)
      /\ hook \in 0..Len(hooks) /\ hook \in Nat
      /\ \A i \in DOMAIN hooks : hooks[i].new \in Fns
  BY InfosAssumption DEF TypeOK, HookInfo
<1>b. \A symbol, f : \A n, m \in Nat :
        n <= m /\ n <= Len(hooks) /\ Behind(symbol, n, f) => Behind(symbol, m, f)'
  BY HookedOnce, BehindStays
<1>o. \A symbol : \A n \in Nat : Behind(symbol, n, symbol)'
  BY DEF Behind
<1>k. \A i \in DOMAIN hooks : i - 1 \in Nat /\ i - 1 <= Len(hooks)
  BY <1>h
<1> USE <1>h, <1>b, <1>o, <1>k, NamesAssumption, LibraryAssumption
    DEF SavedInv, Inside, TypeOK, Bases, Stages
<1>s. \A i \in DOMAIN hooks : old[hooks[i].new] # None =>
        Behind(hooks[i].symbol, i - 1, old[hooks[i].new])
  OBVIOUS
<1>p. ASSUME UNCHANGED <<hooks, old, line, hook, todo, at>>, NEW b \in Bases,
             slot' = [slot EXCEPT ![b] = Pristine]
      PROVE  SavedInv'
  <2>1. \A c \in Bases, s \in Slots : slot'[c][s] \in {slot[c][s], Symbol[s]}
    BY <1>p DEF Pristine
  <2>2. \A c \in Bases, s \in Slots : Behind(Symbol[s], Len(hooks), slot[c][s])'
    BY <1>p, <2>1
  <2>3. ASSUME Inside, NEW s \in Slots PROVE Behind(Symbol[s], hook, slot[line][s])'
    <3>1. line \in Bases /\ Behind(Symbol[s], hook, slot[line][s])
      BY <2>3
    <3>2. CASE slot'[line][s] = Symbol[s]
      BY <1>p, <3>2
    <3>3. CASE slot'[line][s] = slot[line][s]
      BY <1>p, <3>1, <3>3
    <3> QED
      BY <2>1, <3>1, <3>2, <3>3
  <2>4. \A i \in DOMAIN hooks : old[hooks[i].new] # None =>
          Behind(hooks[i].symbol, i - 1, old[hooks[i].new])'
    BY <1>p, <1>s
  <2> QED
    BY <1>p, <2>2, <2>3, <2>4
<1>1. ASSUME NEW b \in Bases, NEW p \in Paths, Dlopen(b, p) PROVE SavedInv'
  <2>1. /\ UNCHANGED <<hooks, old, line, hook, todo, at>>
        /\ slot' = [slot EXCEPT ![b] = Pristine]
    BY <1>1 DEF Dlopen, listVars, posVars, elfVars
  <2> QED
    BY <1>p, <2>1
<1>2. ASSUME NEW b \in Bases, Dlclose(b) PROVE SavedInv'
  <2>1. /\ UNCHANGED <<hooks, old, line, hook, todo, at>>
        /\ slot' = [slot EXCEPT ![b] = Pristine]
    BY <1>2 DEF Dlclose, listVars, posVars, elfVars
  <2> QED
    BY <1>p, <2>1
<1>3. ASSUME NEW h \in HookInfos, Register(h) PROVE SavedInv'
  <2>1. \A i \in DOMAIN hooks' : old[hooks'[i].new] # None =>
          \E j \in DOMAIN hooks : /\ j <= i /\ hooks[j].new = hooks'[i].new
                                 /\ hooks[j].symbol = hooks'[i].symbol
    BY <1>3, NewOneHasLess
  <2>2. /\ UNCHANGED <<slot, old, line, hook, todo, at>>
        /\ Len(hooks') = Len(hooks) + 1 /\ DOMAIN hooks' = 1..(Len(hooks) + 1)
        /\ \A i \in DOMAIN hooks : i \in DOMAIN hooks' /\ hooks'[i] = hooks[i]
    BY <1>3 DEF Register, libVars, posVars, elfVars
  <2>3. ASSUME NEW i \in DOMAIN hooks', old'[hooks'[i].new] # None
        PROVE  Behind(hooks[i].symbol, i - 1, old[hooks[i].new])'
    <3>1. old'[hooks'[i].new] = old[hooks'[i].new] /\ i - 1 \in Nat
      BY <2>2
    <3>2. PICK j \in DOMAIN hooks : /\ j <= i /\ hooks[j].new = hooks'[i].new
                                    /\ hooks[j].symbol = hooks'[i].symbol
      BY <2>1, <2>3, <3>1
    <3>3. Behind(hooks[j].symbol, j - 1, old[hooks[j].new])
      BY <2>3, <3>1, <3>2
    <3>4. Behind(hooks'[i].symbol, j - 1, old'[hooks'[i].new])
      BY <3>1, <3>2, <3>3
    <3>5. j - 1 <= i - 1
      BY <3>2, <2>2
    <3> QED
      BY <3>1, <3>4, <3>5
  <2>4. \A f \in Fns : (\A i \in DOMAIN hooks' : hooks'[i].new # f) => old'[f] = None
    BY <2>2
  <2>5. \A b \in Bases, s \in Slots : Behind(Symbol[s], Len(hooks), slot[b][s])'
    BY <2>2
  <2>6. Inside' => \A s \in Slots : Behind(Symbol[s], hook, slot[line][s])'
    BY <2>2
  <2>7. /\ \A s \in todo' : Symbol[s] = hooks'[hook'].symbol
        /\ at' = "write" => old'[hooks'[hook'].new] # None
    BY <2>2
  <2> QED
    BY <2>3, <2>4, <2>5, <2>6, <2>7
<1>4. CASE ElfInit
  BY <1>4 DEF ElfInit, libVars, listVars, posVars, TouchedInv, Touched, Pristine
<1>5. CASE NextHook
  <2>1. /\ UNCHANGED <<slot, hooks, old, line, at>> /\ at = "hook"
        /\ hook' = hook + 1 /\ hook + 1 \in Nat /\ hook <= Len(hooks)
        /\ \A s \in todo' : Symbol[s] = hooks[hook + 1].symbol
    BY <1>5 DEF NextHook, SlotsOf, libVars, listVars, posVars
  <2>2. \A s \in Slots : Behind(Symbol[s], hook, slot[line][s])
    BY <2>1
  <2>3. \A s \in Slots : Behind(Symbol[s], hook, slot[line][s])'
    BY <2>1, <2>2
  <2>4. \A i \in DOMAIN hooks : old[hooks[i].new] # None =>
          Behind(hooks[i].symbol, i - 1, old[hooks[i].new])'
    BY <2>1
  <2>5. \A b \in Bases, s \in Slots : Behind(Symbol[s], Len(hooks), slot[b][s])'
    BY <2>1
  <2> QED
    BY <2>1, <2>3, <2>4, <2>5
<1>6. CASE WriteSlot
  <2> DEFINE f == hooks[hook].new
  <2>1. /\ writing \in todo /\ hook \in DOMAIN hooks /\ line \in Bases /\ writing \in Slots
        /\ Symbol[writing] = hooks[hook].symbol /\ old[f] # None
    BY <1>6 DEF WriteSlot
  <2>2. Behind(Symbol[writing], hook, f)
    BY <2>1 DEF Behind
  <2>3. /\ UNCHANGED <<hooks, old, line, hook>> /\ todo' \subseteq todo /\ at' = "hook"
        /\ slot'[line][writing] = f
        /\ \A b \in Bases, s \in Slots : slot'[b][s] = slot[b][s] \/ (b = line /\ s = writing)
    BY <1>6, <2>1 DEF WriteSlot, listVars, posVars
  <2>4. at = "write"
    BY <1>6 DEF WriteSlot
  <2> HIDE DEF f
  <2>5. \A b \in Bases, s \in Slots : Behind(Symbol[s], Len(hooks), slot[b][s])'
    BY <2>1, <2>2, <2>3
  <2>6. \A s \in Slots : Behind(Symbol[s], hook, slot[line][s])'
    BY <2>1, <2>2, <2>3, <2>4
  <2> QED
    BY <2>1, <2>3, <2>5, <2>6
<1>7. ASSUME NEW s \in Slots, SaveOld(s) PROVE SavedInv'
  <2> DEFINE f == hooks[hook].new
  <2>1. /\ s \in todo /\ hook \in DOMAIN hooks /\ line \in Bases /\ Inside
        /\ Symbol[s] = hooks[hook].symbol /\ slot[line][s] # f /\ f \in Fns
    BY <1>7, Saves
  <2>2. /\ UNCHANGED <<slot, hooks, line, hook, todo>> /\ at' = "write"
        /\ old' = [old EXCEPT ![f] = slot[line][s]]
    BY <1>7, Saves
  <2>3. slot[line][s] \in Fns \cup Syms /\ slot[line][s] # None
    BY <1>7, Saves
  <2>4. Behind(Symbol[s], hook - 1, slot[line][s])
    <3>1. Behind(Symbol[s], hook, slot[line][s])
      BY <2>1
    <3> QED
      BY <2>1, <3>1 DEF Behind
  <2>5. ASSUME NEW i \in DOMAIN hooks, hooks[i].new = f
        PROVE  Behind(hooks[i].symbol, i - 1, slot[line][s])
    <3>1. hooks[i].symbol = Symbol[s]
      BY <2>1, <2>2, <2>5 DEF RegisteredTogether
    <3>2. ASSUME NEW j \in 1..(hook - 1), hooks[j].symbol = Symbol[s],
                 slot[line][s] = hooks[j].new, old[slot[line][s]] # None
          PROVE  j \in 1..(i - 1)
      <4> SUFFICES ASSUME j >= i PROVE FALSE
        BY <2>1
      <4>1. j \in i..hook /\ j \in DOMAIN hooks
        BY <2>1
      <4>2. \A k \in i..hook : hooks[k].symbol = hooks[i].symbol => hooks[k].new = hooks[i].new
        <5>1. RegisteredTogether
          BY <2>2 DEF RegisteredTogether
        <5>2. hooks[i].new = hooks[hook].new /\ hook \in DOMAIN hooks
          BY <2>1, <2>5
        <5> QED
          BY <5>1, <5>2 DEF RegisteredTogether
      <4>3. hooks[j].new = f
        BY <2>5, <3>1, <3>2, <4>1, <4>2
      <4> QED
        BY <2>1, <3>2, <4>3
    <3> QED
      BY <2>4, <3>1, <3>2 DEF Behind
  <2> HIDE DEF f
  <2>6. \A i \in DOMAIN hooks : old'[hooks[i].new] # None =>
          Behind(hooks[i].symbol, i - 1, old'[hooks[i].new])
    BY <2>1, <2>2, <2>4, <2>5 DEF f
  <2>7. \A i \in DOMAIN hooks : old'[hooks[i].new] # None =>
          Behind(hooks[i].symbol, i - 1, old[hooks[i].new])'
    <3> SUFFICES ASSUME NEW i \in DOMAIN hooks, old'[hooks[i].new] # None
                 PROVE Behind(hooks[i].symbol, i - 1, old[hooks[i].new])'
      OBVIOUS
    <3>1. Behind(hooks[i].symbol, i - 1, old'[hooks[i].new])
      BY <2>6
    <3> QED
      BY <2>2, <3>1
  <2>8. \A g \in Fns : (\A i \in DOMAIN hooks : hooks[i].new # g) => old'[g] = None
    BY <2>1, <2>2 DEF f
  <2>9. old'[f] # None
    BY <2>1, <2>2, <2>3
  <2>10. \A b \in Bases, r \in Slots : Behind(Symbol[r], Len(hooks), slot[b][r])'
    BY <2>2
  <2>11. \A r \in Slots : Behind(Symbol[r], hook, slot[line][r])'
    BY <2>1, <2>2
  <2> QED
    BY <2>1, <2>2, <2>7, <2>8, <2>9, <2>10, <2>11 DEF f
<1>8. ~Clear
  BY HookedOnce DEF HookedOnce, Clear
<1>9. CASE UNCHANGED <<slot, hooks, old, line, hook, at>> /\ todo' \subseteq todo
  BY <1>9
<1>10. CASE UNCHANGED <<slot, hooks, old>> /\ todo' = {} /\ at' \notin {"hook", "write"}
  BY <1>10
<1>11. ASSUME UNCHANGED vars \/ (\E i \in IgnoreInfos : IgnoreTest(i)) \/ IgnoreAppend
              \/ GiveUpSymbol \/ \E s \in Slots : SkipSlot(s)
       PROVE UNCHANGED <<slot, hooks, old, line, hook, at>> /\ todo' \subseteq todo
  BY <1>11, OnlyTodo
<1>12. ASSUME BeginPass \/ NextLine \/ LastLine \/ CheckHeader \/ Fault \/ RefuseElf \/ UpdateEntry
              \/ CreateEntry \/ LastHook \/ EndPass
       PROVE UNCHANGED <<slot, hooks, old>> /\ todo' = {} /\ at' \notin {"hook", "write"}
  BY <1>12, NotInside
<1> QED
  BY <1>1, <1>2, <1>3, <1>4, <1>5, <1>6, <1>7, <1>8, <1>9, <1>10, <1>11, <1>12 DEF Next, Pass

-----------------------------------------------------------------------------

\* The replacements of the first i hooks.
Replacements(i) == {hooks[j].new : j \in 1..i}

\* They are finitely many, and no more for a shorter part of the list; fewer if it does
\* not have the last one.
LEMMA FewerReplacements ==
  ASSUME TypeOK, NEW i \in DOMAIN hooks, NEW k \in 1..i
  PROVE  /\ Cardinality(Fns) \in Nat /\ Cardinality(Replacements(i)) \in 1..Cardinality(Fns)
         /\ Cardinality(Replacements(k)) \in Nat
         /\ Cardinality(Replacements(k)) <= Cardinality(Replacements(i))
         /\ hooks[i].new \notin Replacements(k) =>
              Cardinality(Replacements(k)) < Cardinality(Replacements(i))
<1>1. hooks \in Seq(HookInfos) /\ \A j \in DOMAIN hooks : hooks[j].new \in Fns
  BY InfosAssumption DEF TypeOK, HookInfo
<1>2. /\ Replacements(i) \in SUBSET Fns /\ Replacements(k) \in SUBSET Replacements(i)
      /\ hooks[i].new \in Replacements(i)
  BY <1>1 DEF Replacements
<1>3. IsFiniteSet(Replacements(i)) /\ Cardinality(Replacements(i)) <= Cardinality(Fns)
  BY <1>2, FnsAssumption, FS_Subset
<1>4. /\ IsFiniteSet(Replacements(k))
      /\ Cardinality(Replacements(k)) <= Cardinality(Replacements(i))
      /\ Cardinality(Replacements(i)) = Cardinality(Replacements(k)) =>
           Replacements(i) = Replacements(k)
  BY <1>2, <1>3, FS_Subset
<1>5. /\ Cardinality(Fns) \in Nat /\ Cardinality(Replacements(i)) \in Nat
      /\ Cardinality(Replacements(k)) \in Nat
  BY <1>3, <1>4, FnsAssumption, FS_CardinalityType
<1>6. Cardinality(Replacements(i)) # 0
  BY <1>2, <1>3, FS_EmptySet
<1> QED
  BY <1>2, <1>3, <1>4, <1>5, <1>6

\* A replacement behind a symbol has a first hook.
LEMMA FirstHook ==
  ASSUME TypeOK, RegisteredTogether, NEW i \in DOMAIN hooks
  PROVE  \E j \in 1..i : /\ hooks[j].new = hooks[i].new /\ hooks[j].symbol = hooks[i].symbol
                         /\ \A k \in 1..(j - 1) : hooks[k].new # hooks[i].new
<1>1. DOMAIN hooks = 1..Len(hooks) /\ Len(hooks) \in Nat
  BY DEF TypeOK
<1> DEFINE S == {j \in DOMAIN hooks : hooks[j].new = hooks[i].new}
<1>2. S \in SUBSET Nat /\ i \in S
  BY <1>1
<1>3. PICK j \in S : \A k \in S : j <= k
  BY <1>2, Least
<1>4. j \in 1..i /\ \A k \in 1..(j - 1) : k \in DOMAIN hooks /\ ~(j <= k)
  BY <1>1, <1>2, <1>3
<1>5. hooks[j].symbol = hooks[i].symbol
  BY <1>3 DEF RegisteredTogether
<1> QED
  BY <1>3, <1>4, <1>5

\* The calls a function leads to, one after the other.
Called(f, c) ==
  c = [n \in 0..Cardinality(Fns) |->
         IF n = 0 THEN f
         ELSE IF c[n - 1] \in Fns THEN old[c[n - 1]] ELSE c[n - 1]]

\* The definition of a function by recursion over the numbers up to some number has a
\* solution: the longest stretch of one that could not be continued would be continued.
LEMMA CalledExists ==
  ASSUME Cardinality(Fns) \in Nat, NEW f
  PROVE  \E c : Called(f, c)
<1> DEFINE Calls(c, m) ==
             c = [n \in 0..m |-> IF n = 0 THEN f
                                 ELSE IF c[n - 1] \in Fns THEN old[c[n - 1]] ELSE c[n - 1]]
           Short == {m \in Nat : ~\E c : Calls(c, m)}
<1>1. Calls([n \in 0..0 |-> f], 0)
  OBVIOUS
<1>2. ASSUME NEW m \in Nat, NEW c, Calls(c, m) PROVE \E d : Calls(d, m + 1)
  <2> DEFINE d == [n \in 0..m + 1 |->
                     IF n = m + 1 THEN IF c[m] \in Fns THEN old[c[m]] ELSE c[m] ELSE c[n]]
  <2>1. DOMAIN d = 0..m + 1
    OBVIOUS
  <2>2. /\ \A n \in 0..m : d[n] = c[n] /\ n \in 0..m + 1 /\ n # m + 1
        /\ d[m + 1] = IF c[m] \in Fns THEN old[c[m]] ELSE c[m]
    OBVIOUS
  <2> HIDE DEF d
  <2>3. ASSUME NEW n \in 0..m + 1
        PROVE d[n] = IF n = 0 THEN f
                     ELSE IF d[n - 1] \in Fns THEN old[d[n - 1]] ELSE d[n - 1]
    <3>1. CASE n = 0
      <4>1. 0 \in 0..m
        OBVIOUS
      <4>2. c[0] = f
        BY <1>2, <4>1
      <4> QED
        BY <3>1, <4>1, <4>2, <2>2
    <3>2. CASE n = m + 1
      <4>1. n - 1 = m /\ m \in 0..m /\ n # 0
        BY <3>2
      <4> QED
        BY <3>2, <4>1, <2>2
    <3>3. CASE n # 0 /\ n # m + 1
      <4>1. n \in 0..m /\ n - 1 \in 0..m
        BY <3>3
      <4>2. c[n] = IF c[n - 1] \in Fns THEN old[c[n - 1]] ELSE c[n - 1]
        BY <1>2, <3>3, <4>1
      <4>3. d[n] = c[n] /\ d[n - 1] = c[n - 1]
        BY <4>1, <2>2
      <4> QED
        BY <3>3, <4>2, <4>3
    <3> QED
      BY <3>1, <3>2, <3>3
  <2>4. d = [n \in 0..m + 1 |-> d[n]]
    BY <2>1 DEF d
  <2>5. Calls(d, m + 1)
    BY <2>3, <2>4
  <2> QED
    BY <2>5
<1> HIDE DEF Calls
<1>3. Short = {}
  <2> SUFFICES ASSUME Short # {} PROVE FALSE
    OBVIOUS
  <2>1. PICK m \in Short : \A k \in Short : m <= k
    BY Least
  <2>2. m \in Nat /\ m # 0
    BY <1>1, <2>1
  <2>3. m - 1 \in Nat /\ m - 1 \notin Short /\ (m - 1) + 1 = m
    BY <2>1, <2>2
  <2> QED
    BY <1>2, <2>1, <2>3
<1>4. PICK c : Calls(c, Cardinality(Fns))
  BY <1>3
<1> QED
  BY <1>4 DEF Calls, Called

\* What is behind a symbol leads to it: with every call there are fewer replacements left.
LEMMA BehindReaches ==
  ASSUME TypeOK, RegisteredTogether, SavedInv, NEW symbol \in Syms, NEW f,
         Behind(symbol, Len(hooks), f)
  PROVE  Callee(f) = symbol
<1>1. /\ hooks \in Seq(HookInfos) /\ DOMAIN hooks = 1..Len(hooks) /\ Len(hooks) \in Nat
      /\ \A i \in DOMAIN hooks : hooks[i].new \in Fns
  BY InfosAssumption DEF TypeOK, HookInfo
<1>2. PICK N \in Nat : N = Cardinality(Fns)
  BY FnsAssumption, FS_CardinalityType
<1>3. PICK c : c = CHOOSE d : Called(f, d)
  OBVIOUS
<1>4. Callee(f) = c[N]
  BY <1>2, <1>3 DEF Callee, Called
<1>5. Called(f, c)
  <2>1. PICK d : Called(f, d)
    BY <1>2, CalledExists
  <2> HIDE DEF Called
  <2> QED
    BY <1>3, <2>1
<1>6. /\ c[0] = f
      /\ \A n \in 0..N : n # 0 =>
           c[n] = IF c[n - 1] \in Fns THEN old[c[n - 1]] ELSE c[n - 1]
  BY <1>2, <1>5 DEF Called
<1> DEFINE Left(i, m) == /\ hooks[i].symbol = symbol /\ old[hooks[i].new] # None
                         /\ Cardinality(Replacements(i)) <= m
           On(n) == c[n] = symbol \/ \E i \in DOMAIN hooks : c[n] = hooks[i].new /\ Left(i, N - n)
           Off == {n \in 0..N : ~On(n)}
<1>7. On(0)
  <2>1. \A i \in DOMAIN hooks : i \in 1..i /\ Cardinality(Replacements(i)) <= N - 0
    BY <1>1, <1>2, FewerReplacements
  <2> QED
    BY <1>1, <1>6, <2>1 DEF Behind
<1>8. ASSUME NEW n \in 0..N, n # 0, On(n - 1) PROVE On(n)
  <2>1. c[n] = IF c[n - 1] \in Fns THEN old[c[n - 1]] ELSE c[n - 1]
    BY <1>6, <1>8
  <2>2. CASE c[n - 1] = symbol
    BY <2>1, <2>2, NamesAssumption
  <2>3. ASSUME NEW i \in DOMAIN hooks, c[n - 1] = hooks[i].new, Left(i, N - (n - 1))
        PROVE  On(n)
    <3>1. PICK j \in 1..i : /\ hooks[j].new = hooks[i].new /\ hooks[j].symbol = hooks[i].symbol
                            /\ \A k \in 1..(j - 1) : hooks[k].new # hooks[i].new
      BY FirstHook
    <3>2. j \in DOMAIN hooks /\ c[n] = old[hooks[j].new] /\ j - 1 <= Len(hooks)
      BY <1>1, <2>1, <2>3, <3>1
    <3>3. Behind(symbol, j - 1, c[n])
      BY <2>3, <3>1, <3>2 DEF SavedInv
    <3>4. ASSUME NEW k \in 1..(j - 1), hooks[k].symbol = symbol, c[n] = hooks[k].new,
                 old[c[n]] # None
          PROVE  k \in DOMAIN hooks /\ Left(k, N - n)
      <4>1. k \in 1..i /\ k \in DOMAIN hooks /\ k < j
        BY <1>1, <3>1
      <4>2. hooks[i].new \notin Replacements(k)
        BY <3>1, <4>1 DEF Replacements
      <4>3. /\ Cardinality(Replacements(k)) < Cardinality(Replacements(i))
            /\ Cardinality(Replacements(k)) \in Nat /\ Cardinality(Replacements(i)) \in Nat
        BY <4>1, <4>2, FewerReplacements
      <4>4. Cardinality(Replacements(k)) <= N - n
        BY <1>8, <2>3, <4>3
      <4> QED
        BY <3>4, <4>1, <4>4
    <3> QED
      BY <3>3, <3>4 DEF Behind
  <2> QED
    BY <1>8, <2>2, <2>3
<1>9. ASSUME On(N) PROVE c[N] = symbol
  <2> SUFFICES ASSUME NEW i \in DOMAIN hooks, Left(i, N - N) PROVE FALSE
    BY <1>9
  <2>1. i \in 1..i
    BY <1>1
  <2>2. Cardinality(Replacements(i)) \in 1..Cardinality(Fns)
    BY <2>1, FewerReplacements
  <2> QED
    BY <1>2, <2>2
<1> HIDE DEF On
<1>10. Off = {}
  <2> SUFFICES ASSUME Off # {} PROVE FALSE
    OBVIOUS
  <2>0. Off \in SUBSET Nat
    OBVIOUS
  <2>1. PICK m \in Off : \A k \in Off : m <= k
    BY <2>0, Least
  <2>2. m \in 0..N /\ m # 0
    BY <1>7, <2>1
  <2>3. m - 1 \in 0..N /\ m - 1 \notin Off
    BY <1>2, <2>1, <2>2
  <2> QED
    BY <1>8, <2>1, <2>2, <2>3
<1> QED
  BY <1>4, <1>9, <1>10

\* At the start nothing is replaced or saved.
LEMMA ReachInit == Init => ReachInv
<1> SUFFICES ASSUME Init PROVE ReachInv
  OBVIOUS
<1> USE NumBasesAssumption DEF Init, Handling, Inside
<1>1. PlaceInv
  BY DEF PlaceInv, LineInv, NoEntries
<1>2. TouchedInv
  BY DEF TouchedInv, Touched
<1>3. SavedInv
  BY DEF SavedInv, Behind, Pristine
<1> QED
  BY <1>1, <1>2, <1>3 DEF ReachInv

\* Every step keeps a way from each slot to its original.
LEMMA ReachStep ==
  ASSUME HookedOnce
  PROVE TypeOK /\ EntriesInv /\ ReachInv /\ [Next]_vars => ReachInv'
<1> SUFFICES ASSUME TypeOK, EntriesInv, ReachInv, [Next]_vars PROVE ReachInv'
  OBVIOUS
<1>1. PlaceInv'
  BY HookedOnce, PlaceStep DEF ReachInv
<1>2. TouchedInv'
  BY HookedOnce, TouchedStep DEF ReachInv
<1>3. ASSUME RegisteredTogether' PROVE SavedInv'
  <2>1. \A i \in DOMAIN hooks : i \in DOMAIN hooks' /\ hooks'[i] = hooks[i]
    BY HookedOnce, OnlyMore
  <2>2. \A i, j \in DOMAIN hooks : \A k \in i..j : k \in DOMAIN hooks
    BY DEF TypeOK
  <2>3. RegisteredTogether
    BY <1>3, <2>1, <2>2 DEF RegisteredTogether
  <2> QED
    BY <1>3, <2>3, HookedOnce, SavedStep DEF ReachInv
<1> QED
  BY <1>1, <1>2, <1>3 DEF ReachInv

\* Every call through a slot ends in the original function, as long as no other replacement
\* is registered between the hooks of one (RegisteredTogether): in the middle of a pass as
\* well, however many replacements a symbol has and whatever is ignored, fails, is unloaded
\* and comes back, or takes the address of the line being handled; without a clear
\* (xh_elf_replace_function).
THEOREM OriginalsReached ==
  ASSUME HookedOnce
  PROVE Spec => []CallsReachOriginal
<1>1. TypeOK /\ EntriesInv /\ ReachInv /\ [Next]_vars => ReachInv'
  BY HookedOnce, ReachStep
<1>2. TypeOK /\ ReachInv => CallsReachOriginal
  <2> SUFFICES ASSUME TypeOK, ReachInv, RegisteredTogether, NEW bs \in Live
               PROVE Callee(slot[bs[1]][bs[2]]) = Symbol[bs[2]]
    BY DEF CallsReachOriginal
  <2>1. bs[1] \in Bases /\ bs[2] \in Slots
    BY DEF Live
  <2>2. Symbol[bs[2]] \in Syms
    BY <2>1, LibraryAssumption
  <2>3. SavedInv
    BY DEF ReachInv
  <2>4. Behind(Symbol[bs[2]], Len(hooks), slot[bs[1]][bs[2]])
    BY <2>1, <2>3 DEF SavedInv
  <2> QED
    BY <2>2, <2>3, <2>4, BehindReaches
<1>3. Init => EntriesInv
  BY DEF Init, EntriesInv, TreesDisjoint, NoEntries
<1> QED
  BY <1>1, <1>2, <1>3, TypeInit, TypeStep, EntriesStep, ReachInit, PTL DEF Spec
=============================================================================
