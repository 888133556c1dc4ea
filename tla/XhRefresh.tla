----------------------------- MODULE XhRefresh ------------------------------
(***************************************************************************)
(* What a refresh pass of xHook does to the process: xh_core_refresh_impl  *)
(* reads /proc/self/maps line by line, checks and caches the ELF files the *)
(* registered hooks want, and replaces the function pointers in their      *)
(* relocation slots (xh_elf_hook, xh_elf_replace_function), while the      *)
(* dynamic linker maps and unmaps libraries between any two of its steps.  *)
(*                                                                         *)
(* XhCore shows that one pass runs at a time and never together with the   *)
(* end of clear; here there is one pass and one control point.  A regular  *)
(* expression is the set of paths it matches, a library is its path, a     *)
(* symbol's original function is the symbol itself.  SIGSEGV protection is *)
(* on, as it is by default.                                                *)
(***************************************************************************)
EXTENDS Naturals, Sequences, FiniteSets

CONSTANTS
  NumBases,    \* load addresses 1..NumBases, in the order of the maps file
  Paths,       \* pathnames of libraries
  Syms,        \* imported symbols
  Slots,       \* relocation slots (.rel.plt, .rel.dyn and .rel.android)
  Symbol,      \* the symbol of each slot
  Imports,     \* the slots of each library
  Fns,         \* replacement functions; each has one old_func variable
  HookInfos,   \* arguments xh_core_register may be called with
  IgnoreInfos, \* arguments xh_core_ignore may be called with
  AllSyms,     \* the NULL symbol of an ignore
  None,        \* NULL: no library, no function, no entry
  MaxHooks,    \* bound: length of the hook list
  MaxIgnores,  \* bound: length of the ignore list
  Allowed      \* the disturbances that may happen, of those below

Disturbances == {
  "clear",         \* xh_core_clear is called
  "late_register", \* hooks are registered after the first refresh too
  "late_ignore",   \* a refresh may come between the two steps of an ignore
  "reload",        \* a library comes back at an address it had before
  "line_reuse",    \* the address of the line being handled is mapped anew
  "fail"}          \* malloc or mprotect fails, or an ELF file is refused

HookInfo   == [regex : SUBSET Paths, symbol : Syms, new : Fns]
IgnoreInfo == [regex : SUBSET Paths, symbol : Syms \cup {AllSyms}]

ASSUME NumBasesAssumption == NumBases \in Nat
ASSUME LibraryAssumption ==
  /\ Symbol \in [Slots -> Syms]
  /\ Imports \in [Paths -> SUBSET Slots]
ASSUME NamesAssumption ==
  /\ None \notin Paths \cup Fns \cup Syms \cup Slots \cup IgnoreInfo
  /\ None \notin 1..NumBases
  /\ AllSyms \notin Syms
  /\ Fns \cap Syms = {}
ASSUME InfosAssumption ==
  /\ HookInfos \subseteq HookInfo
  /\ IgnoreInfos \subseteq IgnoreInfo
ASSUME FnsAssumption == IsFiniteSet(Fns)
ASSUME AllowedAssumption == Allowed \subseteq Disturbances

Bases == 1..NumBases

VARIABLES
  mem,      \* the library mapped at each address
  slot,     \* the function pointer in each slot of each mapped library
  past,     \* history: the libraries that were mapped at each address
  hooks,    \* xh_core_hook_info
  ignores,  \* xh_core_ignore_info
  old,      \* *old_func of each replacement function
  inited,   \* xh_core_inited
  pending,  \* the ignore that was tested and is not in the list yet
  tree,     \* xh_core_map_info: base_addr of each cached path
  newtree,  \* map_info_refreshed
  at,       \* control point of the pass
  line,     \* base_addr of the line being handled, 0 before the first
  path,     \* pathname of that line
  image,    \* the library whose headers xh_elf_init has parsed
  hook,     \* index of the hook being applied, 0 before the first
  todo,     \* slots of its symbol not visited yet
  writing,  \* the slot about to be written
  calm      \* history: no library was mapped since the pass began

libVars  == <<mem, slot, past>>
listVars == <<hooks, ignores, inited, pending>>
treeVars == <<tree, newtree>>
posVars  == <<line, path>>
elfVars  == <<image, hook, todo, writing>>
vars     == <<libVars, listVars, old, treeVars, at, posVars, elfVars, calm>>

NoEntries == [p \in Paths |-> None]
Pristine  == [s \in Slots |-> Symbol[s]]

\* The control points of refresh_impl: between lines, with a line that matched,
\* a checked one, an entry to hook, in xh_core_hook_impl between slots, between
\* the two stores of a replacement, and after the last line.
Stages == {"idle", "maps", "check", "entry", "init", "hook", "write", "end"}

\* The stages at which the pass holds addresses inside the image at `line`.
Inside == at \in {"hook", "write"}

TypeOK ==
  /\ mem \in [Bases -> Paths \cup {None}]
  /\ slot \in [Bases -> [Slots -> Fns \cup Syms]]
  /\ past \in [Bases -> SUBSET Paths]
  /\ hooks \in Seq(HookInfos) /\ ignores \in Seq(IgnoreInfos)
  /\ old \in [Fns -> Fns \cup Syms \cup {None}]
  /\ inited \in BOOLEAN /\ pending \in IgnoreInfos \cup {None}
  /\ tree \in [Paths -> Bases \cup {None}]
  /\ newtree \in [Paths -> Bases \cup {None}]
  /\ at \in Stages
  /\ line \in 0..NumBases /\ path \in Paths \cup {None}
  /\ at \in {"check", "entry", "init", "hook", "write"} => line \in Bases /\ path \in Paths
  /\ image \in Paths \cup {None} /\ hook \in 0..Len(hooks)
  /\ todo \in SUBSET Slots /\ writing \in Slots \cup {None}
  /\ Inside => image \in Paths
  /\ ~Inside => hook = 0 /\ todo = {}
  /\ todo # {} => hook > 0
  /\ at = "write" => writing \in todo
  /\ calm \in BOOLEAN

Init ==
  /\ mem = [b \in Bases |-> None]
  /\ slot = [b \in Bases |-> Pristine]
  /\ past = [b \in Bases |-> {}]
  /\ hooks = << >> /\ ignores = << >>
  /\ old = [f \in Fns |-> None]
  /\ inited = FALSE /\ pending = None
  /\ tree = NoEntries /\ newtree = NoEntries
  /\ at = "idle" /\ line = 0 /\ path = None
  /\ image = None /\ hook = 0 /\ todo = {} /\ writing = None
  /\ calm = FALSE

-----------------------------------------------------------------------------
(* The dynamic linker. *)

\* dlopen maps p at a free address, its slots bound to the original functions.
\* The address the pass has parsed headers of is assumed not to be taken.
Dlopen(b, p) ==
  /\ mem[b] = None
  /\ \A c \in Bases : mem[c] # p
  /\ "reload" \in Allowed \/ p \notin past[b]
  /\ b = line /\ at \in {"check", "entry", "init"} => "line_reuse" \in Allowed
  /\ b = line => ~Inside
  /\ mem' = [mem EXCEPT ![b] = p]
  /\ slot' = [slot EXCEPT ![b] = Pristine]
  /\ past' = [past EXCEPT ![b] = @ \cup {p}]
  /\ calm' = FALSE
  /\ UNCHANGED <<listVars, old, treeVars, at, posVars, elfVars>>

Dlclose(b) ==
  /\ mem[b] # None
  /\ mem' = [mem EXCEPT ![b] = None]
  /\ slot' = [slot EXCEPT ![b] = Pristine]
  /\ UNCHANGED <<past, listVars, old, treeVars, at, posVars, elfVars, calm>>

-----------------------------------------------------------------------------
(* xh_core_register and xh_core_ignore. *)

\* The list is appended to under xh_core_mutex, which a pass does not hold.
Register(h) ==
  /\ Len(hooks) < MaxHooks
  /\ inited => "late_register" \in Allowed
  /\ hooks' = Append(hooks, h)
  /\ UNCHANGED <<libVars, ignores, inited, pending, old, treeVars, at,
                 posVars, elfVars, calm>>

\* MUTANT: xh_core_inited is not tested.
IgnoreTestMissing(i) ==
  /\ pending = None
  /\ Len(ignores) < MaxIgnores
  /\ pending' = i
  /\ UNCHANGED <<libVars, hooks, ignores, inited, old, treeVars, at, posVars,
                 elfVars, calm>>

\* if(xh_core_inited) return XH_ERRNO_INVAL, unlocked
IgnoreTest(i) ==
  /\ ~inited
  /\ pending = None
  /\ Len(ignores) < MaxIgnores
  /\ pending' = i
  /\ UNCHANGED <<libVars, hooks, ignores, inited, old, treeVars, at, posVars,
                 elfVars, calm>>

IgnoreAppend ==
  /\ pending # None
  /\ ignores' = Append(ignores, pending)
  /\ pending' = None
  /\ UNCHANGED <<libVars, hooks, inited, old, treeVars, at, posVars, elfVars, calm>>

\* Is the symbol of path p (AllSyms: only the whole of p) ignored?
Ignores(p, s) ==
  \E i \in DOMAIN ignores : p \in ignores[i].regex /\ ignores[i].symbol \in {AllSyms, s}

\* Does the pass look into path p?  The first hook that matches decides: the
\* loop is left after it whether its symbol is ignored or not.
Wanted(p) ==
  \E i \in DOMAIN hooks :
    /\ p \in hooks[i].regex
    /\ \A j \in 1..(i - 1) : p \notin hooks[j].regex
    /\ ~Ignores(p, hooks[i].symbol)

-----------------------------------------------------------------------------
(* xh_core_refresh_impl. *)

\* A refresh call that has got xh_core_refresh_mutex; without the maps file
\* the pass ends at once.
BeginPass ==
  /\ at = "idle"
  /\ "late_ignore" \in Allowed \/ pending = None
  /\ inited' = TRUE
  /\ at' \in {"maps", "idle"}
  /\ calm' = TRUE
  /\ UNCHANGED <<libVars, hooks, ignores, pending, old, treeVars, posVars, elfVars>>

\* The line of the next mapped library, as the file shows it now.
NextLine ==
  /\ at = "maps"
  /\ \E b \in Bases :
       /\ b > line /\ mem[b] # None
       /\ \A c \in Bases : c > line /\ mem[c] # None => b <= c
       /\ line' = b
       /\ path' = mem[b]
       /\ at' = IF Wanted(mem[b]) THEN "check" ELSE "maps"
  /\ UNCHANGED <<libVars, listVars, old, treeVars, elfVars, calm>>

LastLine ==
  /\ at = "maps"
  /\ \A b \in Bases : b > line => mem[b] = None
  /\ at' = "end"
  /\ UNCHANGED <<libVars, listVars, old, treeVars, posVars, elfVars, calm>>

\* xh_core_check_elf_header: whatever is mapped there now has an ELF header (a
\* file without one is skipped like a path that no hook matches).
CheckHeader ==
  /\ at = "check" /\ mem[line] # None
  /\ at' = "entry"
  /\ UNCHANGED <<libVars, listVars, old, treeVars, posVars, elfVars, calm>>

\* A read or write of unmapped memory: the handler jumps out of the check or
\* out of xh_core_hook_impl, and the loop goes on with the next line.
Fault ==
  /\ at \in {"check", "init", "hook", "write"} /\ mem[line] = None
  /\ at' = "maps"
  /\ image' = None /\ hook' = 0 /\ todo' = {} /\ writing' = None
  /\ UNCHANGED <<libVars, listVars, old, treeVars, posVars, calm>>

\* xh_elf_init refuses what is mapped there: it is cached and not hooked.
RefuseElf ==
  /\ "fail" \in Allowed
  /\ at = "init" /\ mem[line] # None
  /\ at' = "maps"
  /\ UNCHANGED <<libVars, listVars, old, treeVars, posVars, elfVars, calm>>

\* MUTANT: the base address of a found entry is not compared.
UpdateEntryNoRehook ==
  /\ at = "entry" /\ tree[path] # None
  /\ tree' = [tree EXCEPT ![path] = None]
  /\ newtree' = [newtree EXCEPT ![path] = IF @ = None THEN line ELSE @]
  /\ at' = "maps"
  /\ UNCHANGED <<libVars, listVars, old, posVars, elfVars, calm>>

\* The path is cached: its entry moves to the new tree (it is freed when the
\* new tree has one) and is hooked again if the base address has changed.
UpdateEntry ==
  /\ at = "entry" /\ tree[path] # None
  /\ tree' = [tree EXCEPT ![path] = None]
  /\ newtree' = [newtree EXCEPT ![path] = IF @ = None THEN line ELSE @]
  /\ at' = IF newtree[path] = None /\ tree[path] # line THEN "init" ELSE "maps"
  /\ UNCHANGED <<libVars, listVars, old, posVars, elfVars, calm>>

\* The path is new: its entry is created and hooked; only the first line of a
\* path counts, and without memory for it the line is skipped.
CreateEntry ==
  /\ at = "entry" /\ tree[path] = None
  /\ \/ /\ newtree' = [newtree EXCEPT ![path] = IF @ = None THEN line ELSE @]
        /\ at' = IF newtree[path] = None THEN "init" ELSE "maps"
     \/ /\ "fail" \in Allowed
        /\ at' = "maps"
        /\ UNCHANGED newtree
  /\ UNCHANGED <<libVars, listVars, old, tree, posVars, elfVars, calm>>

\* xh_elf_init on whatever is mapped there now.
ElfInit ==
  /\ at = "init" /\ mem[line] # None
  /\ at' = "hook"
  /\ image' = mem[line] /\ hook' = 0 /\ todo' = {}
  /\ UNCHANGED <<libVars, listVars, old, treeVars, posVars, writing, calm>>

\* What xh_elf_hook visits: the relocations of library l that name symbol y.
SlotsOf(l, y) == {s \in Imports[l] : Symbol[s] = y}

\* The loop of xh_core_hook_impl: the next hook, and if it matches the path and
\* is not ignored the slots of its symbol (none if the image lacks it).  The
\* code leaves the loop where the whole path is ignored; here every hook that
\* is left is passed over.
NextHook ==
  /\ at = "hook" /\ todo = {} /\ hook < Len(hooks)
  /\ mem[line] # None
  /\ hook' = hook + 1
  /\ LET h == hooks[hook + 1] IN
       todo' = IF path \in h.regex /\ ~Ignores(path, h.symbol)
                 THEN SlotsOf(image, h.symbol) ELSE {}
  /\ UNCHANGED <<libVars, listVars, old, treeVars, at, posVars, image, writing, calm>>

LastHook ==
  /\ at = "hook" /\ todo = {} /\ hook = Len(hooks)
  /\ at' = "maps"
  /\ image' = None /\ hook' = 0
  /\ UNCHANGED <<libVars, listVars, old, treeVars, posVars, todo, writing, calm>>

\* xh_elf_replace_function: a slot that has the function already is left alone.
SkipSlot(s) ==
  /\ at = "hook" /\ s \in todo
  /\ mem[line] # None
  /\ slot[line][s] = hooks[hook].new
  /\ todo' = todo \ {s}
  /\ UNCHANGED <<libVars, listVars, old, treeVars, at, posVars, image, hook,
                 writing, calm>>

\* The protection of a slot that is to be replaced is looked for in the lines of the
\* path only (xh_util_get_mem_protect): another library at the line has none, and
\* xh_elf_hook gives this symbol up, as it does when mprotect fails.
GiveUpSymbol ==
  /\ at = "hook" /\ todo # {}
  /\ \/ "fail" \in Allowed
     \/ /\ mem[line] \notin {path, None}
        /\ \E s \in todo : slot[line][s] # hooks[hook].new
  /\ todo' = {}
  /\ UNCHANGED <<libVars, listVars, old, treeVars, at, posVars, image, hook,
                 writing, calm>>

\* MUTANT: a slot is not tested for the function it has already.
SaveOldAlways(s) ==
  /\ at = "hook" /\ s \in todo
  /\ mem[line] = path
  /\ old' = [old EXCEPT ![hooks[hook].new] = slot[line][s]]
  /\ at' = "write" /\ writing' = s
  /\ UNCHANGED <<libVars, listVars, treeVars, posVars, image, hook, todo, calm>>

\* MUTANT: the old function is not saved before the slot is written.
SaveOldSkipped(s) ==
  /\ at = "hook" /\ s \in todo
  /\ mem[line] = path
  /\ slot[line][s] # hooks[hook].new
  /\ at' = "write" /\ writing' = s
  /\ UNCHANGED <<libVars, listVars, old, treeVars, posVars, image, hook, todo, calm>>

\* *old_func = old_addr, of a slot whose protection was found.
SaveOld(s) ==
  /\ at = "hook" /\ s \in todo
  /\ mem[line] = path
  /\ slot[line][s] # hooks[hook].new
  /\ old' = [old EXCEPT ![hooks[hook].new] = slot[line][s]]
  /\ at' = "write" /\ writing' = s
  /\ UNCHANGED <<libVars, listVars, treeVars, posVars, image, hook, todo, calm>>

\* *(void **)addr = new_func
WriteSlot ==
  /\ at = "write" /\ mem[line] # None
  /\ slot' = [slot EXCEPT ![line][writing] = hooks[hook].new]
  /\ todo' = todo \ {writing}
  /\ at' = "hook" /\ writing' = None
  /\ UNCHANGED <<mem, past, listVars, old, treeVars, posVars, image, hook, calm>>

\* What is left in the old tree is freed, and the new tree takes its place.
EndPass ==
  /\ at = "end"
  /\ tree' = newtree /\ newtree' = NoEntries
  /\ at' = "idle" /\ line' = 0 /\ path' = None
  /\ UNCHANGED <<libVars, listVars, old, elfVars, calm>>

\* xh_core_clear, which no pass overlaps (XhCore): the three lists are freed.
Clear ==
  /\ "clear" \in Allowed
  /\ at = "idle"
  /\ tree' = NoEntries /\ hooks' = << >> /\ ignores' = << >>
  /\ inited' = FALSE
  /\ UNCHANGED <<libVars, pending, old, newtree, at, posVars, elfVars, calm>>

-----------------------------------------------------------------------------

Pass ==
  \/ NextLine \/ LastLine \/ CheckHeader \/ Fault \/ RefuseElf
  \/ UpdateEntry \/ CreateEntry \/ ElfInit \/ NextHook \/ LastHook
  \/ GiveUpSymbol \/ WriteSlot \/ EndPass
  \/ \E s \in Slots : SkipSlot(s) \/ SaveOld(s)

Next ==
  \/ \E b \in Bases : Dlclose(b) \/ \E p \in Paths : Dlopen(b, p)
  \/ \E h \in HookInfos : Register(h)
  \/ \E i \in IgnoreInfos : IgnoreTest(i)
  \/ IgnoreAppend \/ BeginPass \/ Pass \/ Clear

Spec == Init /\ [][Next]_vars

-----------------------------------------------------------------------------
(* Properties. *)

\* The slots of the libraries that are mapped.
Live == {bs \in Bases \X Slots : mem[bs[1]] # None /\ bs[2] \in Imports[mem[bs[1]]]}

\* The function a call of f ends in when every replacement calls its old_func:
\* more calls than there are replacements would be a cycle.
Callee(f) ==
  LET call[n \in 0..Cardinality(Fns)] ==
        IF n = 0 THEN f
        ELSE IF call[n - 1] \in Fns THEN old[call[n - 1]] ELSE call[n - 1]
  IN  call[Cardinality(Fns)]

\* What the application is asked for: the hooks of a replacement are of one symbol,
\* and no other replacement of that symbol is registered between them.
RegisteredTogether ==
  \A i, j \in DOMAIN hooks : hooks[i].new = hooks[j].new =>
    /\ hooks[i].symbol = hooks[j].symbol
    /\ \A k \in i..j : hooks[k].symbol = hooks[i].symbol => hooks[k].new = hooks[i].new

\* A call through any slot of any library ends in the original function of its
\* symbol, at every moment of a pass, when the hooks are registered so: the saved
\* functions never form a cycle and none is used before it is saved
\* (xh_elf_replace_function).
CallsReachOriginal ==
  RegisteredTogether => \A bs \in Live : Callee(slot[bs[1]][bs[2]]) = Symbol[bs[2]]

\* With one replacement for a symbol its old_func is the original function itself
\* whenever a slot holds the replacement: it is never overwritten by the
\* replacement, by whatever pass comes later (xh_elf_replace_function).
OldIsOriginal ==
  \A b \in Bases, s \in Slots : slot[b][s] \in Fns => old[slot[b][s]] = Symbol[s]

\* No path is cached in both trees, so an entry is freed once: the branch
\* "repeated map info when update" is never taken (xh_core_refresh_impl).
TreesDisjoint == \A p \in Paths : tree[p] = None \/ newtree[p] = None

\* A slot that is replaced belongs to a library and a symbol that are not
\* ignored (xh_core_hook_impl and the test in xh_core_ignore).
IgnoredKept ==
  \A bs \in Live : slot[bs[1]][bs[2]] \in Fns => ~Ignores(mem[bs[1]], Symbol[bs[2]])

\* After a pass during which nothing was mapped, every slot that some hook
\* matches and no ignore excludes is replaced, in libraries this pass has hooked
\* and in those it found in the cache (refresh_impl over several passes).
PassHooksAll ==
  at = "end" /\ calm =>
    \A bs \in Live, i \in DOMAIN hooks :
      LET p == mem[bs[1]] IN
      /\ p \in hooks[i].regex
      /\ hooks[i].symbol = Symbol[bs[2]]
      /\ ~Ignores(p, Symbol[bs[2]])
      => slot[bs[1]][bs[2]] \in Fns
=============================================================================
