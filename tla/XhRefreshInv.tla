---------------------------- MODULE XhRefreshInv ----------------------------
(* The inductive invariants behind the properties of XhRefresh.             *)
EXTENDS XhRefresh

\* Entries move from the old tree to the new one, which is empty between passes.
EntriesInv == TreesDisjoint /\ (at = "idle" => newtree = NoEntries)

\* Every symbol has at most one replacement, and every replacement one symbol.
OneReplacement ==
  \A h, g \in HookInfos : h.symbol = g.symbol <=> h.new = g.new

\* What a slot holds is the original of its symbol or that symbol's replacement,
\* which has the original saved.
SlotInv ==
  \A b \in Bases, s \in Slots :
    \/ slot[b][s] = Symbol[s]
    \/ /\ \E h \in HookInfos : h.symbol = Symbol[s] /\ slot[b][s] = h.new
       /\ old[slot[b][s]] = Symbol[s]

\* The slots still to visit are of the current hook's symbol, and the one about to
\* be written has its original saved.
VisitInv ==
  /\ \A s \in todo : Symbol[s] = hooks[hook].symbol
  /\ at = "write" => old[hooks[hook].new] = Symbol[writing]

ReplaceInv == SlotInv /\ VisitInv

-----------------------------------------------------------------------------
(* What is ignored *)

\* The disturbances that replace what is ignored: an ignore that comes after a pass.
IgnoresFirst == Allowed \cap {"clear", "late_ignore"} = {}

\* Where the pass has a line in hand.
Handling == at \in {"check", "entry", "init", "hook", "write"}

\* An ignore is under way only before the first pass, and until then nothing is replaced.
ListsInv == /\ ~inited => at = "idle" /\ \A b \in Bases : slot[b] = Pristine
            /\ pending # None => ~inited

\* What is mapped at the line is the image that was parsed, as long as it is mapped, and
\* what is written to is the library the line names.
LineInv == /\ Inside => mem[line] \in {image, None}
           /\ at = "write" => image = path

\* The slots still to visit are of a hook that matches and that nothing excludes.
TodoInv == \A s \in todo : /\ s \in SlotsOf(image, hooks[hook].symbol)
                           /\ path \in hooks[hook].regex
                           /\ ~Ignores(path, hooks[hook].symbol)

KeptInv == ListsInv /\ LineInv /\ TodoInv /\ IgnoredKept

-----------------------------------------------------------------------------
(* What is hooked *)

\* The disturbances that leave slots out: a hook registered when its libraries are in
\* the cache, a library that comes back where the cache has it, and failures. And an
\* ignore is of a whole library: the first hook that matches decides for all.
NothingMissed == /\ Allowed \cap {"late_register", "reload", "fail"} = {}
                 /\ \A i \in IgnoreInfos : i.symbol = AllSyms

\* Hook i applies to slot s of library p.
Applies(i, p, s) == /\ p \in hooks[i].regex /\ hooks[i].symbol = Symbol[s]
                    /\ ~Ignores(p, Symbol[s])

\* Library p at b has all its slots replaced.
Done(b, p) == \A s \in Imports[p], i \in DOMAIN hooks : Applies(i, p, s) => slot[b][s] \in Fns

\* The slots of the hooks before the current one are replaced, and those of the current
\* one that are not left to visit.
Progress == \A s \in Imports[path], i \in 1..hook :
              Applies(i, path, s) => slot[line][s] \in Fns \/ (i = hook /\ s \in todo)

\* An address and a path meet only once, and a path is at one address.
MetInv ==
  /\ \A b \in Bases : mem[b] # None => mem[b] \in past[b]
  /\ \A b, c \in Bases : mem[b] # None /\ mem[b] = mem[c] => b = c
  /\ \A p \in Paths : /\ tree[p] # None => p \in past[tree[p]]
                      /\ newtree[p] # None => p \in past[newtree[p]]
  /\ Handling => path \in past[line]

\* The new tree has what the pass has come by, and unless something was mapped meanwhile
\* it is there, if anywhere, and is what the line names.
OrderInv ==
  /\ at = "idle" => newtree = NoEntries /\ line = 0
  /\ \A p \in Paths : newtree[p] # None => newtree[p] <= line
  /\ at \in {"check", "entry"} => \A p \in Paths : newtree[p] # line
  /\ Inside => mem[line] \in {image, None}
  /\ calm => \A p \in Paths, b \in Bases : newtree[p] # None /\ mem[b] = p => newtree[p] = b
  /\ calm /\ Handling => /\ mem[line] \in {path, None}
                         /\ \A b \in Bases : mem[b] = path => b = line
  /\ calm /\ at = "end" => \A b \in Bases : b > line => mem[b] = None

\* Whatever is cached and still there is done, but for the entry in hand.
CachedInv ==
  /\ ~inited => at = "idle" /\ tree = NoEntries
  /\ \A p \in Paths, b \in Bases : tree[p] = b /\ mem[b] = p => Done(b, p)
  /\ \A p \in Paths, b \in Bases : newtree[p] = b /\ mem[b] = p =>
       \/ Done(b, p)
       \/ at \in {"init", "hook", "write"} /\ path = p /\ line = b

\* In the library in hand every hook is done up to the current one.
InHandInv == Inside /\ mem[line] = path => Progress

\* Whatever the pass has gone past is done, but for the line in hand.
PassedInv ==
  calm /\ at # "idle" =>
    \A b \in Bases : mem[b] # None /\ b <= line => Done(b, mem[b]) \/ (b = line /\ Handling)

HookedInv == MetInv /\ OrderInv /\ CachedInv /\ InHandInv /\ PassedInv

-----------------------------------------------------------------------------
(* What a call ends in *)

\* The disturbance that hooks a library again whose slots are replaced already: clear, which
\* forgets what is cached.
HookedOnce == "clear" \notin Allowed

Touched(b) == slot[b] # Pristine
Matched(p) == \E i \in DOMAIN hooks : p \in hooks[i].regex

\* Where the pass is, and under which name.
PlaceInv ==
  /\ \A b, c \in Bases : mem[b] # None /\ mem[b] = mem[c] => b = c
  /\ at = "idle" => line = 0
  /\ \A p \in Paths : newtree[p] # None => newtree[p] <= line
  /\ LineInv
  /\ at \in {"init", "hook", "write"} => newtree[path] = line
  /\ todo # {} => path \in hooks[hook].regex

\* A library with a replaced slot is one that some hook matches, and unless it is ignored
\* by now it is in the cache: in the new tree once the pass has come by. So none is hooked
\* a second time.
TouchedInv ==
  /\ \A b \in Bases : Touched(b) =>
       /\ mem[b] # None /\ Matched(mem[b])
       /\ Wanted(mem[b]) => /\ tree[mem[b]] = b \/ newtree[mem[b]] = b
                            /\ b <= line => \/ newtree[mem[b]] = b
                                            \/ b = line /\ at \in {"check", "entry"}
  /\ at = "end" => \A b \in Bases : Touched(b) => b <= line
  /\ at \in {"check", "entry", "init"} =>
       \A b \in Bases : Touched(b) /\ mem[b] = path => b = line
  /\ at \in {"check", "entry"} /\ Touched(line) => mem[line] = path /\ tree[path] = line
  /\ at = "init" => ~Touched(line)

\* The original of a symbol, or one of its first n replacements that has something saved.
Behind(symbol, n, f) ==
  \/ f = symbol
  \/ \E i \in 1..n : hooks[i].symbol = symbol /\ f = hooks[i].new /\ old[f] # None

\* A replacement has saved what is behind it in the list, so there is no way back.
SavedInv ==
  /\ \A f \in Fns : (\A i \in DOMAIN hooks : hooks[i].new # f) => old[f] = None
  /\ \A i \in DOMAIN hooks :
       old[hooks[i].new] # None => Behind(hooks[i].symbol, i - 1, old[hooks[i].new])
  /\ \A b \in Bases, s \in Slots : Behind(Symbol[s], Len(hooks), slot[b][s])
  /\ Inside => \A s \in Slots : Behind(Symbol[s], hook, slot[line][s])
  /\ \A s \in todo : Symbol[s] = hooks[hook].symbol
  /\ at = "write" => old[hooks[hook].new] # None

ReachInv == PlaceInv /\ TouchedInv /\ (RegisteredTogether => SavedInv)
=============================================================================
