------------------------------ MODULE A64Hook -------------------------------
(* A64HookFunction of And64InlineHook.cpp: hook calls that may run at the    *)
(* same time, and callers of the hooked functions while they do. Nothing is  *)
(* locked and no thread is stopped.                                          *)
(*                                                                           *)
(* Of a function only the words a hook may write are told apart: word 1 that *)
(* a near proxy's branch replaces, and words 1, 2 and 3 that load, branch to *)
(* and hold the address of a far one (the address fills two words; the NOP   *)
(* in front of it at odd places is left out). A word is Original or the hook *)
(* that wrote it. What relocation makes of a word is in Relocate64: here it  *)
(* does the same from the trampoline.                                        *)
EXTENDS Naturals, Sequences, FiniteSets, SequencesExt

CONSTANTS
  Hooks,      \* calls of A64HookFunction
  Callers,    \* threads that call the functions
  Functions,
  Original,   \* a word of the function as it was built
  None,       \* NULL, or nothing
  PoolSize    \* A64_MAX_BACKUPS

ASSUME A64HookAssumption == /\ PoolSize \in Nat
                            /\ Original \notin Hooks /\ None \notin Hooks \cup (1..PoolSize)
                            /\ None # Original

Parts == 1..3
Pool == 1..PoolSize

VARIABLES
  index,    \* __index: entries that were asked for
  pc,       \* where each hook call is
  target,   \* its symbol
  far,      \* the hooks whose proxy is out of reach of a branch
  wants,    \* the hooks that ask for the original (result)
  entry,    \* trampoline
  result,   \* *result: what the proxy calls as the original
  old,      \* the word that is compared before it is swapped
  todo,     \* the words still to be written
  code,     \* the words of each function
  pool,     \* __insns_pool: what each entry holds, or None
  at,       \* where each caller is
  x17,      \* the proxy whose address is in X17
  order,    \* history: the hooks whose patch of a function is complete, in order
  mixed,    \* history: functions that two hooks patched at the same time
  call      \* history: what each caller called, met, and could expect

hookVars == <<index, pc, target, far, wants, entry, result, old, todo>>
callVars == <<at, x17>>
vars == <<hookVars, code, pool, callVars, order, mixed, call>>

-----------------------------------------------------------------------------
Step(h, from, to) == pc[h] = from /\ pc' = [pc EXCEPT ![h] = to]

UnderWay(f) == {h \in Hooks : pc[h] \notin {"idle", "done"} /\ target[h] = f}

\* The words a hook relocates and writes.
PartsOf(h) == IF h \in far THEN Parts ELSE {1}

\* FastAllocateTrampoline: the n-th entry, counted from zero, if there is one.
Entry(n) == IF n < PoolSize THEN n + 1 ELSE None

\* Mutant: the function is patched before the trampoline is filled.
FirstStepUnfilled(wanted, e) == IF wanted /\ e = None THEN "done" ELSE "protect"

\* What follows: without a trampoline that was asked for, nothing.
FirstStep(wanted, e) ==
  IF ~wanted THEN "protect" ELSE IF e = None THEN "done" ELSE "fill"

\* A64HookFunction up to the trampoline: the counter moves on even if the pool is
\* exhausted, and *result is set before anything is in the entry.
Allocate(h, f, isFar, wanted) ==
  /\ pc[h] = "idle"
  /\ target' = [target EXCEPT ![h] = f]
  /\ far' = IF isFar THEN far \cup {h} ELSE far
  /\ wants' = IF wanted THEN wants \cup {h} ELSE wants
  /\ index' = IF wanted THEN index + 1 ELSE index
  /\ entry' = [entry EXCEPT ![h] = IF wanted THEN Entry(index) ELSE None]
  /\ result' = [result EXCEPT ![h] = entry'[h]]
  /\ pc' = [pc EXCEPT ![h] = FirstStep(wanted, entry'[h])]
  /\ mixed' = IF UnderWay(f) # {} THEN mixed \cup {f} ELSE mixed
  /\ call' = [c \in Callers |-> IF call[c].fn = f THEN [call[c] EXCEPT !.calm = FALSE] ELSE call[c]]
  /\ UNCHANGED <<old, todo, code, pool, callVars, order>>

\* Mutant: what is copied is the function as it was before any hook.
CopyUnhooked(h) == [code |-> [p \in Parts |-> Original], literal |-> Original, count |-> Cardinality(PartsOf(h)),
              fn |-> target[h]]

\* What the entry holds: the words to be overwritten, and what a load of word 3 loads.
Copy(h) == [code |-> code[target[h]], literal |-> code[target[h]][3],
            count |-> Cardinality(PartsOf(h)), fn |-> target[h]]

\* __fix_instructions: it reads the words as they are, another hook's too.
Fill(h) ==
  /\ Step(h, "fill", "protect")
  /\ pool' = [pool EXCEPT ![entry[h]] = Copy(h)]
  /\ UNCHANGED <<index, target, far, wants, entry, result, old, todo, code, callVars, order, mixed, call>>

\* __make_rwx works; then, or in FixLast, the words are written.
Protect(h) ==
  /\ Step(h, "protect", IF h \in far THEN "write" ELSE "read")
  /\ todo' = [todo EXCEPT ![h] = PartsOf(h)]
  /\ UNCHANGED <<index, target, far, wants, entry, result, old, code, pool, callVars, order, mixed, call>>

\* __make_rwx fails: A64HookFunctionV returns NULL.
ProtectFails(h) ==
  /\ Step(h, "protect", "done")
  /\ result' = [result EXCEPT ![h] = None]
  /\ UNCHANGED <<index, target, far, wants, entry, old, todo, code, pool, callVars, order, mixed, call>>

Written(h, p) == code' = [code EXCEPT ![target[h]][p] = h]
Complete(h) == order' = [order EXCEPT ![target[h]] = Append(@, h)]

\* One of the stores of a far jump, which the compiler may put in any order.
Write(h, p) ==
  /\ pc[h] = "write"
  /\ p \in todo[h]
  /\ Written(h, p)
  /\ todo' = [todo EXCEPT ![h] = @ \ {p}]
  /\ IF todo'[h] = {} THEN Complete(h) /\ pc' = [pc EXCEPT ![h] = "done"]
                      ELSE UNCHANGED <<order, pc>>
  /\ UNCHANGED <<index, target, far, wants, entry, result, old, pool, callVars, mixed, call>>

\* A near jump: the word is read ...
ReadOld(h) ==
  /\ Step(h, "read", "swap")
  /\ old' = [old EXCEPT ![h] = code[target[h]][1]]
  /\ UNCHANGED <<index, target, far, wants, entry, result, todo, code, pool, callVars, order, mixed, call>>

\* ... and swapped if it is still the same. Whether it was is not looked at.
Swap(h) ==
  /\ Step(h, "swap", "done")
  /\ IF code[target[h]][1] = old[h] THEN Written(h, 1) /\ Complete(h) ELSE UNCHANGED <<code, order>>
  /\ UNCHANGED <<index, target, far, wants, entry, result, old, todo, pool, callVars, mixed, call>>

Hook(h) == \/ \E f \in Functions, isFar, wanted \in BOOLEAN : Allocate(h, f, isFar, wanted)
           \/ Fill(h) \/ Protect(h) \/ ProtectFails(h) \/ ReadOld(h) \/ Swap(h)
           \/ \E p \in Parts : Write(h, p)

-----------------------------------------------------------------------------
(* Callers. A place is [in, of, part]: in the code of a function, in an entry *)
(* of the pool, in a proxy, or at its end.                                     *)

Place(in, of, part) == [in |-> in, of |-> of, part |-> part]
Idle == Place("idle", None, 0)
Wild == Place("wild", None, 0)
End == Place("end", None, 0)

NoCall == [fn |-> None, calm |-> TRUE, expect |-> <<>>, met |-> <<>>]

Call(c, f) ==
  /\ at[c] = Idle
  /\ at' = [at EXCEPT ![c] = Place("code", f, 1)]
  /\ call' = [call EXCEPT ![c] = [fn |-> f, calm |-> UnderWay(f) = {}, expect |-> order[f], met |-> <<>>]]
  /\ UNCHANGED <<hookVars, code, pool, x17, order, mixed>>

\* Executing a word: a near hook's branches; a far hook's loads the literal, branches
\* to what was loaded, and is no instruction. Without its load, or with it in place of
\* the first instruction only, nothing sensible happens.
Executed(c, w, part, literal, next) ==
  IF w # Original /\ w \notin far
  THEN at' = [at EXCEPT ![c] = Place("proxy", w, 0)] /\ UNCHANGED x17
  ELSE IF w # Original /\ part = 1
  THEN at' = [at EXCEPT ![c] = next] /\ x17' = [x17 EXCEPT ![c] = literal]
  ELSE IF w # Original /\ part = 2 /\ x17[c] \in far
  THEN at' = [at EXCEPT ![c] = Place("proxy", x17[c], 0)] /\ x17' = [x17 EXCEPT ![c] = None]
  ELSE IF w = Original /\ x17[c] = None
  THEN at' = [at EXCEPT ![c] = next] /\ UNCHANGED x17
  ELSE at' = [at EXCEPT ![c] = Wild] /\ UNCHANGED x17

RunCode(c) ==
  LET f == at[c].of
      p == at[c].part
      next == IF p = 3 THEN End ELSE Place("code", f, p + 1)
  IN /\ at[c].in = "code"
     /\ Executed(c, code[f][p], p, code[f][3], next)
     /\ call' = IF at'[c] = End THEN [call EXCEPT ![c].met = Append(@, Original)] ELSE call
     /\ UNCHANGED <<hookVars, code, pool, order, mixed>>

\* Behind the last word of the entry execution goes on in the function.
RunEntry(c) ==
  LET e == pool[at[c].of]
      p == at[c].part
      next == IF p < e.count THEN Place("entry", at[c].of, p + 1)
              ELSE IF p = 3 THEN End ELSE Place("code", e.fn, p + 1)
  IN /\ at[c].in = "entry"
     /\ IF e = None THEN at' = [at EXCEPT ![c] = Wild] /\ UNCHANGED x17
        ELSE Executed(c, e.code[p], p, e.literal, next)
     /\ call' = IF at'[c] = End THEN [call EXCEPT ![c].met = Append(@, Original)] ELSE call
     /\ UNCHANGED <<hookVars, code, pool, order, mixed>>

\* A proxy calls the original if it has one.
RunProxy(c) ==
  LET h == at[c].of
  IN /\ at[c].in = "proxy"
     /\ at' = [at EXCEPT ![c] = IF result[h] = None THEN End ELSE Place("entry", result[h], 1)]
     /\ call' = [call EXCEPT ![c].met = Append(@, h)]
     /\ UNCHANGED <<hookVars, code, pool, x17, order, mixed>>

Caller(c) == (\E f \in Functions : Call(c, f)) \/ RunCode(c) \/ RunEntry(c) \/ RunProxy(c)

-----------------------------------------------------------------------------
Init ==
  /\ index = 0
  /\ pc = [h \in Hooks |-> "idle"]
  /\ target = [h \in Hooks |-> None]
  /\ far = {} /\ wants = {}
  /\ entry = [h \in Hooks |-> None]
  /\ result = [h \in Hooks |-> None]
  /\ old = [h \in Hooks |-> None]
  /\ todo = [h \in Hooks |-> {}]
  /\ code = [f \in Functions |-> [p \in Parts |-> Original]]
  /\ pool = [e \in Pool |-> None]
  /\ at = [c \in Callers |-> Idle]
  /\ x17 = [c \in Callers |-> None]
  /\ order = [f \in Functions |-> <<>>]
  /\ mixed = {}
  /\ call = [c \in Callers |-> NoCall]

Next == (\E h \in Hooks : Hook(h)) \/ (\E c \in Callers : Caller(c))

Spec == Init /\ [][Next]_vars

-----------------------------------------------------------------------------
Locations == {"idle", "fill", "protect", "write", "read", "swap", "done"}

Copies == [code : [Parts -> Hooks \cup {Original}], literal : Hooks \cup {Original},
           count : {1, 3}, fn : Functions]

\* An empty entry is none of them.
ASSUME CopiesAssumption == None \notin Copies

\* Type invariant.
TypeOK ==
  /\ index \in Nat
  /\ pc \in [Hooks -> Locations]
  /\ target \in [Hooks -> Functions \cup {None}]
  /\ far \subseteq Hooks /\ wants \subseteq Hooks
  /\ entry \in [Hooks -> Pool \cup {None}]
  /\ result \in [Hooks -> Pool \cup {None}]
  /\ old \in [Hooks -> Hooks \cup {Original, None}]
  /\ todo \in [Hooks -> SUBSET Parts]
  /\ code \in [Functions -> [Parts -> Hooks \cup {Original}]]
  /\ pool \in [Pool -> Copies \cup {None}]

\* No two hooks are given the same trampoline, and none one outside the pool, also when
\* more hooks than entries ask at the same time (FastAllocateTrampoline).
EntriesDistinct ==
  \A h \in Hooks : entry[h] # None =>
    entry[h] \in Pool /\ \A g \in Hooks : entry[g] = entry[h] => g = h

\* A word of a hook is only met once its trampoline is filled and can be called, and
\* the trampoline belongs to the function the word is in (A64HookFunction publishes
\* *result before it fills the trampoline).
PatchedHasEntry ==
  \A f \in Functions : \A p \in Parts :
    LET h == code[f][p]
    IN h # Original =>
         /\ target[h] = f
         /\ h \in wants => /\ result[h] \in Pool /\ result[h] = entry[h]
                           /\ pool[result[h]] \in Copies /\ pool[result[h]].fn = f

\* A far hook's jump overwrites words behind the one a near hook's trampoline goes
\* back to.
FarAfterNear(f) == \E i, j \in 1..Len(order[f]) : i < j /\ order[f][i] \notin far /\ order[f][j] \in far

\* What a call meets: the hooks, the last first, down to one that has no trampoline,
\* or the original.
Chain(hooks) ==
  LET ends == {i \in 1..Len(hooks) : hooks[i] \notin wants}
      from == IF ends = {} THEN 1 ELSE CHOOSE i \in ends : \A j \in ends : j <= i
      met == Reverse(SubSeq(hooks, from, Len(hooks)))
  IN IF ends = {} THEN Append(met, Original) ELSE met

\* A function that was hooked several times, one after the other, calls every proxy,
\* the last first, and then its original: a call that no hook of it runs beside never
\* ends up anywhere else (A64HookFunctionV, __fix_instructions).
CallsChain ==
  \A c \in Callers :
    call[c].fn # None /\ call[c].calm /\ call[c].fn \notin mixed /\ ~FarAfterNear(call[c].fn) =>
      /\ at[c] # Wild
      /\ Len(call[c].met) <= Len(Chain(call[c].expect))
      /\ at[c] = End => call[c].met = Chain(call[c].expect)

\* Only a far jump is torn: where every hook is near, a call ends well whatever hooks
\* run beside it, in any number, since one word is swapped at once.
NearNeverTorn ==
  \A c \in Callers :
    call[c].fn # None /\ (\A h \in Hooks : target[h] = call[c].fn => h \notin far) =>
      /\ at[c] # Wild
      /\ at[c] = End => Last(call[c].met) \in {Original} \cup (Hooks \ wants)

\* A hook whose caller is told that it failed (NULL) has not changed the function.
FailedUnpatched ==
  \A h \in Hooks : pc[h] = "done" /\ h \in wants /\ result[h] = None =>
    \A f \in Functions : \A p \in Parts : code[f][p] # h
=============================================================================
