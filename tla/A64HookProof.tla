---------------------------- MODULE A64HookProof ----------------------------
(* Trampolines of A64Hook: for any number of hooks, functions and entries,   *)
(* each hook has its own, and a word that leads to a replacement is written  *)
(* only when the trampoline of that replacement is there; and for any number *)
(* of callers, a call of a function whose hooks are all near ends well, and  *)
(* a call of one that was hooked several times, one after the other, meets   *)
(* every replacement, the last first.                                        *)
EXTENDS A64Hook, TLAPS, FiniteSetTheorems, SequenceTheorems, NaturalsInduction,
        WellFoundedInduction

\* A hook whose trampoline can be called.
Filled(h) == /\ result[h] = entry[h]
             /\ entry[h] \in Pool
             /\ pool[entry[h]] \in Copies
             /\ pool[entry[h]].fn = target[h]

\* The counter is beyond every entry that was handed out.
EntriesInv ==
  /\ EntriesDistinct
  /\ \A h \in Hooks : entry[h] # None => entry[h] <= index

\* What each control point knows of its hook.
HookInv ==
  \A h \in Hooks :
    /\ pc[h] = "idle" => entry[h] = None /\ h \notin wants
    /\ pc[h] # "idle" => target[h] \in Functions
    /\ pc[h] = "fill" => entry[h] \in Pool /\ result[h] = entry[h]
    /\ pc[h] \in {"protect", "write", "read", "swap"} /\ h \in wants => Filled(h)

\* What each word of a function knows of the hook that wrote it.
Owner(f, h) == /\ target[h] = f
               /\ pc[h] \in {"write", "done"}
               /\ h \in wants => Filled(h)

CodeInv == \A f \in Functions, p \in Parts : code[f][p] # Original => Owner(f, code[f][p])

IInv == TypeOK /\ EntriesInv /\ HookInv /\ CodeInv

-----------------------------------------------------------------------------
\* The initial state satisfies the invariant.
LEMMA InitHooks == Init => IInv
<1> SUFFICES ASSUME Init PROVE IInv
  OBVIOUS
<1> USE A64HookAssumption DEF Init
<1>1. target \in [Hooks -> Functions \cup {None}]
  OBVIOUS
<1>2. TypeOK
  BY <1>1 DEF TypeOK, Locations
<1>3. EntriesInv
  BY DEF EntriesInv, EntriesDistinct
<1>4. HookInv
  BY DEF HookInv
<1>5. CodeInv
  BY DEF CodeInv
<1> QED BY <1>2, <1>3, <1>4, <1>5 DEF IInv

\* Callers change nothing of the hooks.
LEMMA CallersKeep ==
  ASSUME IInv, UNCHANGED <<hookVars, code, pool>>
  PROVE  IInv'
BY DEF IInv, hookVars, TypeOK, EntriesInv, EntriesDistinct, HookInv, CodeInv, Owner, Filled

\* The entry that is handed out next is in the pool and nobody has it.
LEMMA NextEntry ==
  ASSUME IInv, Entry(index) # None
  PROVE  /\ Entry(index) \in Pool
         /\ Entry(index) <= index + 1
         /\ \A h \in Hooks : entry[h] # Entry(index)
<1>1. index \in Nat /\ index < PoolSize /\ Entry(index) = index + 1
  BY DEF Entry, IInv, TypeOK
<1>2. ASSUME NEW h \in Hooks, entry[h] = Entry(index) PROVE FALSE
  <2>1. entry[h] <= index
    BY <1>2 DEF IInv, EntriesInv
  <2> QED BY <1>1, <1>2, <2>1
<1> QED BY <1>1, <1>2, A64HookAssumption DEF Pool

-----------------------------------------------------------------------------
(* The steps of a hook. *)

\* A trampoline is asked for.
LEMMA AllocateKeeps ==
  ASSUME IInv, NEW h \in Hooks, NEW f \in Functions, NEW isFar \in BOOLEAN,
         NEW wanted \in BOOLEAN, Allocate(h, f, isFar, wanted)
  PROVE  IInv'
<1> DEFINE e == IF wanted THEN Entry(index) ELSE None
           first == FirstStep(wanted, e)
<1>1. e \in Pool \cup {None}
  BY NextEntry
<1>2. /\ target' = [target EXCEPT ![h] = f]
      /\ far' \in {far, far \cup {h}}
      /\ wants' = IF wanted THEN wants \cup {h} ELSE wants
      /\ index' = IF wanted THEN index + 1 ELSE index
      /\ entry' = [entry EXCEPT ![h] = e]
      /\ result' = [result EXCEPT ![h] = e]
      /\ pc' = [pc EXCEPT ![h] = first]
      /\ pc[h] = "idle"
      /\ UNCHANGED <<old, todo, code, pool>>
  BY DEF Allocate, IInv, TypeOK
<1> USE A64HookAssumption
<1> HIDE DEF e, first
<1>3. first \in {"protect", "done", "fill"} /\ (first = "fill" => wanted /\ e # None)
      /\ (first = "protect" => ~wanted)
  BY DEF first, FirstStep, e
<1>4. index' \in Nat /\ index <= index' /\ (e # None => e <= index')
  <2>1. index \in Nat
    BY DEF IInv, TypeOK
  <2>2. CASE wanted
    BY <2>1, <2>2, <1>2, NextEntry DEF e
  <2>3. CASE ~wanted
    BY <2>1, <2>3, <1>2 DEF e
  <2> QED BY <2>2, <2>3
<1>5. TypeOK'
  BY <1>1, <1>2, <1>3, <1>4 DEF IInv, TypeOK, Locations
<1>6. EntriesInv'
  <2>1. \A g \in Hooks : e # None => entry[g] # e
    BY NextEntry DEF e
  <2>2. \A g \in Hooks : entry'[g] = IF g = h THEN e ELSE entry[g]
    BY <1>2 DEF IInv, TypeOK
  <2>3. EntriesDistinct'
    BY <2>1, <2>2, <1>1 DEF IInv, EntriesInv, EntriesDistinct
  <2>4. ASSUME NEW g \in Hooks, entry'[g] # None PROVE entry'[g] <= index'
    <3>1. CASE g = h
      BY <2>2, <2>4, <3>1, <1>4
    <3>2. CASE g # h
      <4>1. entry[g] \in Pool /\ entry[g] <= index /\ index \in Nat
        BY <2>2, <2>4, <3>2 DEF IInv, EntriesInv, TypeOK
      <4>2. entry'[g] = entry[g]
        BY <2>2, <3>2
      <4> QED BY <4>1, <4>2, <1>4 DEF Pool
    <3> QED BY <3>1, <3>2
  <2> QED BY <2>3, <2>4 DEF EntriesInv
<1>7. ASSUME NEW g \in Hooks, g # h
      PROVE  /\ pc'[g] = pc[g] /\ target'[g] = target[g] /\ entry'[g] = entry[g]
             /\ result'[g] = result[g]
             /\ g \in wants' <=> g \in wants
  BY <1>2, <1>7 DEF IInv, TypeOK
<1>8. /\ pc'[h] = first /\ target'[h] = f /\ entry'[h] = e /\ result'[h] = e
      /\ h \in wants' => wanted
  BY <1>2 DEF IInv, TypeOK, HookInv
<1>9. HookInv'
  <2> SUFFICES ASSUME NEW g \in Hooks
               PROVE  /\ pc'[g] = "idle" => entry'[g] = None /\ g \notin wants'
                      /\ pc'[g] # "idle" => target'[g] \in Functions
                      /\ pc'[g] = "fill" => entry'[g] \in Pool /\ result'[g] = entry'[g]
                      /\ pc'[g] \in {"protect", "write", "read", "swap"} /\ g \in wants' => Filled(g)'
    BY DEF HookInv
  <2>1. CASE g = h
    BY <2>1, <1>1, <1>3, <1>8
  <2>2. CASE g # h
    BY <2>2, <1>2, <1>7 DEF IInv, HookInv, Filled
  <2> QED BY <2>1, <2>2
<1>10. CodeInv'
  <2> SUFFICES ASSUME NEW k \in Functions, NEW p \in Parts, code[k][p] # Original
               PROVE  Owner(k, code[k][p])'
    BY <1>2 DEF CodeInv
  <2>1. code[k][p] \in Hooks /\ Owner(k, code[k][p])
    BY DEF IInv, CodeInv, TypeOK
  <2>2. code[k][p] # h
    BY <2>1, <1>2 DEF Owner
  <2>3. code'[k][p] = code[k][p]
    BY <1>2
  <2> QED BY <2>1, <2>2, <2>3, <1>2, <1>7 DEF Owner, Filled
<1> QED BY <1>5, <1>6, <1>9, <1>10 DEF IInv

\* The entry is filled: nobody else has it.
LEMMA FillKeeps ==
  ASSUME IInv, NEW h \in Hooks, Fill(h)
  PROVE  IInv'
<1> USE A64HookAssumption
<1>1. /\ pc[h] = "fill" /\ pc' = [pc EXCEPT ![h] = "protect"]
      /\ pool' = [pool EXCEPT ![entry[h]] = Copy(h)]
      /\ UNCHANGED <<index, target, far, wants, entry, result, old, todo, code>>
  BY DEF Fill, Step
<1>2. entry[h] \in Pool /\ result[h] = entry[h] /\ target[h] \in Functions
  BY <1>1 DEF IInv, HookInv
<1>3. Copy(h) \in Copies /\ Copy(h).fn = target[h]
  <2>1. Cardinality(PartsOf(h)) \in {1, 3}
    <3>1. Cardinality({1}) = 1
      BY FS_Singleton
    <3>2. Cardinality(1..3) = 3
      <4>1. Cardinality(1..3) = 3 - 1 + 1
        BY FS_Interval, 1 \in Int, 3 \in Int, ~(1 > 3)
      <4> QED BY <4>1
    <3> QED BY <3>1, <3>2 DEF PartsOf, Parts
  <2> QED BY <2>1, <1>2 DEF Copy, Copies, IInv, TypeOK, Parts
<1>4. pool'[entry[h]] = Copy(h) /\ \A x \in Pool : x # entry[h] => pool'[x] = pool[x]
  BY <1>1, <1>2 DEF IInv, TypeOK
<1>5. TypeOK'
  BY <1>1, <1>2, <1>3 DEF IInv, TypeOK, Locations
<1>6. ASSUME NEW g \in Hooks, g # h, Filled(g) PROVE Filled(g)'
  <2>1. entry[g] \in Pool /\ entry[g] # None
    BY <1>6 DEF Filled, Pool
  <2>2. entry[g] # entry[h]
    BY <1>6, <2>1 DEF IInv, EntriesInv, EntriesDistinct
  <2>3. pool'[entry[g]] = pool[entry[g]]
    BY <1>4, <2>1, <2>2
  <2> QED BY <1>1, <1>6, <2>3 DEF Filled
<1>7. Filled(h)'
  BY <1>1, <1>2, <1>3, <1>4 DEF Filled
<1>8. EntriesInv'
  BY <1>1 DEF IInv, EntriesInv, EntriesDistinct
<1>9. \A g \in Hooks : pc'[g] = IF g = h THEN "protect" ELSE pc[g]
  BY <1>1 DEF IInv, TypeOK
<1>10. HookInv'
  BY <1>1, <1>2, <1>6, <1>7, <1>9 DEF IInv, HookInv
<1>11. CodeInv'
  <2> SUFFICES ASSUME NEW k \in Functions, NEW p \in Parts, code[k][p] # Original
               PROVE  Owner(k, code[k][p])'
    BY <1>1 DEF CodeInv
  <2>1. code[k][p] \in Hooks /\ Owner(k, code[k][p])
    BY DEF IInv, CodeInv, TypeOK
  <2>2. code[k][p] # h
    BY <2>1, <1>1 DEF Owner
  <2> QED BY <2>1, <2>2, <1>1, <1>6, <1>9 DEF Owner
<1> QED BY <1>5, <1>8, <1>10, <1>11 DEF IInv

\* A step of a hook that has its trampoline, if any, from one control point to another,
\* without writing.
LEMMA MoveKeeps ==
  ASSUME IInv, NEW h \in Hooks, NEW to \in {"write", "read", "swap", "done"},
         pc[h] \in {"protect", "read", "swap"}, pc' = [pc EXCEPT ![h] = to],
         old' \in [Hooks -> Hooks \cup {Original, None}], todo' \in [Hooks -> SUBSET Parts],
         to # "done" => result' = result,
         result' = result \/ result' = [result EXCEPT ![h] = None],
         UNCHANGED <<index, target, far, wants, entry, code, pool>>
  PROVE  IInv'
<1>1. \A g \in Hooks : g # h => pc'[g] = pc[g] /\ result'[g] = result[g]
  BY DEF IInv, TypeOK
<1>2. pc'[h] = to /\ (to # "done" => result'[h] = result[h])
  BY DEF IInv, TypeOK
<1>3. TypeOK'
  BY DEF IInv, TypeOK, Locations
<1>4. EntriesInv'
  BY DEF IInv, EntriesInv, EntriesDistinct
<1>5. \A g \in Hooks : Filled(g) /\ (g # h \/ to # "done") => Filled(g)'
  BY <1>1, <1>2 DEF Filled
<1>6. HookInv'
  BY <1>1, <1>2, <1>5 DEF IInv, HookInv
<1>7. CodeInv'
  <2> SUFFICES ASSUME NEW k \in Functions, NEW p \in Parts, code[k][p] # Original
               PROVE  Owner(k, code[k][p])'
    BY DEF CodeInv
  <2>1. code[k][p] \in Hooks /\ Owner(k, code[k][p])
    BY DEF IInv, CodeInv, TypeOK
  <2>2. code[k][p] # h
    BY <2>1 DEF Owner
  <2> QED BY <2>1, <2>2, <1>1, <1>5 DEF Owner
<1> QED BY <1>3, <1>4, <1>6, <1>7 DEF IInv

\* A word is written, the last one or not.
LEMMA WrittenKeeps ==
  ASSUME IInv, NEW h \in Hooks, NEW p \in Parts, NEW to \in {"write", "done"},
         pc[h] \in {"write", "swap"}, pc' = [pc EXCEPT ![h] = to], Written(h, p),
         todo' \in [Hooks -> SUBSET Parts],
         UNCHANGED <<index, target, far, wants, entry, result, old, pool>>
  PROVE  IInv'
<1>1. /\ target[h] \in Functions
      /\ h \in wants => Filled(h)
  BY DEF IInv, HookInv
<1>2. \A g \in Hooks : g # h => pc'[g] = pc[g]
  BY DEF IInv, TypeOK
<1>3. pc'[h] = to
  BY DEF IInv, TypeOK
<1>4. code' \in [Functions -> [Parts -> Hooks \cup {Original}]]
  BY <1>1 DEF Written, IInv, TypeOK
<1>5. TypeOK'
  BY <1>4 DEF IInv, TypeOK, Locations
<1>6. EntriesInv'
  BY DEF IInv, EntriesInv, EntriesDistinct
<1>7. \A g \in Hooks : Filled(g) => Filled(g)'
  BY DEF Filled
<1>8. HookInv'
  BY <1>2, <1>3, <1>7 DEF IInv, HookInv
<1>9. CodeInv'
  <2> SUFFICES ASSUME NEW k \in Functions, NEW q \in Parts, code'[k][q] # Original
               PROVE  Owner(k, code[k][q])'
    BY DEF CodeInv
  <2>1. code'[k][q] = IF k = target[h] /\ q = p THEN h ELSE code[k][q]
    BY <1>1 DEF Written, IInv, TypeOK
  <2>2. CASE k = target[h] /\ q = p
    BY <2>1, <2>2, <1>1, <1>3, <1>7 DEF Owner
  <2>3. CASE ~(k = target[h] /\ q = p)
    <3>1. code[k][q] \in Hooks /\ Owner(k, code[k][q]) /\ code'[k][q] = code[k][q]
      BY <2>1, <2>3 DEF IInv, CodeInv, TypeOK
    <3>2. pc'[code[k][q]] \in {"write", "done"}
      BY <3>1, <1>2, <1>3 DEF Owner
    <3> QED BY <3>1, <3>2, <1>7 DEF Owner
  <2> QED BY <2>2, <2>3
<1> QED BY <1>5, <1>6, <1>8, <1>9 DEF IInv

-----------------------------------------------------------------------------
\* Every step keeps the invariant.
LEMMA StepKeeps == IInv /\ [Next]_vars => IInv'
<1> SUFFICES ASSUME IInv, [Next]_vars PROVE IInv'
  OBVIOUS
<1>1. ASSUME NEW h \in Hooks, Hook(h) PROVE IInv'
  <2>1. CASE \E f \in Functions, isFar, wanted \in BOOLEAN : Allocate(h, f, isFar, wanted)
    BY <2>1, AllocateKeeps
  <2>2. CASE Fill(h)
    BY <2>2, FillKeeps
  <2>3. CASE Protect(h)
    <3>1. PartsOf(h) \in SUBSET Parts
      BY DEF PartsOf, Parts
    <3>2. todo' \in [Hooks -> SUBSET Parts] /\ old' \in [Hooks -> Hooks \cup {Original, None}]
      BY <2>3, <3>1 DEF Protect, IInv, TypeOK
    <3>3. PICK to \in {"write", "read"} : pc[h] = "protect" /\ pc' = [pc EXCEPT ![h] = to]
      BY <2>3 DEF Protect, Step
    <3> QED BY <2>3, <3>2, <3>3, MoveKeeps DEF Protect
  <2>4. CASE ProtectFails(h)
    <3>1. /\ pc[h] = "protect" /\ pc' = [pc EXCEPT ![h] = "done"]
          /\ result' = [result EXCEPT ![h] = None]
          /\ UNCHANGED <<index, target, far, wants, entry, old, todo, code, pool>>
      BY <2>4 DEF ProtectFails, Step
    <3>2. todo' \in [Hooks -> SUBSET Parts] /\ old' \in [Hooks -> Hooks \cup {Original, None}]
      BY <3>1 DEF IInv, TypeOK
    <3> QED BY <3>1, <3>2, MoveKeeps
  <2>5. CASE ReadOld(h)
    <3>1. /\ pc[h] = "read" /\ pc' = [pc EXCEPT ![h] = "swap"]
          /\ old' = [old EXCEPT ![h] = code[target[h]][1]]
          /\ UNCHANGED <<index, target, far, wants, entry, result, todo, code, pool>>
      BY <2>5 DEF ReadOld, Step
    <3>2. target[h] \in Functions
      BY <3>1 DEF IInv, HookInv
    <3>3. todo' \in [Hooks -> SUBSET Parts] /\ old' \in [Hooks -> Hooks \cup {Original, None}]
      BY <3>1, <3>2 DEF IInv, TypeOK, Parts
    <3> QED BY <3>1, <3>3, MoveKeeps
  <2>6. CASE Swap(h)
    <3>1. /\ pc[h] = "swap" /\ pc' = [pc EXCEPT ![h] = "done"]
          /\ UNCHANGED <<index, target, far, wants, entry, result, old, todo, pool>>
          /\ Written(h, 1) \/ UNCHANGED code
      BY <2>6 DEF Swap, Step
    <3>2. todo' \in [Hooks -> SUBSET Parts] /\ old' \in [Hooks -> Hooks \cup {Original, None}]
      BY <3>1 DEF IInv, TypeOK
    <3>3. CASE Written(h, 1)
      <4> 1 \in Parts
        BY DEF Parts
      <4> QED BY <3>1, <3>2, <3>3, WrittenKeeps
    <3>4. CASE UNCHANGED code
      BY <3>1, <3>2, <3>4, MoveKeeps
    <3> QED BY <3>1, <3>3, <3>4
  <2>7. ASSUME NEW p \in Parts, Write(h, p) PROVE IInv'
    <3>1. /\ pc[h] = "write" /\ Written(h, p)
          /\ todo' = [todo EXCEPT ![h] = @ \ {p}]
          /\ UNCHANGED <<index, target, far, wants, entry, result, old, pool>>
          /\ pc' = [pc EXCEPT ![h] = "done"] \/ pc' = pc
      BY <2>7 DEF Write
    <3>2. pc = [pc EXCEPT ![h] = "write"]
      BY <3>1 DEF IInv, TypeOK
    <3>3. todo' \in [Hooks -> SUBSET Parts]
      BY <3>1 DEF IInv, TypeOK
    <3> QED BY <3>1, <3>2, <3>3, WrittenKeeps
  <2> QED BY <1>1, <2>1, <2>2, <2>3, <2>4, <2>5, <2>6, <2>7 DEF Hook
<1>2. ASSUME NEW c \in Callers, Caller(c) PROVE IInv'
  BY <1>2, CallersKeep DEF Caller, Call, RunCode, RunEntry, RunProxy
<1>3. CASE UNCHANGED vars
  BY <1>3, CallersKeep DEF vars
<1> QED BY <1>1, <1>2, <1>3 DEF Next

\* The invariant holds in every reachable state.
LEMMA Invariant == Spec => []IInv
<1> QED BY InitHooks, StepKeeps, PTL DEF Spec

\* The types of hooks, trampolines and words (And64InlineHook.cpp).
THEOREM HookTypes == Spec => []TypeOK
<1>1. IInv => TypeOK
  BY DEF IInv
<1> QED BY <1>1, Invariant, PTL

\* However many hooks ask for trampolines at the same time, no two get the same one and
\* none gets one outside the pool (FastAllocateTrampoline).
THEOREM OwnTrampolines == Spec => []EntriesDistinct
<1>1. IInv => EntriesDistinct
  BY DEF IInv, EntriesInv
<1> QED BY <1>1, Invariant, PTL

\* No word that leads to a replacement is met before the trampoline of that replacement
\* is filled from the function the word is in, and *result is set (A64HookFunction).
THEOREM TrampolineFirst == Spec => []PatchedHasEntry
<1>1. IInv => PatchedHasEntry
  BY A64HookAssumption DEF IInv, TypeOK, CodeInv, Owner, Filled, PatchedHasEntry
<1> QED BY <1>1, Invariant, PTL

\* A hook that reports a failure has written nothing (A64HookFunctionV).
THEOREM FailuresWriteNothing == Spec => []FailedUnpatched
<1>1. ASSUME IInv PROVE FailedUnpatched
  <2> SUFFICES ASSUME NEW h \in Hooks, pc[h] = "done", h \in wants, result[h] = None,
                      NEW f \in Functions, NEW p \in Parts, code[f][p] = h
               PROVE  FALSE
    BY DEF FailedUnpatched
  <2>1. Owner(f, h)
    BY <1>1, A64HookAssumption DEF IInv, CodeInv
  <2> QED BY <2>1, A64HookAssumption DEF Owner, Filled, Pool
<1> QED BY <1>1, Invariant, PTL

-----------------------------------------------------------------------------
(* Calls beside near hooks *)

\* What it takes for calls of a function to be safe beside its hooks: none is far.
Near(f) == \A h \in Hooks : target[h] = f => h \notin far

\* A hook that has not begun is not far, one that wants no original is given none.
PlainInv ==
  \A h \in Hooks :
    /\ pc[h] = "idle" => h \notin far
    /\ h \notin wants => result[h] = None

\* A trampoline holds as many words as its hook writes, and a word in it that is another
\* hook's is one of the same function.
TrampolineInv ==
  \A h \in Hooks : pc[h] \notin {"idle", "fill"} /\ Filled(h) =>
    /\ pool[entry[h]].count = Cardinality(PartsOf(h))
    /\ \A p \in Parts : pool[entry[h]].code[p] # Original =>
         Owner(target[h], pool[entry[h]].code[p])

\* One place, one X17 and one history for each caller.
ShapeInv ==
  /\ at = [c \in Callers |-> at[c]]
  /\ x17 = [c \in Callers |-> x17[c]]
  /\ call = [c \in Callers |-> [fn |-> call[c].fn, calm |-> call[c].calm,
                               expect |-> call[c].expect, met |-> call[c].met]]
  /\ \A c \in Callers : call[c].fn \in Functions \cup {None}

\* What was met last: the original, or a replacement that does not call on.
EndsWell(met) ==
  /\ met # <<>>
  /\ \/ Last(met) = Original
     \/ Last(met) \in Hooks \ wants /\ pc[Last(met)] # "idle"

\* A call of f is in the function, in a trampoline or a proxy of it, or has ended well.
OnTheWay(c, f) ==
  \/ \E p \in Parts : at[c] = Place("code", f, p)
  \/ \E h \in Hooks : at[c] = Place("proxy", h, 0) /\ Owner(f, h)
  \/ \E h \in Hooks : at[c] = Place("entry", result[h], 1) /\ h \in wants /\ Owner(f, h)
  \/ at[c] = End /\ EndsWell(call[c].met)

CallsInv ==
  \A c \in Callers :
    /\ at[c] = Idle => x17[c] = None
    /\ call[c].fn # None /\ Near(call[c].fn) =>
         /\ x17[c] = None
         /\ call[c].met \in Seq(Hooks \cup {Original})
         /\ OnTheWay(c, call[c].fn)

NearInv == ShapeInv /\ PlainInv /\ TrampolineInv /\ CallsInv

LEMMA NearInit == Init => NearInv
<1> SUFFICES ASSUME Init PROVE NearInv
  OBVIOUS
<1>1. ShapeInv /\ PlainInv
  BY DEF Init, ShapeInv, PlainInv, NoCall
<1>2. TrampolineInv
  BY A64HookAssumption DEF Init, TrampolineInv
<1>3. CallsInv
  BY DEF Init, CallsInv, NoCall
<1> QED BY <1>1, <1>2, <1>3 DEF NearInv

\* What a step of a hook leaves alone: the other hooks, and of a hook that has its
\* trampoline everything but its control point, and *result if it fails.
LEMMA HookLeaves ==
  ASSUME IInv, NEW h \in Hooks, Hook(h)
  PROVE  /\ \A g \in Hooks : g # h =>
              /\ pc'[g] = pc[g] /\ target'[g] = target[g] /\ entry'[g] = entry[g]
              /\ result'[g] = result[g]
              /\ g \in far' <=> g \in far
              /\ g \in wants' <=> g \in wants
         /\ pc[h] # "idle" => UNCHANGED <<target, far, wants, entry>>
         /\ \A x \in Pool : pool'[x] = pool[x] \/ (pc[h] = "fill" /\ x = entry[h])
         /\ pc'[h] # "idle" /\ (pc'[h] = "fill" => pc[h] = "idle")
         /\ pc[h] \in {"write", "done"} => pc'[h] \in {"write", "done"} /\ result' = result
<1> USE DEF IInv, TypeOK
<1>1. CASE \E f \in Functions, isFar, wanted \in BOOLEAN : Allocate(h, f, isFar, wanted)
  BY <1>1 DEF Allocate, FirstStep
<1>2. CASE Fill(h)
  BY <1>2 DEF Fill, Step
<1>3. CASE Protect(h)
  BY <1>3 DEF Protect, Step
<1>4. CASE ProtectFails(h)
  BY <1>4 DEF ProtectFails, Step
<1>5. CASE ReadOld(h)
  BY <1>5 DEF ReadOld, Step
<1>6. CASE Swap(h)
  BY <1>6 DEF Swap, Step
<1>7. ASSUME NEW p \in Parts, Write(h, p)
      PROVE  /\ pc[h] = "write" /\ pc'[h] \in {"write", "done"}
             /\ \A g \in Hooks : g # h => pc'[g] = pc[g]
             /\ UNCHANGED <<target, far, wants, entry, result, pool>>
  BY <1>7 DEF Write
<1> QED BY <1>1, <1>2, <1>3, <1>4, <1>5, <1>6, <1>7 DEF Hook


\* A hook that can be met keeps its trampoline as it is.
LEMMA OwnerStays ==
  ASSUME IInv, NEW h \in Hooks, Hook(h), NEW f, NEW g \in Hooks, Owner(f, g)
  PROVE  Owner(f, g)' /\ result'[g] = result[g] /\ (g \in wants' <=> g \in wants)
<1>1. /\ pc'[g] \in {"write", "done"}
      /\ target'[g] = target[g] /\ entry'[g] = entry[g] /\ result'[g] = result[g]
      /\ g \in wants' <=> g \in wants
  BY HookLeaves DEF Owner
<1>2. ASSUME Filled(g) PROVE Filled(g)'
  <2>1. pc[h] = "fill" => entry[g] # entry[h]
    BY <1>2, A64HookAssumption DEF IInv, EntriesInv, EntriesDistinct, HookInv, Filled, Owner, Pool
  <2>2. pool'[entry[g]] = pool[entry[g]]
    BY <1>2, <2>1, HookLeaves DEF Filled
  <2> QED BY <1>1, <1>2, <2>2 DEF Filled
<1> QED BY <1>1, <1>2 DEF Owner

\* Hooks of a function do not become near.
LEMMA NearBefore ==
  ASSUME IInv, PlainInv, NEW h \in Hooks, Hook(h), NEW f, Near(f)'
  PROVE  Near(f)
<1> SUFFICES ASSUME NEW g \in Hooks, target[g] = f PROVE g \notin far
  BY DEF Near
<1>1. CASE g # h
  <2>1. target'[g] = target[g] /\ (g \in far' <=> g \in far)
    BY <1>1, HookLeaves
  <2> QED BY <2>1 DEF Near
<1>2. CASE pc[h] # "idle"
  <2>1. target' = target /\ far' = far
    BY <1>2, HookLeaves
  <2> QED BY <2>1 DEF Near
<1> QED BY <1>1, <1>2 DEF PlainInv

\* The steps of a hook.
LEMMA PlainKeeps ==
  ASSUME IInv, PlainInv, NEW h \in Hooks, Hook(h)
  PROVE  PlainInv'
<1> SUFFICES ASSUME NEW g \in Hooks
             PROVE  (pc'[g] = "idle" => g \notin far') /\ (g \notin wants' => result'[g] = None)
  BY DEF PlainInv
<1>1. CASE g # h
  <2>1. pc'[g] = pc[g] /\ result'[g] = result[g] /\ (g \in far' <=> g \in far)
        /\ (g \in wants' <=> g \in wants)
    BY <1>1, HookLeaves
  <2> QED BY <2>1 DEF PlainInv
<1>2. CASE g = h
  <2>1. pc'[h] # "idle"
    BY HookLeaves
  <2>2. ASSUME NEW f \in Functions, NEW isFar \in BOOLEAN, NEW wanted \in BOOLEAN,
               Allocate(h, f, isFar, wanted), h \notin wants'
        PROVE  result'[h] = None
    <3>1. ~wanted
      BY <2>2 DEF Allocate, IInv, TypeOK
    <3> QED BY <2>2, <3>1 DEF Allocate, IInv, TypeOK
  <2>3. CASE pc[h] # "idle"
    <3>1. wants' = wants
      BY <2>3, HookLeaves
    <3>2. result'[h] = result[h] \/ result'[h] = None
      BY <2>3 DEF Hook, Allocate, Fill, Protect, ProtectFails, ReadOld, Swap, Write, IInv, TypeOK
    <3> QED BY <1>2, <2>1, <3>1, <3>2 DEF PlainInv
  <2>4. CASE pc[h] = "idle"
    BY <1>2, <2>1, <2>2, <2>4 DEF Hook, Fill, Step, Protect, ProtectFails, ReadOld, Swap, Write
  <2> QED BY <2>3, <2>4
<1> QED BY <1>1, <1>2

LEMMA TrampolineKeeps ==
  ASSUME IInv, TrampolineInv, NEW h \in Hooks, Hook(h)
  PROVE  TrampolineInv'
<1> SUFFICES ASSUME NEW g \in Hooks, pc'[g] \notin {"idle", "fill"}, Filled(g)'
             PROVE  /\ pool'[entry'[g]].count = Cardinality(PartsOf(g)')
                    /\ \A p \in Parts : pool'[entry'[g]].code[p] # Original =>
                         Owner(target[g], pool[entry[g]].code[p])'
  BY DEF TrampolineInv
<1>1. entry'[g] \in Pool
  BY DEF Filled
<1>2. CASE pc[g] \notin {"idle", "fill"}
  <2>1. /\ target'[g] = target[g] /\ entry'[g] = entry[g] /\ PartsOf(g)' = PartsOf(g)
    BY <1>2, HookLeaves DEF PartsOf
  <2>2. pc[h] = "fill" => entry[g] # entry[h]
    BY <1>1, <1>2, <2>1, A64HookAssumption DEF IInv, EntriesInv, EntriesDistinct, HookInv, Pool
  <2>3. pool'[entry[g]] = pool[entry[g]]
    BY <1>1, <2>1, <2>2, HookLeaves
  <2>4. entry[g] # None
    BY <1>1, <2>1, A64HookAssumption DEF Pool
  <2>5. result'[g] = result[g] \/ result'[g] = None
    BY <1>2, HookLeaves DEF Hook, Allocate, Fill, Protect, ProtectFails, ReadOld, Swap, Write,
      IInv, TypeOK
  <2>6. Filled(g)
    BY <2>1, <2>3, <2>4, <2>5 DEF Filled
  <2>7. ASSUME NEW p \in Parts, pool[entry[g]].code[p] # Original
        PROVE  Owner(target[g], pool[entry[g]].code[p])'
    <3>1. /\ Owner(target[g], pool[entry[g]].code[p])
          /\ pool[entry[g]].code[p] \in Hooks
      BY <1>2, <2>6, <2>7 DEF TrampolineInv, Filled, Copies
    <3>2. PICK f, k : f = target[g] /\ k = pool[entry[g]].code[p]
      OBVIOUS
    <3>3. k \in Hooks /\ Owner(f, k)
      BY <3>1, <3>2
    <3>4. Owner(f, k)'
      BY <3>3, OwnerStays
    <3>5. target'[g] = f /\ pool'[entry'[g]].code[p] = k
      BY <2>1, <2>3, <3>2
    <3> QED BY <3>4, <3>5 DEF Owner, Filled
  <2> QED BY <1>2, <2>1, <2>3, <2>6, <2>7 DEF TrampolineInv
<1>3. CASE pc[g] = "fill"
  <2>1. g = h
    BY <1>3, HookLeaves
  <2>2. Fill(h)
    BY <1>3, <2>1 DEF Hook, Allocate, Step, Protect, ProtectFails, ReadOld, Swap, Write
  <2>3. /\ entry' = entry /\ target' = target /\ far' = far /\ code' = code
        /\ target[h] \in Functions
    BY <1>3, <2>1, <2>2, HookLeaves DEF IInv, HookInv, Fill
  <2>4. pool'[entry'[g]] = Copy(h)
    BY <1>1, <2>1, <2>2, <2>3 DEF Fill, IInv, TypeOK
  <2>5. ASSUME NEW p \in Parts, code[target[h]][p] # Original
        PROVE  Owner(target[g], pool[entry[g]].code[p])'
    <3>1. PICK f, k : f = target[h] /\ k = code[target[h]][p]
      OBVIOUS
    <3>2. k \in Hooks /\ Owner(f, k)
      BY <2>3, <2>5, <3>1 DEF IInv, CodeInv, TypeOK
    <3>3. Owner(f, k)'
      BY <3>2, OwnerStays
    <3>4. target'[g] = f /\ pool'[entry'[g]].code[p] = k
      BY <2>1, <2>3, <2>4, <3>1 DEF Copy
    <3> QED BY <3>3, <3>4 DEF Owner, Filled
  <2> QED BY <2>1, <2>3, <2>4, <2>5 DEF Copy, PartsOf
<1>4. CASE pc[g] = "idle"
  <2>1. g = h
    BY <1>4, HookLeaves
  <2>2. PICK f \in Functions, isFar \in BOOLEAN, wanted \in BOOLEAN : Allocate(h, f, isFar, wanted)
    BY <1>4, <2>1 DEF Hook, Fill, Step, Protect, ProtectFails, ReadOld, Swap, Write
  <2>3. pc'[h] # "fill" => entry'[h] = None
    BY <2>2 DEF Allocate, FirstStep, IInv, TypeOK
  <2> QED BY <1>1, <2>1, <2>3, A64HookAssumption DEF Pool
<1> QED BY <1>2, <1>3, <1>4

\* What is last in a history that grows.
LEMMA LastOne ==
  ASSUME NEW S, NEW s \in Seq(S), NEW x \in S
  PROVE  Append(s, x) \in Seq(S) /\ Append(s, x) # <<>> /\ Last(Append(s, x)) = x
BY DEF Last

\* The calls, when a hook moves.
LEMMA CallsKeptByHook ==
  ASSUME IInv, ShapeInv, PlainInv, CallsInv, NEW h \in Hooks, Hook(h)
  PROVE  ShapeInv' /\ CallsInv'
<1> DEFINE History(x) == [fn |-> x.fn, calm |-> x.calm, expect |-> x.expect, met |-> x.met]
<1>1. at' = at /\ x17' = x17
  BY DEF Hook, Allocate, Fill, Protect, ProtectFails, ReadOld, Swap, Write, callVars
<1>2. ASSUME NEW c \in Callers PROVE call[c] = History(call[c])
  BY DEF ShapeInv
<1>3. /\ call' = [c \in Callers |-> call'[c]]
      /\ \A c \in Callers : /\ call'[c] = History(call'[c])
                             /\ call'[c].fn = call[c].fn /\ call'[c].met = call[c].met
  <2>1. CASE \E f \in Functions, isFar, wanted \in BOOLEAN : Allocate(h, f, isFar, wanted)
    <3>1. PICK f \in Functions :
            call' = [c \in Callers |->
                       IF call[c].fn = f THEN [call[c] EXCEPT !.calm = FALSE] ELSE call[c]]
      BY <2>1 DEF Allocate
    <3>2. ASSUME NEW c \in Callers
          PROVE  /\ call'[c] = History(call'[c])
                 /\ call'[c].fn = call[c].fn /\ call'[c].met = call[c].met
      <4>1. call'[c] = [call[c] EXCEPT !.calm = FALSE] \/ call'[c] = call[c]
        BY <3>1
      <4>2. call[c] = History(call[c])
        BY <1>2
      <4> QED BY <4>1, <4>2
    <3> QED BY <3>1, <3>2
  <2>2. CASE ~\E f \in Functions, isFar, wanted \in BOOLEAN : Allocate(h, f, isFar, wanted)
    <3>1. UNCHANGED call
      BY <2>2 DEF Hook, Fill, Protect, ProtectFails, ReadOld, Swap, Write
    <3> QED BY <3>1, <1>2 DEF ShapeInv
  <2> QED BY <2>1, <2>2
<1>4. ShapeInv'
  BY <1>1, <1>3 DEF ShapeInv
<1>5. ASSUME NEW c \in Callers, call'[c].fn # None, Near(call[c].fn)'
      PROVE  x17'[c] = None /\ call'[c].met \in Seq(Hooks \cup {Original}) /\ OnTheWay(c, call[c].fn)'
  <2>1. PICK f : f = call[c].fn /\ f = call'[c].fn
    BY <1>3
  <2>2. Near(f)
    BY <1>5, <2>1, NearBefore DEF Near
  <2>3. x17[c] = None /\ call[c].met \in Seq(Hooks \cup {Original}) /\ OnTheWay(c, f)
    BY <1>5, <2>1, <2>2 DEF CallsInv
  <2>4. CASE \E p \in Parts : at[c] = Place("code", f, p)
    <3>1. PICK p \in Parts : at[c] = Place("code", f, p)
      BY <2>4
    <3>2. at'[c] = Place("code", call'[c].fn, p)
      BY <1>1, <2>1, <3>1
    <3> QED BY <1>1, <1>3, <2>3, <3>2 DEF OnTheWay, Place
  <2>5. ASSUME NEW g \in Hooks, at[c] = Place("proxy", g, 0), Owner(f, g)
        PROVE  OnTheWay(c, call[c].fn)'
    <3>1. Owner(f, g)' /\ at'[c] = Place("proxy", g, 0)'
      BY <1>1, <2>5, OwnerStays DEF Place
    <3> QED BY <2>1, <3>1 DEF OnTheWay, Owner
  <2>6. ASSUME NEW g \in Hooks, at[c] = Place("entry", result[g], 1), g \in wants, Owner(f, g)
        PROVE  OnTheWay(c, call[c].fn)'
    <3>1. Owner(f, g)' /\ g \in wants' /\ at'[c] = Place("entry", result[g], 1)'
      BY <1>1, <2>6, OwnerStays DEF Place
    <3> QED BY <2>1, <3>1 DEF OnTheWay, Owner
  <2>7. ASSUME at[c] = End, EndsWell(call[c].met)
        PROVE  OnTheWay(c, call[c].fn)'
    <3>1. EndsWell(call[c].met)'
      <4>1. call'[c].met = call[c].met
        BY <1>3
      <4>2. CASE Last(call[c].met) = Original
        BY <2>7, <4>1, <4>2 DEF EndsWell
      <4>3. CASE Last(call[c].met) \in Hooks \ wants /\ pc[Last(call[c].met)] # "idle"
        <5>1. PICK k : k = Last(call[c].met)
          OBVIOUS
        <5>2. k \notin wants' /\ pc'[k] # "idle"
          BY <4>3, <5>1, HookLeaves
        <5> QED BY <2>7, <4>1, <4>3, <5>1, <5>2 DEF EndsWell
      <4> QED BY <2>7, <4>2, <4>3 DEF EndsWell
    <3> QED BY <1>1, <2>7, <3>1 DEF OnTheWay, End, Place
  <2> QED BY <1>1, <1>3, <2>3, <2>4, <2>5, <2>6, <2>7 DEF OnTheWay
<1> QED BY <1>1, <1>4, <1>5 DEF CallsInv, Idle, Place

\* The calls, when a caller moves.
LEMMA CallsKeptByCaller ==
  ASSUME IInv, ShapeInv, PlainInv, TrampolineInv, CallsInv, NEW c \in Callers, Caller(c)
  PROVE  ShapeInv' /\ CallsInv'
<1>1. UNCHANGED <<hookVars, code, pool>>
  BY DEF Caller, Call, RunCode, RunEntry, RunProxy
<1> DEFINE History(x) == [fn |-> x.fn, calm |-> x.calm, expect |-> x.expect, met |-> x.met]
<1>2. /\ \E place : at' = [at EXCEPT ![c] = place]
      /\ \E w : x17' = [x17 EXCEPT ![c] = w]
      /\ \E x : /\ x = History(x) /\ x.fn \in Functions \cup {None}
                /\ call' = [call EXCEPT ![c] = x]
  <2>1. x17 = [x17 EXCEPT ![c] = x17[c]] /\ at = [at EXCEPT ![c] = at[c]]
    BY DEF ShapeInv
  <2>2. /\ call[c] = History(call[c]) /\ call[c].fn \in Functions \cup {None}
        /\ call = [call EXCEPT ![c] = call[c]]
    BY DEF ShapeInv
  <2>3. CASE \E f \in Functions : Call(c, f)
    BY <2>1, <2>3 DEF Call
  <2>4. ASSUME NEW w, call' = [call EXCEPT ![c].met = Append(@, w)] \/ call' = call
        PROVE  \E x : /\ x = History(x) /\ x.fn \in Functions \cup {None}
                      /\ call' = [call EXCEPT ![c] = x]
    BY <2>2, <2>4
  <2>5. CASE RunCode(c)
    <3>1. call' = [call EXCEPT ![c].met = Append(@, Original)] \/ call' = call
      BY <2>5 DEF RunCode
    <3>2. (\E place : at' = [at EXCEPT ![c] = place]) /\ (\E w : x17' = [x17 EXCEPT ![c] = w])
      BY <2>1, <2>5 DEF RunCode, Executed
    <3> QED BY <2>4, <3>1, <3>2
  <2>6. CASE RunEntry(c)
    <3>1. call' = [call EXCEPT ![c].met = Append(@, Original)] \/ call' = call
      BY <2>6 DEF RunEntry
    <3>2. (\E place : at' = [at EXCEPT ![c] = place]) /\ (\E w : x17' = [x17 EXCEPT ![c] = w])
      BY <2>1, <2>6 DEF RunEntry, Executed
    <3> QED BY <2>4, <3>1, <3>2
  <2>7. CASE RunProxy(c)
    <3>1. call' = [call EXCEPT ![c].met = Append(@, at[c].of)] /\ x17' = x17
          /\ \E place : at' = [at EXCEPT ![c] = place]
      BY <2>7 DEF RunProxy
    <3>2. PICK w : w = at[c].of
      OBVIOUS
    <3> QED BY <2>1, <2>4, <3>1, <3>2
  <2> QED BY <2>3, <2>5, <2>6, <2>7 DEF Caller
<1>3. ASSUME NEW d \in Callers, d # c
      PROVE  at'[d] = at[d] /\ x17'[d] = x17[d] /\ call'[d] = call[d]
  BY <1>2, <1>3 DEF ShapeInv
<1>4. ShapeInv'
  BY <1>2 DEF ShapeInv
<1>5. \A f, g : Owner(f, g) <=> Owner(f, g)'
  BY <1>1 DEF Owner, Filled, hookVars
<1>6. ASSUME NEW d \in Callers, d # c, call'[d].fn # None, Near(call[d].fn)'
      PROVE  /\ x17'[d] = None /\ call'[d].met \in Seq(Hooks \cup {Original})
             /\ OnTheWay(d, call[d].fn)'
  <2>1. at'[d] = at[d] /\ x17'[d] = x17[d] /\ call'[d] = call[d]
    BY <1>3, <1>6
  <2>2. Near(call[d].fn)
    BY <1>1, <1>6, <2>1 DEF Near, hookVars
  <2>3. x17[d] = None /\ call[d].met \in Seq(Hooks \cup {Original}) /\ OnTheWay(d, call[d].fn)
    BY <1>6, <2>1, <2>2 DEF CallsInv
  <2>4. UNCHANGED <<pc, target, entry, result, wants, pool>>
    BY <1>1 DEF hookVars
  <2>5. OnTheWay(d, call[d].fn)'
    BY <2>1, <2>3, <2>4 DEF OnTheWay, EndsWell, Owner, Filled, Place, End
  <2> QED BY <2>1, <2>3, <2>5
<1>7. at'[c] # Idle
  <2> USE DEF ShapeInv, Idle, Wild, End, Place
  <2>1. CASE \E f \in Functions : Call(c, f)
    BY <2>1 DEF Call
  <2>2. CASE RunCode(c)
    BY <2>2 DEF RunCode, Executed
  <2>3. CASE RunEntry(c)
    BY <2>3 DEF RunEntry, Executed
  <2>4. CASE RunProxy(c)
    BY <2>4 DEF RunProxy
  <2> QED BY <2>1, <2>2, <2>3, <2>4 DEF Caller
<1>8. ASSUME call'[c].fn # None, Near(call'[c].fn)
      PROVE  /\ x17'[c] = None /\ call'[c].met \in Seq(Hooks \cup {Original})
             /\ OnTheWay(c, call[c].fn)'
  <2>1. CASE \E f \in Functions : Call(c, f)
    <3>1. PICK f \in Functions : Call(c, f)
      BY <2>1
    <3>2. /\ x17'[c] = None /\ call'[c].fn = f /\ call'[c].met = <<>>
          /\ at'[c] = Place("code", f, 1)
      BY <3>1 DEF Call, CallsInv, ShapeInv
    <3> QED BY <3>2 DEF OnTheWay, Parts, Place
  <2>2. CASE RunCode(c) \/ RunEntry(c) \/ RunProxy(c)
    <3>1. call'[c].fn = call[c].fn
      BY <2>2 DEF RunCode, RunEntry, RunProxy, ShapeInv
    <3>2. PICK f : f = call[c].fn /\ f = call'[c].fn /\ Near(f)
      BY <1>8, <3>1
    <3>3. /\ x17[c] = None /\ call[c].met \in Seq(Hooks \cup {Original})
          /\ OnTheWay(c, f)
      BY <1>8, <3>1, <3>2 DEF CallsInv, Near
    <3>4. ASSUME NEW h \in Hooks, Owner(f, h) PROVE h \notin far
      BY <3>2, <3>4 DEF Near, Owner
    <3>9. \A in, of, part : /\ Place(in, of, part).in = in /\ Place(in, of, part).of = of
                            /\ Place(in, of, part).part = part
      BY DEF Place
    <3>5. CASE RunCode(c)
      <4>0. at[c].in = "code"
        BY <3>5 DEF RunCode
      <4>1. PICK p \in Parts : at[c] = Place("code", f, p)
        BY <3>3, <3>9, <4>0 DEF OnTheWay, End
      <4>2. f \in Functions
        BY <1>8, <3>1, <3>2 DEF ShapeInv
      <4>3. code[f][p] # Original => code[f][p] \in Hooks /\ Owner(f, code[f][p])
        BY <4>2 DEF IInv, CodeInv, TypeOK
      <4>4. CASE code[f][p] # Original
        <5>1. PICK h : h = code[f][p]
          OBVIOUS
        <5>2. at'[c] = Place("proxy", h, 0) /\ x17' = x17 /\ call' = call
          BY <3>3, <3>4, <3>5, <4>1, <4>3, <4>4, <5>1 DEF RunCode, Executed, ShapeInv, Place, End
        <5> QED BY <1>1, <3>2, <3>3, <4>3, <4>4, <5>1, <5>2, <1>5 DEF OnTheWay, Owner, Filled, hookVars
      <4>5. CASE code[f][p] = Original /\ p # 3
        <5>1. at'[c] = Place("code", f, p + 1) /\ x17' = x17 /\ call' = call /\ p + 1 \in Parts
          BY <3>3, <3>5, <4>1, <4>5, A64HookAssumption DEF RunCode, Executed, ShapeInv, Place, End, Parts
        <5>2. OnTheWay(c, call[c].fn)'
          BY <3>2, <5>1 DEF OnTheWay, Place
        <5> QED BY <3>1, <3>3, <5>1, <5>2
      <4>6. CASE code[f][p] = Original /\ p = 3
        <5>1. at'[c] = End /\ x17' = x17 /\ call'[c].met = Append(call[c].met, Original)
          BY <3>3, <3>5, <4>1, <4>6, A64HookAssumption DEF RunCode, Executed, ShapeInv, Place, End, Parts
        <5>2. call'[c].met \in Seq(Hooks \cup {Original}) /\ EndsWell(call[c].met)'
          BY <3>3, <5>1, LastOne, Original \in Hooks \cup {Original} DEF EndsWell
        <5> QED BY <3>3, <5>1, <5>2 DEF OnTheWay, End, Place
      <4> QED BY <4>4, <4>5, <4>6
    <3>6. CASE RunEntry(c)
      <4>0. at[c].in = "entry"
        BY <3>6 DEF RunEntry
      <4>1. PICK h \in Hooks : at[c] = Place("entry", result[h], 1) /\ h \in wants /\ Owner(f, h)
        BY <3>3, <3>9, <4>0 DEF OnTheWay, End
      <4>2. PICK e : e = result[h]
        OBVIOUS
      <4>3. /\ pool[e] \in Copies /\ pool[e] # None /\ pool[e].fn = f /\ Filled(h) /\ e = entry[h]
            /\ target[h] = f /\ pc[h] \notin {"idle", "fill"}
        BY <4>1, <4>2, CopiesAssumption DEF Owner, Filled
      <4>4. pool[e].count = 1
        <5>1. PartsOf(h) = {1}
          BY <3>4, <4>1 DEF PartsOf
        <5> QED BY <4>3, <5>1, FS_Singleton DEF TrampolineInv
      <4>5. f \in Functions
        BY <4>3 DEF Copies
      <4> DEFINE w == pool[e].code[1]
      <4>6. w # Original => w \in Hooks /\ Owner(f, w)
        BY <4>3 DEF TrampolineInv, Copies, Parts
      <4>7. CASE w # Original
        <5>1. PICK g : g = w
          OBVIOUS
        <5>2. at'[c] = Place("proxy", g, 0) /\ x17' = x17 /\ call' = call
          BY <3>3, <3>4, <3>6, <4>1, <4>2, <4>3, <4>6, <4>7, <5>1
            DEF RunEntry, Executed, ShapeInv, Place, End
        <5> QED BY <1>1, <3>2, <3>3, <4>6, <4>7, <5>1, <5>2, <1>5 DEF OnTheWay, Owner, Filled, hookVars
      <4>8. CASE w = Original
        <5>1. at'[c] = Place("code", f, 2) /\ x17' = x17 /\ call' = call
          BY <3>3, <3>6, <4>1, <4>2, <4>3, <4>4, <4>8, A64HookAssumption
            DEF RunEntry, Executed, ShapeInv, Place, End
        <5>2. OnTheWay(c, call[c].fn)'
          BY <3>2, <5>1 DEF OnTheWay, Place, Parts
        <5> QED BY <3>1, <3>3, <5>1, <5>2
      <4> QED BY <4>7, <4>8
    <3>7. CASE RunProxy(c)
      <4>0. at[c].in = "proxy"
        BY <3>7 DEF RunProxy
      <4>1. PICK h \in Hooks : at[c] = Place("proxy", h, 0) /\ Owner(f, h)
        BY <3>3, <3>9, <4>0 DEF OnTheWay, End
      <4>2. at[c].of = h
        BY <3>9, <4>1
      <4>3. /\ x17' = x17 /\ call'[c].met = Append(call[c].met, h)
            /\ at'[c] = IF result[h] = None THEN End ELSE Place("entry", result[h], 1)
        BY <3>7, <4>2 DEF RunProxy, ShapeInv
      <4>4. call'[c].met \in Seq(Hooks \cup {Original}) /\ call'[c].met # <<>> /\ Last(call'[c].met) = h
        BY <3>3, <4>3, LastOne, h \in Hooks \cup {Original}
      <4>5. CASE result[h] = None
        <5>1. h \notin wants
          BY <4>1, <4>5, A64HookAssumption DEF Owner, Filled, Pool
        <5>2. EndsWell(call[c].met)'
          BY <1>1, <4>1, <4>4, <5>1 DEF EndsWell, Owner, hookVars
        <5> QED BY <3>3, <4>3, <4>4, <4>5, <5>2 DEF OnTheWay, End, Place
      <4>6. CASE result[h] # None
        <5>1. h \in wants
          BY <4>6 DEF PlainInv
        <5>2. at'[c] = Place("entry", result'[h], 1) /\ h \in wants' /\ Owner(f, h)'
          BY <1>1, <1>5, <4>1, <4>3, <4>6, <5>1 DEF hookVars, Owner, Filled
        <5>3. OnTheWay(c, call[c].fn)'
          BY <3>2, <5>2 DEF OnTheWay, Place, Owner
        <5> QED BY <3>3, <4>3, <4>4, <5>3
      <4> QED BY <4>5, <4>6
    <3> QED BY <2>2, <3>5, <3>6, <3>7
  <2> QED BY <2>1, <2>2 DEF Caller
<1> QED BY <1>1, <1>3, <1>4, <1>6, <1>7, <1>8 DEF CallsInv, Near, hookVars

\* With the invariant of the hooks, the one of the calls is inductive.
LEMMA NearStep == IInv /\ NearInv /\ [Next]_vars => NearInv'
<1> SUFFICES ASSUME IInv, NearInv, [Next]_vars PROVE NearInv'
  OBVIOUS
<1> USE DEF NearInv
<1>1. ASSUME NEW h \in Hooks, Hook(h) PROVE NearInv'
  BY <1>1, PlainKeeps, TrampolineKeeps, CallsKeptByHook
<1>2. ASSUME NEW c \in Callers, Caller(c) PROVE NearInv'
  <2>1. UNCHANGED <<hookVars, code, pool>>
    BY <1>2 DEF Caller, Call, RunCode, RunEntry, RunProxy
  <2>2. PlainInv' /\ TrampolineInv'
    BY <2>1 DEF PlainInv, TrampolineInv, Filled, Owner, PartsOf, hookVars
  <2> QED BY <1>2, <2>2, CallsKeptByCaller
<1>3. CASE UNCHANGED vars
  <2> USE <1>3 DEF vars, hookVars, callVars
  <2>1. ShapeInv' /\ PlainInv' /\ TrampolineInv'
    BY DEF ShapeInv, PlainInv, TrampolineInv, Filled, Owner, PartsOf
  <2>2. CallsInv'
    BY DEF CallsInv, Near, OnTheWay, EndsWell, Owner, Filled
  <2> QED BY <2>1, <2>2
<1> QED BY <1>1, <1>2, <1>3 DEF Next

\* Where every hook of a function is near, a call of it ends in the original or in a
\* replacement that does not call on, whatever hooks run beside it, in any number, and
\* at any moment of theirs (A64HookFunctionV): NearNeverTorn.
THEOREM NearCallsEndWell == Spec => []NearNeverTorn
<1>1. Spec => [](IInv /\ NearInv)
  BY InitHooks, NearInit, StepKeeps, NearStep, PTL DEF Spec
<1>2. ASSUME IInv, NearInv PROVE NearNeverTorn
  <2> SUFFICES ASSUME NEW c \in Callers, call[c].fn # None, Near(call[c].fn)
               PROVE  /\ at[c] # Wild
                      /\ at[c] = End => Last(call[c].met) \in {Original} \cup (Hooks \ wants)
    BY DEF NearNeverTorn, Near
  <2>1. OnTheWay(c, call[c].fn)
    BY <1>2 DEF NearInv, CallsInv
  <2>2. \A in, of, part : Place(in, of, part).in = in
    BY DEF Place
  <2>3. at[c].in \in {"code", "proxy", "entry"} \/ (at[c] = End /\ EndsWell(call[c].met))
    BY <2>1, <2>2 DEF OnTheWay
  <2>4. Wild.in = "wild" /\ End.in = "end"
    BY <2>2 DEF Wild, End
  <2> QED BY <2>3, <2>4 DEF EndsWell
<1> QED BY <1>1, <1>2, PTL

-----------------------------------------------------------------------------
(* Calls of a function that was hooked several times *)

\* The far hooks among the first i of s, and the last of them: its words are behind the
\* first one.
FarAmong(s, F, i) == {j \in 1..i : s[j] \in F}
Behind(s, F, i) == IF FarAmong(s, F, i) = {} THEN Original ELSE s[Max(FarAmong(s, F, i))]

\* The words of a function once the first i hooks of s are complete; those in F are far.
Word(s, F, i, p) == IF p # 1 THEN Behind(s, F, i) ELSE IF i = 0 THEN Original ELSE s[i]
WordOf(f, i, p) == Word(order[f], far, i, p)

\* What the trampoline of h was made from: the function after i hooks.
Holds(h, f, i) == /\ \A p \in Parts : pool[entry[h]].code[p] = WordOf(f, i, p)
                  /\ pool[entry[h]].literal = WordOf(f, i, 3)

\* The hooks in the order of a function are complete.
OrderInv ==
  /\ order \in [Functions -> Seq(Hooks)]
  /\ \A f \in Functions : \A i \in 1..Len(order[f]) :
       pc[order[f][i]] = "done" /\ Owner(f, order[f][i])

\* Unless hooks of a function met there is one at a time.
SoleInv == \A f \in Functions \ mixed : \A g, h \in UnderWay(f) : g = h

\* What a hook that is alone with its function has done to it.
AtWork(f, h) ==
  LET n == Len(order[f]) IN
  /\ pc[h] = "swap" => old[h] = code[f][1]
  /\ pc[h] \in {"read", "swap"} => h \notin far
  /\ pc[h] = "write" =>
       /\ h \in far
       /\ \A p \in Parts : code[f][p] = IF p \in todo[h] THEN WordOf(f, n, p) ELSE h
  /\ pc[h] # "fill" /\ h \in wants => Holds(h, f, n)

Stage(f) ==
  /\ (\A h \in UnderWay(f) : pc[h] # "write") =>
       \A p \in Parts : code[f][p] = WordOf(f, Len(order[f]), p)
  /\ \A h \in UnderWay(f) : AtWork(f, h)
  /\ \A i \in 1..Len(order[f]) : order[f][i] \in wants => Holds(order[f][i], f, i - 1)

StageInv == \A f \in Functions \ mixed : Stage(f)

\* Beside a call that is calm nothing is hooked.
CalmInv ==
  \A c \in Callers : call[c].fn # None /\ call[c].calm =>
    UnderWay(call[c].fn) = {} /\ order[call[c].fn] = call[c].expect

-----------------------------------------------------------------------------
\* A set of numbers with a bound has a greatest one.
LEMMA Greatest ==
  ASSUME NEW n \in Nat, NEW S \in SUBSET (1..n), S # {}
  PROVE  Max(S) \in S /\ \A k \in S : Max(S) >= k
<1> DEFINE Less == OpToRel(<, Nat)
           T == {n - k : k \in S}
<1>1. IsWellFoundedOn(Less, Nat)
  BY NatLessThanWellFounded
<1>2. \A x, y \in Nat : <<y, x>> \in Less <=> y < x
  BY DEF OpToRel
<1>3. T \subseteq Nat /\ T # {}
  <2>1. PICK k \in S : TRUE
    OBVIOUS
  <2>2. n - k \in T
    OBVIOUS
  <2>3. ASSUME NEW x \in T PROVE x \in Nat
    OBVIOUS
  <2> HIDE DEF T
  <2> QED BY <2>2, <2>3
<1> HIDE DEF Less
<1>4. PICK x \in T : \A y \in T : ~(<<y, x>> \in Less)
  <2> HIDE DEF T
  <2> QED BY <1>1, <1>3, WFMin
<1>5. PICK m \in S : x = n - m
  OBVIOUS
<1>6. ASSUME NEW k \in S PROVE m >= k
  <2>1. n - k \in T /\ n - k \in Nat /\ x \in Nat
    OBVIOUS
  <2>2. ~(n - k < x)
    BY <1>2, <1>4, <2>1
  <2> QED BY <1>5, <2>1, <2>2
<1> HIDE DEF T
<1> QED BY <1>6 DEF Max

\* The last far one.
LEMMA LastFar ==
  ASSUME NEW s, NEW F, NEW i \in Nat
  PROVE  /\ i = 0 => Behind(s, F, i) = Original
         /\ i > 0 /\ s[i] \in F => Behind(s, F, i) = s[i]
<1>1. FarAmong(s, F, i) \in SUBSET (1..i)
  BY DEF FarAmong
<1>2. CASE i = 0
  <2>1. FarAmong(s, F, i) = {}
    BY <1>2 DEF FarAmong
  <2> QED BY <1>2, <2>1 DEF Behind
<1>3. CASE i > 0 /\ s[i] \in F
  <2>1. i \in FarAmong(s, F, i)
    BY <1>3 DEF FarAmong
  <2>2. Max(FarAmong(s, F, i)) \in 1..i /\ Max(FarAmong(s, F, i)) >= i
    BY <1>1, <2>1, Greatest
  <2>3. Max(FarAmong(s, F, i)) = i
    BY <2>2
  <2> QED BY <1>3, <2>1, <2>3 DEF Behind
<1> QED BY <1>2, <1>3

\* Near hooks do not change what is behind the first word.
LEMMA NearAfter ==
  ASSUME NEW s, NEW F, NEW i \in Nat, NEW n \in Nat, i <= n,
         \A j \in i + 1..n : s[j] \notin F
  PROVE  Behind(s, F, n) = Behind(s, F, i)
<1>1. FarAmong(s, F, n) = FarAmong(s, F, i)
  <2>1. ASSUME NEW j \in FarAmong(s, F, n) PROVE j \in FarAmong(s, F, i)
    <3>1. j \in 1..n /\ s[j] \in F
      BY DEF FarAmong
    <3>2. j \notin i + 1..n
      BY <3>1
    <3> QED BY <3>1, <3>2 DEF FarAmong
  <2>2. ASSUME NEW j \in FarAmong(s, F, i) PROVE j \in FarAmong(s, F, n)
    BY DEF FarAmong
  <2> QED BY <2>1, <2>2
<1> QED BY <1>1 DEF Behind

\* The words after i hooks depend on these alone.
LEMMA SameWords ==
  ASSUME NEW s, NEW z, NEW F, NEW G, NEW i \in Nat,
         \A j \in 1..i : z[j] = s[j] /\ (s[j] \in G <=> s[j] \in F)
  PROVE  \A p : Word(z, G, i, p) = Word(s, F, i, p)
<1>1. FarAmong(z, G, i) = FarAmong(s, F, i)
  BY DEF FarAmong
<1>2. FarAmong(s, F, i) # {} => Max(FarAmong(s, F, i)) \in 1..i
  <2>1. FarAmong(s, F, i) \in SUBSET (1..i)
    BY DEF FarAmong
  <2> QED BY <2>1, Greatest
<1>3. Behind(z, G, i) = Behind(s, F, i)
  BY <1>1, <1>2 DEF Behind
<1>4. i # 0 => i \in 1..i
  OBVIOUS
<1> QED BY <1>3, <1>4 DEF Word

-----------------------------------------------------------------------------
(* The steps of a hook *)

\* A hook that is done does nothing more; what it may do to an order and to the words.
LEMMA HookWrites ==
  ASSUME IInv, OrderInv, NEW h \in Hooks, Hook(h)
  PROVE  /\ pc[h] # "done"
         /\ \A g \in Hooks : g # h => old'[g] = old[g] /\ todo'[g] = todo[g]
         /\ mixed \subseteq mixed'
         /\ order' \in [Functions -> Seq(Hooks)]
         /\ \A f \in Functions : f # target[h] \/ pc[h] \notin {"write", "swap"} =>
              code'[f] = code[f] /\ order'[f] = order[f]
         /\ \A f \in Functions :
              order'[f] = order[f] \/ (order'[f] = Append(order[f], h) /\ pc'[h] = "done")
<1> USE DEF IInv, TypeOK, OrderInv
<1>1. CASE \E f \in Functions, isFar, wanted \in BOOLEAN : Allocate(h, f, isFar, wanted)
  BY <1>1 DEF Allocate
<1>2. CASE Fill(h)
  BY <1>2 DEF Fill, Step
<1>3. CASE Protect(h)
  BY <1>3 DEF Protect, Step
<1>4. CASE ProtectFails(h)
  BY <1>4 DEF ProtectFails, Step
<1>5. CASE ReadOld(h)
  BY <1>5 DEF ReadOld, Step
<1>6. CASE Swap(h) \/ \E p \in Parts : Write(h, p)
  <2>1. /\ pc[h] \in {"write", "swap"}
        /\ target[h] \in Functions
        /\ \A g \in Hooks : g # h => old'[g] = old[g] /\ todo'[g] = todo[g]
        /\ mixed' = mixed
        /\ (Complete(h) /\ pc'[h] = "done") \/ order' = order
        /\ (\E p \in Parts : Written(h, p)) \/ code' = code
    <3>1. CASE Swap(h)
      BY <3>1 DEF Swap, Step, HookInv, Parts
    <3>2. ASSUME NEW p \in Parts, Write(h, p)
          PROVE  /\ pc[h] = "write" /\ mixed' = mixed /\ old' = old /\ Written(h, p)
                 /\ todo' = [todo EXCEPT ![h] = @ \ {p}]
                 /\ (Complete(h) /\ pc'[h] = "done") \/ order' = order
      BY <3>2 DEF Write
    <3> QED BY <1>6, <3>1, <3>2 DEF HookInv
  <2>2. \A f \in Functions : f # target[h] => code'[f] = code[f]
    BY <2>1 DEF Written
  <2>3. /\ order' \in [Functions -> Seq(Hooks)]
        /\ \A f \in Functions : f # target[h] => order'[f] = order[f]
        /\ \A f \in Functions :
             order'[f] = order[f] \/ (order'[f] = Append(order[f], h) /\ pc'[h] = "done")
    <3>1. CASE Complete(h) /\ pc'[h] = "done"
      <4>1. /\ order' = [order EXCEPT ![target[h]] = Append(order[target[h]], h)]
            /\ Append(order[target[h]], h) \in Seq(Hooks)
        BY <2>1, <3>1 DEF Complete
      <4> QED BY <2>1, <3>1, <4>1
    <3>2. CASE order' = order
      BY <3>2
    <3> QED BY <2>1, <3>1, <3>2
  <2> QED BY <2>1, <2>2, <2>3
<1> QED BY <1>1, <1>2, <1>3, <1>4, <1>5, <1>6 DEF Hook

\* Complete hooks stay complete, and one more may become so.
LEMMA OrderKeeps ==
  ASSUME IInv, OrderInv, NEW h \in Hooks, Hook(h)
  PROVE  OrderInv'
<1>1. ASSUME NEW f \in Functions, NEW i \in 1..Len(order'[f])
      PROVE  pc'[order'[f][i]] = "done" /\ Owner(f, order[f][i])'
  <2>1. order[f] \in Seq(Hooks)
    BY DEF OrderInv
  <2>2. CASE order'[f] = order[f]
    <3>1. PICK g : g = order[f][i]
      OBVIOUS
    <3>2. g \in Hooks /\ pc[g] = "done" /\ Owner(f, g)
      BY <1>1, <2>1, <2>2, <3>1 DEF OrderInv
    <3>3. g # h
      BY <3>2, HookWrites
    <3>4. pc'[g] = "done" /\ Owner(f, g)'
      BY <3>2, <3>3, HookLeaves, OwnerStays
    <3> QED BY <2>2, <3>1, <3>4 DEF Owner, Filled
  <2>3. CASE order'[f] = Append(order[f], h) /\ pc'[h] = "done" /\ order'[f] # order[f]
    <3>1. f = target[h] /\ pc[h] \in {"write", "swap"}
      BY <2>3, HookWrites
    <3>2. CASE i \in 1..Len(order[f])
      <4>1. PICK g : g = order[f][i]
        OBVIOUS
      <4>2. g \in Hooks /\ pc[g] = "done" /\ Owner(f, g) /\ order'[f][i] = g
        BY <2>1, <2>3, <3>2, <4>1 DEF OrderInv
      <4>3. g # h
        BY <4>2, HookWrites
      <4>4. pc'[g] = "done" /\ Owner(f, g)'
        BY <4>2, <4>3, HookLeaves, OwnerStays
      <4> QED BY <4>2, <4>4 DEF Owner, Filled
    <3>3. CASE i = Len(order[f]) + 1
      <4>1. order'[f][i] = h
        BY <2>1, <2>3, <3>3
      <4>2. h \in wants => Filled(h)
        BY <3>1 DEF IInv, HookInv
      <4>3. UNCHANGED <<target, wants, entry, result, pool>>
        BY <3>1 DEF Hook, Allocate, Fill, Step, Protect, ProtectFails, ReadOld, Swap, Write
      <4> QED BY <2>3, <3>1, <4>1, <4>2, <4>3 DEF Owner, Filled
    <3> QED BY <1>1, <2>1, <2>3, <3>2, <3>3
  <2> QED BY <2>2, <2>3, HookWrites
<1>2. order' \in [Functions -> Seq(Hooks)]
  BY HookWrites
<1> QED BY <1>1, <1>2 DEF OrderInv, Owner, Filled

\* What the first hooks of a function wrote stays what it was.
LEMMA WordsStay ==
  ASSUME IInv, OrderInv, NEW h \in Hooks, Hook(h), NEW f \in Functions,
         NEW i \in 0..Len(order[f])
  PROVE  \A p : WordOf(f, i, p)' = WordOf(f, i, p)
<1>1. order[f] \in Seq(Hooks) /\ i \in Nat
  BY DEF OrderInv
<1>2. ASSUME NEW j \in 1..i
      PROVE  order'[f][j] = order[f][j] /\ (order[f][j] \in far' <=> order[f][j] \in far)
  <2>1. order[f][j] \in Hooks /\ pc[order[f][j]] = "done"
    BY <1>1 DEF OrderInv
  <2>2. order[f][j] # h
    BY <2>1, HookWrites
  <2>3. order'[f][j] = order[f][j]
    BY <1>1, HookWrites
  <2> QED BY <2>1, <2>2, <2>3, HookLeaves
<1> QED BY <1>1, <1>2, SameWords DEF WordOf

\* The trampolines of complete hooks stay what they are.
LEMMA HoldsStays ==
  ASSUME IInv, OrderInv, NEW h \in Hooks, Hook(h), NEW f \in Functions,
         NEW i \in 0..Len(order[f]), NEW g \in Hooks, Owner(f, g), g \in wants, Holds(g, f, i)
  PROVE  Holds(g, f, i)'
<1>1. entry[g] \in Pool /\ Filled(g) /\ pc[g] # "idle"
  BY DEF Owner, Filled
<1>2. entry'[g] = entry[g]
  BY <1>1, HookLeaves
<1>3. pc[h] = "fill" => entry[g] # entry[h]
  BY <1>1, A64HookAssumption DEF IInv, EntriesInv, EntriesDistinct, HookInv, Pool, Owner
<1>4. pool'[entry'[g]] = pool[entry[g]]
  BY <1>1, <1>2, <1>3, HookLeaves
<1> QED BY <1>4, WordsStay DEF Holds

LEMMA OldHolds ==
  ASSUME IInv, OrderInv, NEW h \in Hooks, Hook(h), NEW f \in Functions, Stage(f),
         NEW i \in 1..Len(order[f]), order[f][i] \in wants'
  PROVE  order'[f][i] = order[f][i] /\ Holds(order[f][i], f, i - 1)'
<1>1. order[f] \in Seq(Hooks)
  BY DEF OrderInv
<1>2. PICK g : g = order[f][i]
  OBVIOUS
<1>3. g \in Hooks /\ pc[g] = "done" /\ Owner(f, g)
  BY <1>1, <1>2 DEF OrderInv
<1>4. g # h
  BY <1>3, HookWrites
<1>5. g \in wants
  BY <1>2, <1>3, <1>4, HookLeaves
<1>6. order'[f][i] = g
  BY <1>1, <1>2, HookWrites
<1>7. i - 1 \in 0..Len(order[f]) /\ Holds(g, f, i - 1)
  BY <1>1, <1>2, <1>5 DEF Stage
<1>8. Holds(g, f, i - 1)'
  BY <1>3, <1>5, <1>7, HoldsStays
<1> QED BY <1>2, <1>6, <1>8 DEF Holds, WordOf

\* Who is under way, when one hook moves.
LEMMA Beside ==
  ASSUME IInv, OrderInv, SoleInv, NEW h \in Hooks, Hook(h), NEW f \in Functions, f \notin mixed'
  PROVE  /\ f \notin mixed
         /\ f # target'[h] => UnderWay(f)' = UnderWay(f) /\ h \notin UnderWay(f)
         /\ f = target'[h] =>
              /\ UnderWay(f) = IF pc[h] = "idle" THEN {} ELSE {h}
              /\ UnderWay(f)' = IF pc'[h] = "done" THEN {} ELSE {h}
<1>1. /\ f \notin mixed /\ pc'[h] # "idle" /\ pc[h] # "done"
      /\ \A g \in Hooks : g # h => pc'[g] = pc[g] /\ target'[g] = target[g]
      /\ pc[h] # "idle" => target' = target
  BY HookWrites, HookLeaves
<1>2. CASE f # target'[h]
  BY <1>1, <1>2 DEF UnderWay
<1>3. CASE f = target'[h]
  <2>1. CASE pc[h] = "idle"
    <3>1. PICK k \in Functions, isFar \in BOOLEAN, wanted \in BOOLEAN : Allocate(h, k, isFar, wanted)
      BY <2>1 DEF Hook, Fill, Step, Protect, ProtectFails, ReadOld, Swap, Write
    <3>2. k = f
      BY <1>3, <3>1 DEF Allocate, IInv, TypeOK
    <3>3. UnderWay(f) = {}
      BY <3>1, <3>2 DEF Allocate
    <3>4. UnderWay(f)' = IF pc'[h] = "done" THEN {} ELSE {h}
      BY <1>1, <1>3, <3>3 DEF UnderWay
    <3> QED BY <1>1, <1>3, <2>1, <3>3, <3>4
  <2>2. CASE pc[h] # "idle"
    <3>1. h \in UnderWay(f)
      BY <1>1, <1>3, <2>2 DEF UnderWay
    <3>2. UnderWay(f) = {h}
      BY <1>1, <3>1 DEF SoleInv
    <3>3. UnderWay(f)' = IF pc'[h] = "done" THEN {} ELSE {h}
      BY <1>1, <1>3, <2>2, <3>2 DEF UnderWay
    <3> QED BY <1>1, <1>3, <2>2, <3>2, <3>3
  <2> QED BY <2>1, <2>2
<1> QED BY <1>1, <1>2, <1>3

LEMMA SoleKeeps ==
  ASSUME IInv, OrderInv, SoleInv, NEW h \in Hooks, Hook(h)
  PROVE  SoleInv'
<1> SUFFICES ASSUME NEW f \in Functions, f \notin mixed'
             PROVE  \A g, k \in UnderWay(f)' : g = k
  BY DEF SoleInv
<1>1. CASE f # target'[h]
  BY <1>1, Beside DEF SoleInv
<1>2. CASE f = target'[h]
  BY <1>2, Beside
<1> QED BY <1>1, <1>2

\* A function that the hook is not working on.
LEMMA StageElsewhere ==
  ASSUME IInv, OrderInv, SoleInv, NEW h \in Hooks, Hook(h),
         NEW f \in Functions, f \notin mixed', f # target'[h], Stage(f)
  PROVE  Stage(f)'
<1>1. UnderWay(f)' = UnderWay(f) /\ h \notin UnderWay(f)
  BY Beside
<1>2. code'[f] = code[f] /\ order'[f] = order[f]
  <2>1. f # target[h] \/ pc[h] \notin {"write", "swap"}
    BY HookLeaves
  <2> QED BY <2>1, HookWrites
<1>3. order[f] \in Seq(Hooks) /\ Len(order[f]) \in 0..Len(order[f])
  BY DEF OrderInv
<1>4. \A p : WordOf(f, Len(order[f]), p)' = WordOf(f, Len(order[f]), p)
  BY <1>2, <1>3, WordsStay DEF WordOf
<1>5. ASSUME NEW g \in UnderWay(f)
      PROVE  /\ g \in Hooks /\ pc'[g] = pc[g] /\ old'[g] = old[g] /\ todo'[g] = todo[g]
             /\ (g \in far' <=> g \in far) /\ (g \in wants' <=> g \in wants)
             /\ entry'[g] = entry[g] /\ target[g] = f /\ pc[g] \notin {"idle", "done"}
  BY <1>1, HookLeaves, HookWrites DEF UnderWay
<1>6. (\A g \in UnderWay(f)' : pc'[g] # "write") =>
        \A p \in Parts : code'[f][p] = WordOf(f, Len(order[f]), p)'
  BY <1>1, <1>2, <1>4, <1>5 DEF Stage
<1>7. ASSUME NEW g \in UnderWay(f) PROVE AtWork(f, g)'
  <2>1. AtWork(f, g)
    BY DEF Stage
  <2>2. ASSUME pc[g] # "fill", g \in wants PROVE Holds(g, f, Len(order[f]))'
    <3>1. Filled(g)
      BY <1>5, <2>2 DEF IInv, HookInv, TypeOK, Locations
    <3>2. pc[h] = "fill" => entry[g] # entry[h]
      BY <1>1, <1>5, <3>1, A64HookAssumption DEF IInv, EntriesInv, EntriesDistinct, HookInv, Pool, Filled
    <3>3. pool'[entry'[g]] = pool[entry[g]]
      BY <1>5, <3>1, <3>2, HookLeaves DEF Filled
    <3> QED BY <1>4, <2>1, <2>2, <3>3 DEF AtWork, Holds
  <2> QED BY <1>2, <1>4, <1>5, <2>1, <2>2 DEF AtWork, Holds, WordOf
<1>8. ASSUME NEW i \in 1..Len(order'[f]), order'[f][i] \in wants'
      PROVE  Holds(order[f][i], f, i - 1)'
  BY <1>2, <1>8, OldHolds
<1> QED BY <1>1, <1>6, <1>7, <1>8 DEF Stage

\* The function the hook is working on: what was there stays there.
LEMMA StageHere ==
  ASSUME IInv, OrderInv, SoleInv, NEW h \in Hooks, Hook(h),
         NEW f \in Functions, f \notin mixed', f = target'[h], Stage(f),
         order'[f] = order[f],
         pc'[h] # "write" => \A p \in Parts : code'[f][p] = WordOf(f, Len(order[f]), p),
         pc'[h] # "done" => AtWork(f, h)'
  PROVE  Stage(f)'
<1>1. UnderWay(f)' = IF pc'[h] = "done" THEN {} ELSE {h}
  BY Beside
<1>2. \A p : WordOf(f, Len(order[f]), p)' = WordOf(f, Len(order[f]), p)
  <2>1. PICK n : n = Len(order[f]) /\ n \in 0..Len(order[f])
    BY DEF OrderInv
  <2>2. \A p : WordOf(f, n, p)' = WordOf(f, n, p)
    BY <2>1, WordsStay
  <2> QED BY <2>1, <2>2 DEF WordOf
<1>3. (\A g \in UnderWay(f)' : pc'[g] # "write") =>
        \A p \in Parts : code'[f][p] = WordOf(f, Len(order[f]), p)'
  BY <1>1, <1>2
<1>4. \A g \in UnderWay(f)' : AtWork(f, g)'
  BY <1>1
<1>5. ASSUME NEW i \in 1..Len(order'[f]), order'[f][i] \in wants'
      PROVE  Holds(order[f][i], f, i - 1)'
  BY <1>5, OldHolds
<1> QED BY <1>3, <1>4, <1>5 DEF Stage

\* It becomes complete.
LEMMA StageComplete ==
  ASSUME IInv, OrderInv, SoleInv, NEW h \in Hooks, Hook(h),
         NEW f \in Functions, f \notin mixed', f = target'[h], Stage(f),
         pc[h] \in {"write", "swap"}, order'[f] = Append(order[f], h), pc'[h] = "done",
         code'[f][1] = h,
         \A p \in Parts \ {1} :
           code'[f][p] = IF h \in far THEN h ELSE WordOf(f, Len(order[f]), p)
  PROVE  Stage(f)'
<1>0. PICK n, z, F : n = Len(order[f]) /\ z = order'[f] /\ F = far
  OBVIOUS
<1>1. UnderWay(f) = {h} /\ UnderWay(f)' = {} /\ target' = target /\ far' = far /\ wants' = wants
      /\ entry' = entry
  BY Beside, HookLeaves
<1>2. /\ order[f] \in Seq(Hooks) /\ n \in Nat /\ n \in 0..n /\ Len(z) = n + 1
      /\ z[n + 1] = h
      /\ \A i \in 1..n : z[i] = order[f][i]
  BY <1>0 DEF OrderInv
<1>3. \A p : Word(z, F, n, p) = WordOf(f, n, p)
  <2>1. \A p : WordOf(f, n, p)' = WordOf(f, n, p)
    BY <1>0, <1>2, WordsStay
  <2> QED BY <1>0, <1>1, <2>1 DEF WordOf
<1>4. ASSUME NEW p \in Parts PROVE code'[f][p] = WordOf(f, Len(order[f]), p)'
  <2>1. WordOf(f, Len(order[f]), p)' = Word(z, F, n + 1, p)
    BY <1>0, <1>1, <1>2 DEF WordOf
  <2>2. CASE p = 1
    BY <1>2, <2>1, <2>2 DEF Word
  <2>3. CASE p # 1 /\ h \in F
    <3>1. Behind(z, F, n + 1) = h
      BY <1>2, <2>3, LastFar
    <3> QED BY <1>0, <2>1, <2>3, <3>1 DEF Word
  <2>4. CASE p # 1 /\ h \notin F
    <3>1. Behind(z, F, n + 1) = Behind(z, F, n)
      BY <1>2, <2>4, NearAfter
    <3>2. Word(z, F, n + 1, p) = Word(z, F, n, p)
      BY <2>4, <3>1 DEF Word
    <3> QED BY <1>0, <1>3, <2>1, <2>4, <3>2
  <2> QED BY <2>2, <2>3, <2>4
<1>5. ASSUME NEW i \in 1..Len(order'[f]), order'[f][i] \in wants'
      PROVE  Holds(order[f][i], f, i - 1)'
  <2>1. CASE i \in 1..n
    BY <1>0, <1>5, <2>1, OldHolds
  <2>2. CASE i = n + 1
    <3>1. i - 1 = n /\ h \in wants
      BY <1>0, <1>1, <1>2, <1>5, <2>2
    <3>2. Holds(h, f, n) /\ Filled(h)
      BY <1>0, <1>1, <3>1 DEF Stage, AtWork, IInv, HookInv
    <3>3. pool' = pool
      BY DEF Hook, Allocate, Fill, Step, Protect, ProtectFails, ReadOld, Swap, Write
    <3>4. Holds(h, f, n)'
      <4>1. \A p : WordOf(f, n, p)' = WordOf(f, n, p)
        BY <1>0, <1>2, WordsStay
      <4> QED BY <1>1, <3>2, <3>3, <4>1 DEF Holds
    <3>5. order'[f][i] = h
      BY <1>0, <1>2, <2>2
    <3> QED BY <3>1, <3>4, <3>5 DEF Holds, WordOf
  <2> QED BY <1>0, <1>2, <1>5, <2>1, <2>2
<1> QED BY <1>1, <1>4, <1>5 DEF Stage

\* Where every hook is one at a time the words of a function are those of its hooks.
LEMMA StageKeeps ==
  ASSUME IInv, OrderInv, SoleInv, StageInv, NEW h \in Hooks, Hook(h)
  PROVE  StageInv'
<1> SUFFICES ASSUME NEW f \in Functions, f \notin mixed' PROVE Stage(f)'
  BY DEF StageInv
<1>1. f \notin mixed /\ Stage(f)
  BY Beside DEF StageInv
<1>2. CASE f # target'[h]
  BY <1>1, <1>2, StageElsewhere
<1>3. CASE f = target'[h] /\ pc[h] = "idle"
  <2>1. PICK k \in Functions, isFar \in BOOLEAN, wanted \in BOOLEAN : Allocate(h, k, isFar, wanted)
    BY <1>3 DEF Hook, Fill, Step, Protect, ProtectFails, ReadOld, Swap, Write
  <2>2. code' = code /\ order' = order /\ UnderWay(f) = {}
    BY <1>3, <2>1, Beside DEF Allocate
  <2>3. pc'[h] \in {"fill", "protect", "done"} /\ (pc'[h] = "protect" => h \notin wants')
    BY <2>1 DEF Allocate, FirstStep, IInv, TypeOK, HookInv
  <2>4. pc'[h] # "done" => AtWork(f, h)'
    BY <2>3 DEF AtWork
  <2>5. \A p \in Parts : code[f][p] = WordOf(f, Len(order[f]), p)
    BY <1>1, <2>2 DEF Stage
  <2> QED BY <1>1, <1>3, <2>2, <2>3, <2>4, <2>5, StageHere
<1>4. CASE f = target'[h] /\ pc[h] # "idle"
  <2>1. UnderWay(f) = {h} /\ target[h] = f /\ AtWork(f, h)
    <3>1. target' = target /\ UnderWay(f) = {h}
      BY <1>4, Beside, HookLeaves
    <3> QED BY <1>1, <1>4, <3>1 DEF Stage
  <2>2. pc[h] # "write" => \A p \in Parts : code[f][p] = WordOf(f, Len(order[f]), p)
    BY <1>1, <2>1 DEF Stage
  <2>3. PICK n : n = Len(order[f]) /\ n \in 0..Len(order[f]) /\ order[f] \in Seq(Hooks)
    BY DEF OrderInv
  <2>4. \A p : WordOf(f, n, p)' = WordOf(f, n, p)
    BY <2>3, WordsStay
  <2>5. h \in wants /\ pc[h] # "fill" => Filled(h)
    BY <1>4, <2>1 DEF IInv, HookInv, TypeOK, Locations, UnderWay
  <2>6. ASSUME UNCHANGED <<target, far, wants, entry, pool, order>>, h \in wants', pc[h] # "fill"
        PROVE  Holds(h, f, Len(order[f]))'
    <3>1. Holds(h, f, n)
      BY <2>1, <2>3, <2>6 DEF AtWork
    <3> QED BY <2>3, <2>4, <2>6, <3>1 DEF Holds, WordOf
  <2>7. CASE Fill(h)
    <3>1. /\ pc[h] = "fill" /\ pc'[h] = "protect" /\ code' = code /\ order' = order
          /\ UNCHANGED <<entry, far>>
      BY <2>7 DEF Fill, Step, IInv, TypeOK
    <3>2. entry[h] \in Pool
      BY <3>1 DEF IInv, HookInv
    <3>3. pool'[entry[h]] = Copy(h)
      BY <2>7, <3>2 DEF Fill, IInv, TypeOK
    <3>4. Holds(h, f, Len(order[f]))'
      <4>1. \A p \in Parts : Copy(h).code[p] = WordOf(f, n, p)
        BY <2>1, <2>2, <2>3, <3>1 DEF Copy
      <4>2. Copy(h).literal = WordOf(f, n, 3)
        BY <2>1, <2>2, <2>3, <3>1 DEF Copy, Parts
      <4> QED BY <2>3, <2>4, <3>1, <3>3, <4>1, <4>2 DEF Holds, WordOf
    <3>5. AtWork(f, h)'
      BY <3>1, <3>4 DEF AtWork
    <3> QED BY <1>1, <1>4, <2>2, <3>1, <3>5, StageHere
  <2>8. CASE Protect(h)
    <3>1. /\ pc[h] = "protect" /\ pc'[h] = (IF h \in far THEN "write" ELSE "read")
          /\ todo'[h] = PartsOf(h)
          /\ UNCHANGED <<target, far, wants, entry, pool, order, code>>
      BY <2>8 DEF Protect, Step, IInv, TypeOK
    <3>2. AtWork(f, h)'
      <4>1. h \in wants' => Holds(h, f, Len(order[f]))'
        BY <2>6, <3>1
      <4>2. h \in far => \A p \in Parts : p \in todo'[h] /\ code'[f][p] = WordOf(f, Len(order[f]), p)'
        BY <2>2, <3>1 DEF PartsOf, WordOf
      <4> QED BY <3>1, <4>1, <4>2 DEF AtWork
    <3> QED BY <1>1, <1>4, <2>2, <3>1, <3>2, StageHere
  <2>9. CASE ProtectFails(h)
    <3>1. pc[h] = "protect" /\ pc'[h] = "done" /\ code' = code /\ order' = order
      BY <2>9 DEF ProtectFails, Step, IInv, TypeOK
    <3> QED BY <1>1, <1>4, <2>2, <3>1, StageHere
  <2>10. CASE ReadOld(h)
    <3>1. /\ pc[h] = "read" /\ pc'[h] = "swap" /\ old'[h] = code[f][1]
          /\ UNCHANGED <<target, far, wants, entry, pool, order, code>>
      BY <2>1, <2>10 DEF ReadOld, Step, IInv, TypeOK
    <3>2. AtWork(f, h)'
      <4>1. h \in wants' => Holds(h, f, Len(order[f]))'
        BY <2>6, <3>1
      <4> QED BY <2>1, <3>1, <4>1 DEF AtWork
    <3> QED BY <1>1, <1>4, <2>2, <3>1, <3>2, StageHere
  <2>11. CASE Swap(h)
    <3>1. pc[h] = "swap" /\ pc'[h] = "done" /\ h \notin far /\ Written(h, 1) /\ Complete(h)
      BY <2>1, <2>11 DEF Swap, Step, IInv, TypeOK, AtWork
    <3>2. order'[f] = Append(order[f], h)
      BY <2>1, <3>1 DEF Complete, OrderInv
    <3>3. code'[f][1] = h /\ \A p \in Parts \ {1} : code'[f][p] = code[f][p]
      BY <2>1, <3>1 DEF Written, IInv, TypeOK, Parts
    <3>4. \A p \in Parts \ {1} : code'[f][p] = IF h \in far THEN h ELSE WordOf(f, Len(order[f]), p)
      BY <2>2, <3>1, <3>3
    <3> QED BY <1>1, <1>4, <3>1, <3>2, <3>3, <3>4, StageComplete
  <2>12. ASSUME NEW q \in Parts, Write(h, q) PROVE Stage(f)'
    <3>1. /\ pc[h] = "write" /\ h \in far /\ Written(h, q)
          /\ todo'[h] = todo[h] \ {q}
          /\ UNCHANGED <<target, far, wants, entry, pool>>
          /\ IF todo'[h] = {} THEN Complete(h) /\ pc'[h] = "done" ELSE order' = order /\ pc' = pc
      <4>1. pc[h] = "write" /\ h \in far
        BY <2>1, <2>12 DEF Write, AtWork
      <4> QED BY <2>12, <4>1 DEF Write, IInv, TypeOK
    <3>2. \A p \in Parts : code'[f][p] = IF p = q THEN h ELSE code[f][p]
      BY <2>1, <3>1 DEF Written, IInv, TypeOK
    <3>3. \A p \in Parts : code'[f][p] = IF p \in todo'[h] THEN WordOf(f, n, p) ELSE h
      BY <2>1, <2>3, <3>1, <3>2 DEF AtWork
    <3>4. CASE todo'[h] = {}
      <4>1. order'[f] = Append(order[f], h)
        BY <2>1, <3>1, <3>4 DEF Complete, OrderInv
      <4>2. code'[f][1] = h
            /\ \A p \in Parts \ {1} : code'[f][p] = IF h \in far THEN h ELSE WordOf(f, Len(order[f]), p)
        BY <3>1, <3>3, <3>4 DEF Parts
      <4> QED BY <1>1, <1>4, <3>1, <3>4, <4>1, <4>2, StageComplete
    <3>5. CASE todo'[h] # {}
      <4>1. order' = order /\ pc'[h] = "write"
        BY <3>1, <3>5
      <4>2. AtWork(f, h)'
        <5>1. h \in wants' => Holds(h, f, Len(order[f]))'
          BY <2>6, <3>1, <4>1
        <5>2. \A p \in Parts : code'[f][p] = IF p \in todo'[h] THEN WordOf(f, Len(order[f]), p)' ELSE h
          BY <2>3, <2>4, <3>3, <4>1 DEF WordOf
        <5> QED BY <3>1, <4>1, <5>1, <5>2 DEF AtWork
      <4> QED BY <1>1, <1>4, <4>1, <4>2, StageHere
    <3> QED BY <3>4, <3>5
  <2> QED BY <1>4, <2>7, <2>8, <2>9, <2>10, <2>11, <2>12 DEF Hook, Allocate
<1> QED BY <1>2, <1>3, <1>4

\* What a call has met when it is through with the hooks of s behind the first i.
MetDown(s, i) == [k \in 1..(Len(s) - i) |-> s[(Len(s) + 1) - k]]

\* A call that is about to execute word p of what the first i hooks left: in the function,
\* or in the trampoline of the next one. Behind the first word only a far hook is met, whose
\* address is then in X17.
AtWord(c, f, s, i, p) ==
  /\ p = 1 \/ i = 0 \/ (p = 2 /\ s[i] \in far)
  /\ x17[c] = IF p = 1 \/ i = 0 THEN None ELSE s[i]
  /\ at[c] = IF i = Len(s) \/ (p > 1 /\ s[i + 1] \notin far) THEN Place("code", f, p)
             ELSE Place("entry", result[s[i + 1]], p)
  /\ call[c].met = MetDown(s, i)

\* A call in the proxy of the i-th hook.
AtProxy(c, s, i) ==
  i > 0 /\ at[c] = Place("proxy", s[i], 0) /\ x17[c] = None /\ call[c].met = MetDown(s, i)

\* A call that has ended, in the i-th hook or in the original.
AtEnd(c, s, i) ==
  /\ at[c] = End
  /\ i = 0 => call[c].met = Append(MetDown(s, 0), Original)
  /\ i > 0 => s[i] \notin wants /\ call[c].met = MetDown(s, i - 1)

\* A call of f is somewhere on the way through its hooks.
OnChain(c, f, s) ==
  \E i \in 0..Len(s) :
    /\ \A j \in i + 1..Len(s) : s[j] \in wants
    /\ (\E p \in Parts : AtWord(c, f, s, i, p)) \/ AtProxy(c, s, i) \/ AtEnd(c, s, i)

\* The calls that CallsChain is about.
Chained(c) == call[c].fn # None /\ call[c].calm /\ call[c].fn \notin mixed /\ ~FarAfterNear(call[c].fn)

ChainInv == \A c \in Callers : Chained(c) => OnChain(c, call[c].fn, order[call[c].fn])

-----------------------------------------------------------------------------
LEMMA MetShape ==
  ASSUME NEW S, NEW s \in Seq(S), NEW i \in 0..Len(s)
  PROVE  MetDown(s, i) \in Seq(S) /\ Len(MetDown(s, i)) = Len(s) - i
<1>1. Len(s) \in Nat /\ Len(s) - i \in Nat
  OBVIOUS
<1>2. \A k \in 1..(Len(s) - i) : s[(Len(s) + 1) - k] \in S
  OBVIOUS
<1> QED BY <1>1, <1>2 DEF MetDown

\* One more hook is met.
LEMMA MetNext ==
  ASSUME NEW S, NEW s \in Seq(S), NEW i \in 1..Len(s)
  PROVE  Append(MetDown(s, i), s[i]) = MetDown(s, i - 1)
<1>1. /\ MetDown(s, i) \in Seq(S) /\ Len(MetDown(s, i)) = Len(s) - i
      /\ MetDown(s, i - 1) \in Seq(S) /\ Len(MetDown(s, i - 1)) = Len(s) - i + 1
      /\ s[i] \in S /\ Len(s) \in Nat
  <2>1. i \in 0..Len(s) /\ i - 1 \in 0..Len(s) /\ Len(s) - (i - 1) = Len(s) - i + 1
    OBVIOUS
  <2>2. MetDown(s, i) \in Seq(S) /\ Len(MetDown(s, i)) = Len(s) - i
    BY <2>1, MetShape
  <2>3. MetDown(s, i - 1) \in Seq(S) /\ Len(MetDown(s, i - 1)) = Len(s) - (i - 1)
    BY <2>1, MetShape
  <2> QED BY <2>1, <2>2, <2>3
<1>2. /\ Append(MetDown(s, i), s[i]) \in Seq(S)
      /\ Len(Append(MetDown(s, i), s[i])) = Len(s) - i + 1
      /\ \A k \in 1..Len(s) - i : Append(MetDown(s, i), s[i])[k] = MetDown(s, i)[k]
      /\ Append(MetDown(s, i), s[i])[Len(s) - i + 1] = s[i]
  BY <1>1
<1>3. ASSUME NEW k \in 1..Len(s) - i + 1
      PROVE  Append(MetDown(s, i), s[i])[k] = MetDown(s, i - 1)[k]
  <2>1. MetDown(s, i - 1)[k] = s[(Len(s) + 1) - k]
    BY <1>1 DEF MetDown
  <2>2. CASE k \in 1..Len(s) - i
    <3>1. MetDown(s, i)[k] = s[(Len(s) + 1) - k]
      BY <1>1, <2>2 DEF MetDown
    <3> QED BY <1>2, <2>1, <2>2, <3>1
  <2>3. CASE k = Len(s) - i + 1
    <3>1. (Len(s) + 1) - k = i
      BY <1>1, <2>3
    <3> QED BY <1>2, <2>1, <2>3, <3>1
  <2> QED BY <1>1, <2>2, <2>3
<1> QED BY <1>1, <1>2, <1>3, SeqEqual

\* It is the hooks that were met, the last one first.
LEMMA MetReverse ==
  ASSUME NEW S, NEW s \in Seq(S), NEW i \in 1..Len(s) + 1
  PROVE  Reverse(SubSeq(s, i, Len(s))) = MetDown(s, i - 1)
<1>1. PICK t, n, m : t = SubSeq(s, i, Len(s)) /\ n = Len(s) /\ m = n - i + 1
  OBVIOUS
<1>2. n \in Nat /\ m \in Nat /\ Len(s) - (i - 1) = m /\ \A k \in i..n : s[k] \in S
  BY <1>1
<1>3. t \in Seq(S) /\ Len(t) = m /\ \A k \in 1..m : t[k] = s[i + k - 1]
  BY <1>1, <1>2, SubSeqProperties
<1>4. Reverse(t) = [k \in 1..m |-> t[(m - k) + 1]]
  BY <1>3 DEF Reverse
<1>5. MetDown(s, i - 1) = [k \in 1..m |-> s[(n + 1) - k]]
  BY <1>1, <1>2 DEF MetDown
<1>6. ASSUME NEW k \in 1..m PROVE t[(m - k) + 1] = s[(n + 1) - k]
  <2>1. (m - k) + 1 \in 1..m /\ i + ((m - k) + 1) - 1 = (n + 1) - k
    BY <1>1, <1>2
  <2> QED BY <1>3, <2>1
<1> QED BY <1>1, <1>4, <1>5, <1>6

-----------------------------------------------------------------------------
(* One word *)

\* What executing a word of what the first i hooks left comes to.
LEMMA Turn ==
  ASSUME ShapeInv, NEW c \in Callers, NEW s \in Seq(Hooks), NEW i \in 0..Len(s),
         NEW p \in Parts, p = 1 \/ i = 0 \/ (p = 2 /\ s[i] \in far),
         x17[c] = IF p = 1 \/ i = 0 THEN None ELSE s[i], NEW next,
         Executed(c, Word(s, far, i, p), p, Word(s, far, i, 3), next)
  PROVE  IF i = 0 \/ (p = 1 /\ s[i] \in far)
         THEN at'[c] = next /\ x17'[c] = IF i = 0 THEN None ELSE s[i]
         ELSE at'[c] = Place("proxy", s[i], 0) /\ x17'[c] = None
<1>1. i \in Nat /\ (i > 0 => s[i] \in Hooks /\ s[i] # Original)
  BY A64HookAssumption
<1>2. CASE i = 0
  <2>1. Word(s, far, i, p) = Original
    BY <1>2, LastFar DEF Word
  <2> QED BY <1>2, <2>1 DEF Executed, ShapeInv
<1>3. CASE i > 0 /\ s[i] \notin far
  <2>1. Word(s, far, i, p) = s[i] /\ p = 1
    BY <1>3 DEF Word
  <2> QED BY <1>1, <1>3, <2>1 DEF Executed, ShapeInv
<1>4. CASE i > 0 /\ s[i] \in far
  <2>1. Word(s, far, i, p) = s[i] /\ Word(s, far, i, 3) = s[i]
    BY <1>4, LastFar DEF Word
  <2>2. CASE p = 1
    BY <1>1, <1>4, <2>1, <2>2 DEF Executed, ShapeInv
  <2>3. CASE p # 1
    BY <1>1, <1>4, <2>1, <2>3 DEF Executed, ShapeInv
  <2> QED BY <2>2, <2>3
<1> QED BY <1>1, <1>2, <1>3, <1>4

\* It leads to the next word, to the next proxy or to the end.
LEMMA WordRuns ==
  ASSUME ShapeInv, NEW c \in Callers, NEW f, NEW s \in Seq(Hooks), NEW i \in 0..Len(s),
         NEW p \in Parts, AtWord(c, f, s, i, p), \A j \in i + 1..Len(s) : s[j] \in wants,
         NEW next,
         next = IF p = 3 THEN End
                ELSE IF i = Len(s) \/ s[i + 1] \notin far THEN Place("code", f, p + 1)
                ELSE Place("entry", result[s[i + 1]], p + 1),
         Executed(c, Word(s, far, i, p), p, Word(s, far, i, 3), next),
         call'[c].met = IF at'[c] = End THEN Append(call[c].met, Original) ELSE call[c].met,
         UNCHANGED <<far, wants, result>>
  PROVE  OnChain(c, f, s)'
<1> USE DEF AtWord
<1>0. Len(s) \in Nat /\ p \in {1, 2, 3}
  BY DEF Parts
<1>1. IF i = 0 \/ (p = 1 /\ s[i] \in far)
      THEN at'[c] = next /\ x17'[c] = IF i = 0 THEN None ELSE s[i]
      ELSE at'[c] = Place("proxy", s[i], 0) /\ x17'[c] = None
  BY Turn
<1>2. /\ p = 3 => next = End
      /\ p # 3 => next # End
      /\ Place("proxy", s[i], 0) # End
  BY DEF Place, End
<1>3. CASE i = 0 /\ p = 3
  <2>1. at'[c] = End
    BY <1>1, <1>2, <1>3
  <2>2. call'[c].met = Append(MetDown(s, 0), Original)
    BY <1>3, <2>1
  <2>3. AtEnd(c, s, 0)'
    BY <2>1, <2>2 DEF AtEnd, End, Place
  <2> QED BY <1>0, <1>3, <2>3 DEF OnChain
<1>4. CASE p # 3 /\ (i = 0 \/ (p = 1 /\ s[i] \in far))
  <2>1. at'[c] = next /\ call'[c].met = call[c].met /\ x17'[c] = IF i = 0 THEN None ELSE s[i]
    BY <1>1, <1>2, <1>4
  <2>2. p + 1 \in Parts /\ p + 1 > 1 /\ p + 1 # 1
    BY <1>0, <1>4 DEF Parts
  <2>3. AtWord(c, f, s, i, p + 1)'
    <3>1. (p + 1 = 1 \/ i = 0 \/ (p + 1 = 2 /\ s[i] \in far))'
      BY <1>0, <1>4
    <3>2. x17'[c] = IF p + 1 = 1 \/ i = 0 THEN None ELSE s[i]
      BY <2>1, <2>2
    <3>3. at'[c] = IF i = Len(s) \/ (p + 1 > 1 /\ s[i + 1] \notin far') THEN Place("code", f, p + 1)
                   ELSE Place("entry", result'[s[i + 1]], p + 1)
      BY <1>4, <2>1, <2>2
    <3>4. call'[c].met = MetDown(s, i)'
      BY <2>1
    <3> QED BY <3>1, <3>2, <3>3, <3>4 DEF Place
  <2> QED BY <2>2, <2>3 DEF OnChain
<1>5. CASE i # 0 /\ ~(p = 1 /\ s[i] \in far)
  <2>1. at'[c] = Place("proxy", s[i], 0) /\ call'[c].met = call[c].met /\ x17'[c] = None
    BY <1>1, <1>2, <1>5
  <2>2. AtProxy(c, s, i)'
    <3>1. (i > 0)'
      BY <1>0, <1>5
    <3>2. at'[c] = Place("proxy", s[i], 0)'
      BY <2>1 DEF Place
    <3>3. call'[c].met = MetDown(s, i)'
      BY <2>1
    <3> QED BY <2>1, <3>1, <3>2, <3>3 DEF AtProxy
  <2> QED BY <2>2 DEF OnChain
<1> QED BY <1>0, <1>3, <1>4, <1>5

ChainedInv == OrderInv /\ SoleInv /\ StageInv /\ CalmInv /\ ChainInv

-----------------------------------------------------------------------------
(* What the way through the hooks comes to *)

LEMMA ChainIs ==
  ASSUME NEW s \in Seq(Hooks), NEW i \in 0..Len(s), \A j \in i + 1..Len(s) : s[j] \in wants
  PROVE  /\ i = 0 => Chain(s) = Append(MetDown(s, 0), Original)
         /\ i > 0 /\ s[i] \notin wants => Chain(s) = MetDown(s, i - 1)
         /\ Len(s) - i <= Len(Chain(s))
<1> DEFINE ends == {k \in 1..Len(s) : s[k] \notin wants}
           last == CHOOSE k \in ends : \A j \in ends : j <= k
<1>0. Len(s) \in Nat
  OBVIOUS
<1>1. CASE ends = {}
  <2>1. Chain(s) = Append(Reverse(SubSeq(s, 1, Len(s))), Original)
    BY <1>1 DEF Chain
  <2>2. Reverse(SubSeq(s, 1, Len(s))) = MetDown(s, 0)
    <3>1. 1 \in 1..Len(s) + 1 /\ 1 - 1 = 0
      BY <1>0
    <3> QED BY <3>1, MetReverse
  <2>3. MetDown(s, 0) \in Seq(Hooks) /\ Len(MetDown(s, 0)) = Len(s)
    <3>1. 0 \in 0..Len(s)
      BY <1>0
    <3> QED BY <1>0, <3>1, MetShape
  <2>4. Len(Append(MetDown(s, 0), Original)) = Len(s) + 1
    BY <2>3
  <2>5. i > 0 => s[i] \in wants
    BY <1>0, <1>1
  <2> QED BY <1>0, <2>1, <2>2, <2>4, <2>5
<1>2. CASE ends # {}
  <2>1. last \in ends /\ \A j \in ends : j <= last
    <3>1. ends \in SUBSET (1..Len(s))
      OBVIOUS
    <3>2. Max(ends) \in ends /\ \A j \in ends : Max(ends) >= j
      BY <1>0, <1>2, <3>1, Greatest
    <3>3. Max(ends) \in Nat /\ ends \subseteq Nat
      BY <3>1, <3>2
    <3>4. \A j \in ends : j <= Max(ends)
      BY <3>2, <3>3
    <3> HIDE DEF ends
    <3> QED BY <3>2, <3>4
  <2>2. PICK m \in 1..Len(s) : m = last
    BY <2>1
  <2>3. Chain(s) = Reverse(SubSeq(s, m, Len(s)))
    BY <1>2, <2>2 DEF Chain
  <2>4. m - 1 \in 0..Len(s) /\ m \in 1..Len(s) + 1 /\ Len(s) - (m - 1) = Len(s) - m + 1
    BY <1>0
  <2>5. Chain(s) = MetDown(s, m - 1) /\ Len(MetDown(s, m - 1)) = Len(s) - m + 1
    BY <2>3, <2>4, MetReverse, MetShape
  <2>6. s[m] \notin wants /\ \A j \in 1..Len(s) : s[j] \notin wants => j <= m
    <3> HIDE DEF last
    <3> QED BY <2>1, <2>2
  <2>7. m <= i /\ i > 0
    BY <1>0, <2>6
  <2>8. s[i] \notin wants => m = i
    BY <1>0, <2>6, <2>7
  <2> QED BY <1>0, <2>5, <2>7, <2>8
<1> QED BY <1>1, <1>2

\* A call on its way ends where the chain says.
LEMMA WayEnds ==
  ASSUME NEW c \in Callers, NEW f, NEW s \in Seq(Hooks), OnChain(c, f, s)
  PROVE  /\ at[c] # Wild
         /\ Len(call[c].met) <= Len(Chain(s))
         /\ at[c] = End => call[c].met = Chain(s)
<1>1. PICK i \in 0..Len(s) :
        /\ \A j \in i + 1..Len(s) : s[j] \in wants
        /\ (\E p \in Parts : AtWord(c, f, s, i, p)) \/ AtProxy(c, s, i) \/ AtEnd(c, s, i)
  BY DEF OnChain
<1>2. /\ i = 0 => Chain(s) = Append(MetDown(s, 0), Original)
      /\ i > 0 /\ s[i] \notin wants => Chain(s) = MetDown(s, i - 1)
      /\ Len(s) - i <= Len(Chain(s))
  BY <1>1, ChainIs
<1>3. /\ \A in, of, part : Place(in, of, part).in = in
      /\ Wild.in = "wild" /\ End.in = "end"
  BY DEF Wild, End, Place
<1>4. Len(MetDown(s, i)) = Len(s) - i
  BY MetShape
<1>5. CASE (\E p \in Parts : AtWord(c, f, s, i, p)) \/ AtProxy(c, s, i)
  <2>1. at[c].in \in {"code", "entry", "proxy"} /\ call[c].met = MetDown(s, i)
    BY <1>3, <1>5 DEF AtWord, AtProxy
  <2> QED BY <1>2, <1>3, <1>4, <2>1
<1>6. CASE AtEnd(c, s, i)
  <2>1. call[c].met = Chain(s)
    <3>1. i = 0 \/ i > 0
      OBVIOUS
    <3> QED BY <1>2, <1>6, <3>1 DEF AtEnd
  <2>2. Len(Chain(s)) \in Nat
    <3>1. MetDown(s, 0) \in Seq(Hooks)
      BY MetShape
    <3>2. i > 0 => MetDown(s, i - 1) \in Seq(Hooks)
      <4>1. i > 0 => i - 1 \in 0..Len(s)
        OBVIOUS
      <4> QED BY <4>1, MetShape
    <3>3. i > 0 => s[i] \notin wants
      BY <1>6 DEF AtEnd
    <3>4. Len(Append(MetDown(s, 0), Original)) \in Nat
      BY <3>1
    <3> QED BY <1>2, <3>2, <3>3, <3>4
  <2> QED BY <1>3, <1>6, <2>1, <2>2 DEF AtEnd
<1> QED BY <1>1, <1>5, <1>6

-----------------------------------------------------------------------------
(* The steps of a hook *)

\* The calls, as a hook sees them.
LEMMA CallsLeft ==
  ASSUME IInv, ShapeInv, NEW h \in Hooks, Hook(h)
  PROVE  /\ at' = at /\ x17' = x17
         /\ \A c \in Callers :
              /\ call'[c].fn = call[c].fn /\ call'[c].expect = call[c].expect
              /\ call'[c].met = call[c].met
              /\ call'[c].calm => call[c].calm /\ (pc[h] = "idle" => target'[h] # call[c].fn)
<1>1. at' = at /\ x17' = x17
  BY DEF Hook, Allocate, Fill, Protect, ProtectFails, ReadOld, Swap, Write, callVars
<1>2. CASE \E f \in Functions, isFar, wanted \in BOOLEAN : Allocate(h, f, isFar, wanted)
  <2>1. PICK f \in Functions :
          /\ target' = [target EXCEPT ![h] = f]
          /\ call' = [c \in Callers |->
                        IF call[c].fn = f THEN [call[c] EXCEPT !.calm = FALSE] ELSE call[c]]
    BY <1>2 DEF Allocate
  <2>2. target'[h] = f
    BY <2>1 DEF IInv, TypeOK
  <2>3. ASSUME NEW c \in Callers
        PROVE  /\ call'[c].fn = call[c].fn /\ call'[c].expect = call[c].expect
               /\ call'[c].met = call[c].met
               /\ call'[c].calm => call[c].calm /\ f # call[c].fn
    <3>1. CASE call[c].fn = f
      <4>1. call'[c] = [call[c] EXCEPT !.calm = FALSE]
        BY <2>1, <3>1
      <4>2. call[c] = [fn |-> call[c].fn, calm |-> call[c].calm,
                       expect |-> call[c].expect, met |-> call[c].met]
        BY DEF ShapeInv
      <4>3. call'[c] = [fn |-> call[c].fn, calm |-> FALSE,
                       expect |-> call[c].expect, met |-> call[c].met]
        BY <4>1, <4>2
      <4> QED BY <4>3
    <3>2. CASE call[c].fn # f
      BY <2>1, <3>2
    <3> QED BY <3>1, <3>2
  <2> QED BY <1>1, <2>2, <2>3
<1>3. CASE ~\E f \in Functions, isFar, wanted \in BOOLEAN : Allocate(h, f, isFar, wanted)
  <2>1. call' = call /\ pc[h] # "idle"
    BY <1>3 DEF Hook, Fill, Step, Protect, ProtectFails, ReadOld, Swap, Write
  <2> QED BY <1>1, <2>1
<1> QED BY <1>2, <1>3

\* Where a call is on its way depends on the hooks of its function alone.
LEMMA WayStays ==
  ASSUME NEW c \in Callers, NEW f, NEW s \in Seq(Hooks),
         at'[c] = at[c], x17'[c] = x17[c], call'[c].met = call[c].met,
         \A j \in 1..Len(s) : /\ s[j] \in far' <=> s[j] \in far
                              /\ s[j] \in wants' <=> s[j] \in wants
                              /\ result'[s[j]] = result[s[j]],
         OnChain(c, f, s)
  PROVE  OnChain(c, f, s)'
<1>1. PICK i \in 0..Len(s) :
        /\ \A j \in i + 1..Len(s) : s[j] \in wants
        /\ (\E p \in Parts : AtWord(c, f, s, i, p)) \/ AtProxy(c, s, i) \/ AtEnd(c, s, i)
  BY DEF OnChain
<1>2. /\ i \in Nat /\ Len(s) \in Nat
      /\ i > 0 => i \in 1..Len(s)
      /\ i # Len(s) => i + 1 \in 1..Len(s)
      /\ \A j \in i + 1..Len(s) : j \in 1..Len(s)
  OBVIOUS
<1>3. \A j \in i + 1..Len(s) : s[j] \in wants'
  BY <1>1, <1>2
<1>4. ASSUME NEW p \in Parts, AtWord(c, f, s, i, p) PROVE AtWord(c, f, s, i, p)'
  <2>1. (p = 1 \/ i = 0 \/ (p = 2 /\ s[i] \in far))'
    BY <1>2, <1>4 DEF AtWord
  <2>2. x17'[c] = IF p = 1 \/ i = 0 THEN None ELSE s[i]
    BY <1>4 DEF AtWord
  <2>3. at'[c] = IF i = Len(s) \/ (p > 1 /\ s[i + 1] \notin far') THEN Place("code", f, p)
                 ELSE Place("entry", result'[s[i + 1]], p)
    BY <1>2, <1>4 DEF AtWord
  <2>4. call'[c].met = MetDown(s, i)'
    BY <1>4 DEF AtWord
  <2> QED BY <2>1, <2>2, <2>3, <2>4 DEF AtWord, Place
<1>5. ASSUME AtProxy(c, s, i) PROVE AtProxy(c, s, i)'
  <2>1. at'[c] = Place("proxy", s[i], 0)'
    BY <1>5 DEF AtProxy, Place
  <2>2. call'[c].met = MetDown(s, i)'
    BY <1>5 DEF AtProxy
  <2> QED BY <1>5, <2>1, <2>2 DEF AtProxy
<1>6. ASSUME AtEnd(c, s, i) PROVE AtEnd(c, s, i)'
  BY <1>2, <1>6 DEF AtEnd, End, Place
<1> QED BY <1>1, <1>3, <1>4, <1>5, <1>6 DEF OnChain

\* Beside a call that stays calm the hook works on other functions.
LEMMA CalmElsewhere ==
  ASSUME IInv, ShapeInv, OrderInv, CalmInv, NEW h \in Hooks, Hook(h),
         NEW c \in Callers, NEW f \in Functions, call[c].fn = f, f # None,
         call'[c].calm
  PROVE  /\ call[c].calm /\ UnderWay(f) = {} /\ UnderWay(f)' = {}
         /\ order'[f] = order[f] /\ order[f] = call[c].expect
<1>1. call[c].calm /\ (pc[h] = "idle" => target'[h] # f)
  BY CallsLeft
<1>2. UnderWay(f) = {} /\ order[f] = call[c].expect
  BY <1>1 DEF CalmInv
<1>3. pc[h] # "idle" => target'[h] # f /\ target[h] # f
  <2>1. pc[h] # "idle" => target' = target /\ pc[h] # "done"
    BY HookLeaves, HookWrites
  <2> QED BY <1>2, <2>1 DEF UnderWay
<1>4. UnderWay(f)' = {}
  <2>1. \A g \in Hooks : g # h => pc'[g] = pc[g] /\ target'[g] = target[g]
    BY HookLeaves
  <2> QED BY <1>1, <1>2, <1>3, <2>1 DEF UnderWay
<1>5. order'[f] = order[f]
  BY <1>3, HookWrites
<1> QED BY <1>1, <1>2, <1>4, <1>5

\* Far hooks behind near ones, among hooks that are complete.
LEMMA FarSame ==
  ASSUME NEW f, NEW s \in Seq(Hooks), order[f] = s, order'[f] = s,
         \A j \in 1..Len(s) : s[j] \in far' <=> s[j] \in far
  PROVE  FarAfterNear(f)' <=> FarAfterNear(f)
BY DEF FarAfterNear

LEMMA ChainKeptByHook ==
  ASSUME IInv, ShapeInv, OrderInv, CalmInv, ChainInv, NEW h \in Hooks, Hook(h)
  PROVE  CalmInv' /\ ChainInv'
<1>1. ASSUME NEW c \in Callers, call'[c].fn # None, call'[c].calm
      PROVE  /\ UnderWay(call[c].fn)' = {} /\ order'[call'[c].fn] = call'[c].expect
             /\ Chained(c)' => OnChain(c, call[c].fn, order[call[c].fn])'
  <2>1. PICK f : f = call[c].fn /\ f = call'[c].fn
    BY CallsLeft
  <2>2. f \in Functions /\ f # None
    BY <1>1, <2>1 DEF ShapeInv
  <2>3. /\ call[c].calm /\ UnderWay(f) = {} /\ UnderWay(f)' = {}
        /\ order'[f] = order[f] /\ order[f] = call[c].expect
    BY <1>1, <2>1, <2>2, CalmElsewhere
  <2>4. PICK s \in Seq(Hooks) : s = order[f]
    BY <2>2 DEF OrderInv
  <2>5. ASSUME NEW j \in 1..Len(s)
        PROVE  /\ s[j] \in far' <=> s[j] \in far
               /\ s[j] \in wants' <=> s[j] \in wants
               /\ result'[s[j]] = result[s[j]]
    <3>1. s[j] \in Hooks /\ pc[s[j]] = "done"
      BY <2>2, <2>4 DEF OrderInv
    <3>2. s[j] # h
      BY <3>1, HookWrites
    <3> QED BY <3>1, <3>2, HookLeaves
  <2>6. ASSUME Chained(c)' PROVE OnChain(c, f, s)'
    <3>1. FarAfterNear(f)' <=> FarAfterNear(f)
      BY <2>3, <2>4, <2>5, FarSame
    <3>2. call'[c].fn \notin mixed' /\ ~FarAfterNear(call[c].fn)'
      BY <2>6 DEF Chained
    <3>3. f \notin mixed /\ ~FarAfterNear(f)'
      <4>1. mixed \subseteq mixed'
        BY HookWrites
      <4> QED BY <2>1, <3>2, <4>1 DEF FarAfterNear
    <3>4. Chained(c)
      BY <2>1, <2>2, <2>3, <3>1, <3>3 DEF Chained
    <3>5. OnChain(c, f, s)
      BY <2>1, <2>4, <3>4 DEF ChainInv
    <3> QED BY <2>5, <3>5, CallsLeft, WayStays
  <2>7. UnderWay(call[c].fn)' = {}
    BY <2>1, <2>3 DEF UnderWay
  <2>8. order'[call'[c].fn] = call'[c].expect
    BY <2>1, <2>3, CallsLeft
  <2>9. Chained(c)' => OnChain(c, call[c].fn, order[call[c].fn])'
    <3>1. call'[c].fn = f /\ order'[call'[c].fn] = s
      BY <2>1, <2>3, <2>4
    <3> QED BY <2>6, <3>1 DEF OnChain, AtWord, AtProxy, AtEnd
  <2> QED BY <2>7, <2>8, <2>9
<1>2. CalmInv'
  BY <1>1 DEF CalmInv
<1>3. ChainInv'
  <2> SUFFICES ASSUME NEW c \in Callers, Chained(c)'
               PROVE  OnChain(c, call[c].fn, order[call[c].fn])'
    BY DEF ChainInv
  <2>1. call'[c].fn # None /\ call'[c].calm
    BY DEF Chained
  <2> QED BY <1>1, <2>1
<1> QED BY <1>2, <1>3

\* The function as a call finds it that nothing is hooked beside.
LEMMA CalmWords ==
  ASSUME NEW f \in Functions \ mixed, StageInv, UnderWay(f) = {}, ~FarAfterNear(f),
         NEW s \in Seq(Hooks), s = order[f], NEW i \in 0..Len(s), NEW p \in Parts,
         i = Len(s) \/ (p > 1 /\ s[i + 1] \notin far)
  PROVE  code[f][p] = Word(s, far, i, p) /\ code[f][3] = Word(s, far, i, 3)
<1>0. Len(s) \in Nat /\ i \in Nat /\ 3 \in Parts
  BY DEF Parts
<1>1. \A q \in Parts : code[f][q] = Word(s, far, Len(s), q)
  BY DEF StageInv, Stage, WordOf
<1>2. CASE i = Len(s)
  BY <1>0, <1>1, <1>2
<1>3. CASE i # Len(s) /\ p > 1 /\ s[i + 1] \notin far
  <2>1. \A j \in i + 1..Len(s) : s[j] \notin far
    BY <1>0, <1>3 DEF FarAfterNear
  <2>2. Behind(s, far, Len(s)) = Behind(s, far, i)
    BY <1>0, <2>1, NearAfter
  <2> QED BY <1>0, <1>1, <1>3, <2>2 DEF Word
<1> QED BY <1>2, <1>3

\* A trampoline as a call finds it.
LEMMA CalmEntry ==
  ASSUME IInv, NearInv, OrderInv, StageInv, NEW f \in Functions \ mixed,
         NEW s \in Seq(Hooks), s = order[f], NEW i \in 0..Len(s) - 1, s[i + 1] \in wants
  PROVE  LET e == pool[result[s[i + 1]]]
         IN  /\ e # None /\ e.fn = f
             /\ e.count = IF s[i + 1] \in far THEN 3 ELSE 1
             /\ e.literal = Word(s, far, i, 3)
             /\ \A p \in Parts : e.code[p] = Word(s, far, i, p)
<1>1. PICK g : g = s[i + 1]
  OBVIOUS
<1>2. i + 1 \in 1..Len(s) /\ (i + 1) - 1 = i
  OBVIOUS
<1>3. g \in Hooks /\ pc[g] = "done" /\ Owner(f, g) /\ Filled(g) /\ g \in wants /\ target[g] = f
  BY <1>1, <1>2 DEF OrderInv, Owner
<1>4. Holds(g, f, i)
  BY <1>1, <1>2, <1>3 DEF StageInv, Stage
<1>5. pool[entry[g]] \in Copies /\ pool[entry[g]].fn = f /\ result[g] = entry[g]
  BY <1>3 DEF Filled
<1>6. pool[entry[g]].count = IF g \in far THEN 3 ELSE 1
  <2>1. pool[entry[g]].count = Cardinality(PartsOf(g))
    BY <1>3 DEF NearInv, TrampolineInv
  <2>2. Cardinality({1}) = 1
    BY FS_Singleton
  <2>3. Cardinality(1..3) = 3
    <3>1. Cardinality(1..3) = 3 - 1 + 1
      BY FS_Interval, 1 \in Int, 3 \in Int, ~(1 > 3)
    <3> QED BY <3>1
  <2> QED BY <2>1, <2>2, <2>3 DEF PartsOf, Parts
<1> QED BY <1>1, <1>4, <1>5, <1>6, CopiesAssumption DEF Holds, WordOf

\* What a caller leaves alone.
LEMMA CallerMoves ==
  ASSUME ShapeInv, NEW c \in Callers, Caller(c)
  PROVE  /\ UNCHANGED <<hookVars, code, pool, order, mixed>>
         /\ \A d \in Callers : d # c => at'[d] = at[d] /\ x17'[d] = x17[d] /\ call'[d] = call[d]
<1>1. UNCHANGED <<hookVars, code, pool, order, mixed>>
  BY DEF Caller, Call, RunCode, RunEntry, RunProxy
<1> SUFFICES ASSUME NEW d \in Callers, d # c
             PROVE  at'[d] = at[d] /\ x17'[d] = x17[d] /\ call'[d] = call[d]
  BY <1>1
<1> USE DEF ShapeInv
<1>2. CASE \E f \in Functions : Call(c, f)
  BY <1>2 DEF Call
<1>3. CASE RunCode(c)
  BY <1>3 DEF RunCode, Executed
<1>4. CASE RunEntry(c)
  BY <1>4 DEF RunEntry, Executed
<1>5. CASE RunProxy(c)
  BY <1>5 DEF RunProxy
<1> QED BY <1>2, <1>3, <1>4, <1>5 DEF Caller

\* A call that goes on is the call it was.
LEMMA CallGoesOn ==
  ASSUME ShapeInv, NEW c \in Callers, NEW w,
         call' = call \/ call' = [call EXCEPT ![c].met = Append(@, w)]
  PROVE  /\ call'[c].fn = call[c].fn /\ call'[c].calm = call[c].calm
         /\ call'[c].expect = call[c].expect
         /\ call' # call => call'[c].met = Append(call[c].met, w)
BY DEF ShapeInv

LEMMA CodeOnChain ==
  ASSUME IInv, NearInv, OrderInv, StageInv, NEW c \in Callers,
         NEW f \in Functions \ mixed, UnderWay(f) = {}, ~FarAfterNear(f),
         NEW s \in Seq(Hooks), s = order[f], OnChain(c, f, s), RunCode(c)
  PROVE  OnChain(c, f, s)'
<1>1. \A in, of, part : /\ Place(in, of, part).in = in /\ Place(in, of, part).of = of
                        /\ Place(in, of, part).part = part
  BY DEF Place
<1>2. at[c].in = "code"
  BY DEF RunCode
<1>3. PICK i \in 0..Len(s), p \in Parts :
        AtWord(c, f, s, i, p) /\ \A j \in i + 1..Len(s) : s[j] \in wants
  BY <1>1, <1>2 DEF OnChain, AtProxy, AtEnd, End
<1>4. i = Len(s) \/ (p > 1 /\ s[i + 1] \notin far)
  BY <1>1, <1>2, <1>3 DEF AtWord
<1>5. at[c].of = f /\ at[c].part = p
  BY <1>1, <1>3, <1>4 DEF AtWord
<1>6. code[f][p] = Word(s, far, i, p) /\ code[f][3] = Word(s, far, i, 3)
  BY <1>4, CalmWords
<1>7. PICK next : next = IF p = 3 THEN End ELSE Place("code", f, p + 1)
  OBVIOUS
<1>8. Executed(c, Word(s, far, i, p), p, Word(s, far, i, 3), next)
  BY <1>5, <1>6, <1>7 DEF RunCode
<1>9. call'[c].met = IF at'[c] = End THEN Append(call[c].met, Original) ELSE call[c].met
  BY DEF RunCode, NearInv, ShapeInv
<1>10. /\ next = IF p = 3 THEN End
                 ELSE IF i = Len(s) \/ s[i + 1] \notin far THEN Place("code", f, p + 1)
                 ELSE Place("entry", result[s[i + 1]], p + 1)
       /\ UNCHANGED <<far, wants, result>>
  BY <1>4, <1>7 DEF RunCode, hookVars
<1> QED BY <1>3, <1>8, <1>9, <1>10, WordRuns DEF NearInv

LEMMA EntryOnChain ==
  ASSUME IInv, NearInv, OrderInv, StageInv, NEW c \in Callers,
         NEW f \in Functions \ mixed, UnderWay(f) = {}, ~FarAfterNear(f),
         NEW s \in Seq(Hooks), s = order[f], OnChain(c, f, s), RunEntry(c)
  PROVE  OnChain(c, f, s)'
<1>1. \A in, of, part : /\ Place(in, of, part).in = in /\ Place(in, of, part).of = of
                        /\ Place(in, of, part).part = part
  BY DEF Place
<1>2. at[c].in = "entry"
  BY DEF RunEntry
<1>3. PICK i \in 0..Len(s), p \in Parts :
        AtWord(c, f, s, i, p) /\ \A j \in i + 1..Len(s) : s[j] \in wants
  BY <1>1, <1>2 DEF OnChain, AtProxy, AtEnd, End
<1>4. i # Len(s) /\ ~(p > 1 /\ s[i + 1] \notin far)
  BY <1>1, <1>2, <1>3 DEF AtWord
<1>5. PICK g : g = result[s[i + 1]]
  OBVIOUS
<1>6. at[c].of = g /\ at[c].part = p
  BY <1>1, <1>3, <1>4, <1>5 DEF AtWord
<1>7. i \in 0..Len(s) - 1 /\ s[i + 1] \in wants /\ p \in {1, 2, 3}
  BY <1>3, <1>4 DEF Parts
<1>8. /\ pool[g] # None /\ pool[g].fn = f
      /\ pool[g].count = IF s[i + 1] \in far THEN 3 ELSE 1
      /\ pool[g].literal = Word(s, far, i, 3) /\ pool[g].code[p] = Word(s, far, i, p)
  BY <1>5, <1>7, CalmEntry
<1>9. PICK next : next = IF p < pool[g].count THEN Place("entry", g, p + 1)
                         ELSE IF p = 3 THEN End ELSE Place("code", pool[g].fn, p + 1)
  OBVIOUS
<1>10. Executed(c, Word(s, far, i, p), p, Word(s, far, i, 3), next)
  BY <1>6, <1>8, <1>9 DEF RunEntry
<1>11. call'[c].met = IF at'[c] = End THEN Append(call[c].met, Original) ELSE call[c].met
  BY DEF RunEntry, NearInv, ShapeInv
<1>12. next = IF p = 3 THEN End
              ELSE IF i = Len(s) \/ s[i + 1] \notin far THEN Place("code", f, p + 1)
              ELSE Place("entry", result[s[i + 1]], p + 1)
  BY <1>4, <1>5, <1>7, <1>8, <1>9
<1>13. UNCHANGED <<far, wants, result>>
  BY DEF RunEntry, hookVars
<1> QED BY <1>3, <1>10, <1>11, <1>12, <1>13, WordRuns DEF NearInv

LEMMA ProxyOnChain ==
  ASSUME IInv, NearInv, OrderInv, NEW c \in Callers, NEW f \in Functions,
         NEW s \in Seq(Hooks), s = order[f], OnChain(c, f, s), RunProxy(c)
  PROVE  OnChain(c, f, s)'
<1>1. \A in, of, part : /\ Place(in, of, part).in = in /\ Place(in, of, part).of = of
                        /\ Place(in, of, part).part = part
  BY DEF Place
<1>2. at[c].in = "proxy"
  BY DEF RunProxy
<1>3. PICK i \in 0..Len(s) :
        /\ \A j \in i + 1..Len(s) : s[j] \in wants
        /\ AtProxy(c, s, i)
  BY <1>1, <1>2 DEF OnChain, AtWord, AtEnd, End
<1>4. PICK h : h = s[i] /\ i \in 1..Len(s)
  BY <1>3 DEF AtProxy
<1>5. at[c].of = h /\ h \in Hooks /\ Owner(f, h)
  BY <1>1, <1>3, <1>4 DEF AtProxy, OrderInv
<1>6. /\ at'[c] = IF result[h] = None THEN End ELSE Place("entry", result[h], 1)
      /\ x17'[c] = None
      /\ call'[c].met = Append(call[c].met, h)
      /\ UNCHANGED <<far, wants, result>>
  BY <1>3, <1>5 DEF RunProxy, NearInv, ShapeInv, hookVars, AtProxy
<1>7. call'[c].met = MetDown(s, i - 1)
  BY <1>3, <1>4, <1>6, MetNext DEF AtProxy
<1>8. CASE result[h] = None
  <2>1. h \notin wants
    BY <1>5, <1>8, A64HookAssumption DEF Owner, Filled, Pool
  <2>2. AtEnd(c, s, i)'
    <3>1. at'[c] = End' /\ s[i] \notin wants'
      BY <1>4, <1>6, <1>8, <2>1 DEF End, Place
    <3>2. call'[c].met = MetDown(s, i - 1)' /\ i > 0
      BY <1>4, <1>7
    <3> QED BY <3>1, <3>2 DEF AtEnd
  <2> QED BY <1>3, <1>6, <2>2 DEF OnChain
<1>9. CASE result[h] # None
  <2>1. h \in wants
    BY <1>5, <1>9 DEF NearInv, PlainInv
  <2>2. /\ i - 1 \in 0..Len(s) /\ (i - 1) + 1 = i /\ i - 1 # Len(s) /\ 1 \in Parts
        /\ \A j \in (i - 1) + 1..Len(s) : j = i \/ j \in i + 1..Len(s)
    BY <1>4 DEF Parts
  <2>3. AtWord(c, f, s, i - 1, 1)'
    <3>1. at'[c] = Place("entry", result[s[(i - 1) + 1]], 1)'
      BY <1>4, <1>6, <1>9, <2>2 DEF Place
    <3>2. call'[c].met = MetDown(s, i - 1)' /\ x17'[c] = None
      BY <1>6, <1>7
    <3> QED BY <2>2, <3>1, <3>2 DEF AtWord
  <2>4. \A j \in (i - 1) + 1..Len(s) : s[j] \in wants'
    BY <1>3, <1>4, <1>6, <2>1, <2>2
  <2> QED BY <2>2, <2>3, <2>4 DEF OnChain
<1> QED BY <1>8, <1>9

LEMMA CallOnChain ==
  ASSUME NearInv, OrderInv, NEW c \in Callers, NEW f \in Functions, Call(c, f),
         NEW s \in Seq(Hooks), s = order[f]
  PROVE  OnChain(c, f, s)'
<1>1. /\ at'[c] = Place("code", f, 1) /\ x17'[c] = None /\ call'[c].met = <<>>
  BY DEF Call, NearInv, CallsInv, ShapeInv
<1>2. Len(s) \in Nat /\ Len(s) \in 0..Len(s) /\ 1 \in Parts
  BY DEF Parts
<1>3. MetDown(s, Len(s)) = <<>>
  <2>1. PICK n \in 0..Len(s) : n = Len(s)
    BY <1>2
  <2>2. MetDown(s, n) \in Seq(Hooks) /\ Len(MetDown(s, n)) = Len(s) - n
    BY MetShape
  <2>3. Len(MetDown(s, n)) = 0
    BY <1>2, <2>1, <2>2
  <2> QED BY <2>1, <2>2, <2>3, EmptySeq
<1>4. AtWord(c, f, s, Len(s), 1)'
  <2>1. at'[c] = Place("code", f, 1)'
    BY <1>1 DEF Place
  <2>2. call'[c].met = MetDown(s, Len(s))'
    BY <1>1, <1>3
  <2> QED BY <1>1, <2>1, <2>2 DEF AtWord
<1> QED BY <1>2, <1>4 DEF OnChain

LEMMA ChainKeptByCaller ==
  ASSUME IInv, NearInv, OrderInv, StageInv, CalmInv, ChainInv, NEW c \in Callers, Caller(c)
  PROVE  CalmInv' /\ ChainInv'
<1>1. /\ UNCHANGED <<hookVars, code, pool, order, mixed>>
      /\ \A d \in Callers : d # c => at'[d] = at[d] /\ x17'[d] = x17[d] /\ call'[d] = call[d]
  BY CallerMoves DEF NearInv
<1>2. UNCHANGED <<pc, target, far, wants, result>>
  BY <1>1 DEF hookVars
<1>3. ASSUME NEW d \in Callers, call'[d].fn = call[d].fn, call'[d].calm = call[d].calm
      PROVE  Chained(d)' <=> Chained(d)
  BY <1>1, <1>2, <1>3 DEF Chained, FarAfterNear
<1>4. ASSUME NEW d \in Callers, call'[d].fn # None, call'[d].calm
      PROVE  /\ UnderWay(call[d].fn)' = {} /\ order'[call'[d].fn] = call'[d].expect
             /\ Chained(d)' => OnChain(d, call[d].fn, order[call[d].fn])'
  <2>1. PICK f : f = call'[d].fn
    OBVIOUS
  <2>2. CASE d = c /\ Call(c, f)
    <3>1. call'[c] = [fn |-> f, calm |-> UnderWay(f) = {}, expect |-> order[f], met |-> <<>>]
      BY <2>2 DEF Call, NearInv, ShapeInv
    <3>2. UnderWay(f) = {}
      <4>1. call'[c].calm = (UnderWay(f) = {})
        BY <3>1
      <4> QED BY <1>4, <2>2, <4>1
    <3>3. f \in Functions
      BY CallsKeptByCaller, <1>4, <2>1 DEF NearInv, ShapeInv
    <3>4. PICK s \in Seq(Hooks) : s = order[f]
      BY <3>3 DEF OrderInv
    <3>5. OnChain(c, f, s)'
      BY <2>2, <3>3, <3>4, CallOnChain
    <3>6. order'[call'[d].fn] = s /\ call'[d].expect = s
      BY <1>1, <2>1, <2>2, <3>1, <3>4
    <3>7. UnderWay(call[d].fn)' = {}
      BY <1>2, <2>1, <3>2 DEF UnderWay
    <3> QED BY <2>1, <2>2, <3>5, <3>6, <3>7 DEF OnChain, AtWord, AtProxy, AtEnd
  <2>3. CASE d # c \/ RunCode(c) \/ RunEntry(c) \/ RunProxy(c)
    <3>1. /\ call'[d].fn = call[d].fn /\ call'[d].calm = call[d].calm
          /\ call'[d].expect = call[d].expect
      <4>1. CASE d # c
        BY <1>1, <4>1
      <4>2. CASE d = c /\ (RunCode(c) \/ RunEntry(c))
        BY <4>2, CallGoesOn DEF RunCode, RunEntry, NearInv
      <4>3. CASE d = c /\ RunProxy(c)
        <5>1. PICK w : w = at[c].of
          OBVIOUS
        <5> QED BY <4>3, <5>1, CallGoesOn DEF RunProxy, NearInv
      <4> QED BY <2>3, <4>1, <4>2, <4>3
    <3>2. UnderWay(f) = {} /\ order[f] = call[d].expect
      BY <1>4, <2>1, <3>1 DEF CalmInv
    <3>3. UnderWay(call[d].fn)' = {} /\ order'[call'[d].fn] = call'[d].expect
      BY <1>1, <1>2, <2>1, <3>1, <3>2 DEF UnderWay
    <3>4. ASSUME Chained(d)' PROVE OnChain(d, call[d].fn, order[call[d].fn])'
      <4>1. Chained(d) /\ f = call[d].fn
        BY <1>3, <2>1, <3>1, <3>4
      <4>2. f \in Functions \ mixed /\ ~FarAfterNear(f)
        BY <4>1 DEF NearInv, ShapeInv, Chained
      <4>3. PICK s \in Seq(Hooks) : s = order[f]
        BY <4>2 DEF OrderInv
      <4>4. OnChain(d, f, s)
        BY <4>1, <4>3 DEF ChainInv
      <4>5. OnChain(d, f, s)'
        <5>1. CASE d # c
          BY <1>1, <1>2, <4>4, <5>1, WayStays
        <5>2. CASE d = c /\ RunCode(c)
          BY <3>2, <4>2, <4>3, <4>4, <5>2, CodeOnChain
        <5>3. CASE d = c /\ RunEntry(c)
          BY <3>2, <4>2, <4>3, <4>4, <5>3, EntryOnChain
        <5>4. CASE d = c /\ RunProxy(c)
          BY <4>2, <4>3, <4>4, <5>4, ProxyOnChain
        <5> QED BY <2>3, <5>1, <5>2, <5>3, <5>4
      <4>6. call'[d].fn = f /\ order'[call'[d].fn] = s
        BY <1>1, <2>1, <4>3
      <4> QED BY <4>5, <4>6 DEF OnChain, AtWord, AtProxy, AtEnd
    <3> QED BY <3>3, <3>4
  <2>4. d # c \/ RunCode(c) \/ RunEntry(c) \/ RunProxy(c) \/ (d = c /\ Call(c, f))
    <3>1. ASSUME NEW k \in Functions, Call(c, k), d = c PROVE k = f
      BY <2>1, <3>1 DEF Call, NearInv, ShapeInv
    <3> QED BY <3>1 DEF Caller
  <2> QED BY <2>2, <2>3, <2>4
<1>5. CalmInv'
  BY <1>4 DEF CalmInv
<1>6. ChainInv'
  <2> SUFFICES ASSUME NEW d \in Callers, Chained(d)'
               PROVE  OnChain(d, call[d].fn, order[call[d].fn])'
    BY DEF ChainInv
  <2>1. call'[d].fn # None /\ call'[d].calm
    BY DEF Chained
  <2> QED BY <1>4, <2>1
<1> QED BY <1>5, <1>6

-----------------------------------------------------------------------------
LEMMA ChainInit == Init => ChainedInv
<1> SUFFICES ASSUME Init PROVE ChainedInv
  OBVIOUS
<1>1. OrderInv
  BY DEF Init, OrderInv
<1>2. \A f \in Functions : UnderWay(f) = {}
  BY DEF Init, UnderWay
<1>3. SoleInv
  BY <1>2 DEF SoleInv
<1>4. ASSUME NEW f \in Functions PROVE Stage(f)
  <2>1. Len(order[f]) = 0 /\ code[f] = [p \in Parts |-> Original]
    BY DEF Init
  <2>2. \A p \in Parts : WordOf(f, 0, p) = Original
    BY LastFar DEF WordOf, Word
  <2> QED BY <1>2, <2>1, <2>2 DEF Stage
<1>5. \A c \in Callers : call[c].fn = None
  BY DEF Init, NoCall
<1> QED BY <1>1, <1>3, <1>4, <1>5 DEF ChainedInv, StageInv, CalmInv, ChainInv, Chained

LEMMA ChainStep == IInv /\ NearInv /\ ChainedInv /\ [Next]_vars => ChainedInv'
<1> SUFFICES ASSUME IInv, NearInv, ChainedInv, [Next]_vars PROVE ChainedInv'
  OBVIOUS
<1> USE DEF ChainedInv
<1>1. ASSUME NEW h \in Hooks, Hook(h) PROVE ChainedInv'
  BY <1>1, OrderKeeps, SoleKeeps, StageKeeps, ChainKeptByHook DEF NearInv
<1>2. ASSUME UNCHANGED <<hookVars, code, pool, order, mixed>>
      PROVE  OrderInv' /\ SoleInv' /\ StageInv'
  <2>1. UNCHANGED <<pc, target, far, wants, entry, result, old, todo, code, pool, order, mixed>>
    BY <1>2 DEF hookVars
  <2>2. OrderInv'
    BY <2>1 DEF OrderInv, Owner, Filled
  <2>3. SoleInv'
    BY <2>1 DEF SoleInv, UnderWay
  <2>4. StageInv'
    BY <2>1 DEF StageInv, Stage, AtWork, Holds, WordOf, UnderWay
  <2> QED BY <2>2, <2>3, <2>4
<1>3. ASSUME NEW c \in Callers, Caller(c) PROVE ChainedInv'
  BY <1>2, <1>3, CallerMoves, ChainKeptByCaller DEF NearInv
<1>4. CASE UNCHANGED vars
  <2>1. UNCHANGED <<hookVars, code, pool, order, mixed, at, x17, call>>
    BY <1>4 DEF vars, callVars
  <2>2. UNCHANGED <<pc, target, far, wants, result>>
    BY <2>1 DEF hookVars
  <2>3. CalmInv'
    BY <2>1, <2>2 DEF CalmInv, UnderWay
  <2>4. ChainInv'
    <3> SUFFICES ASSUME NEW c \in Callers, Chained(c)'
                 PROVE  OnChain(c, call[c].fn, order[call[c].fn])'
      BY DEF ChainInv
    <3>1. PICK f : f = call[c].fn
      OBVIOUS
    <3>2. Chained(c)
      BY <2>1, <2>2 DEF Chained, FarAfterNear
    <3>3. f \in Functions
      BY <3>1, <3>2 DEF NearInv, ShapeInv, Chained
    <3>4. PICK s \in Seq(Hooks) : s = order[f]
      BY <3>3 DEF OrderInv
    <3>5. OnChain(c, f, s)
      BY <3>1, <3>2, <3>4 DEF ChainInv
    <3>6. OnChain(c, f, s)'
      BY <2>1, <2>2, <3>5, WayStays
    <3>7. call'[c].fn = f /\ order'[call'[c].fn] = s
      BY <2>1, <3>1, <3>4
    <3> QED BY <3>6, <3>7 DEF OnChain, AtWord, AtProxy, AtEnd
  <2> QED BY <1>2, <2>1, <2>3, <2>4
<1> QED BY <1>1, <1>3, <1>4 DEF Next

\* A call of a function that was hooked any number of times, one hook after the other and
\* no far one behind a near one, meets every replacement, the last first, down to one that
\* does not call on or the original, and nothing else, as long as nothing is hooked beside
\* it (A64HookFunctionV, __fix_instructions): CallsChain.
THEOREM ChainsCalled == Spec => []CallsChain
<1>1. Spec => [](IInv /\ NearInv /\ ChainedInv)
  BY InitHooks, NearInit, ChainInit, StepKeeps, NearStep, ChainStep, PTL DEF Spec
<1>2. ASSUME NearInv, ChainedInv PROVE CallsChain
  <2> SUFFICES ASSUME NEW c \in Callers, Chained(c)
               PROVE  /\ at[c] # Wild
                      /\ Len(call[c].met) <= Len(Chain(call[c].expect))
                      /\ at[c] = End => call[c].met = Chain(call[c].expect)
    BY DEF CallsChain, Chained
  <2>1. PICK f : f = call[c].fn
    OBVIOUS
  <2>2. f \in Functions /\ order[f] = call[c].expect /\ OnChain(c, f, order[f])
    BY <1>2, <2>1 DEF NearInv, ShapeInv, ChainedInv, CalmInv, ChainInv, Chained
  <2>3. order[f] \in Seq(Hooks)
    BY <1>2, <2>2 DEF ChainedInv, OrderInv
  <2> QED BY <2>2, <2>3, WayEnds
<1> QED BY <1>1, <1>2, PTL
=============================================================================
