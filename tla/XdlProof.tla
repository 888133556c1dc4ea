------------------------------ MODULE XdlProof ------------------------------
(* xDL for any number of threads, libraries, handles and failures, on every   *)
(* Android version: the linker's list is walked only while it stands still,   *)
(* every block is freed once and none is lost, liblzma's functions are all    *)
(* there before they are called, and xdl_addr answers from the right handle.  *)
EXTENDS Xdl, TLAPS, WellFoundedInduction

\* Where a call looks for a library, and where it may have made a handle for it.
Nested == {"nested open", "nested sym"}
SearchPcs == {"iterate", "nested open", "ask linker", "lock", "walk", "read maps"}
MadePcs == {"nested sym", "unlock", "opened"}

\* While the constructor runs nobody else does, and it is only opening. On Android 5 the
\* linker's mutex is looked for first; the nested calls are part of the constructor.
OpeningInv ==
  ~ready => \A t \in Threads : /\ t # Main => th[t].pc = "idle"
                               /\ th[t].pc # "idle" => th[t].op = "open"

NestedInv ==
  \A t \in Threads :
    /\ th[t].pc \in Nested => t = Main /\ ~ready /\ api = "locked" /\ mutexInited
    /\ th[t].pc = "nested sym" /\ th[t].h = NoHandle => faults > 0

FoundInv ==
  /\ ready => (api = "locked" <=> mutexInited)
  /\ \A t \in Threads : th[t].pc \notin {"idle", "iterate"} => (api = "locked" <=> mutexInited)
  /\ mutexInited => api = "locked"
  /\ linkerMutex => mutexInited
  /\ mutexInited /\ ~linkerMutex => faults > 0 \/ th[Main].pc \in Nested

ConstructInv == OpeningInv /\ NestedInv /\ FoundInv

\* The linker's mutex: held by the linker while it changes its list, or by the thread
\* that walks it.
MutexInv ==
  /\ changing <=> holder = Linker
  /\ \A t \in Threads :
       /\ holder = t => th[t].pc \in {"walk", "unlock"} /\ TakesMutex
       /\ th[t].pc \in {"walk", "unlock"} /\ TakesMutex => holder = t
       /\ th[t].pc \in {"ask linker", "lock", "walk", "unlock"} => api # "maps"

\* The pointers are set in order, and all of them or a fault came before the decoding.
LzmaInv ==
  /\ \A n \in 2..4 : LzmaOrder[n] \in lzma => LzmaOrder[n - 1] \in lzma
  /\ inited => "code" \in lzma \/ faults > 0
  /\ \A t \in Threads : th[t].pc \in {"lzma done", "decode"} => "code" \in lzma \/ faults > 0

\* The linker stays where it is, and a handle whose library is still there is of it.
SlotInv ==
  /\ image[LinkerSlot] = Linker
  /\ \A h \in Handles : obj[h].live => obj[h].lib = image[obj[h].at]

\* The handles of a thread: the one it has open, those of its cache, and the one a call
\* that is going on has made.
Held(t) == (({hand[t]} \cup (IF th[t].pc \in MadePcs THEN {th[t].h} ELSE {})) \ {NoHandle})
           \cup Range(cache[t])

\* They exist, and are nobody else's.
OwnAt(t) ==
  /\ \A h \in Held(t) : <<h, "self">> \in heap
  /\ hand[t] \notin Range(cache[t])
  /\ th[t].pc \in MadePcs /\ th[t].h # NoHandle =>
       th[t].h # hand[t] /\ th[t].h \notin Range(cache[t])

OwnInv == /\ \A t \in Threads : OwnAt(t)
          /\ \A t, u \in Threads : t # u => Held(t) \cap Held(u) = {}

\* The handle a call works on.
CallAt(t) ==
  /\ th[t].pc \in SearchPcs => th[t].h = NoHandle
  /\ th[t].pc \in SearchPcs \cup MadePcs =>
       \/ th[t].op = "open" /\ hand[t] = NoHandle
       \/ th[t].op = "addr"
  /\ th[t].pc \in {"dynsym", "symtab"} \cup Loading =>
       \/ th[t].op \in {"sym", "dsym"} /\ th[t].h = hand[t] /\ th[t].h # NoHandle
       \/ th[t].op = "addr" /\ th[t].h \in Range(cache[t]) /\ obj[th[t].h].at = th[t].at
  /\ th[t].pc \in MadePcs /\ th[t].op = "addr" /\ th[t].h # NoHandle =>
       obj[th[t].h].at = th[t].at

CallInv == \A t \in Threads : CallAt(t)

\* A handle has its tables once they were looked for.
LoadAt(t) ==
  /\ th[t].pc \in Loading => obj[th[t].h].symTried
  /\ th[t].pc \in Loading \ {"load end"} => obj[th[t].h].symtab = "no"

LoadInv ==
  /\ \A h \in Handles : ~obj[h].symTried => obj[h].symtab = "no"
  /\ \A t \in Threads : LoadAt(t)

-----------------------------------------------------------------------------
(* Types *)

\* A set of numbers that is not empty has a least one.
LEMMA Least ==
  ASSUME NEW T, T \subseteq Nat, T # {}
  PROVE  \E x \in T : \A y \in T : x <= y
<1> DEFINE Less == OpToRel(<, Nat)
<1>1. IsWellFoundedOn(Less, Nat)
  BY NatLessThanWellFounded
<1>2. \A x, y \in Nat : <<y, x>> \in Less <=> y < x
  BY DEF OpToRel
<1> HIDE DEF Less
<1>3. PICK x \in T : \A y \in T : ~(<<y, x>> \in Less)
  BY <1>1, WFMin
<1>4. ASSUME NEW y \in T PROVE x <= y
  <2>1. x \in Nat /\ y \in Nat
    BY <1>3
  <2>2. ~(<<y, x>> \in Less)
    BY <1>3
  <2>3. ~(y < x)
    BY <1>2, <2>1, <2>2
  <2> QED BY <2>1, <2>3
<1> QED BY <1>4

\* What stands before a sequence joins its elements.
LEMMA Prepend ==
  ASSUME NEW S, NEW s \in Seq(S), NEW e \in S
  PROVE  /\ <<e>> \o s \in Seq(S)
         /\ Range(<<e>> \o s) = {e} \cup Range(s)
<1>1. <<e>> \in Seq(S) /\ <<e>> \o s \in Seq(S)
  OBVIOUS
<1>2. DOMAIN (<<e>> \o s) = 1..(Len(s) + 1) /\ DOMAIN s = 1..Len(s) /\ Len(s) \in Nat
  OBVIOUS
<1>3. (<<e>> \o s)[1] = e
  OBVIOUS
<1>4. \A i \in 1..Len(s) : (<<e>> \o s)[i + 1] = s[i]
  OBVIOUS
<1>5. ASSUME NEW i \in 1..(Len(s) + 1) PROVE (<<e>> \o s)[i] \in {e} \cup {s[x] : x \in 1..Len(s)}
  <2>1. CASE i = 1
    BY <2>1, <1>3
  <2>2. CASE i # 1
    <3>1. i - 1 \in 1..Len(s) /\ (i - 1) + 1 = i
      BY <1>2, <1>5, <2>2
    <3> QED BY <3>1, <1>4
  <2> QED BY <2>1, <2>2
<1>6. 1 \in DOMAIN (<<e>> \o s) /\ \A i \in 1..Len(s) : i + 1 \in DOMAIN (<<e>> \o s)
  BY <1>2
<1>7. Range(<<e>> \o s) \subseteq {e} \cup Range(s)
  BY <1>2, <1>5 DEF Range
<1>8. {e} \cup Range(s) \subseteq Range(<<e>> \o s)
  <2>1. e \in Range(<<e>> \o s)
    BY <1>3, <1>6 DEF Range
  <2>2. ASSUME NEW i \in 1..Len(s) PROVE s[i] \in Range(<<e>> \o s)
    BY <1>4, <1>6 DEF Range
  <2> QED BY <2>1, <2>2, <1>2 DEF Range
<1> QED BY <1>1, <1>7, <1>8

\* The points a step goes to.
LEMMA PcsAre ==
  /\ "idle" \in Pcs /\ "iterate" \in Pcs /\ "nested open" \in Pcs /\ "nested sym" \in Pcs
  /\ "ask linker" \in Pcs /\ "lock" \in Pcs /\ "walk" \in Pcs /\ "unlock" \in Pcs
  /\ "read maps" \in Pcs /\ "opened" \in Pcs /\ "dynsym" \in Pcs /\ "symtab" \in Pcs
  /\ "section" \in Pcs /\ "load end" \in Pcs /\ "lzma open" \in Pcs /\ "lzma set" \in Pcs
  /\ "lzma done" \in Pcs /\ "decode" \in Pcs /\ "parse" \in Pcs
BY DEF Pcs

LEMMA IdleType == Idle \in Controls
BY XdlAssumption DEF Idle, Controls, Pcs, Ops

LEMMA FreshType ==
  ASSUME NEW s \in Slots, NEW l \in Libs
  PROVE  Fresh(s, l) \in Contents
BY DEF Fresh, Contents

LEMMA BlankType == Blank \in Contents
BY FreshType, XdlAssumption DEF Blank

LEMMA InitTypes == Init => TypeOK
<1> USE XdlAssumption
<1> SUFFICES ASSUME Init PROVE TypeOK
  OBVIOUS
<1>1. th \in [Threads -> Controls] /\ obj \in [Handles -> Contents]
  BY IdleType, BlankType DEF Init
<1>2. cache \in [Threads -> Seq(Handles)]
  BY DEF Init
<1>3. faults \in 0..MaxFaults /\ changes \in 0..MaxChanges
  BY DEF Init
<1>4. image \in [Slots -> Libs \cup {NoLib}]
  BY DEF Init
<1> QED BY <1>1, <1>2, <1>3, <1>4 DEF Init, TypeOK

\* What the steps write to a thread's control.
LEMMA Goes ==
  ASSUME th \in [Threads -> Controls], NEW t \in Threads, NEW pc \in Pcs, Goto(t, pc)
  PROVE  /\ th' \in [Threads -> Controls]
         /\ th'[t].pc = pc
         /\ th'[t].op = th[t].op /\ th'[t].name = th[t].name /\ th'[t].at = th[t].at
         /\ th'[t].h = th[t].h /\ th'[t].sec = th[t].sec
         /\ \A u \in Threads \ {t} : th'[u] = th[u]
BY DEF Goto, Controls

LEMMA GoesWith ==
  ASSUME th \in [Threads -> Controls], NEW t \in Threads, NEW pc \in Pcs,
         NEW h \in Handles \cup {NoHandle}, GotoWith(t, pc, h)
  PROVE  /\ th' \in [Threads -> Controls]
         /\ th'[t].pc = pc /\ th'[t].h = h
         /\ th'[t].op = th[t].op /\ th'[t].name = th[t].name /\ th'[t].at = th[t].at
         /\ \A u \in Threads \ {t} : th'[u] = th[u]
BY DEF GotoWith, Controls

LEMMA Returns ==
  ASSUME th \in [Threads -> Controls], NEW t \in Threads, Return(t)
  PROVE  /\ th' \in [Threads -> Controls]
         /\ th'[t] = Idle /\ th'[t].pc = "idle" /\ th'[t].op = "clean"
         /\ th'[t].h = NoHandle
         /\ \A u \in Threads \ {t} : th'[u] = th[u]
         /\ ready' = TRUE
<1>1. Idle.pc = "idle" /\ Idle.op = "clean" /\ Idle.h = NoHandle
  BY DEF Idle
<1> QED BY <1>1, IdleType DEF Return

LEMMA NextSections ==
  ASSUME th \in [Threads -> Controls], NEW t \in Threads, NextSection(t)
  PROVE  /\ th' \in [Threads -> Controls]
         /\ th'[t].pc = "section"
         /\ th'[t].op = th[t].op /\ th'[t].name = th[t].name /\ th'[t].at = th[t].at
         /\ th'[t].h = th[t].h
         /\ \A u \in Threads \ {t} : th'[u] = th[u]
<1>0. th[t].sec \in Nat \ {0}
  BY DEF Controls
<1>1. th[t].sec + 1 \in Nat \ {0} /\ "section" \in Pcs
  BY <1>0 DEF Pcs
<1>2. th' = [th EXCEPT ![t] = [th[t] EXCEPT !.pc = "section", !.sec = th[t].sec + 1]]
  BY DEF NextSection, Controls
<1> QED BY <1>1, <1>2 DEF Controls

LEMMA Starts ==
  ASSUME th \in [Threads -> Controls], NEW t \in Threads, NEW op \in Ops, NEW pc \in Pcs,
         NEW n \in Libs \cup {NoLib}, NEW s \in Slots, NEW h \in Handles \cup {NoHandle},
         th' = [th EXCEPT ![t] = [Idle EXCEPT !.op = op, !.pc = pc, !.name = n, !.at = s,
                                              !.h = h]]
  PROVE  /\ th' \in [Threads -> Controls]
         /\ th'[t].pc = pc /\ th'[t].op = op /\ th'[t].name = n /\ th'[t].at = s
         /\ th'[t].h = h
         /\ \A u \in Threads \ {t} : th'[u] = th[u]
BY IdleType DEF Controls, Idle

\* What a step of one thread leaves to the others.
Others(t) == \A u \in Threads \ {t} :
               th'[u] = th[u] /\ hand'[u] = hand[u] /\ cache'[u] = cache[u]

LEMMA ReleaseTypes ==
  ASSUME TypeOK, NEW S, Release(S)
  PROVE  obj' \in [Handles -> Contents] /\ freedTwice' \in BOOLEAN
BY BlankType DEF Release, Trade, TypeOK

\* The library and place a call starts with.
LEMMA Opens ==
  ASSUME th \in [Threads -> Controls], NEW t \in Threads, NEW l \in Libs,
         th' = [th EXCEPT ![t] = [Idle EXCEPT !.op = "open", !.pc = "iterate", !.name = l]]
  PROVE  /\ th' \in [Threads -> Controls]
         /\ th'[t].pc = "iterate" /\ th'[t].op = "open" /\ th'[t].h = NoHandle
         /\ \A u \in Threads \ {t} : th'[u] = th[u]
<1>1. [Idle EXCEPT !.op = "open", !.pc = "iterate", !.name = l] \in Controls
  BY IdleType DEF Controls, Pcs, Ops
<1>2. Idle.h = NoHandle
  BY DEF Idle
<1> QED BY <1>1, <1>2, IdleType DEF Controls

LEMMA Asks ==
  ASSUME th \in [Threads -> Controls], NEW t \in Threads, NEW op \in Ops, NEW pc \in Pcs,
         NEW h \in Handles \cup {NoHandle}, Starting(t, op, pc, h)
  PROVE  /\ th' \in [Threads -> Controls]
         /\ th'[t].pc = pc /\ th'[t].op = op /\ th'[t].h = h
         /\ \A u \in Threads \ {t} : th'[u] = th[u]
<1>1. [Idle EXCEPT !.op = op, !.pc = pc, !.h = h] \in Controls
  BY IdleType DEF Controls
<1> QED BY <1>1, IdleType DEF Controls, Starting

Looking(t, pc, s, h) ==
  th' = [th EXCEPT ![t] = [Idle EXCEPT !.op = "addr", !.at = s, !.h = h, !.pc = pc]]

LEMMA Looks ==
  ASSUME th \in [Threads -> Controls], NEW t \in Threads, NEW pc \in Pcs, NEW s \in Slots,
         NEW h \in Handles \cup {NoHandle}, Looking(t, pc, s, h)
  PROVE  /\ th' \in [Threads -> Controls]
         /\ th'[t].pc = pc /\ th'[t].op = "addr" /\ th'[t].at = s /\ th'[t].h = h
         /\ \A u \in Threads \ {t} : th'[u] = th[u]
<1>1. [Idle EXCEPT !.op = "addr", !.at = s, !.h = h, !.pc = pc] \in Controls
  BY IdleType DEF Controls, Ops
<1> QED BY <1>1, IdleType DEF Controls, Looking

\* What the cache has for a place: nothing, or a handle of that place.
LEMMA CachedFits ==
  ASSUME TypeOK, NEW t \in Threads, NEW s \in Slots
  PROVE  \/ Cached(t, s) = NoHandle
         \/ Cached(t, s) \in Range(cache[t]) /\ obj[Cached(t, s)].at = s
<1> DEFINE Fit == {i \in 1..Len(cache[t]) : obj[cache[t][i]].at = s}
           Index == CHOOSE i \in Fit : \A j \in Fit : i <= j
<1>1. CASE Fit = {}
  BY <1>1 DEF Cached
<1>2. CASE Fit # {}
  <2>1. Fit \subseteq Nat
    BY DEF TypeOK
  <2>2. \E i \in Fit : \A j \in Fit : i <= j
    <3> HIDE DEF Fit
    <3> QED BY <1>2, <2>1, Least
  <2>3. Index \in Fit
    BY <2>2
  <2>4. Cached(t, s) = cache[t][Index]
    BY <1>2 DEF Cached
  <2>5. DOMAIN cache[t] = 1..Len(cache[t])
    BY DEF TypeOK
  <2> QED BY <2>3, <2>4, <2>5 DEF Range
<1> QED BY <1>1, <1>2

LEMMA RangeType ==
  ASSUME TypeOK, NEW t \in Threads
  PROVE  Range(cache[t]) \subseteq Handles
BY DEF TypeOK, Range

LEMMA StartTypes ==
  ASSUME TypeOK, NEW t \in Threads, Start(t)
  PROVE  TypeOK' /\ Others(t)
<1> USE XdlAssumption DEF TypeOK, Others, shared, statics, memory, owned, misc, Begin
<1>1. CASE Open(t)
  <2>1. PICK l \in Names :
          th' = [th EXCEPT ![t] = [Idle EXCEPT !.op = "open", !.pc = "iterate", !.name = l]]
    BY <1>1 DEF Open
  <2>2. /\ th' \in [Threads -> Controls]
        /\ \A u \in Threads \ {t} : th'[u] = th[u]
    BY <2>1, Opens
  <2> QED BY <1>1, <2>2 DEF Open
<1>2. CASE Sym(t)
  <2>1. PICK h \in Handles : h = hand[t] /\ Starting(t, "sym", "dynsym", h)
    BY <1>2 DEF Sym
  <2>2. "sym" \in Ops /\ "dynsym" \in Pcs
    BY DEF Ops, Pcs
  <2>3. /\ th' \in [Threads -> Controls]
        /\ \A u \in Threads \ {t} : th'[u] = th[u]
    BY <2>1, <2>2, Asks
  <2> QED BY <1>2, <2>3 DEF Sym
<1>3. CASE Dsym(t)
  <2>1. PICK h \in Handles : h = hand[t] /\ Starting(t, "dsym", "symtab", h)
    BY <1>3 DEF Dsym
  <2>2. "dsym" \in Ops /\ "symtab" \in Pcs
    BY DEF Ops, Pcs
  <2>3. /\ th' \in [Threads -> Controls]
        /\ \A u \in Threads \ {t} : th'[u] = th[u]
    BY <2>1, <2>2, Asks
  <2> QED BY <1>3, <2>3 DEF Dsym
<1>4. CASE Addr(t)
  <2>0. \A s \in Slots : Cached(t, s) \in Handles \cup {NoHandle}
    BY CachedFits, RangeType
  <2>1. PICK s \in Slots, h \in Handles \cup {NoHandle}, pc \in Pcs :
          /\ h = Cached(t, s) /\ pc = IF h = NoHandle THEN "iterate" ELSE "dynsym"
          /\ Looking(t, pc, s, h)
    BY <1>4, <2>0, PcsAre DEF Addr, Looking
  <2>3. /\ th' \in [Threads -> Controls]
        /\ \A u \in Threads \ {t} : th'[u] = th[u]
    BY <2>1, Looks
  <2> QED BY <1>4, <2>3 DEF Addr
<1>5. CASE Close(t)
  BY <1>5, ReleaseTypes DEF Close
<1>6. CASE Clean(t)
  BY <1>6, ReleaseTypes DEF Clean
<1> QED BY <1>1, <1>2, <1>3, <1>4, <1>5, <1>6 DEF Start

LEMMA WorksTypes ==
  ASSUME TypeOK, NEW ok \in BOOLEAN, Works(ok)
  PROVE  /\ faults' \in 0..MaxFaults
         /\ ok => faults' = faults
         /\ ~ok => faults' > 0
         /\ faults > 0 => faults' > 0
BY XdlAssumption DEF TypeOK, Works

LEMMA Calls ==
  ASSUME TypeOK, NEW t \in Threads, NEW s \in Slots, image[s] \in Libs, NEW pc \in Pcs,
         NEW gone, NEW new, Callback(t, s, pc, gone, new)
  PROVE  \E ok \in BOOLEAN, h \in Handles :
           /\ <<h, "self">> \notin heap
           /\ faults' \in 0..MaxFaults
           /\ ~ok => faults' > 0
           /\ faults > 0 => faults' > 0
           /\ Trade(gone, new \cup IF ok THEN {<<h, "self">>, <<h, "pathname">>} ELSE {})
           /\ freedTwice' \in BOOLEAN
           /\ obj' \in [Handles -> Contents]
           /\ ok => obj'[h] = Fresh(s, image[s])
           /\ \A x \in Handles : x # h \/ ~ok => obj'[x] = obj[x]
           /\ th' \in [Threads -> Controls]
           /\ th'[t].pc = pc /\ th'[t].h = IF ok THEN h ELSE NoHandle
           /\ th'[t].op = th[t].op /\ th'[t].name = th[t].name /\ th'[t].at = th[t].at
           /\ \A u \in Threads \ {t} : th'[u] = th[u]
<1>1. PICK ok \in BOOLEAN, h \in Handles :
        /\ Works(ok)
        /\ <<h, "self">> \notin heap
        /\ Trade(gone, new \cup IF ok THEN {<<h, "self">>, <<h, "pathname">>} ELSE {})
        /\ obj' = IF ok THEN [obj EXCEPT ![h] = Fresh(s, image[s])] ELSE obj
        /\ GotoWith(t, pc, IF ok THEN h ELSE NoHandle)
  BY DEF Callback
<1>2. /\ faults' \in 0..MaxFaults
      /\ ~ok => faults' > 0
      /\ faults > 0 => faults' > 0
  BY <1>1, WorksTypes
<1>3. /\ obj' \in [Handles -> Contents]
      /\ ok => obj'[h] = Fresh(s, image[s])
      /\ \A x \in Handles : x # h \/ ~ok => obj'[x] = obj[x]
  BY <1>1, FreshType DEF TypeOK
<1>4. PICK g \in Handles \cup {NoHandle} : g = IF ok THEN h ELSE NoHandle
  OBVIOUS
<1>5. /\ th' \in [Threads -> Controls]
      /\ th'[t].pc = pc /\ th'[t].h = g
      /\ th'[t].op = th[t].op /\ th'[t].name = th[t].name /\ th'[t].at = th[t].at
      /\ \A u \in Threads \ {t} : th'[u] = th[u]
  BY <1>1, <1>4, GoesWith DEF TypeOK
<1>6. freedTwice' \in BOOLEAN
  BY <1>1 DEF Trade, TypeOK
<1> QED BY <1>1, <1>2, <1>3, <1>4, <1>5, <1>6

\* The steps of a search.
Search(t) == \/ Iterate(t) \/ NestedOpen(t) \/ NestedSym(t) \/ AskLinker(t) \/ Lock(t)
             \/ Walk(t) \/ Unlock(t) \/ ReadMaps(t) \/ Opened(t)

\* The steps of a lookup.
Lookup(t) == \/ Dynsym(t) \/ Symtab(t) \/ Section(t) \/ LoadEnd(t) \/ LzmaOpen(t)
             \/ LzmaSet(t) \/ LzmaDone(t) \/ Decode(t) \/ Parse(t)

LEMMA SearchTypes ==
  ASSUME TypeOK, image[LinkerSlot] = Linker, NEW t \in Threads, Search(t)
  PROVE  TypeOK' /\ Others(t)
<1> USE XdlAssumption DEF TypeOK, Others, shared, statics, memory, owned, misc
<1> DEFINE ThOK == /\ th' \in [Threads -> Controls]
                   /\ \A u \in Threads \ {t} : th'[u] = th[u]
           MemOK == /\ obj' \in [Handles -> Contents]
                    /\ freedTwice' \in BOOLEAN
                    /\ faults' \in 0..MaxFaults
<1>0. \A gone, new : Trade(gone, new) => freedTwice' \in BOOLEAN
  BY DEF Trade
<1>1. CASE Iterate(t)
  <2>1. ThOK
    BY <1>1, Goes, PcsAre DEF Iterate
  <2> QED BY <1>1, <2>1 DEF Iterate
<1>2. CASE NestedOpen(t)
  <2>1. ThOK /\ MemOK
    BY <1>2, Calls, PcsAre DEF NestedOpen
  <2> QED BY <1>2, <2>1 DEF NestedOpen
<1>3. CASE NestedSym(t)
  <2>1. ThOK
    BY <1>3, GoesWith, PcsAre DEF NestedSym
  <2>2. MemOK
    BY <1>3, ReleaseTypes, WorksTypes DEF NestedSym
  <2> QED BY <1>3, <2>1, <2>2 DEF NestedSym
<1>4. CASE AskLinker(t)
  <2>1. ThOK /\ MemOK
    <3>1. CASE Callback(t, LinkerSlot, "opened", {}, {<<Linker, "lost maps">>})
      BY <3>1, Calls, PcsAre
    <3>2. CASE Trade({}, {<<t, "maps">>}) /\ Goto(t, "lock") /\ UNCHANGED <<faults, obj>>
      BY <3>2, <1>0, Goes, PcsAre
    <3>3. CASE Works(FALSE) /\ Goto(t, "lock") /\ UNCHANGED <<heap, freedTwice, obj>>
      BY <3>3, WorksTypes, Goes, PcsAre
    <3> QED BY <1>4, <3>1, <3>2, <3>3 DEF AskLinker
  <2> QED BY <1>4, <2>1 DEF AskLinker
<1>5. CASE Lock(t)
  <2>1. ThOK
    BY <1>5, Goes, PcsAre DEF Lock
  <2> QED BY <1>5, <2>1 DEF Lock
<1>6. CASE Walk(t)
  <2>1. ThOK /\ MemOK
    <3>0. PICK stream : stream = IF api = "locked" THEN {<<t, "maps">>} ELSE {}
      OBVIOUS
    <3>1. CASE \E s \in Slots : Wanted(t, s) /\ Callback(t, s, "unlock", {}, stream)
      <4>1. PICK s \in Slots : image[s] \in Libs /\ Callback(t, s, "unlock", {}, stream)
        BY <3>1 DEF Wanted
      <4> QED BY <4>1, Calls, PcsAre
    <3>2. CASE Trade({}, stream) /\ Goto(t, "unlock") /\ UNCHANGED <<faults, obj>>
      BY <3>2, <1>0, Goes, PcsAre
    <3>3. CASE Works(FALSE) /\ Goto(t, "unlock") /\ UNCHANGED <<heap, freedTwice, obj>>
      BY <3>3, WorksTypes, Goes, PcsAre
    <3> QED BY <1>6, <3>0, <3>1, <3>2, <3>3 DEF Walk
  <2> QED BY <1>6, <2>1 DEF Walk
<1>7. CASE Unlock(t)
  <2>1. ThOK
    BY <1>7, Goes, PcsAre DEF Unlock
  <2>2. MemOK
    BY <1>7 DEF Unlock, Trade
  <2> QED BY <1>7, <2>1, <2>2 DEF Unlock
<1>8. CASE ReadMaps(t)
  <2>1. ThOK /\ MemOK
    <3>1. CASE \E s \in Slots : Wanted(t, s) /\ Callback(t, s, "opened", {}, {})
      <4>1. PICK s \in Slots : image[s] \in Libs /\ Callback(t, s, "opened", {}, {})
        BY <3>1 DEF Wanted
      <4> QED BY <4>1, Calls, PcsAre
    <3>2. CASE Goto(t, "opened") /\ UNCHANGED <<faults, heap, freedTwice, obj>>
      BY <3>2, Goes, PcsAre
    <3>3. CASE Works(FALSE) /\ Goto(t, "opened") /\ UNCHANGED <<heap, freedTwice, obj>>
      BY <3>3, WorksTypes, Goes, PcsAre
    <3> QED BY <1>8, <3>1, <3>2, <3>3 DEF ReadMaps
  <2> QED BY <1>8, <2>1 DEF ReadMaps
<1>9. CASE Opened(t)
  <2>0. UNCHANGED <<shared, statics, memory, faults, broken>>
    BY <1>9 DEF Opened
  <2>1. CASE Return(t) /\ UNCHANGED cache /\ hand' = [hand EXCEPT ![t] = th[t].h]
    <3>1. ThOK /\ ready' = TRUE
      BY <2>1, Returns
    <3>2. th[t].h \in Handles \cup {NoHandle}
      BY DEF Controls
    <3> QED BY <2>0, <2>1, <3>1, <3>2
  <2>2. CASE Return(t) /\ UNCHANGED owned
    <3>1. ThOK /\ ready' = TRUE
      BY <2>2, Returns
    <3> QED BY <2>0, <2>2, <3>1
  <2>3. CASE /\ th[t].h # NoHandle /\ Goto(t, "dynsym") /\ UNCHANGED <<hand, ready>>
             /\ cache' = [cache EXCEPT ![t] = <<th[t].h>> \o cache[t]]
    <3>1. ThOK
      BY <2>3, Goes, PcsAre
    <3>2. th[t].h \in Handles
      BY <2>3 DEF Controls
    <3>3. <<th[t].h>> \o cache[t] \in Seq(Handles)
      BY <3>2, Prepend
    <3> QED BY <2>0, <2>3, <3>1, <3>3
  <2> QED BY <1>9, <2>1, <2>2, <2>3 DEF Opened
<1> QED BY <1>1, <1>2, <1>3, <1>4, <1>5, <1>6, <1>7, <1>8, <1>9 DEF Search

\* What a lookup writes to a handle.
LEMMA Sets ==
  ASSUME obj \in [Handles -> Contents], NEW h \in Handles \cup {NoHandle},
         NEW v \in {"no", "plain", "unzipped"}, obj' = [obj EXCEPT ![h].symtab = v]
  PROVE  /\ obj' \in [Handles -> Contents]
         /\ h \in Handles => /\ obj'[h].symtab = v /\ obj'[h].symTried = obj[h].symTried
                             /\ obj'[h].at = obj[h].at /\ obj'[h].lib = obj[h].lib
                             /\ obj'[h].live = obj[h].live
         /\ \A x \in Handles \ {h} : obj'[x] = obj[x]
<1>1. CASE h \in Handles
  BY <1>1 DEF Contents
<1>2. CASE h \notin Handles
  BY <1>2
<1> QED BY <1>1, <1>2

LEMMA Tries ==
  ASSUME obj \in [Handles -> Contents], NEW h \in Handles \cup {NoHandle},
         obj' = [obj EXCEPT ![h].symTried = TRUE]
  PROVE  /\ obj' \in [Handles -> Contents]
         /\ h \in Handles => /\ obj'[h].symTried /\ obj'[h].symtab = obj[h].symtab
                             /\ obj'[h].at = obj[h].at /\ obj'[h].lib = obj[h].lib
                             /\ obj'[h].live = obj[h].live
         /\ \A x \in Handles \ {h} : obj'[x] = obj[x]
<1>1. CASE h \in Handles
  BY <1>1 DEF Contents
<1>2. CASE h \notin Handles
  BY <1>2
<1> QED BY <1>1, <1>2

LEMMA OrderIs ==
  /\ \A n \in 1..4 : LzmaOrder[n] \in Pointers
  /\ LzmaOrder[1] = "construct" /\ LzmaOrder[2] = "isfinished"
  /\ LzmaOrder[3] = "free" /\ LzmaOrder[4] = "code"
<1>1. /\ LzmaOrder[1] = "construct" /\ LzmaOrder[2] = "isfinished"
      /\ LzmaOrder[3] = "free" /\ LzmaOrder[4] = "code"
  BY DEF LzmaOrder
<1>2. \A n \in 1..4 : n = 1 \/ n = 2 \/ n = 3 \/ n = 4
  OBVIOUS
<1> QED BY <1>1, <1>2 DEF Pointers

LEMMA LookupTypes ==
  ASSUME TypeOK, NEW t \in Threads, Lookup(t)
  PROVE  TypeOK' /\ Others(t)
<1> USE XdlAssumption DEF TypeOK, Others, shared, statics, memory, owned, misc
<1> DEFINE ThOK == /\ th' \in [Threads -> Controls]
                   /\ \A u \in Threads \ {t} : th'[u] = th[u]
           MemOK == /\ obj' \in [Handles -> Contents]
                    /\ freedTwice' \in BOOLEAN
                    /\ faults' \in 0..MaxFaults
           EndOK == ready' \in BOOLEAN
<1>0. \A gone, new : Trade(gone, new) => freedTwice' \in BOOLEAN
  BY DEF Trade
<1>d. th[t].h \in Handles \cup {NoHandle}
  BY DEF Controls
<1>c. \A gone : GiveUp(t, gone) => ThOK /\ freedTwice' \in BOOLEAN
  BY <1>0, NextSections DEF GiveUp
<1>1. CASE Dynsym(t)
  <2>1. ThOK /\ EndOK
    BY <1>1, Goes, Returns, PcsAre DEF Dynsym
  <2> QED BY <1>1, <2>1 DEF Dynsym
<1>2. CASE Symtab(t)
  <2>1. ThOK /\ EndOK
    BY <1>2, Goes, Returns, PcsAre DEF Symtab
  <2>2. MemOK
    BY <1>2, <1>0, <1>d, Tries, WorksTypes DEF Symtab
  <2> QED BY <1>2, <2>1, <2>2 DEF Symtab
<1>3. CASE Section(t)
  <2>1. ThOK
    BY <1>3, Goes, NextSections, PcsAre DEF Section
  <2>2. MemOK
    BY <1>3, <1>0, <1>d, Sets, WorksTypes DEF Section
  <2> QED BY <1>3, <2>1, <2>2 DEF Section
<1>4. CASE LoadEnd(t)
  <2>1. ThOK /\ EndOK
    BY <1>4, Returns DEF LoadEnd
  <2> QED BY <1>4, <1>0, <2>1 DEF LoadEnd
<1>5. CASE LzmaOpen(t)
  <2>1. ThOK
    BY <1>5, Goes, PcsAre DEF LzmaOpen
  <2>2. faults' \in 0..MaxFaults
    BY <1>5, WorksTypes DEF LzmaOpen
  <2> QED BY <1>5, <2>1, <2>2 DEF LzmaOpen
<1>6. CASE LzmaSet(t)
  <2>1. ThOK
    BY <1>6, Goes, PcsAre DEF LzmaSet
  <2>2. PICK n \in 1..4 : lzma' = lzma \cup {LzmaOrder[n]}
    BY <1>6 DEF LzmaSet
  <2>3. lzma' \subseteq Pointers
    BY <2>2, OrderIs
  <2> QED BY <1>6, <2>1, <2>3 DEF LzmaSet
<1>7. CASE LzmaDone(t)
  <2>1. ThOK
    BY <1>7, Goes, PcsAre DEF LzmaDone
  <2> QED BY <1>7, <2>1 DEF LzmaDone
<1>8. CASE Decode(t)
  <2>1. ThOK /\ broken' \in BOOLEAN
    BY <1>8, <1>c, Goes, NextSections, PcsAre DEF Decode
  <2>2. freedTwice' \in BOOLEAN /\ faults' \in 0..MaxFaults
    BY <1>8, <1>0, <1>c, WorksTypes DEF Decode
  <2> QED BY <1>8, <2>1, <2>2 DEF Decode
<1>9. CASE Parse(t)
  <2>1. ThOK /\ freedTwice' \in BOOLEAN
    BY <1>9, <1>0, <1>c, Goes, PcsAre DEF Parse
  <2>2. obj' \in [Handles -> Contents]
    BY <1>9, <1>d, Sets DEF Parse
  <2> QED BY <1>9, <2>1, <2>2 DEF Parse
<1> QED BY <1>1, <1>2, <1>3, <1>4, <1>5, <1>6, <1>7, <1>8, <1>9 DEF Lookup

LEMMA LinkerTypes ==
  ASSUME TypeOK, BeginChange \/ EndChange
  PROVE  /\ TypeOK'
         /\ \A h \in Handles : /\ obj'[h].at = obj[h].at /\ obj'[h].lib = obj[h].lib
                               /\ obj'[h].symTried = obj[h].symTried
                               /\ obj'[h].symtab = obj[h].symtab
                               /\ obj'[h].live => obj[h].live
                               /\ obj'[h].live => image'[obj[h].at] = image[obj[h].at]
         /\ image'[LinkerSlot] = image[LinkerSlot]
<1> USE XdlAssumption DEF TypeOK, shared, statics, memory, owned, misc
<1>1. CASE BeginChange
  BY <1>1 DEF BeginChange
<1>2. CASE EndChange
  <2>1. PICK s \in Slots \ {LinkerSlot}, new \in Libs \cup {NoLib} :
          /\ image' = [image EXCEPT ![s] = new]
          /\ obj' = [h \in Handles |->
                       IF obj[h].at = s THEN [obj[h] EXCEPT !.live = FALSE] ELSE obj[h]]
    BY <1>2 DEF EndChange
  <2>2. image' \in [Slots -> Libs \cup {NoLib}] /\ image'[LinkerSlot] = image[LinkerSlot]
    BY <2>1
  <2>3. ASSUME NEW h \in Handles
        PROVE  /\ obj'[h] \in Contents
               /\ obj'[h].at = obj[h].at /\ obj'[h].lib = obj[h].lib
               /\ obj'[h].symTried = obj[h].symTried
               /\ obj'[h].symtab = obj[h].symtab
               /\ obj'[h].live => obj[h].live
               /\ obj'[h].live => obj[h].at # s
    <3>1. obj[h] \in Contents
      OBVIOUS
    <3>2. obj'[h] = IF obj[h].at = s THEN [obj[h] EXCEPT !.live = FALSE] ELSE obj[h]
      BY <2>1
    <3> HIDE DEF TypeOK
    <3> QED BY <3>1, <3>2 DEF Contents
  <2>4. obj' \in [Handles -> Contents]
    BY <2>1, <2>3
  <2>5. ASSUME NEW h \in Handles, obj'[h].live PROVE image'[obj[h].at] = image[obj[h].at]
    <3>1. obj[h].at \in Slots /\ obj[h].at # s
      BY <2>3, <2>5 DEF Contents
    <3> QED BY <2>1, <3>1
  <2> QED BY <1>2, <2>2, <2>3, <2>4, <2>5 DEF EndChange
<1> QED BY <1>1, <1>2

-----------------------------------------------------------------------------
(* What the steps do, in short *)

\* A call begins and its thread takes a handle it has, or searches for one.
Asking(t) ==
  /\ UNCHANGED <<memory, owned>>
  /\ \/ /\ th'[t].pc = "iterate" /\ th'[t].h = NoHandle
        /\ \/ th'[t].op = "open" /\ hand[t] = NoHandle
           \/ th'[t].op = "addr" /\ ready
     \/ /\ th'[t].pc \in {"dynsym", "symtab"} /\ th'[t].op \in {"sym", "dsym"}
        /\ th'[t].h = hand[t] /\ hand[t] # NoHandle /\ ready
     \/ /\ th'[t].pc = "dynsym" /\ th'[t].op = "addr" /\ ready
        /\ th'[t].h \in Range(cache[t]) /\ obj[th'[t].h].at = th'[t].at

LEMMA StartMoves ==
  ASSUME TypeOK, NEW t \in Threads, Start(t)
  PROVE  /\ th[t].pc = "idle" /\ (ready \/ t = Main)
         /\ UNCHANGED <<shared, statics, misc>>
         /\ Asking(t) \/ (ready /\ (Close(t) \/ Clean(t)))
<1> USE DEF TypeOK, Begin, Asking
<1>1. CASE Open(t)
  <2>1. PICK l \in Libs :
          th' = [th EXCEPT ![t] = [Idle EXCEPT !.op = "open", !.pc = "iterate", !.name = l]]
    BY <1>1, XdlAssumption DEF Open
  <2>2. th'[t].pc = "iterate" /\ th'[t].op = "open" /\ th'[t].h = NoHandle
    BY <2>1, Opens
  <2> QED BY <1>1, <2>2 DEF Open
<1>2. CASE Sym(t)
  <2>1. PICK h \in Handles : h = hand[t] /\ Starting(t, "sym", "dynsym", h)
    BY <1>2 DEF Sym
  <2>2. "sym" \in Ops /\ "dynsym" \in Pcs
    BY DEF Ops, Pcs
  <2>3. th'[t].pc = "dynsym" /\ th'[t].op = "sym" /\ th'[t].h = h
    BY <2>1, <2>2, Asks
  <2> QED BY <1>2, <2>1, <2>3 DEF Sym
<1>3. CASE Dsym(t)
  <2>1. PICK h \in Handles : h = hand[t] /\ Starting(t, "dsym", "symtab", h)
    BY <1>3 DEF Dsym
  <2>2. "dsym" \in Ops /\ "symtab" \in Pcs
    BY DEF Ops, Pcs
  <2>3. th'[t].pc = "symtab" /\ th'[t].op = "dsym" /\ th'[t].h = h
    BY <2>1, <2>2, Asks
  <2> QED BY <1>3, <2>1, <2>3 DEF Dsym
<1>4. CASE Addr(t)
  <2>0. \A s \in Slots : Cached(t, s) \in Handles \cup {NoHandle}
    BY CachedFits, RangeType
  <2>1. PICK s \in Slots, h \in Handles \cup {NoHandle}, pc \in Pcs :
          /\ h = Cached(t, s) /\ pc = IF h = NoHandle THEN "iterate" ELSE "dynsym"
          /\ Looking(t, pc, s, h)
    BY <1>4, <2>0, PcsAre DEF Addr, Looking
  <2>3. th'[t].pc = pc /\ th'[t].op = "addr" /\ th'[t].at = s /\ th'[t].h = h
    BY <2>1, Looks
  <2>4. h = NoHandle \/ (h \in Range(cache[t]) /\ obj[h].at = s)
    BY <2>1, CachedFits
  <2>5. ready /\ UNCHANGED <<memory, owned>>
    BY <1>4 DEF Addr
  <2>6. UNCHANGED <<shared, statics, misc>> /\ th[t].pc = "idle"
    BY <1>4 DEF Addr
  <2> QED BY <2>1, <2>3, <2>4, <2>5, <2>6
<1>5. CASE Close(t)
  BY <1>5 DEF Close
<1>6. CASE Clean(t)
  BY <1>6 DEF Clean
<1> QED BY <1>1, <1>2, <1>3, <1>4, <1>5, <1>6 DEF Start

\* A search goes on, or ends without a handle or with the one it has made.
Quiet(t) ==
  /\ UNCHANGED <<obj, owned, ready>>
  /\ \A x \in Handles : <<x, "self">> \in heap' <=> <<x, "self">> \in heap
  /\ th'[t].h = th[t].h /\ th'[t].op = th[t].op /\ th'[t].at = th[t].at
  /\ \/ th[t].pc \in SearchPcs /\ th'[t].pc \in SearchPcs \cup {"unlock", "opened"}
     \/ th[t].pc = "unlock" /\ th'[t].pc = "opened"

\* The callback of a search makes a handle for the library at s, or fails to.
MakesFor(t, s, h, ok) ==
  /\ image[s] \in Libs
  /\ th[t].op # "open" => s = th[t].at
  /\ <<h, "self">> \notin heap
  /\ UNCHANGED <<owned, ready>>
  /\ th[t].pc \in SearchPcs /\ th'[t].pc \in MadePcs
  /\ th'[t].h = IF ok THEN h ELSE NoHandle
  /\ ok \/ faults' > 0
  /\ th'[t].op = th[t].op /\ th'[t].at = th[t].at
  /\ ok => obj'[h] = Fresh(s, image[s])
  /\ \A x \in Handles : x # h \/ ~ok => obj'[x] = obj[x]
  /\ \A x \in Handles : <<x, "self">> \in heap' <=> (<<x, "self">> \in heap \/ (ok /\ x = h))

Makes(t) == \E s \in Slots, h \in Handles, ok \in BOOLEAN : MakesFor(t, s, h, ok)

LEMMA CallsMake ==
  ASSUME TypeOK, NEW t \in Threads, NEW s \in Slots, image[s] \in Libs, NEW pc \in MadePcs,
         NEW new, \A x \in Handles : <<x, "self">> \notin new,
         th[t].pc \in SearchPcs, th[t].op # "open" => s = th[t].at,
         UNCHANGED <<owned, ready>>, Callback(t, s, pc, {}, new)
  PROVE  Makes(t) /\ (faults > 0 => faults' > 0)
<1>0. pc \in Pcs
  BY DEF MadePcs, Pcs
<1>1. PICK ok \in BOOLEAN, h \in Handles :
        /\ <<h, "self">> \notin heap
        /\ faults' \in 0..MaxFaults
        /\ ~ok => faults' > 0
        /\ faults > 0 => faults' > 0
        /\ Trade({}, new \cup IF ok THEN {<<h, "self">>, <<h, "pathname">>} ELSE {})
        /\ freedTwice' \in BOOLEAN
        /\ obj' \in [Handles -> Contents]
        /\ ok => obj'[h] = Fresh(s, image[s])
        /\ \A x \in Handles : x # h \/ ~ok => obj'[x] = obj[x]
        /\ th' \in [Threads -> Controls]
        /\ th'[t].pc = pc /\ th'[t].h = IF ok THEN h ELSE NoHandle
        /\ th'[t].op = th[t].op /\ th'[t].name = th[t].name /\ th'[t].at = th[t].at
        /\ \A u \in Threads \ {t} : th'[u] = th[u]
  BY <1>0, Calls
<1>2. \A x \in Handles : <<x, "self">> \in heap' <=> (<<x, "self">> \in heap \/ (ok /\ x = h))
  BY <1>1 DEF Trade
<1>3. MakesFor(t, s, h, ok)
  BY <1>1, <1>2 DEF MakesFor
<1> QED BY <1>1, <1>3 DEF Makes

LEMMA SearchMoves ==
  ASSUME TypeOK, ConstructInv, image[LinkerSlot] = Linker, NEW t \in Threads, Search(t)
  PROVE  /\ UNCHANGED <<api, image, changing, changes, inited, lzma, broken>>
         /\ faults > 0 => faults' > 0
         /\ Quiet(t) \/ Makes(t) \/ NestedSym(t) \/ Opened(t)
<1> USE XdlAssumption DEF TypeOK, shared, statics, memory, misc, SearchPcs
<1> DEFINE Same == th'[t].h = th[t].h /\ th'[t].op = th[t].op /\ th'[t].at = th[t].at
<1>0. "unlock" \in MadePcs /\ "opened" \in MadePcs /\ "nested sym" \in MadePcs
  BY DEF MadePcs
<1>1. CASE Iterate(t)
  <2>1. Same /\ th'[t].pc \in SearchPcs
    BY <1>1, Goes, PcsAre DEF Iterate
  <2> QED BY <1>1, <2>1 DEF Iterate, Quiet
<1>2. CASE NestedOpen(t)
  <2>1. \A x \in Handles : <<x, "self">> \notin {<<Linker, "lost maps">>}
    OBVIOUS
  <2>2. th[t].op = "open"
    BY <1>2 DEF NestedOpen, ConstructInv, OpeningInv, NestedInv, Nested
  <2> QED BY <1>2, <2>1, <2>2, <1>0, CallsMake DEF NestedOpen
<1>3. CASE NestedSym(t)
  BY <1>3, WorksTypes DEF NestedSym
<1>4. CASE AskLinker(t)
  <2>0. UNCHANGED <<shared, statics, owned, broken, ready>> /\ th[t].pc = "ask linker"
    BY <1>4 DEF AskLinker
  <2>1. CASE Wanted(t, LinkerSlot) /\ Callback(t, LinkerSlot, "opened", {}, {<<Linker, "lost maps">>})
    <3>1. \A x \in Handles : <<x, "self">> \notin {<<Linker, "lost maps">>}
      OBVIOUS
    <3>2. th[t].op # "open" => LinkerSlot = th[t].at
      BY <2>1 DEF Wanted
    <3> QED BY <2>0, <2>1, <3>1, <3>2, <1>0, CallsMake
  <2>2. CASE Trade({}, {<<t, "maps">>}) /\ Goto(t, "lock") /\ UNCHANGED <<faults, obj>>
    <3>1. Same /\ th'[t].pc = "lock"
      BY <2>2, Goes, PcsAre
    <3>2. \A x \in Handles : <<x, "self">> \in heap' <=> <<x, "self">> \in heap
      BY <2>2 DEF Trade
    <3> QED BY <2>0, <2>2, <3>1, <3>2 DEF Quiet
  <2>3. CASE Works(FALSE) /\ Goto(t, "lock") /\ UNCHANGED <<heap, freedTwice, obj>>
    <3>1. Same /\ th'[t].pc = "lock" /\ (faults > 0 => faults' > 0)
      BY <2>3, Goes, PcsAre, WorksTypes
    <3> QED BY <2>0, <2>3, <3>1 DEF Quiet
  <2> QED BY <1>4, <2>1, <2>2, <2>3 DEF AskLinker
<1>5. CASE Lock(t)
  <2>1. Same /\ th'[t].pc = "walk"
    BY <1>5, Goes, PcsAre DEF Lock
  <2> QED BY <1>5, <2>1 DEF Lock, Quiet
<1>6. CASE Walk(t)
  <2>0. UNCHANGED <<shared, statics, owned, broken, ready>> /\ th[t].pc = "walk"
    BY <1>6 DEF Walk
  <2>a. PICK stream : stream = IF api = "locked" THEN {<<t, "maps">>} ELSE {}
    OBVIOUS
  <2>b. \A x \in Handles : <<x, "self">> \notin stream
    BY <2>a
  <2>1. CASE \E s \in Slots : Wanted(t, s) /\ Callback(t, s, "unlock", {}, stream)
    <3>1. PICK s \in Slots : Wanted(t, s) /\ Callback(t, s, "unlock", {}, stream)
      BY <2>1
    <3>2. image[s] \in Libs /\ (th[t].op # "open" => s = th[t].at)
      BY <3>1 DEF Wanted
    <3> QED BY <2>0, <2>b, <3>1, <3>2, <1>0, CallsMake
  <2>2. CASE Trade({}, stream) /\ Goto(t, "unlock") /\ UNCHANGED <<faults, obj>>
    <3>1. Same /\ th'[t].pc = "unlock"
      BY <2>2, Goes, PcsAre
    <3>2. \A x \in Handles : <<x, "self">> \in heap' <=> <<x, "self">> \in heap
      BY <2>2, <2>b DEF Trade
    <3> QED BY <2>0, <2>2, <3>1, <3>2 DEF Quiet
  <2>3. CASE Works(FALSE) /\ Goto(t, "unlock") /\ UNCHANGED <<heap, freedTwice, obj>>
    <3>1. Same /\ th'[t].pc = "unlock" /\ (faults > 0 => faults' > 0)
      BY <2>3, Goes, PcsAre, WorksTypes
    <3> QED BY <2>0, <2>3, <3>1 DEF Quiet
  <2> QED BY <1>6, <2>a, <2>1, <2>2, <2>3 DEF Walk
<1>7. CASE Unlock(t)
  <2>1. Same /\ th'[t].pc = "opened"
    BY <1>7, Goes, PcsAre DEF Unlock
  <2>2. \A x \in Handles : <<x, "self">> \in heap' <=> <<x, "self">> \in heap
    BY <1>7 DEF Unlock, Trade, MapsStream
  <2> QED BY <1>7, <2>1, <2>2 DEF Unlock, Quiet
<1>8. CASE ReadMaps(t)
  <2>0. UNCHANGED <<shared, statics, owned, broken, ready>> /\ th[t].pc = "read maps"
    BY <1>8 DEF ReadMaps
  <2>1. CASE \E s \in Slots : Wanted(t, s) /\ Callback(t, s, "opened", {}, {})
    <3>1. PICK s \in Slots : Wanted(t, s) /\ Callback(t, s, "opened", {}, {})
      BY <2>1
    <3>2. image[s] \in Libs /\ (th[t].op # "open" => s = th[t].at)
      BY <3>1 DEF Wanted
    <3> QED BY <2>0, <3>1, <3>2, <1>0, CallsMake
  <2>2. CASE Goto(t, "opened") /\ UNCHANGED <<faults, heap, freedTwice, obj>>
    <3>1. Same /\ th'[t].pc = "opened"
      BY <2>2, Goes, PcsAre
    <3> QED BY <2>0, <2>2, <3>1 DEF Quiet
  <2>3. CASE Works(FALSE) /\ Goto(t, "opened") /\ UNCHANGED <<heap, freedTwice, obj>>
    <3>1. Same /\ th'[t].pc = "opened" /\ (faults > 0 => faults' > 0)
      BY <2>3, Goes, PcsAre, WorksTypes
    <3> QED BY <2>0, <2>3, <3>1 DEF Quiet
  <2> QED BY <1>8, <2>1, <2>2, <2>3 DEF ReadMaps
<1>9. CASE Opened(t)
  BY <1>9 DEF Opened
<1> QED BY <1>1, <1>2, <1>3, <1>4, <1>5, <1>6, <1>7, <1>8, <1>9 DEF Search

\* A lookup goes on with its handle, which nobody else changes, or returns.
Returned(t) == th'[t].pc = "idle" /\ th'[t].op = "clean" /\ th'[t].h = NoHandle /\ ready'

GoesOn(t) ==
  /\ th'[t].h = th[t].h /\ th'[t].op = th[t].op /\ th'[t].at = th[t].at
  /\ UNCHANGED ready
  /\ \/ th[t].pc = "dynsym" /\ th'[t].pc = "symtab" /\ th[t].op = "addr"
     \/ th'[t].pc \in Loading /\ th[t].pc \in Loading \cup {"symtab"}

LEMMA LookupMoves ==
  ASSUME TypeOK, NEW t \in Threads, Lookup(t)
  PROVE  /\ UNCHANGED <<shared, mutexInited, linkerMutex, owned>>
         /\ faults > 0 => faults' > 0
         /\ \A x \in Handles : <<x, "self">> \in heap' <=> <<x, "self">> \in heap
         /\ \A x \in Handles : /\ obj'[x].at = obj[x].at /\ obj'[x].lib = obj[x].lib
                               /\ obj'[x].live = obj[x].live
                               /\ obj[x].symTried => obj'[x].symTried
                               /\ x # th[t].h => obj'[x] = obj[x]
         /\ th[t].pc \in {"dynsym", "symtab"} \cup Loading
         /\ Returned(t) \/ GoesOn(t)
         /\ th[t].pc = "symtab" /\ obj[th[t].h].symTried => Returned(t) /\ UNCHANGED memory
         /\ th[t].h \in Handles /\ obj[th[t].h].symtab # obj'[th[t].h].symtab =>
              th[t].pc \in Loading /\ th'[t].pc = "load end"
         /\ th[t].h \in Handles /\ th'[t].pc \in Loading /\ th[t].pc = "symtab" =>
              obj'[th[t].h].symTried /\ ~obj[th[t].h].symTried
         /\ th'[t].pc \in Loading \ {"load end"} => th[t].pc # "load end"
<1> USE DEF TypeOK, shared, statics, memory, misc, Loading
<1> DEFINE Same == th'[t].h = th[t].h /\ th'[t].op = th[t].op /\ th'[t].at = th[t].at
           SelfKept == \A x \in Handles : <<x, "self">> \in heap' <=> <<x, "self">> \in heap
<1>0. th[t].h \in Handles \cup {NoHandle} /\ \A x \in Handles : obj[x] \in Contents
  BY DEF Controls
<1>r. Return(t) => Returned(t)
  BY Returns DEF Returned
<1>g. \A pc \in Pcs : Goto(t, pc) => Same /\ th'[t].pc = pc
  BY Goes
<1>n. \A gone : /\ \A x \in Handles : <<x, "self">> \notin gone
                /\ GiveUp(t, gone)
                => Same /\ th'[t].pc = "section" /\ SelfKept
  BY NextSections DEF GiveUp, Trade
<1>f. \A ok \in BOOLEAN : Works(ok) /\ faults > 0 => faults' > 0
  BY WorksTypes
<1>1. CASE Dynsym(t)
  <2>1. Returned(t) \/ (th[t].op = "addr" /\ Goto(t, "symtab") /\ UNCHANGED ready)
    BY <1>1, <1>r DEF Dynsym
  <2>2. Returned(t) \/ (GoesOn(t) /\ th'[t].pc = "symtab")
    BY <1>1, <2>1, <1>g, PcsAre DEF Dynsym, GoesOn
  <2> QED BY <1>1, <2>2, <1>0 DEF Dynsym, Returned
<1>2. CASE Symtab(t)
  <2>0. /\ UNCHANGED <<shared, statics, owned, broken>> /\ th[t].pc = "symtab"
        /\ "section" \in Pcs
    BY <1>2 DEF Symtab, Pcs
  <2>1. CASE obj[th[t].h].symTried /\ Return(t) /\ UNCHANGED <<memory, faults>>
    BY <2>0, <2>1, <1>0, <1>r DEF Returned
  <2>2. CASE /\ ~obj[th[t].h].symTried
             /\ obj' = [obj EXCEPT ![th[t].h].symTried = TRUE]
             /\ Works(TRUE) /\ Trade({}, Temporaries(t))
             /\ Goto(t, "section") /\ UNCHANGED ready
    <3>1. Same /\ th'[t].pc = "section"
      BY <2>0, <2>2, <1>g
    <3>2. SelfKept
      BY <2>2 DEF Trade, Temporaries
    <3>3. GoesOn(t)
      BY <2>0, <2>2, <3>1 DEF GoesOn
    <3> QED BY <2>0, <2>2, <3>1, <3>2, <3>3, <1>0, <1>f, Tries
  <2>3. CASE /\ ~obj[th[t].h].symTried
             /\ obj' = [obj EXCEPT ![th[t].h].symTried = TRUE]
             /\ Works(FALSE) /\ Return(t) /\ UNCHANGED <<heap, freedTwice>>
    BY <2>0, <2>3, <1>0, <1>f, <1>r, Tries DEF Returned
  <2> QED BY <1>2, <2>1, <2>2, <2>3 DEF Symtab
<1>3. CASE Section(t)
  <2>0. /\ UNCHANGED <<shared, statics, owned, broken, ready>> /\ th[t].pc = "section"
    BY <1>3 DEF Section
  <2>1. CASE /\ Works(TRUE) /\ Trade({}, {<<th[t].h, "symtab">>, <<th[t].h, "strtab">>})
             /\ obj' = [obj EXCEPT ![th[t].h].symtab = "plain"] /\ Goto(t, "load end")
    <3>1. Same /\ th'[t].pc = "load end"
      BY <2>1, <1>g, PcsAre
    <3>2. SelfKept
      BY <2>1 DEF Trade
    <3>3. GoesOn(t)
      BY <2>0, <3>1 DEF GoesOn
    <3> QED BY <2>0, <2>1, <3>1, <3>2, <3>3, <1>0, <1>f, Sets
  <2>2. CASE /\ Works(TRUE) /\ Trade({}, {<<t, "zip">>}) /\ UNCHANGED obj
             /\ Goto(t, IF inited THEN "decode" ELSE "lzma open")
    <3>1. Same /\ th'[t].pc \in {"decode", "lzma open"}
      BY <2>2, <1>g, PcsAre
    <3>2. SelfKept
      BY <2>2 DEF Trade
    <3>3. GoesOn(t)
      BY <2>0, <3>1 DEF GoesOn
    <3> QED BY <2>0, <2>2, <3>1, <3>2, <3>3, <1>0, <1>f
  <2>3. CASE Works(FALSE) /\ NextSection(t) /\ UNCHANGED <<heap, freedTwice, obj>>
    <3>1. Same /\ th'[t].pc = "section"
      BY <2>3, NextSections
    <3>2. GoesOn(t)
      BY <2>0, <3>1 DEF GoesOn
    <3> QED BY <2>0, <2>3, <3>1, <3>2, <1>0, <1>f
  <2>4. CASE Goto(t, "load end") /\ UNCHANGED <<memory, faults>>
    <3>1. Same /\ th'[t].pc = "load end"
      BY <2>4, <1>g, PcsAre
    <3>2. GoesOn(t)
      BY <2>0, <3>1 DEF GoesOn
    <3> QED BY <2>0, <2>4, <3>1, <3>2, <1>0
  <2> QED BY <1>3, <2>1, <2>2, <2>3, <2>4 DEF Section
<1>4. CASE LoadEnd(t)
  <2>1. SelfKept
    BY <1>4 DEF LoadEnd, Trade, Temporaries
  <2> QED BY <1>4, <2>1, <1>0, <1>r DEF LoadEnd, Returned
<1>5. CASE LzmaOpen(t)
  <2>1. Same /\ th'[t].pc \in {"lzma set", "lzma done"}
    BY <1>5, <1>g, PcsAre DEF LzmaOpen
  <2>2. GoesOn(t)
    BY <1>5, <2>1 DEF LzmaOpen, GoesOn
  <2> QED BY <1>5, <2>1, <2>2, <1>0, <1>f DEF LzmaOpen
<1>6. CASE LzmaSet(t)
  <2>1. Same /\ th'[t].pc \in {"lzma set", "lzma done"}
    BY <1>6, <1>g, PcsAre DEF LzmaSet
  <2>2. GoesOn(t)
    BY <1>6, <2>1 DEF LzmaSet, GoesOn
  <2> QED BY <1>6, <2>1, <2>2, <1>0 DEF LzmaSet
<1>7. CASE LzmaDone(t)
  <2>1. Same /\ th'[t].pc = "decode"
    BY <1>7, <1>g, PcsAre DEF LzmaDone
  <2>2. GoesOn(t)
    BY <1>7, <2>1 DEF LzmaDone, GoesOn
  <2> QED BY <1>7, <2>1, <2>2, <1>0 DEF LzmaDone
<1>8. CASE Decode(t)
  <2>0. /\ UNCHANGED <<shared, statics, obj, owned, ready>> /\ th[t].pc = "decode"
        /\ faults > 0 => faults' > 0
    BY <1>8, <1>f DEF Decode
  <2>1. Same /\ th'[t].pc \in {"section", "parse"} /\ SelfKept
    <3>1. CASE GiveUp(t, {})
      BY <3>1, <1>n
    <3>2. CASE Trade({}, {<<th[t].h, "debugdata">>}) /\ Goto(t, "parse")
      BY <3>2, <1>g, PcsAre DEF Trade
    <3>3. CASE GiveUp(t, {<<th[t].h, "debugdata">>})
      <4>1. Trade({<<t, "zip">>} \cup {<<th[t].h, "debugdata">>}, {}) /\ NextSection(t)
        BY <3>3 DEF GiveUp
      <4> QED BY <4>1, NextSections DEF Trade
    <3>4. CASE /\ Trade({<<t, "zip">>}, {<<th[t].h, "lost debugdata">>})
               /\ NextSection(t)
      BY <3>4, NextSections DEF Trade
    <3> QED BY <1>8, <3>1, <3>2, <3>3, <3>4 DEF Decode
  <2>2. GoesOn(t)
    BY <2>0, <2>1 DEF GoesOn
  <2> QED BY <2>0, <2>1, <2>2, <1>0
<1>9. CASE Parse(t)
  <2>0. UNCHANGED <<shared, statics, owned, misc>> /\ th[t].pc = "parse"
    BY <1>9 DEF Parse
  <2>1. CASE /\ Trade({<<t, "zip">>}, {}) /\ Goto(t, "load end")
             /\ obj' = [obj EXCEPT ![th[t].h].symtab = "unzipped"]
    <3>1. Same /\ th'[t].pc = "load end"
      BY <2>1, <1>g, PcsAre
    <3>2. SelfKept
      BY <2>1 DEF Trade
    <3>3. GoesOn(t)
      BY <2>0, <3>1 DEF GoesOn
    <3> QED BY <2>0, <2>1, <3>1, <3>2, <3>3, <1>0, Sets
  <2>2. CASE GiveUp(t, {<<th[t].h, "debugdata">>}) /\ UNCHANGED obj
    <3>1. Trade({<<t, "zip">>} \cup {<<th[t].h, "debugdata">>}, {}) /\ NextSection(t)
      BY <2>2 DEF GiveUp
    <3>2. Same /\ th'[t].pc = "section" /\ SelfKept
      BY <3>1, NextSections DEF Trade
    <3>3. GoesOn(t)
      BY <2>0, <3>2 DEF GoesOn
    <3> QED BY <2>0, <2>2, <3>2, <3>3, <1>0
  <2> QED BY <1>9, <2>1, <2>2 DEF Parse
<1> QED BY <1>1, <1>2, <1>3, <1>4, <1>5, <1>6, <1>7, <1>8, <1>9 DEF Lookup

-----------------------------------------------------------------------------
(* The linker's mutex *)

LEMMA MutexStart ==
  ASSUME TypeOK, ConstructInv, MutexInv, NEW t \in Threads, Start(t)
  PROVE  ConstructInv' /\ MutexInv'
<1> USE XdlAssumption DEF shared, statics, misc
<1>1. /\ th[t].pc = "idle" /\ (ready \/ t = Main)
      /\ UNCHANGED <<shared, statics, misc>>
      /\ \A u \in Threads \ {t} : th'[u] = th[u]
      /\ TakesMutex' = TakesMutex
  BY StartMoves, StartTypes DEF Others, TakesMutex
<1>2. \/ th'[t].pc \in {"dynsym", "symtab", "idle"} /\ ready
      \/ th'[t].pc = "iterate" /\ (ready \/ th'[t].op = "open")
  BY <1>1, StartMoves DEF Asking, Close, Clean
<1>3. ConstructInv'
  BY <1>1, <1>2 DEF ConstructInv, OpeningInv, NestedInv, FoundInv, Nested
<1>4. MutexInv'
  BY <1>1, <1>2 DEF MutexInv
<1> QED BY <1>3, <1>4

\* What a callback does to the control.
LEMMA CallsGo ==
  ASSUME TypeOK, NEW t \in Threads, NEW s \in Slots, image[s] \in Libs, NEW pc \in Pcs,
         NEW new, Callback(t, s, pc, {}, new)
  PROVE  /\ th'[t].pc = pc /\ th'[t].op = th[t].op
         /\ th'[t].h = NoHandle => faults' > 0
<1>1. PICK ok \in BOOLEAN, h \in Handles :
        /\ <<h, "self">> \notin heap
        /\ faults' \in 0..MaxFaults
        /\ ~ok => faults' > 0
        /\ faults > 0 => faults' > 0
        /\ Trade({}, new \cup IF ok THEN {<<h, "self">>, <<h, "pathname">>} ELSE {})
        /\ freedTwice' \in BOOLEAN
        /\ obj' \in [Handles -> Contents]
        /\ ok => obj'[h] = Fresh(s, image[s])
        /\ \A x \in Handles : x # h \/ ~ok => obj'[x] = obj[x]
        /\ th' \in [Threads -> Controls]
        /\ th'[t].pc = pc /\ th'[t].h = IF ok THEN h ELSE NoHandle
        /\ th'[t].op = th[t].op /\ th'[t].name = th[t].name /\ th'[t].at = th[t].at
        /\ \A u \in Threads \ {t} : th'[u] = th[u]
  BY Calls
<1> QED BY <1>1, XdlAssumption

LEMMA MutexSearch ==
  ASSUME TypeOK, ConstructInv, MutexInv, image[LinkerSlot] = Linker, NEW t \in Threads, Search(t)
  PROVE  ConstructInv' /\ MutexInv'
<1> USE XdlAssumption
<1>1. /\ UNCHANGED <<api, changing>>
      /\ \A u \in Threads \ {t} : th'[u] = th[u]
      /\ faults > 0 => faults' > 0
  BY SearchMoves, SearchTypes DEF Others
<1>2. th[t].pc # "idle"
  BY DEF Search, Iterate, NestedOpen, NestedSym, AskLinker, Lock, Walk, Unlock, ReadMaps,
         Opened
<1>3. /\ ~ready => t = Main /\ th[t].op = "open"
      /\ \A u \in Threads : ~ready /\ u # t => th[u].pc = "idle"
  BY <1>2 DEF ConstructInv, OpeningInv
<1>4. /\ Linker # t /\ NoLib # t /\ Linker # NoLib
      /\ \A u \in Threads : NoLib # u /\ Linker # u
  OBVIOUS
<1> USE DEF shared, statics, misc
<1>5. CASE Iterate(t)
  <2>0. /\ UNCHANGED <<holder, linkerMutex, ready>> /\ th[t].pc = "iterate"
    BY <1>5 DEF Iterate
  <2>1. CASE api = "locked" /\ ~mutexInited /\ mutexInited' = TRUE /\ Goto(t, "nested open")
    <3>1. th'[t].pc = "nested open" /\ th'[t].op = th[t].op
      BY <2>1, Goes, PcsAre DEF TypeOK
    <3>2. ~ready /\ t = Main
      BY <1>3, <2>1 DEF ConstructInv, FoundInv
    <3>3. OpeningInv'
      BY <1>1, <1>3, <2>0, <3>1, <3>2 DEF OpeningInv
    <3>4. NestedInv'
      BY <1>1, <1>3, <2>0, <2>1, <3>1, <3>2 DEF NestedInv, Nested
    <3>5. FoundInv'
      BY <1>1, <1>3, <2>0, <2>1, <3>1, <3>2 DEF ConstructInv, FoundInv, Nested
    <3>6. MutexInv'
      BY <1>1, <2>0, <3>1 DEF MutexInv, TakesMutex
    <3> QED BY <3>3, <3>4, <3>5, <3>6 DEF ConstructInv
  <2>2. CASE /\ ~(api = "locked" /\ ~mutexInited) /\ UNCHANGED mutexInited
             /\ Goto(t, CASE api = "maps" -> "read maps"
                          [] api \in {"locked", "hidden"} /\ WithLinker(t) -> "ask linker"
                          [] OTHER -> "lock")
    <3>1. /\ api = "maps" => Goto(t, "read maps")
          /\ api # "maps" => Goto(t, "ask linker") \/ Goto(t, "lock")
      BY <2>2
    <3>2. /\ th'[t].op = th[t].op
          /\ \/ th'[t].pc = "read maps"
             \/ th'[t].pc \in {"ask linker", "lock"} /\ api # "maps"
      <4>1. th \in [Threads -> Controls]
        BY DEF TypeOK
      <4>2. \A pc \in Pcs : Goto(t, pc) => th'[t].op = th[t].op /\ th'[t].pc = pc
        BY <4>1, Goes
      <4> QED BY <3>1, <4>2, PcsAre
    <3>3. OpeningInv'
      BY <1>1, <1>3, <2>0, <3>2 DEF ConstructInv, OpeningInv
    <3>4. NestedInv'
      BY <1>1, <2>0, <2>2, <3>2 DEF ConstructInv, NestedInv, Nested
    <3>5. FoundInv'
      BY <1>1, <2>0, <2>2, <3>2 DEF ConstructInv, FoundInv, Nested
    <3>6. MutexInv'
      BY <1>1, <2>0, <3>2 DEF MutexInv, TakesMutex
    <3> QED BY <3>3, <3>4, <3>5, <3>6 DEF ConstructInv
  <2> QED BY <1>5, <2>1, <2>2 DEF Iterate
<1>6. CASE NestedOpen(t)
  <2>1. /\ UNCHANGED <<shared, statics, ready>> /\ th[t].pc = "nested open"
    BY <1>6 DEF NestedOpen
  <2>2. th'[t].pc = "nested sym" /\ th'[t].op = th[t].op /\ (th'[t].h = NoHandle => faults' > 0)
    <3>1. Callback(t, LinkerSlot, "nested sym", {}, {<<Linker, "lost maps">>})
      BY <1>6 DEF NestedOpen
    <3>2. image[LinkerSlot] \in Libs
      OBVIOUS
    <3> QED BY <3>1, <3>2, CallsGo, PcsAre
  <2>3. OpeningInv'
    BY <1>1, <1>3, <2>1, <2>2 DEF OpeningInv
  <2>4. NestedInv'
    BY <1>1, <2>1, <2>2 DEF ConstructInv, NestedInv, Nested
  <2>5. FoundInv'
    BY <1>1, <2>1, <2>2 DEF ConstructInv, FoundInv, Nested
  <2>6. MutexInv'
    <3>1. (TakesMutex' <=> TakesMutex) /\ holder' = holder /\ (changing' <=> changing) /\ api' = api
      BY <2>1 DEF TakesMutex
    <3> HIDE XdlAssumption
    <3>2. changing' <=> holder' = Linker
      BY <3>1 DEF MutexInv
    <3>3. ASSUME NEW u \in Threads
          PROVE  /\ holder' = u => th'[u].pc \in {"walk", "unlock"} /\ TakesMutex'
                 /\ th'[u].pc \in {"walk", "unlock"} /\ TakesMutex' => holder' = u
                 /\ th'[u].pc \in {"ask linker", "lock", "walk", "unlock"} => api' # "maps"
      BY <1>1, <2>1, <2>2, <3>1 DEF MutexInv
    <3> QED BY <3>2, <3>3 DEF MutexInv
  <2> QED BY <2>3, <2>4, <2>5, <2>6 DEF ConstructInv
<1>7. CASE NestedSym(t)
  <2>1. /\ UNCHANGED <<shared, mutexInited, ready>> /\ th[t].pc = "nested sym"
        /\ th'[t].pc = "iterate" /\ th'[t].op = th[t].op
    BY <1>7, GoesWith, PcsAre DEF NestedSym, TypeOK
  <2>2. linkerMutex' \/ faults' > 0
    <3>1. PICK ok \in BOOLEAN : Works(ok) /\ linkerMutex' = (ok /\ th[t].h # NoHandle)
      BY <1>7 DEF NestedSym
    <3>2. ~ok => faults' > 0
      BY <3>1, WorksTypes
    <3> QED BY <1>1, <2>1, <3>1, <3>2 DEF ConstructInv, NestedInv
  <2>3. ~ready /\ t = Main /\ mutexInited /\ \A u \in Threads : holder # u
    BY <1>3, <2>1 DEF ConstructInv, NestedInv, MutexInv, Nested
  <2>4. OpeningInv'
    BY <1>1, <1>3, <2>1 DEF OpeningInv
  <2>5. NestedInv'
    BY <1>1, <1>3, <2>1, <2>3 DEF NestedInv, Nested
  <2>6. FoundInv'
    BY <1>1, <2>1, <2>2, <2>3 DEF ConstructInv, FoundInv, Nested
  <2>7. MutexInv'
    <3>1. holder' = holder /\ (changing' <=> changing) /\ api' = api
      BY <2>1
    <3> HIDE XdlAssumption
    <3>2. changing' <=> holder' = Linker
      BY <3>1 DEF MutexInv
    <3>3. ASSUME NEW u \in Threads
          PROVE  /\ holder' = u => th'[u].pc \in {"walk", "unlock"} /\ TakesMutex'
                 /\ th'[u].pc \in {"walk", "unlock"} /\ TakesMutex' => holder' = u
                 /\ th'[u].pc \in {"ask linker", "lock", "walk", "unlock"} => api' # "maps"
      BY <1>1, <1>3, <2>1, <2>3, <3>1 DEF MutexInv
    <3> QED BY <3>2, <3>3 DEF MutexInv
  <2> QED BY <2>4, <2>5, <2>6, <2>7 DEF ConstructInv
<1>8. CASE AskLinker(t) \/ ReadMaps(t) \/ Walk(t)
  <2>c. ASSUME NEW s \in Slots, NEW pc \in Pcs, NEW new, Wanted(t, s),
               Callback(t, s, pc, {}, new)
        PROVE  th'[t].pc = pc /\ th'[t].op = th[t].op
    <3>1. image[s] \in Libs
      BY <2>c DEF Wanted, TypeOK
    <3> QED BY <2>c, <3>1, CallsGo
  <2>g. \A pc \in Pcs : Goto(t, pc) => th'[t].pc = pc /\ th'[t].op = th[t].op
    BY Goes DEF TypeOK
  <2>1. /\ UNCHANGED <<shared, statics, ready>>
        /\ \/ th[t].pc \in {"ask linker", "read maps"} /\ th'[t].pc \in {"lock", "opened"}
           \/ th[t].pc = "walk" /\ th'[t].pc = "unlock"
        /\ th[t].pc = "read maps" => th'[t].pc = "opened"
        /\ th'[t].op = th[t].op
    <3>1. CASE AskLinker(t)
      BY <3>1, <2>c, <2>g, PcsAre DEF AskLinker
    <3>2. CASE ReadMaps(t)
      BY <3>2, <2>c, <2>g, PcsAre DEF ReadMaps
    <3>3. CASE Walk(t)
      BY <3>3, <2>c, <2>g, PcsAre DEF Walk
    <3> QED BY <1>8, <3>1, <3>2, <3>3
  <2>2. OpeningInv'
    BY <1>1, <1>3, <2>1 DEF ConstructInv, OpeningInv
  <2>3. NestedInv'
    BY <1>1, <2>1 DEF ConstructInv, NestedInv, Nested
  <2>4. FoundInv'
    BY <1>1, <2>1 DEF ConstructInv, FoundInv, Nested
  <2>5. MutexInv'
    <3>1. (TakesMutex' <=> TakesMutex) /\ holder' = holder /\ (changing' <=> changing) /\ api' = api
      BY <2>1 DEF TakesMutex
    <3> HIDE XdlAssumption
    <3>2. changing' <=> holder' = Linker
      BY <3>1 DEF MutexInv
    <3>3. ASSUME NEW u \in Threads
          PROVE  /\ holder' = u => th'[u].pc \in {"walk", "unlock"} /\ TakesMutex'
                 /\ th'[u].pc \in {"walk", "unlock"} /\ TakesMutex' => holder' = u
                 /\ th'[u].pc \in {"ask linker", "lock", "walk", "unlock"} => api' # "maps"
      BY <1>1, <2>1, <3>1 DEF MutexInv
    <3> QED BY <3>2, <3>3 DEF MutexInv
  <2> QED BY <2>2, <2>3, <2>4, <2>5 DEF ConstructInv
<1>9. CASE Lock(t) \/ Unlock(t)
  <2>1. /\ UNCHANGED <<api, changing, statics, ready>> /\ th'[t].op = th[t].op
        /\ \/ /\ th[t].pc = "lock" /\ th'[t].pc = "walk"
              /\ TakesMutex => holder = NoLib
              /\ holder' = IF TakesMutex THEN t ELSE holder
           \/ /\ th[t].pc = "unlock" /\ th'[t].pc = "opened"
              /\ holder' = IF TakesMutex /\ holder = t THEN NoLib ELSE holder
    BY <1>9, Goes, PcsAre DEF Lock, Unlock, TypeOK
  <2>2. OpeningInv'
    BY <1>1, <1>3, <2>1 DEF ConstructInv, OpeningInv
  <2>3. NestedInv'
    BY <1>1, <2>1 DEF ConstructInv, NestedInv, Nested
  <2>4. FoundInv'
    BY <1>1, <2>1 DEF ConstructInv, FoundInv, Nested
  <2>5. MutexInv'
    <3>1. (TakesMutex' <=> TakesMutex) /\ (changing' <=> changing) /\ api' = api
      BY <2>1 DEF TakesMutex
    <3> HIDE XdlAssumption
    <3>a. holder = Linker <=> holder' = Linker
      BY <1>4, <2>1
    <3>2. changing' <=> holder' = Linker
      BY <3>1, <3>a DEF MutexInv
    <3>3. ASSUME NEW u \in Threads
          PROVE  /\ holder' = u => th'[u].pc \in {"walk", "unlock"} /\ TakesMutex'
                 /\ th'[u].pc \in {"walk", "unlock"} /\ TakesMutex' => holder' = u
                 /\ th'[u].pc \in {"ask linker", "lock", "walk", "unlock"} => api' # "maps"
      <4>1. CASE u # t
        BY <4>1, <1>1, <1>4, <2>1, <3>1 DEF MutexInv
      <4>2. CASE u = t
        BY <4>2, <1>4, <2>1, <3>1 DEF MutexInv
      <4> QED BY <4>1, <4>2
    <3> QED BY <3>2, <3>3 DEF MutexInv
  <2> QED BY <2>2, <2>3, <2>4, <2>5 DEF ConstructInv
<1>10. CASE Opened(t)
  <2>1. /\ UNCHANGED <<shared, statics>> /\ th[t].pc = "opened"
        /\ \/ th'[t].pc = "idle" /\ ready'
           \/ th'[t].pc = "dynsym" /\ th'[t].op = th[t].op /\ UNCHANGED ready
    BY <1>10, Returns, Goes, PcsAre DEF Opened, TypeOK
  <2>2. OpeningInv'
    BY <1>1, <1>3, <2>1 DEF ConstructInv, OpeningInv
  <2>3. NestedInv'
    BY <1>1, <1>3, <2>1 DEF ConstructInv, NestedInv, Nested
  <2>4. FoundInv'
    BY <1>1, <2>1 DEF ConstructInv, FoundInv, Nested
  <2>5. MutexInv'
    <3>1. (TakesMutex' <=> TakesMutex) /\ holder' = holder /\ (changing' <=> changing) /\ api' = api
      BY <1>1, <2>1 DEF TakesMutex
    <3> HIDE XdlAssumption
    <3>2. changing' <=> holder' = Linker
      BY <3>1 DEF MutexInv
    <3>3. ASSUME NEW u \in Threads
          PROVE  /\ holder' = u => th'[u].pc \in {"walk", "unlock"} /\ TakesMutex'
                 /\ th'[u].pc \in {"walk", "unlock"} /\ TakesMutex' => holder' = u
                 /\ th'[u].pc \in {"ask linker", "lock", "walk", "unlock"} => api' # "maps"
      BY <1>1, <2>1, <3>1 DEF MutexInv
    <3> QED BY <3>2, <3>3 DEF MutexInv
  <2> QED BY <2>2, <2>3, <2>4, <2>5 DEF ConstructInv
<1> QED BY <1>5, <1>6, <1>7, <1>8, <1>9, <1>10 DEF Search

LEMMA MutexLookup ==
  ASSUME TypeOK, ConstructInv, MutexInv, NEW t \in Threads, Lookup(t)
  PROVE  ConstructInv' /\ MutexInv'
<1> USE XdlAssumption DEF shared
<1>1. /\ UNCHANGED <<shared, mutexInited, linkerMutex>>
      /\ faults > 0 => faults' > 0
      /\ th[t].pc \in {"dynsym", "symtab"} \cup Loading
  BY LookupMoves
<1>2. \A u \in Threads \ {t} : th'[u] = th[u]
  BY LookupTypes DEF Others
<1>3. \/ th'[t].pc = "idle" /\ ready'
      \/ /\ th'[t].pc \in {"symtab"} \cup Loading /\ UNCHANGED ready
         /\ th'[t].op = th[t].op
  BY LookupMoves DEF Returned, GoesOn
<1>4. /\ th[t].pc \notin {"idle", "iterate", "nested open", "nested sym", "ask linker", "lock",
                           "walk", "unlock"}
      /\ th'[t].pc \notin {"iterate", "nested open", "nested sym", "ask linker", "lock",
                           "walk", "unlock"}
  BY <1>1, <1>3 DEF Loading
<1>5. OpeningInv'
  BY <1>1, <1>2, <1>3, <1>4 DEF ConstructInv, OpeningInv
<1>6. NestedInv'
  BY <1>1, <1>2, <1>3, <1>4 DEF ConstructInv, OpeningInv, NestedInv, Nested
<1>7. FoundInv'
  BY <1>1, <1>2, <1>3, <1>4 DEF ConstructInv, FoundInv, Nested
<1>8. MutexInv'
  BY <1>1, <1>2, <1>4 DEF MutexInv, TakesMutex
<1> QED BY <1>5, <1>6, <1>7, <1>8 DEF ConstructInv

LEMMA MutexLinker ==
  ASSUME TypeOK, ConstructInv, MutexInv, BeginChange \/ EndChange
  PROVE  ConstructInv' /\ MutexInv'
<1> USE XdlAssumption DEF statics, misc
<1>1. UNCHANGED <<api, th, mutexInited, linkerMutex, ready, faults>> /\ TakesMutex' = TakesMutex
  BY DEF BeginChange, EndChange, TakesMutex
<1>2. \/ holder = NoLib /\ holder' = Linker /\ changing'
      \/ changing /\ holder' = NoLib /\ ~changing'
  BY DEF BeginChange, EndChange
<1>3. ConstructInv'
  BY <1>1 DEF ConstructInv, OpeningInv, NestedInv, FoundInv
<1>4. MutexInv'
  BY <1>1, <1>2 DEF MutexInv
<1> QED BY <1>3, <1>4

\* What the mutex is for.
LEMMA WalksAlone ==
  ASSUME TypeOK, ConstructInv, MutexInv
  PROVE  ListExclusive
<1> USE XdlAssumption
<1>1. ASSUME changing, NEW t \in Threads, th[t].pc = "walk"
      PROVE  api = "locked" /\ ~linkerMutex /\ faults > 0
  <2>1. ~TakesMutex /\ api # "maps"
    BY <1>1 DEF MutexInv
  <2>2. api = "locked" /\ ~linkerMutex
    BY <2>1 DEF TakesMutex, TypeOK
  <2>3. mutexInited
    BY <1>1, <2>2 DEF ConstructInv, NestedInv, FoundInv
  <2>4. th[Main].pc \notin Nested
    BY <1>1 DEF ConstructInv, OpeningInv, NestedInv, Nested
  <2> QED BY <2>2, <2>3, <2>4 DEF ConstructInv, NestedInv, FoundInv
<1>2. \A t \in Threads : holder = t => th[t].pc \in {"walk", "unlock"}
  BY DEF MutexInv
<1> QED BY <1>1, <1>2 DEF ListExclusive

-----------------------------------------------------------------------------
(* The functions of liblzma *)

LEMMA LzmaKept ==
  ASSUME TypeOK, LzmaInv, NEW t \in Threads, Others(t), UNCHANGED <<inited, lzma>>,
         faults > 0 => faults' > 0, th'[t].pc \notin {"lzma done", "decode"}
  PROVE  LzmaInv'
BY DEF LzmaInv, Others

LEMMA LzmaLookup ==
  ASSUME TypeOK, LzmaInv, NEW t \in Threads, Lookup(t)
  PROVE  LzmaInv'
<1>1. TypeOK' /\ Others(t) /\ (faults > 0 => faults' > 0)
  BY LookupTypes, LookupMoves
<1>2. \A u \in Threads \ {t} : th'[u] = th[u]
  BY <1>1 DEF Others
<1>g. \A pc \in Pcs : Goto(t, pc) => th'[t].pc = pc
  BY Goes DEF TypeOK
<1> USE DEF statics, misc
<1>3. CASE Section(t)
  <2>1. CASE Goto(t, IF inited THEN "decode" ELSE "lzma open") /\ th[t].pc = "section"
    <3>1. th'[t].pc \in {"decode", "lzma open"} /\ (th'[t].pc = "decode" => inited)
      BY <2>1, <1>g, PcsAre
    <3>2. UNCHANGED <<inited, lzma>>
      BY <1>3 DEF Section
    <3> QED BY <1>1, <1>2, <3>1, <3>2 DEF LzmaInv
  <2>2. CASE Goto(t, "load end") \/ NextSection(t)
    <3>1. th'[t].pc \in {"load end", "section"}
      BY <2>2, <1>g, NextSections, PcsAre DEF TypeOK
    <3> QED BY <1>1, <1>3, <3>1, LzmaKept DEF Section
  <2> QED BY <1>3, <2>1, <2>2 DEF Section
<1>4. CASE LzmaOpen(t)
  <2>1. UNCHANGED <<inited, lzma>>
    BY <1>4 DEF LzmaOpen
  <2>2. th'[t].pc = "lzma set" \/ (th'[t].pc = "lzma done" /\ faults' > 0)
    BY <1>4, <1>g, WorksTypes, PcsAre DEF LzmaOpen
  <2> QED BY <1>1, <1>2, <2>1, <2>2 DEF LzmaInv
<1>5. CASE LzmaSet(t)
  <2>1. PICK n \in 1..4 :
          /\ \A k \in 1..(n - 1) : LzmaOrder[k] \in lzma
          /\ lzma' = lzma \cup {LzmaOrder[n]}
          /\ Goto(t, IF n = 4 THEN "lzma done" ELSE "lzma set")
    BY <1>5 DEF LzmaSet
  <2>2. inited' = inited
    BY <1>5 DEF LzmaSet
  <2>3. th'[t].pc = "lzma set" \/ (th'[t].pc = "lzma done" /\ n = 4)
    BY <2>1, <1>g, PcsAre
  <2>4. \A m \in 2..4 : LzmaOrder[m] \in lzma' => LzmaOrder[m - 1] \in lzma'
    <3>1. SUFFICES ASSUME NEW m \in 2..4, LzmaOrder[m] \in lzma'
                   PROVE  LzmaOrder[m - 1] \in lzma'
      OBVIOUS
    <3>2. CASE LzmaOrder[m] \in lzma
      BY <2>1, <3>2 DEF LzmaInv
    <3>3. CASE LzmaOrder[m] = LzmaOrder[n]
      <4>1. m = n
        <5>1. /\ m = 2 \/ m = 3 \/ m = 4
              /\ n = 1 \/ n = 2 \/ n = 3 \/ n = 4
          OBVIOUS
        <5> QED BY <3>3, <5>1, OrderIs
      <4>2. m - 1 \in 1..(n - 1)
        BY <4>1
      <4> QED BY <2>1, <4>2
    <3> QED BY <2>1, <3>1, <3>2, <3>3
  <2>5. "code" \in lzma => "code" \in lzma'
    BY <2>1
  <2>6. th'[t].pc = "lzma done" => "code" \in lzma'
    BY <2>1, <2>3, OrderIs
  <2> QED BY <1>1, <1>2, <2>2, <2>3, <2>4, <2>5, <2>6 DEF LzmaInv
<1>6. CASE LzmaDone(t)
  <2>1. lzma' = lzma /\ th'[t].pc = "decode" /\ th[t].pc = "lzma done"
    BY <1>6, <1>g, PcsAre DEF LzmaDone
  <2> QED BY <1>1, <1>2, <2>1 DEF LzmaInv
<1>7. CASE Dynsym(t) \/ Symtab(t) \/ LoadEnd(t) \/ Decode(t) \/ Parse(t)
  <2>1. UNCHANGED <<inited, lzma>>
    BY <1>7 DEF Dynsym, Symtab, LoadEnd, Decode, Parse
  <2>2. th'[t].pc \notin {"lzma done", "decode"}
    <3>1. CASE Dynsym(t) \/ Symtab(t) \/ LoadEnd(t)
      BY <3>1, <1>g, Returns, PcsAre DEF Dynsym, Symtab, LoadEnd, TypeOK
    <3>2. CASE Decode(t) \/ Parse(t)
      BY <3>2, <1>g, NextSections, PcsAre DEF Decode, Parse, GiveUp, TypeOK
    <3> QED BY <1>7, <3>1, <3>2
  <2> QED BY <1>1, <2>1, <2>2, LzmaKept
<1> QED BY <1>3, <1>4, <1>5, <1>6, <1>7 DEF Lookup

\* What the order is for.
LEMMA DecodesWithAll ==
  ASSUME TypeOK, LzmaInv
  PROVE  LzmaReady
<1>1. "code" \in lzma => lzma = Pointers
  <2>1. SUFFICES ASSUME "code" \in lzma PROVE lzma = Pointers
    OBVIOUS
  <2>2. /\ LzmaOrder[4] \in lzma => LzmaOrder[3] \in lzma
        /\ LzmaOrder[3] \in lzma => LzmaOrder[2] \in lzma
        /\ LzmaOrder[2] \in lzma => LzmaOrder[1] \in lzma
    <3>1. /\ 4 \in 2..4 /\ 3 \in 2..4 /\ 2 \in 2..4
          /\ 4 - 1 = 3 /\ 3 - 1 = 2 /\ 2 - 1 = 1
      OBVIOUS
    <3>2. \A n \in 2..4 : LzmaOrder[n] \in lzma => LzmaOrder[n - 1] \in lzma
      BY DEF LzmaInv
    <3> QED BY <3>1, <3>2
  <2> QED BY <2>1, <2>2, OrderIs DEF Pointers, TypeOK
<1> QED BY <1>1 DEF LzmaReady, LzmaInv

-----------------------------------------------------------------------------
(* The handles *)

HandlesInv == SlotInv /\ OwnInv /\ CallInv /\ LoadInv

LEMMA HeldType ==
  ASSUME TypeOK, NEW t \in Threads
  PROVE  Held(t) \subseteq Handles
BY RangeType DEF Held, TypeOK, Controls

\* The handle of a call that looks something up is one of the thread's.
LEMMA WorksOnHeld ==
  ASSUME TypeOK, CallInv, NEW t \in Threads, th[t].pc \in {"dynsym", "symtab"} \cup Loading
  PROVE  th[t].h \in Held(t)
BY DEF CallInv, CallAt, Held

\* A step of one thread that leaves the others' handles alone keeps what they know.
LEMMA OthersKeep ==
  ASSUME TypeOK, HandlesInv, NEW t \in Threads, Others(t), NEW u \in Threads \ {t},
         \A h \in Held(u) : obj'[h] = obj[h] /\ <<h, "self">> \in heap'
  PROVE  OwnAt(u)' /\ CallAt(u)' /\ LoadAt(u)' /\ Held(u)' = Held(u)
<1>1. th'[u] = th[u] /\ hand'[u] = hand[u] /\ cache'[u] = cache[u]
  BY DEF Others
<1>2. OwnAt(u) /\ CallAt(u) /\ LoadAt(u)
  BY DEF HandlesInv, OwnInv, CallInv, LoadInv
<1>3. Held(u)' = Held(u)
  BY <1>1 DEF Held
<1>4. OwnAt(u)'
  BY <1>1, <1>2, <1>3 DEF OwnAt
<1>5. CallAt(u)'
  <2>1. th[u].pc \in MadePcs /\ th[u].h # NoHandle => th[u].h \in Held(u)
    BY DEF Held
  <2>2. th[u].h \in Range(cache[u]) => th[u].h \in Held(u)
    BY DEF Held
  <2> QED BY <1>1, <1>2, <2>1, <2>2 DEF CallAt
<1>6. LoadAt(u)'
  <2>1. th[u].pc \in Loading => th[u].h \in Held(u)
    BY WorksOnHeld DEF HandlesInv
  <2> QED BY <1>1, <1>2, <2>1 DEF LoadAt
<1> QED BY <1>3, <1>4, <1>5, <1>6

\* What is left to show of a step: its own thread, and that it takes nobody's handle.
LEMMA HandlesKept ==
  ASSUME TypeOK, HandlesInv, NEW t \in Threads, Others(t), UNCHANGED image,
         \A u \in Threads \ {t} : \A h \in Held(u) :
           obj'[h] = obj[h] /\ <<h, "self">> \in heap',
         \A h \in Held(t)' : h \in Held(t) \/ <<h, "self">> \notin heap,
         \A h \in Handles : /\ obj'[h].live => obj'[h].lib = image[obj'[h].at]
                            /\ ~obj'[h].symTried => obj'[h].symtab = "no",
         OwnAt(t)', CallAt(t)', LoadAt(t)'
  PROVE  HandlesInv'
<1>1. \A u \in Threads \ {t} : OwnAt(u)' /\ CallAt(u)' /\ LoadAt(u)' /\ Held(u)' = Held(u)
  BY OthersKeep
<1>2. SlotInv'
  BY DEF HandlesInv, SlotInv
<1>3. OwnInv'
  <2>1. \A u \in Threads \ {t} : \A h \in Held(u) : <<h, "self">> \in heap
    BY DEF HandlesInv, OwnInv, OwnAt
  <2>2. \A u \in Threads \ {t} : Held(t) \cap Held(u) = {}
    BY DEF HandlesInv, OwnInv
  <2>3. \A u \in Threads \ {t} : Held(t)' \cap Held(u)' = {}
    BY <1>1, <2>1, <2>2
  <2>4. \A u, v \in Threads \ {t} : u # v => Held(u)' \cap Held(v)' = {}
    BY <1>1 DEF HandlesInv, OwnInv
  <2>5. \A u, v \in Threads : u # v => Held(u)' \cap Held(v)' = {}
    BY <2>3, <2>4
  <2> QED BY <1>1, <2>5 DEF OwnInv
<1>4. CallInv' /\ LoadInv'
  BY <1>1 DEF CallInv, LoadInv
<1> QED BY <1>2, <1>3, <1>4 DEF HandlesInv

\* What is released: the handles become blank, and their blocks are gone.
LEMMA Releases ==
  ASSUME TypeOK, NEW S \in SUBSET Handles, Release(S)
  PROVE  /\ \A h \in S : obj'[h] = Blank /\ <<h, "self">> \notin heap'
         /\ \A h \in Handles \ S : /\ obj'[h] = obj[h]
                                   /\ <<h, "self">> \in heap' <=> <<h, "self">> \in heap
<1>1. \A h \in Handles : \A b \in Owns(h) : b[1] = h
  BY DEF Owns, TypeOK, Contents
<1>2. \A h \in Handles : <<h, "self">> \in Owns(h)
  BY DEF Owns
<1>3. \A h \in Handles \ S : <<h, "self">> \notin UNION {Owns(x) : x \in S}
  BY <1>1
<1>4. \A h \in S : <<h, "self">> \in UNION {Owns(x) : x \in S}
  BY <1>2
<1>5. heap' = heap \ UNION {Owns(x) : x \in S}
  BY DEF Release, Trade
<1> QED BY <1>3, <1>4, <1>5 DEF Release

LEMMA BlankIs == /\ Blank.live /\ Blank.lib = Linker /\ Blank.at = LinkerSlot
                 /\ ~Blank.symTried /\ Blank.symtab = "no"
BY DEF Blank, Fresh

LEMMA ReleasedFits ==
  ASSUME TypeOK, HandlesInv, NEW S \in SUBSET Handles, Release(S)
  PROVE  \A h \in Handles : /\ obj'[h].live => obj'[h].lib = image[obj'[h].at]
                            /\ ~obj'[h].symTried => obj'[h].symtab = "no"
BY Releases, BlankIs DEF HandlesInv, SlotInv, LoadInv

\* What becomes of the handles a thread has.
LEMMA HeldFreed ==
  ASSUME TypeOK, HandlesInv, NEW t \in Threads, Close(t) \/ Clean(t)
  PROVE  /\ th' = th /\ th[t].pc = "idle"
         /\ \E S \in SUBSET Held(t) : /\ Release(S) /\ Held(t)' = Held(t) \ S
                                      /\ hand'[t] \notin Range(cache'[t])
<1>1. th' = th /\ th[t].pc = "idle" /\ OwnAt(t)
  BY DEF Close, Clean, Begin, HandlesInv, OwnInv
<1>2. CASE Close(t)
  <2>1. /\ Release({hand[t]}) /\ hand'[t] = NoHandle /\ cache' = cache
        /\ hand[t] # NoHandle
    BY <1>2 DEF Close, TypeOK
  <2>2. hand[t] \in Held(t) /\ NoHandle \notin Range(cache[t])
    BY <2>1, RangeType, XdlAssumption DEF Held
  <2>3. Held(t)' = Held(t) \ {hand[t]}
    BY <1>1, <2>1 DEF Held, OwnAt, MadePcs
  <2> QED BY <1>1, <2>1, <2>2, <2>3
<1>3. CASE Clean(t)
  <2>1. Release(Range(cache[t])) /\ cache'[t] = <<>> /\ hand' = hand
    BY <1>3 DEF Clean, TypeOK
  <2>2. Range(cache'[t]) = {}
    BY <2>1 DEF Range
  <2>3. Held(t)' = Held(t) \ Range(cache[t]) /\ Range(cache[t]) \subseteq Held(t)
    BY <1>1, <2>1, <2>2 DEF Held, OwnAt, MadePcs
  <2> QED BY <1>1, <2>1, <2>2, <2>3
<1> QED BY <1>2, <1>3

LEMMA HeldQuiet ==
  ASSUME TypeOK, HandlesInv, NEW t \in Threads, Quiet(t)
  PROVE  Held(t)' = Held(t)
<1>1. hand' = hand /\ cache' = cache /\ th'[t].h = th[t].h
  BY DEF Quiet, owned
<1>2. /\ th[t].pc \in SearchPcs => th[t].h = NoHandle
      /\ \/ th[t].pc \in SearchPcs /\ th'[t].pc \in SearchPcs \cup MadePcs
         \/ th[t].pc \in MadePcs /\ th'[t].pc \in MadePcs
  BY DEF Quiet, HandlesInv, CallInv, CallAt, MadePcs
<1> QED BY <1>1, <1>2 DEF Held, SearchPcs, MadePcs

LEMMA HeldMade ==
  ASSUME TypeOK, HandlesInv, NEW t \in Threads, NEW s, NEW h \in Handles, NEW ok \in BOOLEAN,
         MakesFor(t, s, h, ok)
  PROVE  Held(t)' = Held(t) \cup (IF ok THEN {h} ELSE {})
<1>1. hand' = hand /\ cache' = cache /\ th'[t].h = IF ok THEN h ELSE NoHandle
  BY DEF MakesFor, owned
<1>2. th'[t].pc \in MadePcs /\ th[t].pc \notin MadePcs
  BY DEF MakesFor, SearchPcs, MadePcs
<1> QED BY <1>1, <1>2, XdlAssumption DEF Held

LEMMA HeldNested ==
  ASSUME TypeOK, HandlesInv, NEW t \in Threads, NestedSym(t)
  PROVE  /\ th[t].pc = "nested sym" /\ th'[t].pc = "iterate"
         /\ th'[t].h = NoHandle /\ th'[t].op = th[t].op
         /\ Release({th[t].h} \ {NoHandle}) /\ {th[t].h} \ {NoHandle} \in SUBSET Held(t)
         /\ Held(t)' = Held(t) \ ({th[t].h} \ {NoHandle})
<1>1. /\ hand' = hand /\ cache' = cache /\ Release({th[t].h} \ {NoHandle})
      /\ th[t].pc = "nested sym" /\ GotoWith(t, "iterate", NoHandle)
  BY DEF NestedSym, owned
<1>2. th'[t].pc = "iterate" /\ th'[t].h = NoHandle /\ th'[t].op = th[t].op
  BY <1>1, GoesWith, PcsAre DEF TypeOK
<1>3. NoHandle \notin Held(t) /\ NoHandle \notin Range(cache[t])
  BY HeldType, RangeType, XdlAssumption
<1>4. Held(t)' = ({hand[t]} \ {NoHandle}) \cup Range(cache[t])
  BY <1>1, <1>2 DEF Held, MadePcs
<1>5. Held(t) = (({hand[t]} \cup {th[t].h}) \ {NoHandle}) \cup Range(cache[t])
  BY <1>1 DEF Held, MadePcs
<1>6. th[t].h = NoHandle \/ (th[t].h # hand[t] /\ th[t].h \notin Range(cache[t]))
  BY <1>1 DEF HandlesInv, OwnInv, OwnAt, MadePcs
<1>7. {th[t].h} \ {NoHandle} \in SUBSET Held(t)
  BY <1>5
<1>8. Held(t)' = Held(t) \ ({th[t].h} \ {NoHandle})
  BY <1>3, <1>4, <1>5, <1>6
<1> QED BY <1>1, <1>2, <1>7, <1>8

LEMMA HeldOpened ==
  ASSUME TypeOK, HandlesInv, NEW t \in Threads, Opened(t)
  PROVE  /\ Held(t)' = Held(t)
         /\ heap' = heap /\ freedTwice' = freedTwice /\ obj' = obj
         /\ th[t].pc = "opened" /\ th'[t].pc \in {"idle", "dynsym"}
<1>1. heap' = heap /\ freedTwice' = freedTwice /\ obj' = obj /\ th[t].pc = "opened"
  BY DEF Opened, memory
<1>2. NoHandle \notin Range(cache[t]) /\ th[t].h \in Handles \cup {NoHandle}
  BY RangeType, XdlAssumption DEF TypeOK, Controls
<1>3. CASE /\ Return(t)
           /\ \/ /\ th[t].op = "open" /\ hand' = [hand EXCEPT ![t] = th[t].h]
                 /\ UNCHANGED cache
              \/ th[t].op = "addr" /\ th[t].h = NoHandle /\ UNCHANGED owned
  <2>1. th'[t].pc = "idle"
    BY <1>3, Returns DEF TypeOK
  <2>2. /\ cache' = cache
        /\ (hand'[t] = th[t].h /\ th[t].op = "open") \/ (hand' = hand /\ th[t].h = NoHandle)
    BY <1>3 DEF owned, TypeOK
  <2>3. th[t].op = "open" => hand[t] = NoHandle
    BY <1>1 DEF HandlesInv, CallInv, CallAt, MadePcs
  <2> QED BY <1>1, <1>2, <2>1, <2>2, <2>3 DEF Held, MadePcs
<1>4. CASE /\ th[t].h # NoHandle /\ Goto(t, "dynsym") /\ hand' = hand
           /\ cache' = [cache EXCEPT ![t] = <<th[t].h>> \o cache[t]]
  <2>1. th'[t].pc = "dynsym" /\ th'[t].h = th[t].h
    BY <1>4, Goes, PcsAre DEF TypeOK
  <2>2. Range(cache'[t]) = {th[t].h} \cup Range(cache[t])
    <3>1. th[t].h \in Handles /\ cache[t] \in Seq(Handles)
      BY <1>2, <1>4 DEF TypeOK
    <3>2. cache'[t] = <<th[t].h>> \o cache[t]
      BY <1>4 DEF TypeOK
    <3>3. PICK h \in Handles : h = th[t].h
      BY <3>1
    <3> QED BY <3>1, <3>2, <3>3, Prepend
  <2> QED BY <1>1, <1>2, <1>4, <2>1, <2>2 DEF Held, MadePcs
<1> QED BY <1>3, <1>4 DEF Opened

LEMMA HandlesStart ==
  ASSUME TypeOK, HandlesInv, NEW t \in Threads, Start(t)
  PROVE  HandlesInv'
<1> USE XdlAssumption
<1>0. TypeOK' /\ Others(t) /\ UNCHANGED image /\ th[t].pc = "idle"
  BY StartTypes, StartMoves DEF shared
<1>1. OwnAt(t) /\ CallAt(t) /\ LoadAt(t) /\ \A u \in Threads \ {t} : OwnAt(u)
  BY DEF HandlesInv, OwnInv, CallInv, LoadInv
<1>2. \A h \in Handles : /\ obj[h].live => obj[h].lib = image[obj[h].at]
                         /\ ~obj[h].symTried => obj[h].symtab = "no"
  BY DEF HandlesInv, SlotInv, LoadInv
<1>3. \A u \in Threads \ {t} : Held(t) \cap Held(u) = {} /\ Held(u) \subseteq Handles
  BY HeldType DEF HandlesInv, OwnInv
<1>4. CASE Asking(t)
  <2>1. heap' = heap /\ obj' = obj /\ hand' = hand /\ cache' = cache
    BY <1>4 DEF Asking, memory, owned
  <2>2. Held(t)' = Held(t) /\ OwnAt(t)'
    <3>1. th'[t].pc \notin MadePcs /\ th[t].pc \notin MadePcs
      BY <1>0, <1>4 DEF Asking, MadePcs
    <3>2. Held(t)' = Held(t)
      BY <2>1, <3>1 DEF Held
    <3> QED BY <1>1, <2>1, <3>1, <3>2 DEF OwnAt
  <2>3. CallAt(t)'
    BY <1>4, <2>1 DEF Asking, CallAt, SearchPcs, MadePcs, Loading
  <2>4. LoadAt(t)'
    BY <1>4 DEF Asking, LoadAt, Loading
  <2>5. \A u \in Threads \ {t} : \A h \in Held(u) : obj'[h] = obj[h] /\ <<h, "self">> \in heap'
    BY <1>1, <2>1 DEF OwnAt
  <2> QED BY <1>0, <1>2, <2>1, <2>2, <2>3, <2>4, <2>5, HandlesKept
<1>5. CASE Close(t) \/ Clean(t)
  <2>0. th' = th
    BY <1>5, HeldFreed
  <2>1. PICK S \in SUBSET Held(t) :
          /\ Release(S) /\ Held(t)' = Held(t) \ S /\ hand'[t] \notin Range(cache'[t])
    BY <1>5, HeldFreed
  <2>2. S \in SUBSET Handles
    BY HeldType
  <2>3. OwnAt(t)'
    <3>1. \A h \in Held(t)' : <<h, "self">> \in heap'
      BY <1>1, <2>1, <2>2, Releases, HeldType DEF OwnAt
    <3> QED BY <1>0, <2>0, <2>1, <3>1 DEF OwnAt, MadePcs
  <2>4. CallAt(t)' /\ LoadAt(t)'
    BY <1>0, <2>0 DEF CallAt, LoadAt, SearchPcs, MadePcs, Loading
  <2>5. \A u \in Threads \ {t} : \A h \in Held(u) : obj'[h] = obj[h] /\ <<h, "self">> \in heap'
    BY <1>1, <1>3, <2>1, <2>2, Releases DEF OwnAt
  <2>6. \A h \in Handles : /\ obj'[h].live => obj'[h].lib = image[obj'[h].at]
                           /\ ~obj'[h].symTried => obj'[h].symtab = "no"
    BY <2>1, <2>2, ReleasedFits
  <2> QED BY <1>0, <2>1, <2>3, <2>4, <2>5, <2>6, HandlesKept
<1> QED BY <1>4, <1>5, StartMoves

LEMMA HandlesSearch ==
  ASSUME TypeOK, ConstructInv, HandlesInv, NEW t \in Threads, Search(t)
  PROVE  HandlesInv'
<1> USE XdlAssumption
<1>0. /\ TypeOK' /\ Others(t) /\ UNCHANGED image
      /\ Quiet(t) \/ Makes(t) \/ NestedSym(t) \/ Opened(t)
  BY SearchTypes, SearchMoves DEF HandlesInv, SlotInv
<1>1. OwnAt(t) /\ CallAt(t) /\ LoadAt(t) /\ \A u \in Threads \ {t} : OwnAt(u)
  BY DEF HandlesInv, OwnInv, CallInv, LoadInv
<1>2. \A h \in Handles : /\ obj[h].live => obj[h].lib = image[obj[h].at]
                         /\ ~obj[h].symTried => obj[h].symtab = "no"
  BY DEF HandlesInv, SlotInv, LoadInv
<1>3. \A u \in Threads \ {t} : Held(t) \cap Held(u) = {} /\ Held(u) \subseteq Handles
  BY HeldType DEF HandlesInv, OwnInv
<1>4. CASE Quiet(t)
  <2>1. obj' = obj /\ hand' = hand /\ cache' = cache
    BY <1>4 DEF Quiet, owned
  <2>2. th'[t].h = th[t].h /\ th'[t].op = th[t].op /\ th'[t].at = th[t].at
    BY <1>4 DEF Quiet
  <2>3. /\ th[t].pc \in SearchPcs => th[t].h = NoHandle
        /\ \/ th[t].pc \in SearchPcs /\ th'[t].pc \in SearchPcs \cup MadePcs
           \/ th[t].pc \in MadePcs /\ th'[t].pc \in MadePcs
    BY <1>1, <1>4 DEF Quiet, CallAt, SearchPcs, MadePcs
  <2>4. Held(t)' = Held(t)
    BY <1>4, HeldQuiet
  <2>5. \A u \in Threads : \A h \in Held(u) : <<h, "self">> \in heap'
    BY <1>1, <1>4, HeldType DEF OwnAt, Quiet
  <2>6. OwnAt(t)'
    BY <1>1, <2>1, <2>2, <2>3, <2>4, <2>5 DEF OwnAt
  <2>7. CallAt(t)' /\ LoadAt(t)'
    BY <1>1, <2>1, <2>2, <2>3 DEF CallAt, LoadAt, SearchPcs, MadePcs, Loading
  <2> QED BY <1>0, <1>2, <2>1, <2>4, <2>5, <2>6, <2>7, HandlesKept
<1>5. CASE Makes(t)
  <2>1. PICK s \in Slots, h \in Handles, ok \in BOOLEAN : MakesFor(t, s, h, ok)
    BY <1>5 DEF Makes
  <2>2. hand' = hand /\ cache' = cache /\ th'[t].op = th[t].op /\ th'[t].at = th[t].at
    BY <2>1 DEF MakesFor, owned
  <2>3. /\ th[t].pc \in SearchPcs /\ th'[t].pc \in MadePcs /\ th'[t].pc \notin SearchPcs
        /\ th[t].pc \notin MadePcs /\ th'[t].pc \notin Loading
        /\ th'[t].pc \notin {"dynsym", "symtab"}
    BY <2>1 DEF MakesFor, SearchPcs, MadePcs, Loading
  <2>4. th'[t].h = IF ok THEN h ELSE NoHandle
    BY <2>1 DEF MakesFor
  <2>5. \A u \in Threads : \A x \in Held(u) : /\ x \in Handles /\ x # h
                                              /\ obj'[x] = obj[x] /\ <<x, "self">> \in heap'
    BY <1>1, <2>1, HeldType DEF OwnAt, MakesFor
  <2>6. Held(t)' = Held(t) \cup (IF ok THEN {h} ELSE {})
    BY <2>1, HeldMade
  <2>7. ok => /\ <<h, "self">> \in heap' /\ <<h, "self">> \notin heap
              /\ obj'[h].at = s /\ obj'[h].lib = image[s] /\ obj'[h].live
              /\ ~obj'[h].symTried /\ obj'[h].symtab = "no"
    BY <2>1 DEF MakesFor, Fresh
  <2>8. OwnAt(t)'
    <3>1. \A x \in Held(t)' : <<x, "self">> \in heap'
      BY <2>5, <2>6, <2>7
    <3>2. h # hand[t] /\ h \notin Range(cache[t])
      BY <2>5 DEF Held
    <3> QED BY <1>1, <2>2, <2>4, <3>1, <3>2 DEF OwnAt
  <2>9. CallAt(t)'
    <3>1. th[t].op # "open" => s = th[t].at
      BY <2>1 DEF MakesFor
    <3>2. (th[t].op = "open" /\ hand[t] = NoHandle) \/ th[t].op = "addr"
      BY <1>1, <2>3 DEF CallAt
    <3>3. th'[t].op = "addr" /\ th'[t].h # NoHandle => obj'[th'[t].h].at = th'[t].at
      BY <2>2, <2>4, <2>7, <3>1
    <3> QED BY <2>2, <2>3, <3>2, <3>3 DEF CallAt
  <2>10. LoadAt(t)'
    BY <2>3 DEF LoadAt
  <2>11. \A x \in Handles : /\ obj'[x].live => obj'[x].lib = image[obj'[x].at]
                            /\ ~obj'[x].symTried => obj'[x].symtab = "no"
    <3>1. \A x \in Handles : x # h \/ ~ok => obj'[x] = obj[x]
      BY <2>1 DEF MakesFor
    <3> QED BY <1>2, <2>7, <3>1
  <2> QED BY <1>0, <2>5, <2>6, <2>7, <2>8, <2>9, <2>10, <2>11, HandlesKept
<1>6. CASE NestedSym(t)
  <2>1. /\ th[t].pc = "nested sym" /\ th'[t].pc = "iterate"
        /\ th'[t].h = NoHandle /\ th'[t].op = th[t].op
        /\ hand' = hand /\ cache' = cache
    BY <1>6, HeldNested DEF NestedSym, owned
  <2>2. PICK S \in SUBSET Held(t) : Release(S) /\ Held(t)' = Held(t) \ S
    BY <1>6, HeldNested
  <2>3. S \in SUBSET Handles
    BY HeldType
  <2>4. OwnAt(t)'
    <3>1. \A h \in Held(t)' : <<h, "self">> \in heap'
      BY <1>1, <2>2, <2>3, Releases, HeldType DEF OwnAt
    <3> QED BY <1>1, <2>1, <3>1 DEF OwnAt
  <2>5. CallAt(t)' /\ LoadAt(t)'
    BY <1>1, <2>1 DEF CallAt, LoadAt, SearchPcs, MadePcs, Loading
  <2>6. \A u \in Threads \ {t} : \A h \in Held(u) : obj'[h] = obj[h] /\ <<h, "self">> \in heap'
    BY <1>1, <1>3, <2>2, <2>3, Releases DEF OwnAt
  <2>7. \A h \in Handles : /\ obj'[h].live => obj'[h].lib = image[obj'[h].at]
                           /\ ~obj'[h].symTried => obj'[h].symtab = "no"
    BY <2>2, <2>3, ReleasedFits
  <2> QED BY <1>0, <2>2, <2>4, <2>5, <2>6, <2>7, HandlesKept
<1>7. CASE Opened(t)
  <2>1. heap' = heap /\ obj' = obj /\ th[t].pc = "opened"
    BY <1>7 DEF Opened, memory
  <2>2. \A u \in Threads \ {t} : \A h \in Held(u) : obj'[h] = obj[h] /\ <<h, "self">> \in heap'
    BY <1>1, <2>1 DEF OwnAt
  <2>3. th[t].h # NoHandle => /\ th[t].h \in Held(t) /\ th[t].h # hand[t]
                              /\ th[t].h \notin Range(cache[t])
    BY <1>1, <2>1 DEF Held, OwnAt, MadePcs
  <2>4. NoHandle \notin Range(cache[t]) /\ th[t].h \in Handles \cup {NoHandle}
    BY RangeType DEF TypeOK, Controls
  <2>5. CASE /\ Return(t)
             /\ \/ /\ th[t].op = "open" /\ hand' = [hand EXCEPT ![t] = th[t].h]
                   /\ UNCHANGED cache
                \/ th[t].op = "addr" /\ th[t].h = NoHandle /\ UNCHANGED owned
    <3>1. th'[t].pc = "idle" /\ th'[t].op = "clean"
      BY <2>5, Returns DEF TypeOK
    <3>2. cache' = cache /\ (hand'[t] = th[t].h \/ (hand' = hand /\ th[t].h = NoHandle))
      BY <2>5 DEF owned, TypeOK
    <3>3. hand'[t] \notin Range(cache'[t])
      BY <1>1, <2>3, <2>4, <3>2 DEF OwnAt
    <3>4. Held(t)' = Held(t)
      BY <1>7, HeldOpened
    <3>5. OwnAt(t)'
      BY <1>1, <2>1, <3>1, <3>3, <3>4 DEF OwnAt, MadePcs
    <3>6. CallAt(t)' /\ LoadAt(t)'
      BY <3>1 DEF CallAt, LoadAt, SearchPcs, MadePcs, Loading
    <3> QED BY <1>0, <1>2, <2>1, <2>2, <3>4, <3>5, <3>6, HandlesKept
  <2>6. CASE /\ th[t].op = "addr" /\ th[t].h # NoHandle /\ Goto(t, "dynsym") /\ hand' = hand
             /\ cache' = [cache EXCEPT ![t] = <<th[t].h>> \o cache[t]]
    <3>1. /\ th'[t].pc = "dynsym" /\ th'[t].op = "addr" /\ th'[t].at = th[t].at
          /\ th'[t].h = th[t].h
      BY <2>6, Goes, PcsAre DEF TypeOK
    <3>2. Range(cache'[t]) = {th[t].h} \cup Range(cache[t])
      <4>1. th[t].h \in Handles /\ cache[t] \in Seq(Handles)
        BY <2>4, <2>6 DEF TypeOK
      <4>2. cache'[t] = <<th[t].h>> \o cache[t]
        BY <2>6 DEF TypeOK
      <4>3. PICK h \in Handles : h = th[t].h
        BY <4>1
      <4> QED BY <4>1, <4>2, <4>3, Prepend
    <3>3. Held(t)' = Held(t)
      BY <1>7, HeldOpened
    <3>4. OwnAt(t)'
      BY <1>1, <2>1, <2>3, <2>6, <3>1, <3>2, <3>3 DEF OwnAt, MadePcs
    <3>5. obj[th[t].h].at = th[t].at
      BY <1>1, <2>1, <2>6 DEF CallAt, MadePcs
    <3>6. CallAt(t)' /\ LoadAt(t)'
      BY <2>1, <3>1, <3>2, <3>5 DEF CallAt, LoadAt, SearchPcs, MadePcs, Loading
    <3> QED BY <1>0, <1>2, <2>1, <2>2, <3>3, <3>4, <3>6, HandlesKept
  <2> QED BY <1>7, <2>5, <2>6 DEF Opened
<1> QED BY <1>0, <1>4, <1>5, <1>6, <1>7

LEMMA HandlesLookup ==
  ASSUME TypeOK, HandlesInv, NEW t \in Threads, Lookup(t)
  PROVE  HandlesInv'
<1>0. /\ TypeOK' /\ Others(t) /\ UNCHANGED image
      /\ hand' = hand /\ cache' = cache
  BY LookupTypes, LookupMoves DEF shared, owned
<1>1. OwnAt(t) /\ CallAt(t) /\ LoadAt(t) /\ \A u \in Threads \ {t} : OwnAt(u)
  BY DEF HandlesInv, OwnInv, CallInv, LoadInv
<1>2. \A h \in Handles : /\ obj[h].live => obj[h].lib = image[obj[h].at]
                         /\ ~obj[h].symTried => obj[h].symtab = "no"
  BY DEF HandlesInv, SlotInv, LoadInv
<1>3. \A u \in Threads \ {t} : Held(t) \cap Held(u) = {} /\ Held(u) \subseteq Handles
  BY HeldType DEF HandlesInv, OwnInv
<1>4. th[t].pc \in {"dynsym", "symtab"} \cup Loading
  BY LookupMoves
<1>5. th[t].h \in Held(t) /\ th[t].h \in Handles
  BY <1>4, WorksOnHeld, HeldType DEF HandlesInv
<1>6. \A x \in Handles : /\ obj'[x].at = obj[x].at /\ obj'[x].lib = obj[x].lib
                         /\ obj'[x].live = obj[x].live
                         /\ obj[x].symTried => obj'[x].symTried
                         /\ x # th[t].h => obj'[x] = obj[x]
                         /\ <<x, "self">> \in heap' <=> <<x, "self">> \in heap
  BY LookupMoves
<1>7. /\ Returned(t) \/ GoesOn(t)
      /\ obj[th[t].h].symtab # obj'[th[t].h].symtab =>
           th[t].pc \in Loading /\ th'[t].pc = "load end"
      /\ th'[t].pc \in Loading /\ th[t].pc = "symtab" =>
           obj'[th[t].h].symTried /\ ~obj[th[t].h].symTried
      /\ th'[t].pc \in Loading \ {"load end"} => th[t].pc # "load end"
  BY <1>5, LookupMoves
<1>8. \A u \in Threads \ {t} : \A h \in Held(u) : obj'[h] = obj[h] /\ <<h, "self">> \in heap'
  BY <1>1, <1>3, <1>5, <1>6 DEF OwnAt
<1>9. Held(t)' = Held(t) /\ th[t].pc \notin MadePcs /\ th'[t].pc \notin MadePcs
  <2>1. th[t].pc \notin MadePcs /\ th'[t].pc \notin MadePcs
    BY <1>4, <1>7 DEF Returned, GoesOn, MadePcs, Loading
  <2> QED BY <1>0, <2>1 DEF Held
<1>10. OwnAt(t)'
  BY <1>0, <1>1, <1>6, <1>9, HeldType DEF OwnAt
<1>11. CallAt(t)'
  <2>1. CASE Returned(t)
    BY <2>1 DEF Returned, CallAt, SearchPcs, MadePcs, Loading
  <2>2. CASE GoesOn(t)
    <3>1. /\ th'[t].pc \in {"symtab"} \cup Loading
          /\ th'[t].h = th[t].h /\ th'[t].op = th[t].op /\ th'[t].at = th[t].at
      BY <2>2 DEF GoesOn
    <3>2. th'[t].pc \notin SearchPcs \cup MadePcs
      BY <3>1 DEF SearchPcs, MadePcs, Loading
    <3>3. obj'[th[t].h].at = obj[th[t].h].at
      BY <1>5, <1>6
    <3> QED BY <1>0, <1>1, <1>4, <3>1, <3>2, <3>3 DEF CallAt
  <2> QED BY <1>7, <2>1, <2>2
<1>12. LoadAt(t)'
  <2>1. CASE Returned(t)
    BY <2>1 DEF Returned, LoadAt, Loading
  <2>2. CASE GoesOn(t)
    <3>1. th'[t].h = th[t].h
      BY <2>2 DEF GoesOn
    <3>2. th'[t].pc \in Loading => th[t].pc \in Loading \cup {"symtab"}
      BY <2>2 DEF GoesOn, Loading
    <3>3. th'[t].pc \in Loading => obj'[th[t].h].symTried
      BY <1>1, <1>5, <1>6, <1>7, <3>2 DEF LoadAt
    <3>4. th'[t].pc \in Loading \ {"load end"} => obj'[th[t].h].symtab = "no"
      <4>1. SUFFICES ASSUME th'[t].pc \in Loading \ {"load end"}
                     PROVE  obj'[th[t].h].symtab = "no"
        OBVIOUS
      <4>2. obj'[th[t].h].symtab = obj[th[t].h].symtab
        BY <1>7, <4>1
      <4>3. CASE th[t].pc = "symtab"
        BY <1>2, <1>5, <1>7, <4>1, <4>2, <4>3
      <4>4. CASE th[t].pc \in Loading \ {"load end"}
        BY <1>1, <4>2, <4>4 DEF LoadAt
      <4> QED BY <1>7, <3>2, <4>1, <4>3, <4>4
    <3> QED BY <3>1, <3>3, <3>4 DEF LoadAt
  <2> QED BY <1>7, <2>1, <2>2
<1>13. \A h \in Handles : /\ obj'[h].live => obj'[h].lib = image[obj'[h].at]
                          /\ ~obj'[h].symTried => obj'[h].symtab = "no"
  <2>1. SUFFICES ASSUME NEW h \in Handles
                 PROVE  /\ obj'[h].live => obj'[h].lib = image[obj'[h].at]
                        /\ ~obj'[h].symTried => obj'[h].symtab = "no"
    OBVIOUS
  <2>2. obj'[h].live => obj'[h].lib = image[obj'[h].at]
    BY <1>2, <1>6
  <2>3. CASE h # th[t].h
    BY <1>2, <1>6, <2>2, <2>3
  <2>4. CASE h = th[t].h
    <3>1. ~obj'[h].symTried => obj'[h].symtab = obj[h].symtab
      BY <1>1, <1>6, <1>7, <2>4 DEF LoadAt
    <3> QED BY <1>2, <1>6, <2>2, <3>1
  <2> QED BY <2>3, <2>4
<1> QED BY <1>0, <1>8, <1>9, <1>10, <1>11, <1>12, <1>13, HandlesKept

LEMMA HandlesLinker ==
  ASSUME TypeOK, HandlesInv, BeginChange \/ EndChange
  PROVE  HandlesInv'
<1>1. /\ UNCHANGED <<heap, hand, cache, th>>
      /\ image'[LinkerSlot] = image[LinkerSlot]
      /\ \A h \in Handles : /\ obj'[h].at = obj[h].at /\ obj'[h].lib = obj[h].lib
                            /\ obj'[h].symTried = obj[h].symTried
                            /\ obj'[h].symtab = obj[h].symtab
                            /\ obj'[h].live => obj[h].live
                            /\ obj'[h].live => image'[obj[h].at] = image[obj[h].at]
  BY LinkerTypes DEF BeginChange, EndChange, memory, owned
<1>2. SlotInv'
  BY <1>1 DEF HandlesInv, SlotInv
<1>3. \A t \in Threads : Held(t)' = Held(t)
  BY <1>1 DEF Held
<1>4. OwnInv'
  BY <1>1, <1>3 DEF HandlesInv, OwnInv, OwnAt
<1>5. ASSUME NEW t \in Threads PROVE CallAt(t)' /\ LoadAt(t)'
  <2>1. CallAt(t) /\ LoadAt(t)
    BY DEF HandlesInv, CallInv, LoadInv
  <2>2. /\ th[t].pc \in MadePcs /\ th[t].h # NoHandle => th[t].h \in Handles
        /\ th[t].h \in Range(cache[t]) => th[t].h \in Handles
    BY RangeType DEF TypeOK, Controls
  <2>3. th[t].pc \in Loading => th[t].h \in Handles
    BY WorksOnHeld, HeldType DEF HandlesInv
  <2>4. CallAt(t)'
    BY <1>1, <2>1, <2>2 DEF CallAt
  <2>5. LoadAt(t)'
    BY <1>1, <2>1, <2>3 DEF LoadAt
  <2> QED BY <2>4, <2>5
<1>6. CallInv' /\ LoadInv'
  BY <1>1, <1>5 DEF HandlesInv, CallInv, LoadInv
<1> QED BY <1>2, <1>4, <1>6 DEF HandlesInv

\* What the ownership is for.
LEMMA AnswersTrue ==
  ASSUME TypeOK, HandlesInv
  PROVE  AddrTrue
<1>1. SUFFICES ASSUME NEW t \in Threads, th[t].op = "addr",
                      th[t].pc \in {"dynsym", "symtab", "load end"}
               PROVE  /\ obj[th[t].h].at = th[t].at
                      /\ obj[th[t].h].live => obj[th[t].h].lib = image[th[t].at]
  BY DEF AddrTrue
<1>2. th[t].h \in Range(cache[t]) /\ obj[th[t].h].at = th[t].at
  BY <1>1 DEF HandlesInv, CallInv, CallAt, Loading
<1>3. th[t].h \in Handles
  BY <1>2, RangeType
<1> QED BY <1>2, <1>3 DEF HandlesInv, SlotInv

-----------------------------------------------------------------------------
(* The heap *)

\* What a thread has of each kind: its handles' blocks, the temporary blocks of a load,
\* and the maps stream.
Blocks(t) == UNION {Owns(h) : h \in Held(t)}

Scratch(t) ==
  (IF th[t].pc \in Loading THEN Temporaries(t) ELSE {})
  \cup (IF th[t].pc \in Loading \ {"section", "load end"} THEN {<<t, "zip">>} ELSE {})
  \cup (IF th[t].pc = "parse" THEN {<<th[t].h, "debugdata">>} ELSE {})

Stream(t) == IF th[t].pc \in {"lock", "walk", "unlock"} THEN MapsStream(t) ELSE {}

LostMaps == <<Linker, "lost maps">>

Sound == ~freedTwice /\ heap \ {LostMaps} = UNION {Expected(t) : t \in Threads}

LEMMA ExpectedIs ==
  ASSUME NEW t \in Threads
  PROVE  Expected(t) = Blocks(t) \cup Scratch(t) \cup Stream(t)
<1>1. Blocks(t) = (IF hand[t] # NoHandle THEN Owns(hand[t]) ELSE {})
                  \cup (UNION {Owns(h) : h \in Range(cache[t])})
                  \cup (IF th[t].pc \in MadePcs /\ th[t].h # NoHandle
                        THEN Owns(th[t].h) ELSE {})
  BY DEF Blocks, Held
<1> QED BY <1>1 DEF Expected, Scratch, Stream, MadePcs

LEMMA ExpectedThen ==
  ASSUME NEW t \in Threads
  PROVE  Expected(t)' = Blocks(t)' \cup Scratch(t)' \cup Stream(t)'
<1>1. Blocks(t)' = (IF hand'[t] # NoHandle THEN Owns(hand[t])' ELSE {})
                   \cup (UNION {Owns(h)' : h \in Range(cache'[t])})
                   \cup (IF th'[t].pc \in MadePcs /\ th'[t].h # NoHandle
                         THEN Owns(th[t].h)' ELSE {})
  BY DEF Blocks, Held
<1> QED BY <1>1 DEF Expected, Scratch, Stream, MadePcs

\* Each block names the handle or the thread it belongs to.
LEMMA OwnsNames ==
  ASSUME TypeOK, NEW h \in Handles
  PROVE  \A b \in Owns(h) : b[1] = h /\ b[2] \notin {"maps", "fd", "shdrs", "shstrtab", "zip"}
BY DEF Owns, TypeOK, Contents

LEMMA ScratchNames ==
  ASSUME NEW t \in Threads
  PROVE  \A b \in Scratch(t) : /\ b[2] # "maps"
                               /\ b[1] = t \/ (b[1] = th[t].h /\ th[t].pc = "parse")
<1>1. \A b \in Temporaries(t) : b[2] # "maps" /\ b[1] = t
  BY DEF Temporaries
<1>2. \A b \in {<<t, "zip">>} : b[2] # "maps" /\ b[1] = t
  OBVIOUS
<1>3. \A b \in {<<th[t].h, "debugdata">>} : b[2] # "maps" /\ b[1] = th[t].h
  OBVIOUS
<1> QED BY <1>1, <1>2, <1>3 DEF Scratch

LEMMA ExpectedNames ==
  ASSUME TypeOK, HandlesInv, NEW t \in Threads
  PROVE  \A b \in Expected(t) : b[1] = t \/ b[1] \in Held(t)
<1>1. \A b \in Blocks(t) : b[1] \in Held(t)
  BY OwnsNames, HeldType DEF Blocks
<1>2. th[t].pc = "parse" => th[t].h \in Held(t)
  BY WorksOnHeld DEF HandlesInv, Loading
<1>3. \A b \in Scratch(t) : b[1] = t \/ b[1] \in Held(t)
  BY <1>2, ScratchNames
<1>4. \A b \in Stream(t) : b[1] = t
  BY DEF Stream, MapsStream
<1> QED BY <1>1, <1>3, <1>4, ExpectedIs

\* Nothing belongs to two threads, and nobody has what is lost.
LEMMA Apart ==
  ASSUME TypeOK, HandlesInv, NEW t \in Threads
  PROVE  /\ \A u \in Threads \ {t} : Expected(t) \cap Expected(u) = {}
         /\ LostMaps \notin Expected(t)
<1>1. \A u \in Threads \ {t} : Held(t) \cap Held(u) = {} /\ Held(u) \subseteq Handles
  BY HeldType DEF HandlesInv, OwnInv
<1>2. Held(t) \subseteq Handles
  BY HeldType
<1>3. Threads \cap Handles = {} /\ Linker \notin Threads \cup Handles
  BY XdlAssumption
<1>4. \A u \in Threads \ {t} : Expected(t) \cap Expected(u) = {}
  <2>1. SUFFICES ASSUME NEW u \in Threads \ {t}, NEW b \in Expected(t), b \in Expected(u)
                 PROVE  FALSE
    OBVIOUS
  <2>2. (b[1] = t \/ b[1] \in Held(t)) /\ (b[1] = u \/ b[1] \in Held(u))
    BY <2>1, ExpectedNames
  <2> QED BY <1>1, <1>2, <1>3, <2>1, <2>2
<1>5. LostMaps \notin Expected(t)
  BY <1>2, <1>3, ExpectedNames DEF LostMaps
<1> QED BY <1>4, <1>5

\* A thread that is not at the linker's list has no stream open.
LEMMA NoStream ==
  ASSUME TypeOK, HandlesInv, Sound, NEW t \in Threads,
         th[t].pc \notin {"lock", "walk", "unlock"}
  PROVE  <<t, "maps">> \notin heap
<1> SUFFICES ASSUME <<t, "maps">> \in heap PROVE FALSE
  OBVIOUS
<1>1. <<t, "maps">> # LostMaps
  BY DEF LostMaps
<1>2. PICK u \in Threads : <<t, "maps">> \in Expected(u)
  BY <1>1 DEF Sound
<1>3. Threads \cap Handles = {} /\ Held(u) \subseteq Handles
  BY HeldType, XdlAssumption
<1>4. u = t
  BY <1>2, <1>3, ExpectedNames
<1>5. <<t, "maps">> \in Blocks(t) \cup Scratch(t)
  BY <1>2, <1>4, ExpectedIs DEF Stream
<1>6. \A b \in Blocks(t) \cup Scratch(t) : b[2] # "maps"
  BY ScratchNames, OwnsNames, HeldType DEF Blocks
<1> QED BY <1>5, <1>6

\* What is freed and made, when what is freed was there.
Trades(gone, new) ==
  /\ heap' = (heap \ gone) \cup new
  /\ gone \subseteq heap => freedTwice' = freedTwice

LEMMA TradesBy ==
  ASSUME TypeOK, NEW gone, NEW new, Trade(gone, new)
  PROVE  Trades(gone, new)
BY DEF Trade, Trades, TypeOK

\* A step of one thread: what it frees it had, and it has what it made.
LEMMA SoundKept ==
  ASSUME TypeOK, HandlesInv, Sound, NEW t \in Threads, Others(t),
         \A u \in Threads \ {t} : \A h \in Held(u) : obj'[h] = obj[h],
         NEW gone, NEW new, Trades(gone, new),
         gone \subseteq Expected(t),
         \A u \in Threads \ {t} : <<u, "maps">> \notin new,
         Expected(t)' = (Expected(t) \ gone) \cup (new \ {LostMaps})
  PROVE  Sound'
<1>1. \A u \in Threads \ {t} : Expected(u)' = Expected(u)
  <2>1. SUFFICES ASSUME NEW u \in Threads \ {t} PROVE Expected(u)' = Expected(u)
    OBVIOUS
  <2>2. th'[u] = th[u] /\ hand'[u] = hand[u] /\ cache'[u] = cache[u]
    BY DEF Others
  <2>3. Held(u)' = Held(u)
    BY <2>2 DEF Held
  <2>4. \A h \in Held(u) : Owns(h)' = Owns(h)
    BY DEF Owns
  <2>5. Blocks(u)' = Blocks(u)
    BY <2>3, <2>4 DEF Blocks
  <2>6. Scratch(u)' = Scratch(u)
    BY <2>2 DEF Scratch, Temporaries
  <2>7. <<u, "maps">> \notin gone
    <3>1. <<u, "maps">> \notin Expected(t)
      BY ExpectedNames, HeldType, XdlAssumption
    <3> QED BY <3>1
  <2>8. MapsStream(u)' = MapsStream(u)
    BY <2>1, <2>7 DEF Trades, MapsStream
  <2>9. Stream(u)' = Stream(u)
    BY <2>2, <2>8 DEF Stream
  <2>10. Expected(u) = Blocks(u) \cup Scratch(u) \cup Stream(u)
    BY ExpectedIs
  <2>11. Expected(u)' = Blocks(u)' \cup Scratch(u)' \cup Stream(u)'
    BY ExpectedThen
  <2> QED BY <2>5, <2>6, <2>9, <2>10, <2>11
<1>2. \A u \in Threads \ {t} : Expected(u) \cap gone = {}
  BY Apart
<1>3. gone \subseteq heap /\ LostMaps \notin gone
  BY Apart DEF Sound
<1>4. UNION {Expected(u) : u \in Threads} =
        Expected(t) \cup (UNION {Expected(u) : u \in Threads \ {t}})
  OBVIOUS
<1>5. UNION {Expected(u)' : u \in Threads} =
        Expected(t)' \cup (UNION {Expected(u) : u \in Threads \ {t}})
  BY <1>1
<1>6. (UNION {Expected(u) : u \in Threads \ {t}}) \cap gone = {}
  BY <1>2
<1>7. heap' \ {LostMaps} = UNION {Expected(u)' : u \in Threads}
  <2>1. heap' \ {LostMaps} = ((heap \ {LostMaps}) \ gone) \cup (new \ {LostMaps})
    BY DEF Trades
  <2>2. heap \ {LostMaps} = Expected(t) \cup (UNION {Expected(u) : u \in Threads \ {t}})
    BY <1>4 DEF Sound
  <2> HIDE DEF Sound
  <2> QED BY <1>5, <1>6, <2>1, <2>2
<1>8. freedTwice' = freedTwice /\ LostMaps' = LostMaps
  BY <1>3 DEF Trades, LostMaps
<1> QED BY <1>7, <1>8 DEF Sound

\* Releasing some of the thread's handles.
LEMMA SoundReleased ==
  ASSUME TypeOK, HandlesInv, Sound, NEW t \in Threads, Others(t), NEW S \in SUBSET Held(t),
         Release(S), Held(t)' = Held(t) \ S,
         th[t].pc \in {"idle", "nested sym"}, th'[t].pc \in {"idle", "iterate"}
  PROVE  Sound'
<1> DEFINE gone == UNION {Owns(h) : h \in S}
<1>1. Held(t) \subseteq Handles /\ S \in SUBSET Handles
  BY HeldType
<1>2. \A h \in Handles \ S : obj'[h] = obj[h]
  BY <1>1, Releases
<1>3. \A u \in Threads \ {t} : \A h \in Held(u) : obj'[h] = obj[h]
  BY <1>2, HeldType DEF HandlesInv, OwnInv
<1>4. Trades(gone, {})
  BY TradesBy DEF Release
<1>5. /\ Scratch(t) = {} /\ Stream(t) = {} /\ Scratch(t)' = {} /\ Stream(t)' = {}
  BY DEF Scratch, Stream, Loading
<1>6. Expected(t) = Blocks(t) /\ Expected(t)' = Blocks(t)'
  BY <1>5, ExpectedIs, ExpectedThen
<1>7. Blocks(t)' = Blocks(t) \ gone
  <2>1. Blocks(t)' = UNION {Owns(h)' : h \in Held(t) \ S}
    BY DEF Blocks
  <2>2. \A h \in Held(t) \ S : Owns(h)' = Owns(h)
    BY <1>1, <1>2 DEF Owns
  <2>3. \A h \in Held(t) \ S : Owns(h) \cap gone = {}
    <3>1. SUFFICES ASSUME NEW h \in Held(t) \ S, NEW b \in Owns(h), b \in gone PROVE FALSE
      OBVIOUS
    <3>2. PICK g \in S : b \in Owns(g)
      BY <3>1
    <3>3. h \in Handles /\ g \in Handles
      BY <1>1
    <3>4. b[1] = h /\ b[1] = g
      BY <3>1, <3>2, <3>3, OwnsNames
    <3> QED BY <3>1, <3>4
  <2> HIDE DEF gone
  <2>4. Blocks(t)' = UNION {Owns(h) : h \in Held(t) \ S}
    BY <2>1, <2>2
  <2>5. gone = UNION {Owns(h) : h \in S}
    BY DEF gone
  <2>6. Blocks(t) = UNION {Owns(h) : h \in Held(t)}
    BY DEF Blocks
  <2>7. S \subseteq Held(t)
    OBVIOUS
  <2>8. PICK B, C : B = Blocks(t) /\ C = Blocks(t)'
    OBVIOUS
  <2>9. C = B \ gone
    <3>1. C \subseteq B \ gone
      BY <2>3, <2>4, <2>6, <2>8
    <3>2. B \ gone \subseteq C
      BY <2>4, <2>5, <2>6, <2>7, <2>8
    <3> QED BY <3>1, <3>2
  <2> QED BY <2>8, <2>9
<1>8. gone \subseteq Expected(t)
  BY <1>6 DEF Blocks
<1> HIDE DEF gone
<1>9. Expected(t)' = (Expected(t) \ gone) \cup ({} \ {LostMaps})
  BY <1>6, <1>7
<1> QED BY <1>3, <1>4, <1>8, <1>9, SoundKept

LEMMA SoundStart ==
  ASSUME TypeOK, HandlesInv, Sound, NEW t \in Threads, Start(t)
  PROVE  Sound'
<1>1. Others(t) /\ th[t].pc = "idle"
  BY StartTypes, StartMoves
<1>2. CASE Asking(t)
  <2>1. heap' = heap /\ freedTwice' = freedTwice /\ obj' = obj
        /\ hand' = hand /\ cache' = cache
    BY <1>2 DEF Asking, memory, owned
  <2>2. th'[t].pc \in {"iterate", "dynsym", "symtab"}
    BY <1>2 DEF Asking
  <2>3. /\ Scratch(t) = {} /\ Stream(t) = {} /\ Scratch(t)' = {} /\ Stream(t)' = {}
    BY <1>1, <2>2 DEF Scratch, Stream, Loading
  <2>4. Held(t)' = Held(t)
    BY <1>1, <2>1, <2>2 DEF Held, MadePcs
  <2>5. Blocks(t)' = Blocks(t)
    BY <2>1, <2>4 DEF Blocks, Owns
  <2>6. Expected(t)' = (Expected(t) \ {}) \cup ({} \ {LostMaps})
    BY <2>3, <2>5, ExpectedIs, ExpectedThen
  <2>7. Trades({}, {})
    BY <2>1 DEF Trades
  <2> QED BY <1>1, <2>1, <2>6, <2>7, SoundKept
<1>3. CASE Close(t) \/ Clean(t)
  BY <1>1, <1>3, HeldFreed, SoundReleased
<1> QED BY <1>2, <1>3, StartMoves

\* A search that leaves the handles alone.
LEMMA SoundQuiet ==
  ASSUME TypeOK, HandlesInv, Sound, NEW t \in Threads, Others(t), Quiet(t),
         NEW gone, NEW new, Trades(gone, new), new \subseteq {<<t, "maps">>},
         gone \subseteq Stream(t), Stream(t)' = (Stream(t) \ gone) \cup new
  PROVE  Sound'
<1>1. obj' = obj
  BY DEF Quiet
<1>2. Scratch(t) = {} /\ Scratch(t)' = {}
  BY DEF Quiet, Scratch, Loading, SearchPcs
<1>3. Held(t)' = Held(t)
  BY HeldQuiet
<1>4. Blocks(t)' = Blocks(t)
  BY <1>1, <1>3 DEF Blocks, Owns
<1>5. \A b \in Blocks(t) : b \notin gone
  <2>1. \A b \in Blocks(t) : b[2] # "maps"
    BY OwnsNames, HeldType DEF Blocks
  <2>2. \A b \in gone : b[2] = "maps"
    BY DEF Stream, MapsStream
  <2> QED BY <2>1, <2>2
<1>6. Expected(t) = Blocks(t) \cup Stream(t) /\ Expected(t)' = Blocks(t)' \cup Stream(t)'
  BY <1>2, ExpectedIs, ExpectedThen
<1>7. new \ {LostMaps} = new
  <2>1. LostMaps # <<t, "maps">>
    BY DEF LostMaps
  <2> QED BY <2>1
<1>8. Expected(t)' = (Expected(t) \ gone) \cup (new \ {LostMaps})
  BY <1>4, <1>5, <1>6, <1>7
<1>9. \A u \in Threads \ {t} : <<u, "maps">> \notin new
  OBVIOUS
<1>10. gone \subseteq Expected(t)
  BY <1>6
<1> QED BY <1>1, <1>8, <1>9, <1>10, SoundKept

\* A search that makes a handle, or fails to.
LEMMA SoundMade ==
  ASSUME TypeOK, HandlesInv, Sound, NEW t \in Threads, Others(t), UNCHANGED owned,
         NEW s \in Slots, image[s] \in Libs, NEW pc \in MadePcs,
         NEW new, new \subseteq {<<t, "maps">>, LostMaps},
         th[t].pc \in SearchPcs, Callback(t, s, pc, {}, new),
         <<t, "maps">> \in new => pc = "unlock",
         pc # "unlock" \/ th[t].pc = "walk", pc = "unlock" \/ th[t].pc \notin {"lock", "walk"}
  PROVE  Sound'
<1>0. pc \in Pcs
  BY DEF MadePcs, Pcs
<1>1. PICK ok \in BOOLEAN, h \in Handles :
        /\ <<h, "self">> \notin heap
        /\ faults' \in 0..MaxFaults
        /\ ~ok => faults' > 0
        /\ faults > 0 => faults' > 0
        /\ Trade({}, new \cup IF ok THEN {<<h, "self">>, <<h, "pathname">>} ELSE {})
        /\ freedTwice' \in BOOLEAN
        /\ obj' \in [Handles -> Contents]
        /\ ok => obj'[h] = Fresh(s, image[s])
        /\ \A x \in Handles : x # h \/ ~ok => obj'[x] = obj[x]
        /\ th' \in [Threads -> Controls]
        /\ th'[t].pc = pc /\ th'[t].h = IF ok THEN h ELSE NoHandle
        /\ th'[t].op = th[t].op /\ th'[t].name = th[t].name /\ th'[t].at = th[t].at
        /\ \A u \in Threads \ {t} : th'[u] = th[u]
  BY <1>0, Calls
<1>2. PICK made : made = IF ok THEN {<<h, "self">>, <<h, "pathname">>} ELSE {}
  OBVIOUS
<1>3. Trades({}, new \cup made)
  BY <1>1, <1>2, TradesBy
<1>4. \A u \in Threads : h \notin Held(u)
  BY <1>1 DEF HandlesInv, OwnInv, OwnAt
<1>5. \A u \in Threads : \A x \in Held(u) : obj'[x] = obj[x]
  BY <1>1, <1>4, HeldType
<1>6. hand' = hand /\ cache' = cache
  BY DEF owned
<1>7. Held(t)' = Held(t) \cup (IF ok THEN {h} ELSE {})
  <2>1. th'[t].pc \in MadePcs /\ th[t].pc \notin MadePcs
    BY <1>1 DEF SearchPcs, MadePcs
  <2> QED BY <1>1, <1>6, <2>1, XdlAssumption DEF Held
<1>8. ok => Owns(h)' = made
  <2>1. SUFFICES ASSUME ok PROVE Owns(h)' = made
    OBVIOUS
  <2>2. obj'[h].symtab = "no"
    BY <1>1, <2>1 DEF Fresh
  <2> QED BY <1>2, <2>1, <2>2 DEF Owns
<1>9. \A x \in Held(t) : Owns(x)' = Owns(x)
  BY <1>5 DEF Owns
<1>10. Blocks(t)' = Blocks(t) \cup made
  <2>1. Blocks(t)' = UNION {Owns(x)' : x \in Held(t) \cup (IF ok THEN {h} ELSE {})}
    BY <1>7 DEF Blocks
  <2>2. CASE ok
    BY <1>8, <1>9, <2>1, <2>2 DEF Blocks
  <2>3. CASE ~ok
    <3>1. made = {}
      BY <1>2, <2>3
    <3> QED BY <1>9, <2>1, <2>3, <3>1 DEF Blocks
  <2> QED BY <2>2, <2>3
<1>11. Scratch(t) = {} /\ Scratch(t)' = {}
  BY <1>1 DEF Scratch, Loading, SearchPcs, MadePcs
<1>12. Stream(t)' = Stream(t) \cup (new \ {LostMaps})
  <2>1. t \notin Handles /\ LostMaps # <<t, "maps">>
    BY XdlAssumption DEF LostMaps
  <2>2. <<t, "maps">> \in heap' <=> <<t, "maps">> \in heap \cup new
    BY <1>2, <1>3, <2>1 DEF Trades
  <2>3. CASE pc = "unlock"
    <3>1. th[t].pc = "walk" /\ th'[t].pc = "unlock"
      BY <1>1, <2>3
    <3> QED BY <2>1, <2>2, <3>1 DEF Stream, MapsStream
  <2>4. CASE pc # "unlock"
    <3>1. th'[t].pc \notin {"lock", "walk", "unlock"} /\ th[t].pc \notin {"lock", "walk", "unlock"}
      BY <1>1, <2>4 DEF MadePcs, SearchPcs
    <3>2. new \ {LostMaps} = {}
      BY <2>4
    <3> QED BY <3>1, <3>2 DEF Stream
  <2> QED BY <2>3, <2>4
<1>13. LostMaps \notin made
  BY <1>2, XdlAssumption DEF LostMaps
<1>14. Expected(t)' = (Expected(t) \ {}) \cup ((new \cup made) \ {LostMaps})
  BY <1>10, <1>11, <1>12, <1>13, ExpectedIs, ExpectedThen
<1>15. \A u \in Threads \ {t} : <<u, "maps">> \notin new \cup made
  <2>1. \A u \in Threads \ {t} : <<u, "maps">> \notin new
    BY DEF LostMaps
  <2>2. \A u \in Threads \ {t} : <<u, "maps">> \notin made
    BY <1>2
  <2> QED BY <2>1, <2>2
<1> QED BY <1>3, <1>5, <1>14, <1>15, SoundKept

LEMMA SoundSearch ==
  ASSUME TypeOK, ConstructInv, HandlesInv, Sound, NEW t \in Threads, Search(t)
  PROVE  Sound'
<1> USE XdlAssumption
<1>0. /\ TypeOK' /\ Others(t) /\ image[LinkerSlot] = Linker
      /\ Quiet(t) \/ Makes(t) \/ NestedSym(t) \/ Opened(t)
  BY SearchTypes, SearchMoves DEF HandlesInv, SlotInv
<1>g. \A pc \in Pcs : Goto(t, pc) => th'[t].pc = pc
  BY Goes DEF TypeOK
<1>s. SearchPcs = {"iterate", "nested open", "ask linker", "lock", "walk", "read maps"}
  BY DEF SearchPcs
<1>m. /\ "nested sym" \in MadePcs /\ "unlock" \in MadePcs /\ "opened" \in MadePcs
  BY DEF MadePcs
\* A step that leaves the heap alone and opens no stream.
<1>q. ASSUME Quiet(t), heap' = heap, freedTwice' = freedTwice,
             \/ /\ th[t].pc \in {"lock", "walk"}
                /\ th'[t].pc \in {"lock", "walk", "unlock"}
             \/ th[t].pc \notin {"lock", "walk", "unlock"}
      PROVE  Sound'
  <2>1. Stream(t)' = Stream(t)
    <3>1. CASE th[t].pc \in {"lock", "walk"} /\ th'[t].pc \in {"lock", "walk", "unlock"}
      BY <1>q, <3>1 DEF Stream, MapsStream
    <3>2. CASE th[t].pc \notin {"lock", "walk", "unlock"}
      BY <1>q, <3>2, NoStream DEF Stream, MapsStream
    <3> QED BY <1>q, <3>1, <3>2
  <2>2. Stream(t)' = (Stream(t) \ {}) \cup {}
    BY <2>1
  <2>3. Trades({}, {})
    BY <1>q DEF Trades
  <2> QED BY <1>0, <1>q, <2>2, <2>3, SoundQuiet
\* A step that is not one of the three others is quiet or a callback.
<1>n. ASSUME th'[t].h = th[t].h, th[t].pc \in SearchPcs \cup {"unlock"},
             obj' = obj, UNCHANGED <<owned, ready>>,
             th'[t].op = th[t].op, th'[t].at = th[t].at,
             \A x \in Handles : <<x, "self">> \in heap' <=> <<x, "self">> \in heap,
             IF th[t].pc = "unlock" THEN th'[t].pc = "opened"
             ELSE th'[t].pc \in SearchPcs \cup {"unlock", "opened"}
      PROVE  Quiet(t)
  BY <1>n, <1>s DEF Quiet
<1>k. \A pc \in Pcs : Goto(t, pc) =>
        th'[t].h = th[t].h /\ th'[t].op = th[t].op /\ th'[t].at = th[t].at
  BY Goes DEF TypeOK
<1>1. CASE Iterate(t)
  <2>1. PICK pc \in {"nested open", "read maps", "ask linker", "lock"} : Goto(t, pc)
    BY <1>1 DEF Iterate
  <2>2. /\ th'[t].pc = pc /\ th'[t].h = th[t].h /\ th'[t].op = th[t].op /\ th'[t].at = th[t].at
    BY <2>1, <1>g, <1>k, PcsAre
  <2>3. /\ th[t].pc = "iterate" /\ heap' = heap /\ freedTwice' = freedTwice /\ obj' = obj
        /\ UNCHANGED <<owned, ready>>
    BY <1>1 DEF Iterate, memory, misc
  <2>4. Quiet(t)
    BY <2>2, <2>3, <1>n, <1>s
  <2> QED BY <2>3, <2>4, <1>q
<1>2. CASE NestedOpen(t)
  BY <1>0, <1>2, <1>m, <1>s, SoundMade DEF NestedOpen, LostMaps
<1>3. CASE NestedSym(t)
  BY <1>0, <1>3, HeldNested, SoundReleased
<1>4. CASE AskLinker(t)
  <2>0. UNCHANGED <<shared, statics, owned, broken, ready>> /\ th[t].pc = "ask linker"
    BY <1>4 DEF AskLinker
  <2>1. CASE Callback(t, LinkerSlot, "opened", {}, {<<Linker, "lost maps">>})
    BY <1>0, <2>0, <2>1, <1>m, <1>s, SoundMade DEF LostMaps
  <2>2. CASE Trade({}, {<<t, "maps">>}) /\ Goto(t, "lock") /\ UNCHANGED <<faults, obj>>
    <3>1. /\ th'[t].pc = "lock" /\ th'[t].h = th[t].h /\ th'[t].op = th[t].op
          /\ th'[t].at = th[t].at
      BY <2>2, <1>g, <1>k, PcsAre
    <3>2. Trades({}, {<<t, "maps">>})
      BY <2>2, TradesBy
    <3>3. \A x \in Handles : <<x, "self">> \in heap' <=> <<x, "self">> \in heap
      BY <3>2 DEF Trades
    <3>4. Quiet(t)
      BY <2>0, <2>2, <3>1, <3>3, <1>n, <1>s
    <3>5. Stream(t) = {} /\ Stream(t)' = {<<t, "maps">>}
      BY <2>0, <3>1, <3>2 DEF Stream, MapsStream, Trades
    <3>6. {} \subseteq Stream(t) /\ Stream(t)' = (Stream(t) \ {}) \cup {<<t, "maps">>}
      BY <3>5
    <3> QED BY <1>0, <3>2, <3>4, <3>6, SoundQuiet
  <2>3. CASE Goto(t, "lock") /\ UNCHANGED <<heap, freedTwice, obj>>
    <3>1. /\ th'[t].pc = "lock" /\ th'[t].h = th[t].h /\ th'[t].op = th[t].op
          /\ th'[t].at = th[t].at
      BY <2>3, <1>g, <1>k, PcsAre
    <3>2. Quiet(t)
      BY <2>0, <2>3, <3>1, <1>n, <1>s
    <3> QED BY <2>0, <2>3, <3>2, <1>q
  <2> QED BY <1>4, <2>1, <2>2, <2>3 DEF AskLinker
<1>5. CASE Lock(t)
  <2>1. /\ th'[t].pc = "walk" /\ th'[t].h = th[t].h /\ th'[t].op = th[t].op
        /\ th'[t].at = th[t].at
    BY <1>5, <1>g, <1>k, PcsAre DEF Lock
  <2>2. /\ th[t].pc = "lock" /\ heap' = heap /\ freedTwice' = freedTwice /\ obj' = obj
        /\ UNCHANGED <<owned, ready>>
    BY <1>5 DEF Lock, memory, misc
  <2>3. Quiet(t)
    BY <2>1, <2>2, <1>n, <1>s
  <2> QED BY <2>1, <2>2, <2>3, <1>q
<1>6. CASE Walk(t)
  <2>0. UNCHANGED <<shared, statics, owned, broken, ready>> /\ th[t].pc = "walk"
    BY <1>6 DEF Walk
  <2>a. PICK stream : stream = IF api = "locked" THEN {<<t, "maps">>} ELSE {}
    OBVIOUS
  <2>1. CASE \E s \in Slots : Wanted(t, s) /\ Callback(t, s, "unlock", {}, stream)
    <3>1. PICK s \in Slots : image[s] # NoLib /\ Callback(t, s, "unlock", {}, stream)
      BY <2>1 DEF Wanted
    <3>2. image[s] \in Libs /\ stream \subseteq {<<t, "maps">>, LostMaps}
      BY <2>a, <3>1 DEF TypeOK
    <3> QED BY <1>0, <2>0, <3>1, <3>2, <1>m, <1>s, SoundMade
  <2>2. CASE Trade({}, stream) /\ Goto(t, "unlock") /\ UNCHANGED <<faults, obj>>
    <3>1. /\ th'[t].pc = "unlock" /\ th'[t].h = th[t].h /\ th'[t].op = th[t].op
          /\ th'[t].at = th[t].at
      BY <2>2, <1>g, <1>k, PcsAre
    <3>2. Trades({}, stream) /\ stream \subseteq {<<t, "maps">>}
      BY <2>a, <2>2, TradesBy
    <3>3. \A x \in Handles : <<x, "self">> \in heap' <=> <<x, "self">> \in heap
      BY <2>a, <3>2 DEF Trades
    <3>4. Quiet(t)
      BY <2>0, <2>2, <3>1, <3>3, <1>n, <1>s
    <3>5. {} \subseteq Stream(t) /\ Stream(t)' = (Stream(t) \ {}) \cup stream
      BY <2>0, <2>a, <3>1, <3>2 DEF Stream, MapsStream, Trades
    <3> QED BY <1>0, <3>2, <3>4, <3>5, SoundQuiet
  <2>3. CASE Goto(t, "unlock") /\ UNCHANGED <<heap, freedTwice, obj>>
    <3>1. /\ th'[t].pc = "unlock" /\ th'[t].h = th[t].h /\ th'[t].op = th[t].op
          /\ th'[t].at = th[t].at
      BY <2>3, <1>g, <1>k, PcsAre
    <3>2. Quiet(t)
      BY <2>0, <2>3, <3>1, <1>n, <1>s
    <3> QED BY <2>0, <2>3, <3>1, <3>2, <1>q
  <2> QED BY <1>6, <2>a, <2>1, <2>2, <2>3 DEF Walk
<1>7. CASE Unlock(t)
  <2>1. /\ th'[t].pc = "opened" /\ th'[t].h = th[t].h /\ th'[t].op = th[t].op
        /\ th'[t].at = th[t].at
    BY <1>7, <1>g, <1>k, PcsAre DEF Unlock
  <2>2. Trades(MapsStream(t), {}) /\ th[t].pc = "unlock"
    BY <1>7, TradesBy DEF Unlock
  <2>3. \A x \in Handles : <<x, "self">> \in heap' <=> <<x, "self">> \in heap
    BY <2>2 DEF Trades, MapsStream
  <2>4. Quiet(t)
    BY <1>7, <2>1, <2>2, <2>3, <1>n, <1>s DEF Unlock, misc
  <2>5. /\ MapsStream(t) \subseteq Stream(t)
        /\ Stream(t)' = (Stream(t) \ MapsStream(t)) \cup {}
    BY <2>1, <2>2 DEF Stream
  <2> QED BY <1>0, <2>2, <2>4, <2>5, SoundQuiet
<1>8. CASE ReadMaps(t)
  <2>0. UNCHANGED <<shared, statics, owned, broken, ready>> /\ th[t].pc = "read maps"
    BY <1>8 DEF ReadMaps
  <2>1. CASE \E s \in Slots : Wanted(t, s) /\ Callback(t, s, "opened", {}, {})
    <3>1. PICK s \in Slots : image[s] # NoLib /\ Callback(t, s, "opened", {}, {})
      BY <2>1 DEF Wanted
    <3>2. image[s] \in Libs /\ {} \subseteq {<<t, "maps">>, LostMaps}
      BY <3>1 DEF TypeOK
    <3> QED BY <1>0, <2>0, <3>1, <3>2, <1>m, <1>s, SoundMade
  <2>2. CASE Goto(t, "opened") /\ UNCHANGED <<heap, freedTwice, obj>>
    <3>1. /\ th'[t].pc = "opened" /\ th'[t].h = th[t].h /\ th'[t].op = th[t].op
          /\ th'[t].at = th[t].at
      BY <2>2, <1>g, <1>k, PcsAre
    <3>2. Quiet(t)
      BY <2>0, <2>2, <3>1, <1>n, <1>s
    <3> QED BY <2>0, <2>2, <3>1, <3>2, <1>q
  <2> QED BY <1>8, <2>1, <2>2 DEF ReadMaps
<1>9. CASE Opened(t)
  <2>1. /\ Held(t)' = Held(t)
        /\ heap' = heap /\ freedTwice' = freedTwice /\ obj' = obj
        /\ th[t].pc = "opened" /\ th'[t].pc \in {"idle", "dynsym"}
    BY <1>9, HeldOpened
  <2>2. Blocks(t)' = Blocks(t)
    BY <2>1 DEF Blocks, Owns
  <2>3. /\ Scratch(t) = {} /\ Stream(t) = {} /\ Scratch(t)' = {} /\ Stream(t)' = {}
    BY <2>1 DEF Scratch, Stream, Loading
  <2>4. Expected(t)' = (Expected(t) \ {}) \cup ({} \ {LostMaps})
    BY <2>2, <2>3, ExpectedIs, ExpectedThen
  <2>5. Trades({}, {})
    BY <2>1 DEF Trades
  <2> QED BY <1>0, <2>1, <2>4, <2>5, SoundKept
<1> QED BY <1>1, <1>2, <1>3, <1>4, <1>5, <1>6, <1>7, <1>8, <1>9 DEF Search

\* A step of a lookup: it concerns the blocks of its handle and the temporary ones.
LEMMA SoundTraded ==
  ASSUME TypeOK, HandlesInv, Sound, NEW t \in Threads, Lookup(t),
         NEW h \in Handles, h = th[t].h,
         NEW gone, NEW new, Trades(gone, new),
         \A b \in new : b[1] \in {t, h} /\ b[2] # "maps",
         gone \subseteq Owns(h) \cup Scratch(t),
         Owns(h)' \cup Scratch(t)' = ((Owns(h) \cup Scratch(t)) \ gone) \cup new
  PROVE  Sound'
<1>1. /\ TypeOK' /\ Others(t) /\ hand' = hand /\ cache' = cache
      /\ \A x \in Handles : x # h => obj'[x] = obj[x]
      /\ th[t].pc \in {"dynsym", "symtab"} \cup Loading
      /\ Returned(t) \/ GoesOn(t)
  BY LookupTypes, LookupMoves DEF owned
<1>2. h \in Held(t) /\ Held(t) \subseteq Handles
  BY <1>1, WorksOnHeld, HeldType DEF HandlesInv
<1>3. th'[t].pc \in {"idle", "symtab"} \cup Loading
  BY <1>1 DEF Returned, GoesOn
<1>4. Stream(t) = {} /\ Stream(t)' = {}
  BY <1>1, <1>3 DEF Stream, Loading
<1>5. Held(t)' = Held(t)
  BY <1>1, <1>3 DEF Held, MadePcs, Loading
<1>6. PICK rest : rest = UNION {Owns(x) : x \in Held(t) \ {h}}
  OBVIOUS
<1>7. Blocks(t) = rest \cup Owns(h)
  BY <1>2, <1>6 DEF Blocks
<1>8. Blocks(t)' = rest \cup Owns(h)'
  <2>1. Blocks(t)' = UNION {Owns(x)' : x \in Held(t)}
    BY <1>5 DEF Blocks
  <2>2. \A x \in Held(t) \ {h} : Owns(x)' = Owns(x)
    BY <1>1, <1>2 DEF Owns
  <2>3. rest = UNION {Owns(x)' : x \in Held(t) \ {h}}
    BY <1>6, <2>2
  <2> QED BY <1>2, <2>1, <2>3
<1>9. \A b \in Owns(h) \cup Scratch(t) : b[1] \in {t, h}
  BY OwnsNames, ScratchNames
<1>10. t \notin Handles /\ Linker \notin Threads \cup Handles
  BY XdlAssumption
<1>11. rest \cap gone = {}
  <2>1. SUFFICES ASSUME NEW b \in rest, b \in gone PROVE FALSE
    OBVIOUS
  <2>2. PICK x \in Held(t) \ {h} : b \in Owns(x)
    BY <1>6
  <2>3. b[1] = x
    BY <1>2, <2>2, OwnsNames
  <2>4. b[1] \in {t, h}
    BY <1>9, <2>1
  <2> QED BY <1>2, <1>10, <2>2, <2>3, <2>4
<1>12. gone \subseteq Expected(t)
  BY <1>7, ExpectedIs
<1>13. LostMaps \notin new
  BY <1>10 DEF LostMaps
<1>14. Expected(t)' = (Expected(t) \ gone) \cup (new \ {LostMaps})
  <2>1. Expected(t) = rest \cup (Owns(h) \cup Scratch(t))
    BY <1>4, <1>7, ExpectedIs
  <2>2. Expected(t)' = rest \cup (Owns(h)' \cup Scratch(t)')
    BY <1>4, <1>8, ExpectedThen
  <2>3. new \ {LostMaps} = new
    BY <1>13
  <2> QED BY <1>11, <2>1, <2>2, <2>3
<1>15. \A u \in Threads \ {t} : \A x \in Held(u) : obj'[x] = obj[x]
  BY <1>1, <1>2, HeldType DEF HandlesInv, OwnInv
<1>16. \A u \in Threads \ {t} : <<u, "maps">> \notin new
  <2>1. \A u \in Threads : <<u, "maps">>[2] = "maps"
    OBVIOUS
  <2> QED BY <2>1
<1> QED BY <1>1, <1>12, <1>14, <1>15, <1>16, SoundKept

LEMMA SoundLookup ==
  ASSUME TypeOK, HandlesInv, Sound, NEW t \in Threads, Lookup(t)
  PROVE  Sound' \/ broken'
<1>1. PICK h \in Handles : h = th[t].h
  BY WorksOnHeld, HeldType, LookupMoves DEF HandlesInv
<1>2. obj \in [Handles -> Contents] /\ obj[h].symtab \in {"no", "plain", "unzipped"}
  BY DEF TypeOK, Contents
<1>3. th[t].pc \in Loading \ {"load end"} => obj[h].symtab = "no"
  BY <1>1 DEF HandlesInv, LoadInv, LoadAt
<1>4. /\ obj[h].symtab = "no" => Owns(h) = {<<h, "self">>, <<h, "pathname">>}
      /\ obj'[h].symtab = obj[h].symtab => Owns(h)' = Owns(h)
  BY DEF Owns
<1>g. \A pc \in Pcs : Goto(t, pc) => th'[t].pc = pc /\ th'[t].h = h
  BY <1>1, Goes DEF TypeOK
<1>n. NextSection(t) => th'[t].pc = "section" /\ th'[t].h = h
  BY <1>1, NextSections DEF TypeOK
<1>r. Return(t) => th'[t].pc = "idle"
  BY Returns DEF TypeOK
<1>t. /\ \A b \in Temporaries(t) : b[1] = t /\ b[2] \in {"fd", "shdrs", "shstrtab"}
      /\ Temporaries(t)' = Temporaries(t)
  BY DEF Temporaries
\* The temporary blocks at each point.
<1>b. /\ th[t].pc \in {"dynsym", "symtab"} => Scratch(t) = {}
      /\ th[t].pc \in {"section", "load end"} => Scratch(t) = Temporaries(t)
      /\ th[t].pc \in {"lzma open", "lzma set", "lzma done", "decode"} =>
           Scratch(t) = Temporaries(t) \cup {<<t, "zip">>}
      /\ th[t].pc = "parse" =>
           Scratch(t) = Temporaries(t) \cup {<<t, "zip">>, <<h, "debugdata">>}
  BY <1>1 DEF Scratch, Loading
<1>a. /\ th'[t].pc \in {"idle", "symtab"} => Scratch(t)' = {}
      /\ th'[t].pc \in {"section", "load end"} => Scratch(t)' = Temporaries(t)
      /\ th'[t].pc \in {"lzma open", "lzma set", "lzma done", "decode"} =>
           Scratch(t)' = Temporaries(t) \cup {<<t, "zip">>}
      /\ th'[t].pc = "parse" /\ th'[t].h = h =>
           Scratch(t)' = Temporaries(t) \cup {<<t, "zip">>, <<h, "debugdata">>}
  BY <1>t DEF Scratch, Loading
<1>h. t # h
  BY XdlAssumption
\* Steps that free and make nothing.
<1>q. ASSUME heap' = heap, freedTwice' = freedTwice, obj'[h].symtab = obj[h].symtab,
             Scratch(t)' = Scratch(t)
      PROVE  Sound'
  <2>1. Trades({}, {})
    BY <1>q DEF Trades
  <2>2. Owns(h)' \cup Scratch(t)' = ((Owns(h) \cup Scratch(t)) \ {}) \cup {}
    BY <1>4, <1>q
  <2> QED BY <1>1, <2>1, <2>2, SoundTraded
<1>5. CASE Dynsym(t)
  <2>1. /\ heap' = heap /\ freedTwice' = freedTwice /\ obj' = obj /\ th[t].pc = "dynsym"
        /\ Goto(t, "symtab") \/ Return(t)
    BY <1>5 DEF Dynsym, memory
  <2>2. th'[t].pc \in {"idle", "symtab"}
    BY <2>1, <1>g, <1>r, PcsAre
  <2> QED BY <2>1, <2>2, <1>a, <1>b, <1>q
<1>6. CASE Symtab(t)
  <2>0. th[t].pc = "symtab" /\ Scratch(t) = {}
    BY <1>6, <1>b DEF Symtab
  <2>1. obj'[h].symtab = obj[h].symtab
    <3>1. obj' = obj \/ obj' = [obj EXCEPT ![h].symTried = TRUE]
      BY <1>1, <1>6 DEF Symtab, memory
    <3> QED BY <1>2, <3>1, Tries
  <2>2. CASE Return(t) /\ UNCHANGED <<heap, freedTwice>>
    BY <2>0, <2>1, <2>2, <1>a, <1>r, <1>q
  <2>3. CASE Trade({}, Temporaries(t)) /\ Goto(t, "section")
    <3>1. Trades({}, Temporaries(t)) /\ Scratch(t)' = Temporaries(t)
      BY <2>3, <1>a, <1>g, PcsAre, TradesBy
    <3>2. Owns(h)' \cup Scratch(t)' = ((Owns(h) \cup Scratch(t)) \ {}) \cup Temporaries(t)
      BY <2>0, <2>1, <3>1, <1>4
    <3>3. \A b \in Temporaries(t) : b[1] \in {t, h} /\ b[2] # "maps"
      BY <1>t
    <3> QED BY <1>1, <3>1, <3>2, <3>3, SoundTraded
  <2> QED BY <1>6, <2>2, <2>3 DEF Symtab, memory
<1>7. CASE Section(t)
  <2>0. th[t].pc = "section" /\ Scratch(t) = Temporaries(t) /\ obj[h].symtab = "no"
    BY <1>3, <1>7, <1>b DEF Section, Loading
  <2>1. CASE /\ Trade({}, {<<h, "symtab">>, <<h, "strtab">>})
             /\ obj' = [obj EXCEPT ![h].symtab = "plain"] /\ Goto(t, "load end")
    <3>1. /\ Trades({}, {<<h, "symtab">>, <<h, "strtab">>})
          /\ Scratch(t)' = Temporaries(t)
      BY <2>1, <1>a, <1>g, PcsAre, TradesBy
    <3>2. obj'[h].symtab = "plain"
      BY <1>2, <2>1, Sets
    <3>3. Owns(h)' = Owns(h) \cup {<<h, "symtab">>, <<h, "strtab">>}
      BY <2>0, <3>2 DEF Owns
    <3>4. Owns(h)' \cup Scratch(t)' =
            ((Owns(h) \cup Scratch(t)) \ {}) \cup {<<h, "symtab">>, <<h, "strtab">>}
      BY <2>0, <3>1, <3>3
    <3>5. \A b \in {<<h, "symtab">>, <<h, "strtab">>} : b[1] \in {t, h} /\ b[2] # "maps"
      OBVIOUS
    <3> QED BY <1>1, <3>1, <3>4, <3>5, SoundTraded
  <2>2. CASE /\ Trade({}, {<<t, "zip">>}) /\ UNCHANGED obj
             /\ Goto(t, IF inited THEN "decode" ELSE "lzma open")
    <3>1. Trades({}, {<<t, "zip">>}) /\ Scratch(t)' = Temporaries(t) \cup {<<t, "zip">>}
      BY <2>2, <1>a, <1>g, PcsAre, TradesBy
    <3>2. Owns(h)' \cup Scratch(t)' = ((Owns(h) \cup Scratch(t)) \ {}) \cup {<<t, "zip">>}
      BY <2>0, <2>2, <3>1, <1>4
    <3>3. \A b \in {<<t, "zip">>} : b[1] \in {t, h} /\ b[2] # "maps"
      OBVIOUS
    <3> QED BY <1>1, <3>1, <3>2, <3>3, SoundTraded
  <2>3. CASE UNCHANGED memory /\ (NextSection(t) \/ Goto(t, "load end"))
    <3>1. th'[t].pc \in {"section", "load end"}
      BY <2>3, <1>n, <1>g, PcsAre
    <3> QED BY <2>0, <2>3, <3>1, <1>a, <1>q DEF memory
  <2> QED BY <1>1, <1>7, <2>1, <2>2, <2>3 DEF Section, memory
<1>8. CASE LoadEnd(t)
  <2>1. /\ Trades(Temporaries(t), {}) /\ Scratch(t) = Temporaries(t) /\ Scratch(t)' = {}
        /\ obj' = obj
    BY <1>8, <1>a, <1>b, <1>r, TradesBy DEF LoadEnd
  <2>2. Owns(h) \cap Temporaries(t) = {}
    BY <1>h, <1>t, OwnsNames
  <2>3. Owns(h)' \cup Scratch(t)' = ((Owns(h) \cup Scratch(t)) \ Temporaries(t)) \cup {}
    BY <2>1, <2>2, <1>4
  <2> QED BY <1>1, <2>1, <2>3, SoundTraded
<1>9. CASE LzmaOpen(t) \/ LzmaSet(t) \/ LzmaDone(t)
  <2>1. /\ heap' = heap /\ freedTwice' = freedTwice /\ obj' = obj
        /\ th[t].pc \in {"lzma open", "lzma set", "lzma done"}
    BY <1>9 DEF LzmaOpen, LzmaSet, LzmaDone, memory
  <2>2. th'[t].pc \in {"lzma set", "lzma done", "decode"}
    BY <1>9, <1>g, PcsAre DEF LzmaOpen, LzmaSet, LzmaDone
  <2> QED BY <2>1, <2>2, <1>a, <1>b, <1>q
<1>10. CASE Decode(t)
  <2>0. /\ th[t].pc = "decode" /\ Scratch(t) = Temporaries(t) \cup {<<t, "zip">>}
        /\ obj' = obj /\ obj[h].symtab = "no"
    BY <1>3, <1>10, <1>b DEF Decode, Loading
  <2>1. CASE GiveUp(t, {})
    <3>1. Trades({<<t, "zip">>}, {}) /\ Scratch(t)' = Temporaries(t)
      BY <2>1, <1>a, <1>n, TradesBy DEF GiveUp
    <3>2. <<t, "zip">> \notin Owns(h) \cup Temporaries(t)
      BY <1>h, <1>t, OwnsNames
    <3>3. Owns(h)' \cup Scratch(t)' = ((Owns(h) \cup Scratch(t)) \ {<<t, "zip">>}) \cup {}
      BY <2>0, <3>1, <3>2, <1>4
    <3> QED BY <1>1, <2>0, <3>1, <3>3, SoundTraded
  <2>2. CASE Trade({}, {<<h, "debugdata">>}) /\ Goto(t, "parse")
    <3>1. /\ Trades({}, {<<h, "debugdata">>})
          /\ Scratch(t)' = Temporaries(t) \cup {<<t, "zip">>, <<h, "debugdata">>}
      BY <2>2, <1>a, <1>g, PcsAre, TradesBy
    <3>2. Owns(h)' \cup Scratch(t)' =
            ((Owns(h) \cup Scratch(t)) \ {}) \cup {<<h, "debugdata">>}
      BY <2>0, <3>1, <1>4
    <3>3. \A b \in {<<h, "debugdata">>} : b[1] \in {t, h} /\ b[2] # "maps"
      OBVIOUS
    <3> QED BY <1>1, <3>1, <3>2, <3>3, SoundTraded
  <2>3. CASE broken' = TRUE
    BY <2>3
  <2> QED BY <1>1, <1>10, <2>1, <2>2, <2>3 DEF Decode
<1>11. CASE Parse(t)
  <2>0. /\ th[t].pc = "parse" /\ obj[h].symtab = "no"
        /\ Scratch(t) = Temporaries(t) \cup {<<t, "zip">>, <<h, "debugdata">>}
        /\ Owns(h) = {<<h, "self">>, <<h, "pathname">>}
        /\ <<t, "zip">> \notin Temporaries(t) /\ <<h, "debugdata">> \notin Temporaries(t)
    BY <1>3, <1>4, <1>11, <1>b, <1>t DEF Parse, Loading
  <2>1. CASE /\ Trade({<<t, "zip">>}, {}) /\ Goto(t, "load end")
             /\ obj' = [obj EXCEPT ![h].symtab = "unzipped"]
    <3>1. Trades({<<t, "zip">>}, {}) /\ Scratch(t)' = Temporaries(t)
      BY <2>1, <1>a, <1>g, PcsAre, TradesBy
    <3>2. obj'[h].symtab = "unzipped"
      BY <1>2, <2>1, Sets
    <3>3. Owns(h)' = Owns(h) \cup {<<h, "debugdata">>}
      BY <2>0, <3>2 DEF Owns
    <3>4. Owns(h)' \cup Scratch(t)' = ((Owns(h) \cup Scratch(t)) \ {<<t, "zip">>}) \cup {}
      BY <2>0, <3>1, <3>3, <1>h
    <3> QED BY <1>1, <2>0, <3>1, <3>4, SoundTraded
  <2>2. CASE GiveUp(t, {<<h, "debugdata">>}) /\ UNCHANGED obj
    <3> DEFINE gone == {<<t, "zip">>} \cup {<<h, "debugdata">>}
    <3>1. Trades(gone, {}) /\ Scratch(t)' = Temporaries(t)
      BY <2>2, <1>a, <1>n, TradesBy DEF GiveUp
    <3>2. Owns(h)' \cup Scratch(t)' = ((Owns(h) \cup Scratch(t)) \ gone) \cup {}
      BY <2>0, <2>2, <3>1, <1>4, <1>h
    <3>3. gone \subseteq Owns(h) \cup Scratch(t)
      BY <2>0
    <3> HIDE DEF gone
    <3> QED BY <1>1, <3>1, <3>2, <3>3, SoundTraded
  <2> QED BY <1>1, <1>11, <2>1, <2>2 DEF Parse
<1> QED BY <1>5, <1>6, <1>7, <1>8, <1>9, <1>10, <1>11 DEF Lookup

LEMMA SoundLinker ==
  ASSUME TypeOK, Sound, BeginChange \/ EndChange
  PROVE  Sound'
<1>1. heap' = heap /\ freedTwice' = freedTwice /\ UNCHANGED <<th, hand, cache>>
  BY DEF BeginChange, EndChange, memory, owned
<1>2. \A h \in Handles : Owns(h)' = Owns(h)
  BY LinkerTypes DEF Owns
<1>3. \A t \in Threads : Expected(t)' = Expected(t)
  <2>1. SUFFICES ASSUME NEW t \in Threads PROVE Expected(t)' = Expected(t)
    OBVIOUS
  <2>2. Blocks(t)' = Blocks(t)
    <3>1. Held(t)' = Held(t) /\ Held(t) \subseteq Handles
      BY <1>1, HeldType DEF Held
    <3> QED BY <1>2, <3>1 DEF Blocks
  <2>3. Scratch(t)' = Scratch(t) /\ Stream(t)' = Stream(t)
    BY <1>1 DEF Scratch, Stream, Temporaries, MapsStream
  <2> QED BY <2>2, <2>3, ExpectedIs, ExpectedThen
<1> QED BY <1>1, <1>3 DEF Sound, LostMaps

-----------------------------------------------------------------------------
(* Every state *)

IInv == TypeOK /\ ConstructInv /\ MutexInv /\ LzmaInv /\ HandlesInv /\ HeapSound

LEMMA InitInv == Init => IInv
<1> SUFFICES ASSUME Init PROVE IInv
  OBVIOUS
<1> USE XdlAssumption
<1>1. TypeOK
  BY InitTypes
<1>2. /\ \A t \in Threads : /\ th[t].pc = "idle" /\ th[t].op = "clean" /\ th[t].h = NoHandle
                            /\ hand[t] = NoHandle /\ Range(cache[t]) = {}
      /\ \A h \in Handles : obj[h] = Blank
  <2>1. Idle.pc = "idle" /\ Idle.op = "clean" /\ Idle.h = NoHandle
    BY DEF Idle
  <2>2. Range(<<>>) = {}
    BY DEF Range
  <2> QED BY <2>1, <2>2 DEF Init
<1>3. ConstructInv
  BY <1>2 DEF Init, ConstructInv, OpeningInv, NestedInv, FoundInv, Nested
<1>4. MutexInv
  BY <1>2 DEF Init, MutexInv
<1>5. LzmaInv
  BY <1>2 DEF Init, LzmaInv
<1>6. HandlesInv
  <2>1. SlotInv
    BY <1>2, BlankIs DEF Init, SlotInv
  <2>2. \A t \in Threads : Held(t) = {}
    BY <1>2 DEF Held, MadePcs
  <2>3. OwnInv
    BY <1>2, <2>2 DEF OwnInv, OwnAt, MadePcs
  <2>4. CallInv
    BY <1>2 DEF CallInv, CallAt, SearchPcs, MadePcs, Loading
  <2>5. LoadInv
    <3>1. \A h \in Handles : obj[h].symtab = "no"
      BY <1>2, BlankIs
    <3>2. \A t \in Threads : th[t].pc \notin Loading
      BY <1>2 DEF Loading
    <3> QED BY <3>1, <3>2 DEF LoadInv, LoadAt
  <2> QED BY <2>1, <2>3, <2>4, <2>5 DEF HandlesInv
<1>7. HeapSound
  <2>1. \A t \in Threads : Expected(t) = {}
    <3>1. SUFFICES ASSUME NEW t \in Threads PROVE Expected(t) = {}
      OBVIOUS
    <3>2. Held(t) = {}
      BY <1>2 DEF Held, MadePcs
    <3>3. Blocks(t) = {}
      BY <3>2 DEF Blocks
    <3>4. Scratch(t) = {} /\ Stream(t) = {}
      BY <1>2 DEF Scratch, Stream, Loading
    <3> QED BY <3>3, <3>4, ExpectedIs
  <2> QED BY <2>1 DEF Init, HeapSound
<1> QED BY <1>1, <1>3, <1>4, <1>5, <1>6, <1>7 DEF IInv

\* The steps, as this proof divides them.
LEMMA Steps ==
  ASSUME Next
  PROVE  \/ \E t \in Threads : Start(t) \/ Search(t) \/ Lookup(t)
         \/ BeginChange \/ EndChange
BY DEF Next, Step, Waits, Search, Lookup

LEMMA StepHeap ==
  ASSUME IInv, [Next]_vars
  PROVE  HeapSound'
<1> USE DEF IInv
<1>1. (HeapSound <=> broken \/ Sound) /\ (HeapSound' <=> broken' \/ Sound')
  BY DEF HeapSound, Sound, LostMaps
<1>2. CASE \E t \in Threads : Start(t)
  BY <1>1, <1>2, SoundStart, StartMoves DEF misc
<1>3. CASE \E t \in Threads : Search(t)
  BY <1>1, <1>3, SoundSearch, SearchMoves DEF HandlesInv, SlotInv
<1>4. CASE \E t \in Threads : Lookup(t)
  <2>1. PICK t \in Threads : Lookup(t)
    BY <1>4
  <2>2. broken => broken'
    BY <2>1 DEF Lookup, Dynsym, Symtab, Section, LoadEnd, LzmaOpen, LzmaSet, LzmaDone, Decode,
                Parse, misc
  <2> QED BY <1>1, <2>1, <2>2, SoundLookup
<1>5. CASE BeginChange \/ EndChange
  BY <1>1, <1>5, SoundLinker DEF BeginChange, EndChange, misc
<1>6. CASE UNCHANGED vars
  <2>1. UNCHANGED <<heap, freedTwice, broken>>
    BY <1>6 DEF vars, memory, misc
  <2>2. \A t \in Threads : Expected(t)' = Expected(t)
    BY <1>6 DEF vars, memory, owned, Expected, Owns, Temporaries, MapsStream
  <2> QED BY <2>1, <2>2 DEF HeapSound
<1> QED BY <1>2, <1>3, <1>4, <1>5, <1>6, Steps

LEMMA StepInv ==
  ASSUME IInv, [Next]_vars
  PROVE  IInv'
<1> USE DEF IInv
<1>h. HeapSound'
  BY StepHeap
<1>0. image[LinkerSlot] = Linker
  BY DEF HandlesInv, SlotInv
<1>1. CASE \E t \in Threads : Start(t)
  <2>1. PICK t \in Threads : Start(t)
    BY <1>1
  <2>2. TypeOK' /\ Others(t) /\ UNCHANGED <<faults, inited, lzma>>
    BY <2>1, StartTypes, StartMoves DEF statics, misc
  <2>3. th'[t].pc \notin {"lzma done", "decode"}
    BY <2>1, StartMoves DEF Asking, Close, Clean
  <2>4. LzmaInv'
    BY <2>2, <2>3, LzmaKept
  <2> QED BY <1>h, <2>1, <2>2, <2>4, MutexStart, HandlesStart
<1>2. CASE \E t \in Threads : Search(t)
  <2>1. PICK t \in Threads : Search(t)
    BY <1>2
  <2>2. /\ TypeOK' /\ Others(t) /\ UNCHANGED <<inited, lzma>> /\ (faults > 0 => faults' > 0)
        /\ Quiet(t) \/ Makes(t) \/ NestedSym(t) \/ Opened(t)
    BY <1>0, <2>1, SearchTypes, SearchMoves
  <2>3. th'[t].pc \notin {"lzma done", "decode"}
    <3>1. CASE Quiet(t) \/ Makes(t)
      BY <3>1 DEF Quiet, Makes, MakesFor, SearchPcs, MadePcs
    <3>2. CASE NestedSym(t)
      BY <3>2, GoesWith, PcsAre DEF NestedSym, TypeOK
    <3>3. CASE Opened(t)
      BY <3>3, Goes, Returns, PcsAre DEF Opened, TypeOK
    <3> QED BY <2>2, <3>1, <3>2, <3>3
  <2>4. LzmaInv'
    BY <2>2, <2>3, LzmaKept
  <2> QED BY <1>0, <1>h, <2>1, <2>2, <2>4, MutexSearch, HandlesSearch
<1>3. CASE \E t \in Threads : Lookup(t)
  BY <1>h, <1>3, LookupTypes, MutexLookup, LzmaLookup, HandlesLookup
<1>4. CASE BeginChange \/ EndChange
  <2>1. LzmaInv'
    <3>1. UNCHANGED <<th, inited, lzma, faults>>
      BY <1>4 DEF BeginChange, EndChange, statics, misc
    <3> QED BY <3>1 DEF LzmaInv
  <2> QED BY <1>h, <1>4, <2>1, LinkerTypes, MutexLinker, HandlesLinker
<1>5. CASE UNCHANGED vars
  <2> USE <1>5 DEF vars, shared, statics, memory, owned, misc
  <2>1. TypeOK'
    BY DEF TypeOK
  <2>2. ConstructInv' /\ MutexInv' /\ LzmaInv'
    BY DEF ConstructInv, OpeningInv, NestedInv, FoundInv, MutexInv, TakesMutex, LzmaInv
  <2>3. HandlesInv'
    <3>1. \A t \in Threads : Held(t)' = Held(t)
      BY DEF Held
    <3>2. SlotInv' /\ OwnInv'
      BY <3>1 DEF HandlesInv, SlotInv, OwnInv, OwnAt
    <3>3. CallInv'
      BY DEF HandlesInv, CallInv, CallAt
    <3>4. LoadInv'
      BY DEF HandlesInv, LoadInv, LoadAt
    <3> QED BY <3>2, <3>3, <3>4 DEF HandlesInv
  <2> QED BY <1>h, <2>1, <2>2, <2>3
<1> QED BY <1>1, <1>2, <1>3, <1>4, <1>5, Steps

LEMMA AlwaysInv == Spec => []IInv
<1> QED BY InitInv, StepInv, PTL DEF Spec

\* Every variable keeps to its range, and every call to the program's points.
THEOREM XdlTypes == Spec => []TypeOK
<1>1. IInv => TypeOK
  BY DEF IInv
<1> QED BY <1>1, AlwaysInv, PTL

\* The list of libraries is walked only while it stands still, whatever the Android
\* version, and nobody goes away with the linker's mutex.
THEOREM WalkedAtRest == Spec => []ListExclusive
<1>1. IInv => ListExclusive
  BY WalksAlone DEF IInv
<1> QED BY <1>1, AlwaysInv, PTL

\* Who decodes has all the functions of liblzma, however many threads look them up.
THEOREM DecodesReady == Spec => []LzmaReady
<1>1. IInv => LzmaReady
  BY DecodesWithAll DEF IInv
<1> QED BY <1>1, AlwaysInv, PTL

\* xdl_addr answers from a handle of the library at the address.
THEOREM AddressAnswered == Spec => []AddrTrue
<1>1. IInv => AddrTrue
  BY AnswersTrue DEF IInv
<1> QED BY <1>1, AlwaysInv, PTL

\* Whatever fails on the way, blocks are freed once, and none is lost but the stream of
\* the maps at the linker, until a decompression breaks.
THEOREM NothingLost == Spec => []HeapSound
<1>1. IInv => HeapSound
  BY DEF IInv
<1> QED BY <1>1, AlwaysInv, PTL

\* What a step leaves of a handle whose tables were looked for.
Stays(h) == Settled(h) /\ <<h, "self">> \in heap' =>
              Settled(h)' /\ obj'[h].symtab = obj[h].symtab

LEMMA StaysBy ==
  ASSUME NEW h \in Handles, NEW t \in Threads, Others(t), <<h, "self">> \in heap' => obj'[h] = obj[h],
         th'[t].pc \notin Loading
  PROVE  Stays(h)
BY DEF Stays, Settled, Others

LEMMA StepStays ==
  ASSUME IInv, Next, NEW h \in Handles
  PROVE  Stays(h)
<1> USE DEF IInv
<1>1. ASSUME NEW t \in Threads, Start(t) PROVE Stays(h)
  <2>1. Others(t)
    BY <1>1, StartTypes
  <2>2. CASE Asking(t)
    <3>1. obj' = obj /\ th'[t].pc \notin Loading
      BY <2>2 DEF Asking, memory, Loading
    <3> QED BY <2>1, <3>1, StaysBy
  <2>3. CASE Close(t) \/ Clean(t)
    <3>1. PICK S \in SUBSET Held(t) : Release(S)
      BY <2>3, HeldFreed
    <3>2. <<h, "self">> \in heap' => obj'[h] = obj[h]
      BY <3>1, HeldType, Releases
    <3>3. th'[t].pc \notin Loading
      BY <2>3, HeldFreed DEF Loading
    <3> QED BY <2>1, <3>2, <3>3, StaysBy
  <2> QED BY <1>1, <2>2, <2>3, StartMoves
<1>2. ASSUME NEW t \in Threads, Search(t) PROVE Stays(h)
  <2>1. /\ Others(t)
        /\ Quiet(t) \/ Makes(t) \/ NestedSym(t) \/ Opened(t)
    BY <1>2, SearchTypes, SearchMoves DEF HandlesInv, SlotInv
  <2>2. CASE Quiet(t)
    <3>1. obj' = obj /\ th'[t].pc \notin Loading
      BY <2>2 DEF Quiet, SearchPcs, Loading
    <3> QED BY <2>1, <3>1, StaysBy
  <2>3. CASE Makes(t)
    <3>1. PICK s \in Slots, g \in Handles, ok \in BOOLEAN : MakesFor(t, s, g, ok)
      BY <2>3 DEF Makes
    <3>2. th'[t].pc \notin Loading
      BY <3>1 DEF MakesFor, MadePcs, Loading
    <3>3. CASE h = g
      BY <3>1, <3>3 DEF MakesFor, Stays, Settled
    <3>4. CASE h # g
      <4>1. obj'[h] = obj[h]
        BY <3>1, <3>4 DEF MakesFor
      <4> QED BY <2>1, <3>2, <4>1, StaysBy
    <3> QED BY <3>3, <3>4
  <2>4. CASE NestedSym(t)
    <3>1. PICK S \in SUBSET Held(t) : Release(S)
      BY <2>4, HeldNested
    <3>2. <<h, "self">> \in heap' => obj'[h] = obj[h]
      BY <3>1, HeldType, Releases
    <3>3. th'[t].pc \notin Loading
      BY <2>4, HeldNested DEF Loading
    <3> QED BY <2>1, <3>2, <3>3, StaysBy
  <2>5. CASE Opened(t)
    <3>1. obj' = obj /\ th'[t].pc \notin Loading
      BY <2>5, HeldOpened DEF Loading
    <3> QED BY <2>1, <3>1, StaysBy
  <2> QED BY <2>1, <2>2, <2>3, <2>4, <2>5
<1>3. ASSUME NEW t \in Threads, Lookup(t) PROVE Stays(h)
  <2>1. /\ Others(t)
        /\ h # th[t].h => obj'[h] = obj[h]
        /\ obj[h].symTried => obj'[h].symTried
        /\ <<h, "self">> \in heap' <=> <<h, "self">> \in heap
        /\ Returned(t) \/ GoesOn(t)
        /\ th[t].pc \in {"dynsym", "symtab"} \cup Loading
    BY <1>3, LookupTypes, LookupMoves
  <2>2. CASE h # th[t].h
    <3>1. th'[t].pc \notin Loading \/ th'[t].h # h
      BY <2>1, <2>2 DEF Returned, GoesOn, Loading
    <3> QED BY <2>1, <2>2, <3>1 DEF Stays, Settled, Others
  <2>3. CASE h = th[t].h
    <3>1. SUFFICES ASSUME Settled(h) PROVE Stays(h)
      BY DEF Stays
    <3>2. th[t].pc \in {"dynsym", "symtab"} /\ obj[h].symTried
      BY <2>1, <2>3, <3>1 DEF Settled
    <3>3. obj'[h].symtab = obj[h].symtab
      BY <1>3, <2>3, <3>2, LookupMoves DEF Loading
    <3>4. th'[t].pc \notin Loading
      <4>1. CASE th[t].pc = "dynsym"
        BY <2>1, <4>1 DEF Returned, GoesOn, Loading
      <4>2. CASE th[t].pc = "symtab"
        BY <1>3, <2>3, <3>2, <4>2, LookupMoves DEF Returned, Loading
      <4> QED BY <3>2, <4>1, <4>2
    <3> QED BY <2>1, <3>2, <3>3, <3>4 DEF Stays, Settled, Others
  <2> QED BY <2>2, <2>3
<1>4. CASE BeginChange \/ EndChange
  <2>1. obj'[h].symTried = obj[h].symTried /\ obj'[h].symtab = obj[h].symtab
    BY <1>4, LinkerTypes
  <2>2. heap' = heap /\ th' = th
    BY <1>4 DEF BeginChange, EndChange, memory
  <2> QED BY <2>1, <2>2 DEF Stays, Settled
<1> QED BY <1>1, <1>2, <1>3, <1>4, Steps

\* The tables of a handle, once looked for, are not looked for again nor changed until
\* the handle is closed.
THEOREM TablesStay == Spec => TablesFixed
<1>1. IInv /\ [Next]_vars =>
        [\A h \in Handles : Settled(h) /\ <<h, "self">> \in heap' =>
           Settled(h)' /\ obj'[h].symtab = obj[h].symtab]_vars
  BY StepStays DEF Stays
<1> QED BY <1>1, AlwaysInv, PTL DEF Spec, TablesFixed
=============================================================================
