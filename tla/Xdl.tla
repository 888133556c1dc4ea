-------------------------------- MODULE Xdl --------------------------------
(* Opening, searching and closing libraries behind the dynamic linker's     *)
(* back: xDL/xdl.c, xdl_iterate.c and xdl_lzma.c. Threads call the API, each *)
(* with a handle and an address cache of its own; they share the dynamic    *)
(* linker's list of libraries, the linker's mutex and the static variables. *)
(* Which symbol of a table is found is the subject of ElfLookup.            *)
EXTENDS Integers, Sequences, FiniteSets, Functions

CONSTANTS
  Threads,    \* callers
  Main,       \* the thread that loads this library and runs its constructor
  Slots,      \* places a library can be mapped at
  LinkerSlot, \* where the dynamic linker itself is
  Libs,       \* libraries, Linker among them
  Linker,     \* the dynamic linker
  NoLib,      \* nothing mapped
  InDynsym,   \* libraries whose .dynsym has the symbol that is asked for
  Sections,   \* per library, its .symtab and .gnu_debugdata sections in file order
  Apis,       \* API levels: "maps" < 21 <= "locked" < 23 <= "hidden" < 27 <= "listed"
  Handles,    \* blocks for xdl_t
  NoHandle,
  Names,      \* libraries that are opened by name
  May,        \* per thread, the calls it makes
  MaxFaults,  \* bound: system calls and allocations that fail
  MaxChanges  \* bound: dlopen and dlclose of other threads

Ops == {"open", "sym", "dsym", "close", "addr", "clean"}

ASSUME XdlAssumption ==
  /\ Main \in Threads /\ Linker \in Libs /\ LinkerSlot \in Slots
  /\ NoLib \notin Libs /\ NoHandle \notin Handles /\ InDynsym \subseteq Libs
  /\ Threads \cap Handles = {} /\ (Threads \cup Handles) \cap (Libs \cup {NoLib}) = {}
  /\ Sections \in [Libs -> Seq({"symtab", "debugdata"})]
  /\ Apis \subseteq {"maps", "locked", "hidden", "listed"}
  /\ Names \subseteq Libs
  /\ May \in [Threads -> SUBSET Ops]
  /\ MaxFaults \in Nat /\ MaxChanges \in Nat

VARIABLES
  api,       \* API level of the device
  image,     \* what is mapped at each slot
  changing,  \* the linker is changing its list
  holder,    \* who holds the linker's mutex: a thread, Linker, or NoLib
  changes, faults,
  mutexInited, linkerMutex,  \* linker_mutex_inited, xdl_iterate_linker_mutex # NULL
  inited,    \* static inited of xdl_lzma_decompress
  lzma,      \* the function pointers that are set
  heap,      \* live blocks and streams: <<owner, kind>>
  freedTwice,\* a block was freed that was not allocated
  broken,    \* a decompression failed after its buffer was there (history)
  ready,     \* the constructor has returned
  obj,       \* contents of each xdl_t
  hand,      \* each thread's handle from xdl_open
  cache,     \* each thread's address cache
  th         \* each thread's control: [pc, op, name, at, h, sec]

shared == <<api, image, changing, holder, changes>>
statics == <<mutexInited, linkerMutex, inited, lzma>>
memory == <<heap, freedTwice, obj>>
owned == <<hand, cache>>
misc == <<faults, broken, ready>>
vars == <<shared, statics, memory, owned, misc, th>>

Pointers == {"construct", "isfinished", "free", "code"}
\* A thread's control: where it is, the call, the library or place asked for, the
\* handle it works on, and the section it looks at.
Idle == [pc |-> "idle", op |-> "clean", name |-> NoLib, at |-> LinkerSlot,
         h |-> NoHandle, sec |-> 1]

\* A fresh xdl_t for the library at s (calloc in xdl_open_iterate_cb).
Fresh(s, lib) == [at |-> s, lib |-> lib, live |-> TRUE,
                  symTried |-> FALSE, symtab |-> "no"]
Blank == Fresh(LinkerSlot, Linker)

Init ==
  /\ api \in Apis
  /\ image \in [Slots -> Libs] /\ image[LinkerSlot] = Linker /\ IsInjective(image)
  /\ changing = FALSE /\ holder = NoLib /\ changes = 0 /\ faults = 0
  /\ mutexInited = FALSE /\ linkerMutex = FALSE /\ inited = FALSE /\ lzma = {}
  /\ heap = {} /\ freedTwice = FALSE /\ broken = FALSE /\ ready = FALSE
  /\ obj = [h \in Handles |-> Blank]
  /\ hand = [t \in Threads |-> NoHandle] /\ cache = [t \in Threads |-> <<>>]
  /\ th = [t \in Threads |-> Idle]

Goto(t, pc) == th' = [th EXCEPT ![t].pc = pc]
GotoWith(t, pc, h) == th' = [th EXCEPT ![t].pc = pc, ![t].h = h]

\* The call is over: the constructor, which calls xdl_open, may be too.
Return(t) == th' = [th EXCEPT ![t] = Idle] /\ ready' = TRUE

\* A system call or an allocation works, or fails within the bound.
Works(ok) == /\ ok \/ faults < MaxFaults
             /\ faults' = IF ok THEN faults ELSE faults + 1

\* free and fclose of some blocks, malloc and fopen of others.
Trade(gone, new) == /\ heap' = (heap \ gone) \cup new
                    /\ freedTwice' = (freedTwice \/ ~(gone \subseteq heap))

-----------------------------------------------------------------------------
(* The calls *)

\* The constructor of this library opens one before any other thread can call.
Begin(t, op) ==
  /\ th[t].pc = "idle" /\ op \in May[t]
  /\ ready \/ (t = Main /\ op = "open")
  /\ UNCHANGED <<shared, statics, misc>>

Starting(t, op, pc, h) ==
  th' = [th EXCEPT ![t] = [Idle EXCEPT !.op = op, !.pc = pc, !.h = h]]

\* Bound: every call under way can make its handle, and one more call too.
HandlesLeft ==
  Cardinality({h \in Handles : <<h, "self">> \in heap})
    + Cardinality({t \in Threads : th[t].pc # "idle"}) < Cardinality(Handles)

Open(t) ==
  /\ Begin(t, "open") /\ hand[t] = NoHandle /\ HandlesLeft
  /\ \E lib \in Names :
       th' = [th EXCEPT ![t] = [Idle EXCEPT !.op = "open", !.pc = "iterate", !.name = lib]]
  /\ UNCHANGED <<memory, owned>>

Sym(t) == /\ Begin(t, "sym") /\ hand[t] # NoHandle
          /\ Starting(t, "sym", "dynsym", hand[t])
          /\ UNCHANGED <<memory, owned>>

Dsym(t) == /\ Begin(t, "dsym") /\ hand[t] # NoHandle
           /\ Starting(t, "dsym", "symtab", hand[t])
           /\ UNCHANGED <<memory, owned>>

\* Mutant: the first handle of the cache, whatever it describes.
CachedFirst(t, s) == IF cache[t] = <<>> THEN NoHandle ELSE Head(cache[t])

\* The first handle of the cache for the place (xdl_addr).
Cached(t, s) == LET fit == {i \in 1..Len(cache[t]) : obj[cache[t][i]].at = s}
                IN IF fit = {} THEN NoHandle
                   ELSE cache[t][CHOOSE i \in fit : \A j \in fit : i <= j]

Addr(t) ==
  /\ Begin(t, "addr") /\ HandlesLeft
  /\ \E s \in Slots :
       th' = [th EXCEPT ![t] = [Idle EXCEPT !.op = "addr", !.at = s, !.h = Cached(t, s),
                !.pc = IF Cached(t, s) = NoHandle THEN "iterate" ELSE "dynsym"]]
  /\ UNCHANGED <<memory, owned>>

\* Mutant: tables that point into the unzipped data are freed too.
OwnsBoth(h) == {<<h, "self">>, <<h, "pathname">>} \cup
               (IF obj[h].symtab # "no" THEN {<<h, "symtab">>, <<h, "strtab">>} ELSE {}) \cup
               (IF obj[h].symtab = "unzipped" THEN {<<h, "debugdata">>} ELSE {})

\* The blocks xdl_close frees.
Owns(h) == {<<h, "self">>, <<h, "pathname">>} \cup
           CASE obj[h].symtab = "no" -> {}
             [] obj[h].symtab = "plain" -> {<<h, "symtab">>, <<h, "strtab">>}
             [] obj[h].symtab = "unzipped" -> {<<h, "debugdata">>}

Release(handles) ==
  /\ Trade(UNION {Owns(h) : h \in handles}, {})
  /\ obj' = [h \in Handles |-> IF h \in handles THEN Blank ELSE obj[h]]

Close(t) ==
  /\ Begin(t, "close") /\ hand[t] # NoHandle
  /\ Release({hand[t]})
  /\ hand' = [hand EXCEPT ![t] = NoHandle]
  /\ UNCHANGED <<cache, th>>

\* xdl_addr_clean.
Clean(t) ==
  /\ Begin(t, "clean") /\ cache[t] # <<>>
  /\ Release(Range(cache[t]))
  /\ cache' = [cache EXCEPT ![t] = <<>>]
  /\ UNCHANGED <<hand, th>>

-----------------------------------------------------------------------------
(* xdl_iterate_phdr_impl *)

WithLinker(t) == th[t].op = "addr" \/ th[t].name = Linker

\* The library at s is the one the callback looks for.
Wanted(t, s) == /\ image[s] # NoLib
                /\ IF th[t].op = "open" THEN image[s] = th[t].name ELSE s = th[t].at

MapsStream(t) == {<<t, "maps">>} \cap heap

\* The callback has made a handle for the library at s, or has failed to.
Callback(t, s, pc, gone, new) ==
  \E ok \in BOOLEAN, h \in Handles :
    /\ Works(ok)
    /\ h = CHOOSE x \in Handles : <<x, "self">> \notin heap
    /\ <<h, "self">> \notin heap
    /\ Trade(gone, new \cup IF ok THEN {<<h, "self">>, <<h, "pathname">>} ELSE {})
    /\ obj' = IF ok THEN [obj EXCEPT ![h] = Fresh(s, image[s])] ELSE obj
    /\ GotoWith(t, pc, IF ok THEN h ELSE NoHandle)

\* The first call on Android 5 looks for the linker's mutex. The flag is set first:
\* the nested xdl_open comes here too.
Iterate(t) ==
  /\ th[t].pc = "iterate"
  /\ IF api = "locked" /\ ~mutexInited
     THEN mutexInited' = TRUE /\ Goto(t, "nested open")
     ELSE /\ Goto(t, CASE api = "maps" -> "read maps"
                       [] api \in {"locked", "hidden"} /\ WithLinker(t) -> "ask linker"
                       [] OTHER -> "lock")
          /\ UNCHANGED mutexInited
  /\ UNCHANGED <<shared, linkerMutex, inited, lzma, memory, owned, misc>>

\* xdl_iterate_linker_mutex_init: xdl_open of the linker ends at the linker, before
\* any lock, and leaves the stream behind.
NestedOpen(t) ==
  /\ th[t].pc = "nested open"
  /\ Callback(t, LinkerSlot, "nested sym", {}, {<<Linker, "lost maps">>})
  /\ UNCHANGED <<shared, statics, owned, broken, ready>>

\* xdl_dsym and xdl_close of the linker: a failing load leaves the mutex unknown.
NestedSym(t) ==
  /\ th[t].pc = "nested sym"
  /\ \E ok \in BOOLEAN :
       /\ Works(ok) /\ linkerMutex' = (ok /\ th[t].h # NoHandle)
  /\ Release({th[t].h} \ {NoHandle})
  /\ GotoWith(t, "iterate", NoHandle)
  /\ UNCHANGED <<shared, mutexInited, inited, lzma, owned, broken, ready>>

\* Below 8.1 the linker is not in its list: it is asked first. A callback that
\* stops the iteration here leaves the stream open.
AskLinker(t) ==
  /\ th[t].pc = "ask linker"
  /\ \/ /\ Wanted(t, LinkerSlot)
        /\ Callback(t, LinkerSlot, "opened", {}, {<<Linker, "lost maps">>})
     \/ /\ ~Wanted(t, LinkerSlot) /\ Trade({}, {<<t, "maps">>})
        /\ Goto(t, "lock") /\ UNCHANGED <<faults, obj>>
     \/ /\ Works(FALSE) /\ Goto(t, "lock") /\ UNCHANGED <<heap, freedTwice, obj>>
  /\ UNCHANGED <<shared, statics, owned, broken, ready>>

\* dl_iterate_phdr takes the mutex itself from 6.0 on.
TakesMutex == api \in {"hidden", "listed"} \/ linkerMutex

\* Mutant: the mutex is not taken.
LockSkipped(t) ==
  /\ th[t].pc = "lock" /\ Goto(t, "walk")
  /\ UNCHANGED <<shared, statics, memory, owned, misc>>

Lock(t) ==
  /\ th[t].pc = "lock"
  /\ TakesMutex => holder = NoLib
  /\ holder' = IF TakesMutex THEN t ELSE holder
  /\ Goto(t, "walk")
  /\ UNCHANGED <<api, image, changing, changes, statics, memory, owned, misc>>

\* The linker is not listed below 8.1.
Listed(s) == api = "listed" \/ s # LinkerSlot

\* dl_iterate_phdr with xdl_iterate_by_linker_cb: on Android 5 the path name of a
\* library is looked up in the maps, and without them the library is ignored.
Walk(t) ==
  /\ th[t].pc = "walk"
  /\ LET seen == {s \in Slots : Listed(s) /\ Wanted(t, s)}
         stream == IF api = "locked" THEN {<<t, "maps">>} ELSE {}
     IN \/ \E s \in seen : Callback(t, s, "unlock", {}, stream)
        \/ /\ seen = {} /\ Trade({}, stream) /\ Goto(t, "unlock") /\ UNCHANGED <<faults, obj>>
        \/ /\ api = "locked" /\ MapsStream(t) = {} /\ Works(FALSE)
           /\ Goto(t, "unlock") /\ UNCHANGED <<heap, freedTwice, obj>>
  /\ UNCHANGED <<shared, statics, owned, broken, ready>>

\* Unlocking, and fclose.
Unlock(t) ==
  /\ th[t].pc = "unlock"
  /\ holder' = IF TakesMutex /\ holder = t THEN NoLib ELSE holder
  /\ Trade(MapsStream(t), {})
  /\ Goto(t, "opened")
  /\ UNCHANGED <<api, image, changing, changes, statics, obj, owned, misc>>

\* Android 4 (xdl_iterate_by_maps): no lock at all; the stream is closed at the end.
ReadMaps(t) ==
  /\ th[t].pc = "read maps"
  /\ LET seen == {s \in Slots : Wanted(t, s)}
     IN \/ \E s \in seen : Callback(t, s, "opened", {}, {})
        \/ /\ seen = {} /\ Goto(t, "opened") /\ UNCHANGED <<faults, heap, freedTwice, obj>>
        \/ Works(FALSE) /\ Goto(t, "opened") /\ UNCHANGED <<heap, freedTwice, obj>>
  /\ UNCHANGED <<shared, statics, owned, broken, ready>>

\* xdl_open returns the handle; xdl_addr puts it at the head of the cache and goes
\* on looking for a symbol.
Opened(t) ==
  /\ th[t].pc = "opened"
  /\ LET h == th[t].h
     IN \/ /\ th[t].op = "open" /\ hand' = [hand EXCEPT ![t] = h]
           /\ Return(t) /\ UNCHANGED cache
        \/ /\ th[t].op = "addr" /\ h = NoHandle /\ Return(t) /\ UNCHANGED owned
        \/ /\ th[t].op = "addr" /\ h # NoHandle
           /\ cache' = [cache EXCEPT ![t] = <<h>> \o @]
           /\ Goto(t, "dynsym") /\ UNCHANGED <<hand, ready>>
  /\ UNCHANGED <<shared, statics, memory, faults, broken>>

-----------------------------------------------------------------------------
(* Looking up symbols *)

\* xdl_dynsym_load at the first use, and the lookup in .dynsym. The table is in the
\* memory of the library: without the library anything may be found there.
Dynsym(t) ==
  /\ th[t].pc = "dynsym"
  /\ LET h == th[t].h
     IN \E found \in BOOLEAN :
          /\ obj[h].live => found = (obj[h].lib \in InDynsym)
          /\ IF th[t].op = "addr" /\ ~found THEN Goto(t, "symtab") /\ UNCHANGED ready
             ELSE Return(t)
  /\ UNCHANGED <<shared, statics, memory, owned, faults, broken>>

\* The descriptor and the temporary blocks of xdl_symtab_load.
Temporaries(t) == {<<t, "fd">>, <<t, "shdrs">>, <<t, "shstrtab">>}

\* Mutant: a load that fails is tried again.
SymtabRetried(t) ==
  /\ th[t].pc = "symtab"
  /\ LET h == th[t].h
     IN \/ obj[h].symtab # "no" /\ Return(t) /\ UNCHANGED <<memory, faults>>
        \/ /\ obj[h].symtab = "no"
           /\ obj' = [obj EXCEPT ![h].symTried = TRUE]
           /\ \/ /\ Works(TRUE) /\ Trade({}, Temporaries(t))
                 /\ Goto(t, "section") /\ UNCHANGED ready
              \/ Works(FALSE) /\ Return(t) /\ UNCHANGED <<heap, freedTwice>>
  /\ UNCHANGED <<shared, statics, owned, broken>>

\* xdl_symtab_load is tried once; when the file or its headers cannot be read
\* everything is given back.
Symtab(t) ==
  /\ th[t].pc = "symtab"
  /\ LET h == th[t].h
     IN \/ obj[h].symTried /\ Return(t) /\ UNCHANGED <<memory, faults>>
        \/ /\ ~obj[h].symTried
           /\ obj' = [obj EXCEPT ![h].symTried = TRUE]
           /\ \/ /\ Works(TRUE) /\ Trade({}, Temporaries(t))
                 /\ Goto(t, "section") /\ UNCHANGED ready
              \/ Works(FALSE) /\ Return(t) /\ UNCHANGED <<heap, freedTwice>>
  /\ UNCHANGED <<shared, statics, owned, broken>>

NextSection(t) == th' = [th EXCEPT ![t].pc = "section", ![t].sec = @ + 1]

\* One section header: .symtab with its string table, or .gnu_debugdata to unzip.
\* The flag of xdl_lzma_decompress is tested without a lock, and set after the
\* initialisation.
Section(t) ==
  /\ th[t].pc = "section"
  /\ LET h == th[t].h
         sections == Sections[obj[h].lib]
         is(kind) == th[t].sec <= Len(sections) /\ sections[th[t].sec] = kind
     IN \/ /\ is("symtab") /\ Works(TRUE)
           /\ Trade({}, {<<h, "symtab">>, <<h, "strtab">>})
           /\ obj' = [obj EXCEPT ![h].symtab = "plain"]
           /\ Goto(t, "load end")
        \/ /\ is("debugdata") /\ Works(TRUE)
           /\ Trade({}, {<<t, "zip">>})
           /\ Goto(t, IF inited THEN "decode" ELSE "lzma open") /\ UNCHANGED obj
        \/ /\ th[t].sec <= Len(sections) /\ Works(FALSE)
           /\ NextSection(t) /\ UNCHANGED <<heap, freedTwice, obj>>
        \/ /\ th[t].sec > Len(sections) /\ Goto(t, "load end") /\ UNCHANGED <<memory, faults>>
  /\ UNCHANGED <<shared, statics, owned, broken, ready>>

\* The end of the load, and of the call: whether .symtab is there decides what
\* xdl_dsym answers; xdl_addr answers with the library in any case.
LoadEnd(t) ==
  /\ th[t].pc = "load end"
  /\ Trade(Temporaries(t), {}) /\ Return(t)
  /\ UNCHANGED <<shared, statics, obj, owned, faults, broken>>

-----------------------------------------------------------------------------
(* xdl_lzma.c *)

\* Mutant: the flag is set before the pointers are.
LzmaOpenEarly(t) ==
  /\ th[t].pc = "lzma open"
  /\ TakesMutex => holder = NoLib
  /\ inited' = TRUE
  /\ \/ Works(TRUE) /\ Goto(t, "lzma set")
     \/ Works(FALSE) /\ Goto(t, "lzma done")
  /\ UNCHANGED <<shared, mutexInited, linkerMutex, lzma, memory, owned, broken, ready>>

\* xdl_lzma_init: the handle of liblzma is closed again before it returns.
LzmaOpen(t) ==
  /\ th[t].pc = "lzma open"
  /\ TakesMutex => holder = NoLib
  /\ \/ Works(TRUE) /\ Goto(t, "lzma set")
     \/ Works(FALSE) /\ Goto(t, "lzma done")
  /\ UNCHANGED <<shared, statics, memory, owned, broken, ready>>

\* The pointers are set in this order, by every thread that is in here.
LzmaOrder == <<"construct", "isfinished", "free", "code">>

LzmaSet(t) ==
  /\ th[t].pc = "lzma set"
  /\ \E n \in 1..4 :
       /\ \A k \in 1..(n - 1) : LzmaOrder[k] \in lzma
       /\ LzmaOrder[n] \notin lzma \/ n = 4
       /\ lzma' = lzma \cup {LzmaOrder[n]}
       /\ Goto(t, IF n = 4 THEN "lzma done" ELSE "lzma set")
  /\ UNCHANGED <<shared, mutexInited, linkerMutex, inited, memory, owned, misc>>

LzmaDone(t) ==
  /\ th[t].pc = "lzma done"
  /\ inited' = TRUE /\ Goto(t, "decode")
  /\ UNCHANGED <<shared, mutexInited, linkerMutex, lzma, memory, owned, misc>>

\* xdl_lzma_decompress has failed: xdl_symtab_load_from_debugdata gives up this
\* section, and frees self->debugdata if that is not NULL.
GiveUp(t, gone) == Trade({<<t, "zip">>} \cup gone, {}) /\ NextSection(t)

\* Decoding. On a decoder's error the buffer is freed but its pointer is kept, and
\* the caller frees it again; when the buffer cannot grow, it is lost.
Decode(t) ==
  /\ th[t].pc = "decode"
  /\ LET h == th[t].h
         refused == "code" \notin lzma
     IN \/ refused /\ GiveUp(t, {}) /\ UNCHANGED <<faults, broken>>
        \/ /\ ~refused /\ Works(TRUE) /\ Trade({}, {<<h, "debugdata">>})
           /\ Goto(t, "parse") /\ UNCHANGED broken
        \/ ~refused /\ Works(FALSE) /\ GiveUp(t, {}) /\ UNCHANGED broken
        \/ ~refused /\ Works(FALSE) /\ GiveUp(t, {<<h, "debugdata">>}) /\ broken' = TRUE
        \/ /\ ~refused /\ Works(FALSE) /\ Trade({<<t, "zip">>}, {<<h, "lost debugdata">>})
           /\ NextSection(t) /\ broken' = TRUE
  /\ UNCHANGED <<shared, statics, obj, owned, ready>>

\* The unzipped file has a .symtab, or is given up.
Parse(t) ==
  /\ th[t].pc = "parse"
  /\ \/ /\ Trade({<<t, "zip">>}, {})
        /\ obj' = [obj EXCEPT ![th[t].h].symtab = "unzipped"]
        /\ Goto(t, "load end")
     \/ GiveUp(t, {<<th[t].h, "debugdata">>}) /\ UNCHANGED obj
  /\ UNCHANGED <<shared, statics, owned, misc>>

-----------------------------------------------------------------------------
(* Other threads load and unload libraries *)

BeginChange ==
  /\ ready /\ ~changing /\ holder = NoLib /\ changes < MaxChanges
  /\ holder' = Linker /\ changing' = TRUE /\ changes' = changes + 1
  /\ UNCHANGED <<api, image, statics, memory, owned, misc, th>>

\* The place is free, or has another or the same library again.
EndChange ==
  /\ changing
  /\ \E s \in Slots \ {LinkerSlot} :
       /\ \E new \in (Libs \ {image[r] : r \in Slots \ {s}}) \cup {NoLib} :
            image' = [image EXCEPT ![s] = new]
       /\ obj' = [h \in Handles |->
                    IF obj[h].at = s THEN [obj[h] EXCEPT !.live = FALSE] ELSE obj[h]]
  /\ changing' = FALSE /\ holder' = NoLib
  /\ UNCHANGED <<api, changes, statics, heap, freedTwice, owned, misc, th>>

Start(t) == Open(t) \/ Sym(t) \/ Dsym(t) \/ Addr(t) \/ Close(t) \/ Clean(t)

Step(t) ==
  \/ Iterate(t) \/ NestedOpen(t) \/ NestedSym(t) \/ AskLinker(t) \/ Walk(t)
  \/ Unlock(t) \/ ReadMaps(t) \/ Opened(t) \/ Dynsym(t) \/ Symtab(t) \/ Section(t)
  \/ LoadEnd(t) \/ LzmaSet(t) \/ LzmaDone(t) \/ Decode(t)
  \/ Parse(t)

\* Steps that wait for the linker's mutex.
Waits(t) == Lock(t) \/ LzmaOpen(t)

Next == (\E t \in Threads : Start(t) \/ Step(t) \/ Waits(t)) \/ BeginChange \/ EndChange

Spec == Init /\ [][Next]_vars

-----------------------------------------------------------------------------
\* Type invariant.
Pcs == {"idle", "iterate", "nested open", "nested sym", "ask linker", "lock", "walk",
        "unlock", "read maps", "opened", "dynsym", "symtab", "section", "load end",
        "lzma open", "lzma set", "lzma done", "decode", "parse"}

Controls == [pc : Pcs, op : Ops, name : Libs \cup {NoLib}, at : Slots,
             h : Handles \cup {NoHandle}, sec : Nat \ {0}]

Contents == [at : Slots, lib : Libs, live : BOOLEAN,
             symTried : BOOLEAN, symtab : {"no", "plain", "unzipped"}]

TypeOK ==
  /\ api \in Apis
  /\ image \in [Slots -> Libs \cup {NoLib}]
  /\ changing \in BOOLEAN /\ holder \in Threads \cup {Linker, NoLib}
  /\ changes \in 0..MaxChanges /\ faults \in 0..MaxFaults
  /\ mutexInited \in BOOLEAN /\ linkerMutex \in BOOLEAN /\ inited \in BOOLEAN
  /\ lzma \subseteq Pointers
  /\ freedTwice \in BOOLEAN /\ broken \in BOOLEAN /\ ready \in BOOLEAN
  /\ obj \in [Handles -> Contents]
  /\ hand \in [Threads -> Handles \cup {NoHandle}]
  /\ cache \in [Threads -> Seq(Handles)]
  /\ th \in [Threads -> Controls]

\* No thread walks the linker's list of libraries while the linker changes it, on
\* any Android version: on 5.x too, where dl_iterate_phdr does not lock and the
\* mutex has to be dug out of the linker first, unless that failed; and no call
\* returns with the mutex (xdl_iterate_phdr_impl, xdl_iterate_by_linker).
ListExclusive ==
  /\ \/ api = "locked" /\ ~linkerMutex /\ faults > 0
     \/ ~changing
     \/ \A t \in Threads : th[t].pc # "walk"
  /\ \A t \in Threads : holder = t => th[t].pc \in {"walk", "unlock"}

\* The blocks and streams that must exist: those of every handle a thread has, and
\* the temporary ones of a load that is going on.
Loading == {"section", "lzma open", "lzma set", "lzma done", "decode", "parse", "load end"}

Expected(t) ==
  (IF hand[t] # NoHandle THEN Owns(hand[t]) ELSE {})
  \cup (UNION {Owns(h) : h \in Range(cache[t])})
  \cup (IF th[t].pc \in {"nested sym", "unlock", "opened"} /\ th[t].h # NoHandle
        THEN Owns(th[t].h) ELSE {})
  \cup (IF th[t].pc \in Loading THEN Temporaries(t) ELSE {})
  \cup (IF th[t].pc \in Loading \ {"section", "load end"} THEN {<<t, "zip">>} ELSE {})
  \cup (IF th[t].pc = "parse" THEN {<<th[t].h, "debugdata">>} ELSE {})
  \cup (IF th[t].pc \in {"lock", "walk", "unlock"} THEN MapsStream(t) ELSE {})

\* Whatever calls fail on the way, nothing is freed twice or used after it is freed,
\* and what no handle or running call owns is freed: the maps stream of a call that
\* stops at the linker is the only thing lost, as long as no .gnu_debugdata turns
\* out to be undecodable (xdl_symtab_load, xdl_symtab_load_from_debugdata, xdl_close,
\* xdl_addr_clean).
HeapSound ==
  broken \/ /\ ~freedTwice
            /\ heap \ {<<Linker, "lost maps">>} = UNION {Expected(t) : t \in Threads}

\* A thread that decodes has all of liblzma's functions, or is refused; it is refused
\* only after a failure, however many threads initialise at once (xdl_lzma_init,
\* xdl_lzma_decompress).
LzmaReady ==
  \A t \in Threads : th[t].pc = "decode" =>
    /\ "code" \in lzma => lzma = Pointers
    /\ "code" \in lzma \/ faults > 0

\* The handle xdl_addr answers from, taken from the cache or made, describes the
\* library that is at the address, unless that library has been unmapped since the
\* handle was made (xdl_addr, xdl_elf_is_match).
AddrTrue ==
  \A t \in Threads : th[t].op = "addr" /\ th[t].pc \in {"dynsym", "symtab", "load end"} =>
    LET h == th[t].h
    IN obj[h].at = th[t].at /\ (obj[h].live => obj[h].lib = image[th[t].at])

\* Once a lookup has looked for .symtab, found or not, the file is not read again
\* and every later lookup with that handle sees the same table (symtab_try_load).
Settled(h) == /\ obj[h].symTried /\ <<h, "self">> \in heap
              /\ \A t \in Threads : th[t].pc \in Loading => th[t].h # h

TablesFixed ==
  [][\A h \in Handles : Settled(h) /\ <<h, "self">> \in heap' =>
       Settled(h)' /\ obj'[h].symtab = obj[h].symtab]_vars
=============================================================================
