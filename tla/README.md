# ElfHookTest in TLA+

A verification development for the native hooking library of this repository
(`library/src/main`): TLA+ models translated from the source, TLC runs that check
them on small instances, and theorems that TLAPS proves for every instance.

## The system

`library` hooks functions of an Android process. It bundles several hooking and
unwinding engines and a few proxies that use them.

| Component | State it keeps | Operations | What is hard | What makes it correct |
|---|---|---|---|---|
| **xHook control** `xHook/xh_core.c` | flags `inited`, `init_ok`, `async_inited`, `async_init_ok`, `refresh_thread_running/do/tid`, two mutexes, a condition variable, the process's SIGSEGV disposition with one jump buffer and flag | `refresh(sync/async)`, `clear`, `enable_sigsegv_protection`, the `xh_refresh_loop` thread, the signal handler | flags read outside the mutex, `clear` that stops and joins a thread without a lock, a process-wide jump buffer | one pass at a time, a pass is always under the handler, one refresh thread, nothing lost, everything returns, `clear` leaves nothing behind |
| **xHook refresh pass** `xh_core.c`, `xh_elf.c` | hook list, ignore list, tree of cached ELF files, `*old_func` of each replacement, the relocation slots of every library | `register`, `ignore`, the scan of `/proc/self/maps`, slot replacement, `clear` | libraries mapped and unmapped between any two steps, caching across passes, chained replacements, `ignore` racing with `refresh` | calls through slots reach the original, ignored libraries stay untouched, a quiet pass leaves nothing unhooked, no entry freed twice |
| **xHook ELF parsing** `xh_elf.c`, `xh_util.c` | a parsed ELF | the dynamic segment, SLEB128 and packed relocations, two symbol hashes, page protection over several mappings | boundaries, malformed counts, any order of entries | decoders agree with the format, a symbol's slots are all found |
| **ARM32 inline hooks** `inline32` | table of 1024 items, trampolines, boundary tables, stopped threads | register, hook, unhook, hook/unhook all, freeze through a forked ptrace child, relocation | threads inside the patched bytes, table limits, use after delete | no thread is left in half-patched code, unhook restores |
| **ARM64 inline hooks** `inline64` | pool of trampolines, an atomic index | hook near or far, relocate up to five instructions | no lock, no thread stopped, hooks of one function at once, pool limit, references into the window | calls reach every proxy and the original, a trampoline is there before a jump leads to it |
| **xDL** `xDL` | handle with load-once flags and unzipped debug data, an address cache, the linker's mutex, liblzma's functions | open, sym, dsym, addr, clean, close | the linker's list changes meanwhile, a different way to iterate on each Android version, ownership of buffers on failure, liblzma loaded by several threads | the list is never read while it changes, everything is freed once, answers are about the right library |
| **xUnwind** `xuwind`, `cpp/uwind.h` | `init_status`, stack ranges; a forked child's list of threads | unwinding by frame pointers, from a signal handler, and remotely from a forked child | concurrent first use, anything on the stack, `fork` of a process with threads, ptrace | only stacks are read, the walk ends, no thread is left stopped |
| **Thread starts** `HookThreadProxy.h`, `Thread4StartStack.java` | per-thread start arguments, a weak map of start stacks | `pthread_create` proxy, `record4Jni` | many threads started at once, JVM attach that fails | each thread runs its own routine once, its record is its own |
| Other proxies, Cydia Substrate, ART/JVM/dlsym experiments, sample apps | - | - | - | not modelled, see the end |

How they meet: applications call xHook from any thread; xHook's own thread runs
passes; a pass reads the libraries that the dynamic linker changes at the same time
and installs the proxies, which call xHook again (`HookProxy.h:115` refreshes from a
`dlopen` proxy); a fault anywhere in the process reaches the one signal handler. The
inline hooks patch functions found by xDL; the thread proxy takes a native stack through
xUnwind before it calls the original `pthread_create`.

Every component but the last row has a module below. `PROJECT.json` lists under
"hazards" what in this code is hard to test, with the property that covers it, or a note
on why none does.

| Module | Component | Used by |
|---|---|---|
| `XhCore`, `XhService`, `XhCoreRefinement` | xHook control and its promise | `MCXhCore`, `XhCoreProof` |
| `XhRefresh` | xHook refresh pass | `MCXhRefresh`, `XhRefreshProof` |
| `InlineHook32` (with `Relocate32`) | ARM32 inline hooks | `MCInlineHook32`, `InlineHook32Proof` |
| `A64Hook` | ARM64 inline hooks | `MCA64Hook`, `A64HookProof` |
| `Xdl` | xDL | `MCXdl`, `XdlProof` |
| `XuFp`, `RemoteUnwind`, `ThreadStarts`, `Stacks` (all three) | xUnwind, thread starts | `MCStacks`, `XuFpProof`, `StacksProof` |
| `Relocate32`, `Relocate64`, `ElfDecode`, `ElfLookup` | pure algorithms, on the inputs of `Algorithms` | `MCAlgorithms`, `AlgorithmsProof` |

## What is modelled

### `XhCore`: refreshes, clears, the refresh thread and the handler

`pc` gives each thread a control point; a step is one access to shared memory that
another thread can see, and a step that only touches data of a mutex its thread
holds is merged with the unlock. The C flags, `tid`, `enable` and the two mutexes
(as their holder) are variables of the same name. `act`/`act_old` are the process's
SIGSEGV disposition and the saved one: the application's, the library's, or the
default. `jump` stands for the flag and the jump buffer together: the thread whose
stack the buffer holds while the flag is set. `frame` is the thread whose stack each
thread runs on: its own, until `ForeignFault` takes it to another.

* a refresh: `InitFast` ... `InitCheck` are `xh_core_init_once` with its unlocked
  test, `AsyncFast` ... `AsyncCheck` are `xh_core_init_async_once` (`pthread_create`
  may fail), `ReqPost` posts and signals a request, and `AcquireRefr`, `BeginAccess`,
  `EndAccess`, `GuardFault`, `EndPass` run a pass as a number of guarded accesses;
* `WorkerTop`, `WorkerCheck`, `WorkerWake` are the refresh thread, spurious wake-ups
  included;
* `ClearAok` ... `ClearFree` are `xh_core_clear`, one step for each unlocked read or
  write.

Three constants say what the application may do. `ExclusiveClear`: no other API call
overlaps a clear. `EnableAnytime`: protection may be switched after the first
refresh. `Strays`: the threads that may fault outside their own guarded access. The
`sa_flags` that `xh_core_add_sigsegv_handler` never sets has `SA_RESETHAND` or not, in every
run (`reset`), and with it a fault takes the handler away (`Called`). A fault that no handler
catches ends the process; it is a behaviour that stops.

A stray fault while the flag is set jumps into the frames of the thread in the buffer
(`xh_core.c:95`): from there both threads run the rest of the pass, the second without
the mutex, which its unlock at the end takes from the first. Two threads on one stack is undefined
behaviour; the model has the outcome in which each keeps its own locals and returns
into the code whose frames it is on. A stray fault while the flag is not set puts `act_old` back.

`XhService` is the promise: passes run one at a time, only while the library is up.
`XhCoreRefinement` maps `init_ok` to `up` and the thread in a pass to `user`.
`XhCoreInv` holds the inductive invariants, `MCXhCore` the instances.

### `XhRefresh`: what a pass does

One pass (that one runs at a time is `XhCore`'s `RefreshExclusive`) with control
point `at`. `mem` is what is mapped at each address, `slot` the function pointer in
each relocation slot, `tree` and `newtree` the caches, `old` the `*old_func`
variables. `Dlopen` and `Dlclose` may come between any two steps: reading a maps
line (`NextLine`), the header check, moving or creating the cache entry
(`UpdateEntry`, `CreateEntry`), `xh_elf_init`, each hook (`NextHook`) and, inside a
replacement, saving the old function (`SaveOld`) and writing the slot (`WriteSlot`).
`xh_elf_replace_function` first looks the protection of the slot up with the path of the
line, so that a library mapped there since is refused (`GiveUpSymbol`) and not hooked under
the wrong name.
An access to unmapped memory is a `Fault`: the handler jumps out and the pass goes on
with the next line. Regular expressions are the sets of paths they match. A
library may import a symbol through several slots.

The constant `Allowed` names the disturbances a run admits: `clear`, `late_register`
(hooks registered after the first refresh), `late_ignore` (a refresh between the two
steps of `xh_core_ignore`), `reload` (a library back at an address it had),
`line_reuse` (the address of the line being handled is mapped anew), `fail` (malloc,
mprotect or `xh_elf_init` fails). Two assumptions bound undefined behaviour: an
address whose headers the pass has parsed is not mapped anew before the pass leaves
it, and appending to the hook list is one step.

### `Relocate32`: moving instructions to a trampoline

Pure operators for `relocate.c`. A *window* is the start of a function: its
instructions as kinds (the code's `*_THUMB16`, `*_THUMB32`, `*_ARM`) with the label
their immediate stands for and whether they are conditional. The label of an ARM `ADR` is the
12 bits of its immediate as they are in the instruction, negative where they are
subtracted: the code uses them so, and what they mean, 8 bits and a rotation, is
`Rotated`. `Emit` is the sequence
of cells each kind is rewritten to, literals and skips included; `Start` and `At` are
the two boundary tables; `Recorded` and `Relocated` differ by the 32-bit instruction
that sticks out of the window, at which the Thumb loop breaks after recording it. A
cell is a halfword or a word, so offsets such as `0xE003` (`B PC, #6`) are the number
of cells they skip. `InPlace` is a reference, what the instruction does by the
instruction set, and `OutOfPlace` runs the emitted cells, one `RunStep` each: control, what
is left in LR and in the destination register, and whether the scratch register is saved.
A literal that is executed, half an instruction, or a load of what is no literal ends in
`Fail`.

### `Relocate64`: moving ARM64 instructions

`__fix_instructions` and its four fixers. Addresses count words. A window has the
function's place, the trampoline's and the instructions to be overwritten, each a kind and
the word it refers to. `FixBranch`, `FixConditional`, `FixLoad` and `FixAddress` give the
one record that is emitted (near form, far form with a literal, copy of the data) with the
number of NOPs in front that align it (`Behind`); `Reach` and `Wrap` are the ranges and
the missing sign extensions of each kind. `Outs` places them one after the other,
`FixedAt` is an instruction's place behind its NOPs, `JumpBack` is the end of the
trampoline, `Overwrites` how many words `A64HookFunctionV` takes. References into the
window go by instruction number, as the code's `fix_info` does. `InPlace64` and
`OutOfPlace64` say what an instruction does in the function and in the trampoline.

### `ElfDecode` and `ElfLookup`: reading a library

`ElfDecode` has the SLEB128 decoder over words of `W` bits, the iterator of packed
relocations with its groups and flags (`GroupFields`, `OwnFields`, `PackedNext`, `Unpack`), the pass over the dynamic
segment (`TakeEntry`, `ElfInit`), the slots of a symbol over the three tables
(`SlotOffsets`, which is `xh_elf_hook`) and the protection of a range over several
mappings (`ProtStep`, `MemProtect`). `ElfLookup` has both hash tables with the bloom
filter, the linear search among undefined symbols, the search of `.symtab` and the
search by address of xDL. The hash functions themselves are inputs: every collision
pattern over a few values is enumerated instead.

### `InlineHook32`: the table, the frozen threads and the patched bytes

`item`, `size` are `info`; a place keeps its `count` and boundaries when it is
reused, as in the code. `code[t].mem` is what is in the first bytes of a function
(`orig`, `torn` after the first of two writes, `hook`), `code[t].seen` the versions a
thread may still fetch until `cacheflush`. `page` is the mapped trampolines, `proto`
the `*proto_addr` variables. One caller runs an operation, control point `op`:

* `Register`; `InlineHook`, `InlineUnHook`, `InlineHookAll`, `InlineUnHookAll` start one;
* `Fork`, `Attach` (`ptrace`, and the PC moved by `Moved`, which is `processThreadPC`),
  `Frozen`, `Detach`, `Return` are `freeze`, its child and `unFreeze`;
* `StoreProto`, `PatchFirst`, `PatchRest`, `MarkHooked` are `doInlineHook`,
  `RestoreFirst`, `RestoreRest`, `Unmap`, `Delete` are `doInlineUnHook`, and `Loop` the
  loops of the two `All` operations.

The other threads are the environment: they enter the functions, fetch from them, from
the trampolines and from the jumps, run replacements that may call `*proto_addr`, call
other functions and come back, and take the allocator's lock. `next` is a history
variable, the instruction of the original function that is due.

`faults` is a history variable of what went wrong. Some of it the environment
does (`fork`, `attach`), the rest the code cannot handle or does itself: `busy` (a PC or
return address that no table entry matches), `heap` (a thread stopped in the
allocator), `rehook`, `reuse` (stale `count`), `overflow` (more boundaries than
`orig_boundaries[4]` holds), `stale` (the flush of the wrong function). Each property
names the faults it does not survive.

### `A64Hook`: hooking without stopping anything

A hook call is a process: `Allocate` (the atomic index and the published `*result`),
`Fill` (relocation, here a copy of the words as they are), `Protect` or `ProtectFails`,
then `ReadOld` and `Swap` for a near jump or one `Write` per word for a far one, in any
order. `code[f]` is the three words that matter, each the original or the hook that wrote
it; `pool` the entries. `Callers` run through the words while they change: `RunCode`,
`RunEntry`, `RunProxy`, with the register X17 a far jump loads. `order`, `mixed` and
`call` are history variables.

### `Xdl`: behind the dynamic linker's back

`th[t]` is the control of each caller of `xdl_open`, `xdl_sym`, `xdl_dsym`, `xdl_addr`,
`xdl_addr_clean` and `xdl_close`, with the handle it works on. `api` is the kind of
Android version: the maps are read (`ReadMaps`, Android 4), the linker's mutex is found
with a nested `xdl_open` and taken by hand (`NestedOpen`, `AskLinker`, `Lock`, 5.x), or
`dl_iterate_phdr` locks (`Walk`, later). `Dynsym`, `Symtab`, `Section`, `LzmaOpen`,
`LzmaSet`, `Decode`, `Parse` load the tables of a handle at their first use. `heap` has
the blocks and streams that are alive, each with its owner; `freedTwice` and `broken` are
history variables. `BeginChange` and `EndChange` are `dlopen` and `dlclose` of the rest
of the process, under the linker's mutex.

### `XuFp`: walking the stack by frame pointers

`FirstCheck`, `Lock`, `FindSigreturn`, `FindRange`, `Unlock` and `Return` are
`xu_fp_init`, which the library's constructor calls first; `Begin` and `Walk` are
`xu_fp_unwind`, one turn of its loop per step. A thread's stacks are a function from
places to records `[fp, lr]`; `Memories` is what may be there, with the callers that are
to be found if it is a real chain. `IsChain` and `CallersOf` say what that means: each
record leads to the next and the last to 0, records rise on each stack, and those of the
signal stack come first.

### `RemoteUnwind`: a forked child reads its parent's stacks

The handler (`Fork`, `CloseWriteEnd`, `ReadByte`, `WaitChild`), the child (`Notify`,
`List`, then `Attach`, `Stopped`, `PrintThread`, `Detach` per thread, `Exit`) and the
kernel (`Stop`, `End`). Each system call may fail or be interrupted, and the child may
die at any point (`Killed`), in all `MaxFaults` times. `holder` is the thread that held
a lock of libc, the linker or the log when the process was forked: the child's copy of
it is never released.

### `ThreadStarts`: where every thread was started

The proxy (`Alloc`, `JavaStack` or `JavaFails`, `Create` or `CreateFails`) and the new
thread (`Attach`, `Put`, `Linked`, `Routine`). `Put` and `Linked` are the read and the
write of one insertion into the map, under its monitor.

### Composition

`InlineHook32` uses `Relocate32` for lengths, boundaries and what each relocated
instruction does. `Stacks` puts `XuFp`, `RemoteUnwind` and `ThreadStarts` side by side:
a behaviour is one of them, since they share nothing but the process. `MCStacks` gives it
the stacks to walk. `Algorithms` is not a
protocol: a state is one input of a pure algorithm, and an invariant compares what the code
computes with a reference definition. Windows are put together an instruction at a time
(`Append32`, `Append64`). The inputs are constants with assumptions: relocations in groups,
packed with the shortest encodings (`IsPacking`, `Packed`), dynamic segments with
one entry of a kind in any order and anything behind `DT_NULL`, maps in the order of their
addresses, symbol tables laid out as a linker does (`GnuLaidOut`, `SysvLaidOut`), names
with any hashes. `MCAlgorithms` gives them values for the run; what the proofs use are the
assumptions, which TLC evaluates on those values.

## What the runs check

| Run | Instance | Properties |
|---|---|---|
| `core_safety` | 3 callers, 2 refresh threads, passes of up to 2 accesses, exclusive clears | `HandlerGuardsPass`, `ClearRestores`, `OneWorker`, `FailsOnlyBeforeInit` |
| `core_live` | 2 callers, 1 refresh thread, 1 access, fairness | `EveryCallReturns`, `RequestServed`, `ImplementsService` |
| `core_open` | 2 callers, passes of up to 2 accesses; clears, switches and stray faults of both threads at any time | `RefreshExclusive`, `JumpsLandInAccess`: what holds without discipline |
| `refresh_all` | 2 libraries, 2 addresses, 3 slots, one replacement per symbol, clears, a library that is ignored early or late, lines whose address changes hands | `PassHooksAll`, `OldIsOriginal` |
| `refresh_kept` | the same with two replacements on one symbol, late registration, reloads, lines whose address changes hands, failures | `CallsReachOriginal`, `IgnoredKept` |
| `refresh_cycle` | the same with `clear` in between; a **violation** | `CallsReachOriginal`: after a clear and a second registration of one of two replacements the saved functions form a cycle |
| `inline_all` | an ARM function with a call and a Thumb function at an odd halfword, 1 thread, 2 pages, 5 calls, all faults but `fork` and `attach` | `Transparent`, `HookedCallsReachProxy`, `TableTells`, `AllMeansAll`, `OperationEnds` |
| `inline_two` | one function, 2 threads, 4 calls, all faults | `Transparent`, `JumpHasTrampoline` |
| `algorithms` | windows of 32-bit and ARM64 instructions, packed relocations, dynamic segments, maps, symbol tables | `RelocationKeeps`, `Relocation64Keeps`, `PackedAsPlain`, `DynOrder`, `LookupFinds`, `SymAt` |
| `a64` | 3 hooks, near or far, with or without a trampoline, 2 entries, 1 function, 1 caller | `CallsChain`, `NearNeverTorn` |
| `xdl` | 2 threads, all four kinds of Android version, the linker and one library with `.gnu_debugdata`, 3 handles, 1 failure, 1 change of the list | `ListExclusive`, `HeapSound`, `LzmaReady`, `AddrTrue`, `TablesFixed` |
| `stacks` | 2 threads that walk every chain through 2 + 3 records and every chain with one FP overwritten, 4 frames; 3 threads unwound remotely with 2 failures; 3 threads started with 1 failure | `RefusedOnlyIfFailed`, `StaysOnStacks`, `FindsCallers`, `WalkRises`, `PrintsStopped`, `HandlerReturns`, `OwnStart` |

Bounds. *Core*: three callers are enough for one to initialise, one to be on the fast path
and one to clear or post; two refresh threads are the joined one and its successor;
two accesses are a header check and a hook, and a third repeats them. Without exclusive
clears two threads are enough for a stray fault to land in a pass, at each moment of
the other's calls, and a third only adds states; the refresh thread is in the other
two runs, and in the theorems about `core_open`'s properties, which have any threads. *Refresh*: two
addresses and two libraries give a library that moves, one that replaces another, and a
line that is read twice; two hooks are the least that chain or that hide one another
(`refresh_kept` also passes with three, in six times the states);
`MaxElfs`, `MaxHooks` and `MaxIgnores` bound counters. *ARM32*: five calls are
two functions registered and hooked together, one unhooked, and all hooked again, or
register, hook, unhook, register and hook for one function; two functions are the least
over which `Delete` moves an item, two threads the least of which one is stopped and the
other is not yet. *Algorithms*: a window has at most six (ARM64: five) instructions, and
relocation treats each by itself but for its place, so two rewritten ones give every pair
of places, lengths and alignments; the trampoline is put at each side of every reach.
Three relocations in one or two groups pass every field from one group to the next;
deltas and addends sit at the ends of one- and two-byte encodings and `W` = 16 lets them
wrap. *ARM64*: three hooks over two entries exhaust the pool and chain on one function.
*xDL*: one thread uses the API by name, one by address; three handles are the linker's,
the caller's and the cached one; one change of the list may fall into any step.
*Stacks*: 2 records on the signal stack and 3 on the thread's give a signal frame at the
end and in the middle, and `Cap` = 4 cuts the longest chains; three threads are the
handler's and two others, of which one may hold a lock, end or fail to be attached.
Symmetry is used only in runs without liveness.

Deadlock is not checked where the modelled calls are used up (`inline_*`, `a64`), where an
input or a walk is complete (`algorithms`, `stacks`) and where behaviours may run into
undefined behaviour (`core_open`).

Fairness. In `XhCore` (`FairSpec`) a thread inside the library is scheduled again (weak
fairness of its steps), and a mutex that is given back again and again is granted to
each waiter (strong fairness of acquiring it): bionic's mutexes do not promise it for
every schedule, but without it a caller could starve under any locking code. Calls,
faults, spurious wake-ups and a successful `pthread_create` need never happen. In
`InlineHook32` the caller and the ptrace child are scheduled, a thread leaves the
allocator (weak fairness), and its lock, free again and again, is granted to the caller
in `free` (strong fairness of `Unmap`). Hooked functions need not progress. In
`RemoteUnwind` the handler's thread and the child are scheduled and the kernel stops a
thread that was attached to.

## What does not hold

The passing runs leave out what the code does not handle, by constants, guards or the
premise of a property.

xHook control:

* with overlapping clears (`ExclusiveClear` = FALSE) `HandlerGuardsPass`, `OneWorker`
  and `ClearRestores` fail: clear removes the handler under a running pass, resets
  `async_inited` while a thread is created, and meets a half-done initialisation;
* when protection is switched off between a refresh and a clear, `ClearRestores`
  fails: `xh_core_del_sigsegv_handler` returns at once and the handler stays;
* with `Strays`, a fault of another thread during a guarded access jumps into the stack of
  the pass: flag and jump buffer belong to the process. That thread then runs the pass
  without the mutex, so `RefreshExclusive` speaks of the time before (`OwnStacks`);
* `sa_flags` is never set, and if the garbage in it has `SA_RESETHAND` the first fault of
  a pass removes the handler, and the second ends the process: `HandlerGuardsPass` allows for
  this one way to lose it.

The refresh pass:

* with `late_register`, `reload` or `fail`, `PassHooksAll` fails: a cached library is
  hooked again only when its address changes (`xh_core.c:407`);
* with `late_ignore`, `IgnoredKept` fails: the test of `xh_core_inited` in
  `xh_core_ignore` is not under the mutex it appends under;
* ignoring the symbol of the first hook that matches a library drops the library for all
  hooks (`xh_core.c:378`), so that the other hooks' symbols stay unhooked in it;
* with two replacements on one symbol, `clear` and a second registration,
  `CallsReachOriginal` fails: run `refresh_cycle`;
* without `RegisteredTogether` three hooks suffice: f, g and f again on one symbol leave f as
  the saved function of g and g as that of f, in one pass. The property has it as its
  precondition; a replacement may still be registered for several regular expressions, one
  after another. The proxies of this repository meet it: each is the only one of its symbol.

ARM32 inline hooks:

* `Transparent` fails with each fault but `heap`: with `fork` or `attach` a running
  thread meets torn bytes, with `busy` it returns into an unmapped page, with `rehook` it
  skips the replacement and, in a longer jump, an instruction, with `reuse` and `overflow`
  it is moved to a wrong offset, with `stale` it fetches a jump to a trampoline that is
  gone. `OperationEnds` fails with `heap`: `free` waits for a thread that only `unFreeze`
  would continue;
* relocation changes `BX PC` and the 16-bit `ADR` of Thumb code, a `B<c>.W` or `BL` at
  an address that is not word aligned, the condition of every ARM instruction it does
  not copy, an ARM `ADR` whose immediate is rotated, as in `ADD Rd, PC, #256`
  (`relocate.c:576` adds the 12 bits as they are, 3073), and branches into the overwritten
  bytes (`Changed` in `Algorithms`).

ARM64 inline hooks:

* relocation changes a reference backwards of anything but `B` and `BL`, whose offset is
  not sign-extended, a load of other than an `Xt` or a signed word from a literal in front
  of the trampoline, whose negative offset runs into the size bits, and an `ADRP` of the
  window's own page, which is copied (`Changed64` in `Algorithms`);
* a far hook after a near one of the same function sends callers astray
  (`FarAfterNear`): the near hook's trampoline goes back into words the far jump covers;
* two hooks that patch one function at once (`mixed`): a compare-and-swap that fails is
  not reported, and the hook is silently without effect;
* far jumps are several stores: a caller that runs through them is torn.

xDL:

* a `.gnu_debugdata` that cannot be decoded leads to a buffer that is freed twice
  (`xdl_lzma.c:156` frees it and keeps the pointer, `xdl_symtab_load_from_debugdata` frees
  it again), and a buffer that cannot grow is lost; `HeapSound` excludes both (`broken`);
* on 5.x the stream of the maps is lost when the callback stops at the linker itself;
* a handle outlives its library: `AddrTrue` speaks only of handles whose library has
  not been unmapped since;
* the unlocked `linker_mutex_inited` is safe only because the library's constructor makes
  the first call before any other thread can (`Begin`); the same holds for the fast path of
  `xu_fp_init` (`MayStart`).

xUnwind and thread starts:

* a lock of libc, the linker or the log held by another thread at the fork hangs the
  child, and the handler with it (`holder` in `HandlerReturns`);
* the Java stack of a thread is uninitialised memory if its creator could not be attached
  to the JVM (`OwnStart`).

## What is proved

| Theorem | Assumes | Statement |
|---|---|---|
| `XhCoreProof!TypeCorrect` | - | `TypeOK` |
| `XhCoreProof!Exclusion` | - | `RefreshExclusive` |
| `XhCoreProof!JumpsLand` | - | `JumpsLandInAccess` |
| `XhCoreProof!GuardedPasses` | `Discipline` | `HandlerGuardsPass` |
| `XhCoreProof!OneRefreshThread` | `Discipline` | `OneWorker` |
| `XhCoreProof!NothingLeft` | `Discipline` | `ClearRestores` |
| `XhCoreProof!Implements` | `Discipline` | `ImplementsService` |
| `XhCoreProof!FailuresEarly` | `Discipline` | `FailsOnlyBeforeInit` |
| `XhRefreshProof!RefreshTypes` | - | `TypeOK` |
| `XhRefreshProof!OneEntryEach` | - | `TreesDisjoint` |
| `XhRefreshProof!OriginalsKept` | `OneReplacement` | `OldIsOriginal` |
| `XhRefreshProof!IgnoredUntouched` | `IgnoresFirst` | `IgnoredKept` |
| `XhRefreshProof!EverythingHooked` | `NothingMissed` | `PassHooksAll` |
| `XhRefreshProof!OriginalsReached` | `HookedOnce` | `CallsReachOriginal` |
| `InlineHook32Proof!TableConsistent` | - | `TableInv` |
| `InlineHook32Proof!JumpsHaveTrampolines` | - | `JumpHasTrampoline` |
| `InlineHook32Proof!TableIsTruth` | - | `TableTells` |
| `InlineHook32Proof!AllAreDone` | - | `AllMeansAll` |
| `InlineHook32Proof!CallsReachProxy` | - | `HookedCallsReachProxy` |
| `InlineHook32Proof!ThreadsFollow` | - | `Transparent` |
| `AlgorithmsProof!Relocation32` | - | `RelocationKeeps` |
| `AlgorithmsProof!Relocation64` | - | `Relocation64Keeps` |
| `AlgorithmsProof!Lookup` | - | `LookupFinds` |
| `AlgorithmsProof!SymbolAt` | - | `SymAt` |
| `AlgorithmsProof!PackedRelocations` | - | `PackedAsPlain` |
| `AlgorithmsProof!DynamicSegment` | - | `DynOrder` |
| `AlgorithmsProof!Protection` | - | `ProtectionMet` |
| `A64HookProof!HookTypes` | - | `TypeOK` |
| `A64HookProof!OwnTrampolines` | - | `EntriesDistinct` |
| `A64HookProof!TrampolineFirst` | - | `PatchedHasEntry` |
| `A64HookProof!NearCallsEndWell` | - | `NearNeverTorn` |
| `A64HookProof!ChainsCalled` | - | `CallsChain` |
| `A64HookProof!FailuresWriteNothing` | - | `FailedUnpatched` |
| `XuFpProof!NobodyRefusedEarly` | - | `RefusedOnlyIfFailed` |
| `XuFpProof!OnlyStacksAreRead` | - | `StaysOnStacks` |
| `XuFpProof!WalksRise` | - | `WalkRises` |
| `XuFpProof!CallersFound` | - | `FindsCallers` |
| `StacksProof!StacksStandStill` | - | `PrintsStopped` |
| `StacksProof!NoneLeftStanding` | - | `ExitReleases` |
| `StacksProof!StartsKeptApart` | - | `OwnStart` |
| `XdlProof!XdlTypes` | - | `TypeOK` |
| `XdlProof!WalkedAtRest` | - | `ListExclusive` |
| `XdlProof!NothingLost` | - | `HeapSound` |
| `XdlProof!DecodesReady` | - | `LzmaReady` |
| `XdlProof!AddressAnswered` | - | `AddrTrue` |
| `XdlProof!TablesStay` | - | `TablesFixed` |

They hold for any sets of threads, libraries, functions, slots and hooks and any bounds.
What is assumed of the constants, in the modules that declare them, is that names are
distinct (`NoThread` is no thread, `None` no library, no handle is a thread), that bounds
are numbers, and of the inputs:

* `CodeAssumption`: the first bytes of each function are instructions of its instruction
  set, enough of them for a jump;
* `CopiesAssumption`: `None` is not the content of a trampoline;
* `XuFpAssumption`, `ChainAssumption`: each call's record is on one of the two stacks,
  which lie apart and not at address 0, and a stack that is called whole is a chain;
* `WindowAssumption`, `Window64Assumption`: places and labels of instructions are integers,
  with nothing said of how far from one another they are;
* `PackingAssumption`: at least one relocation, the groups one behind another, addends
  only in a RELA, numbers that a word holds (a longer encoding would be shifted by more than
  the word has bits, which C leaves undefined); `ElfDecodeAssumption`: a word has at least the
  four bits of a group's flags;
* `SegmentAssumption`: a dynamic segment has each kind of entry at most once, the library is
  not mapped at 0, and a `DT_HASH` table is not below it (the code does not look);
* `MapsAssumption`: the lines of the maps are not empty and in the order of their addresses,
  as the kernel writes them, and ranges are not empty;
* `LibraryAssumption`: a library has at least one hash table, laid out as the code needs to
  walk it: exported symbols behind the others and sorted by bucket, the lowest bit at the end of
  each chain, the two bits of every name in the bloom filter; SysV chains that reach every
  symbol and never go back. A name is that of one symbol (with two, versions or visibility
  would have to tell which is meant, and the code looks at neither), the first symbol
  is the empty one, and symbols that are only used have no size.

Five hypotheses on what the application and the linker may do stand in the theorems
themselves: `Discipline` (`XhCoreInv`) says that clears are exclusive, protection
is switched before the first refresh, and no thread faults outside its guarded accesses,
whatever `sa_flags` has; `OneReplacement` (`XhRefreshInv`) that a symbol has one replacement and
a replacement one symbol; `IgnoresFirst` that there is no clear and no ignore after the first
pass; `NothingMissed` that no
hook is registered late, no library comes back where the cache has it, nothing fails and
whole libraries are ignored; `HookedOnce` that there is no clear. "What does not hold" says how each of these makes the property
fail, so none can be dropped.

`Exclusion` follows from `LockInv`: each mutex is held exactly at the control points that
hold it, as long as every thread is on its own stack (`FrameInv`). `RefreshExclusive` alone is
not inductive, since a step into a critical section needs to know who holds the mutex.
`JumpsLand` follows from `JumpInv`: while the flag is set the thread in the buffer is in its
access, also when another has landed there and has set or cleared the flag itself. `GuardedPasses`, `OneRefreshThread` and `NothingLeft` come from one
invariant, `DisciplineInv`: `ClearAlone` (while one caller clears the others are idle),
`InitInv` (what each control point knows of `init_ok` and `inited`), `WorkerInv` (a
refresh thread exists only while `async_inited` is set, and `tid` names it) and
`HandlerInv` (the handler is installed exactly while `init_ok` is set and protection is
on, but for the steps of init and clear in between and for a loss by `SA_RESETHAND`). The parts lean on one another: the
handler may be removed only because `WorkerInv` says the refresh thread is gone after the
join. `OneEntryEach` needs that the new tree is empty between passes, `OriginalsKept` that
a slot holds its symbol's original or that symbol's one replacement (`SlotInv`) and that
the slot about to be written has its original saved (`VisitInv`).

`IgnoredUntouched` needs that a slot is written only in the library the line named: what is
parsed may be another that took the address, but the lookup by path refuses it and no
address changes hands again inside (`LineInv`). It also needs that the slots still to be visited are of a
hook that matches it and that nothing excludes (`TodoInv`): the code tests what is ignored
once per library and once per hook, and writes much later. `EverythingHooked` is about the cache.
A library found in it is not hooked again, so every cached one that is still mapped must
have all its slots done (`CachedInv`), and that an entry is still the library it was made for
rests on a path being at one address and an address never seeing a path again (`MetInv`).
While nothing is mapped, what the pass has gone past is done (`PassedInv`), and in the
library in hand every hook up to the current one (`InHandInv`).

`OriginalsReached` has two halves. A library with a replaced slot is not hooked again
(`TouchedInv`): some hook matches it, so it is wanted unless it is ignored, and then the cache
has it, in the new tree once the pass has come by; a hook or an ignore that is added never makes
a path wanted that was not. So a slot changes in the order of the hook list, and each
replacement saves the original or a replacement of an earlier hook (`SavedInv`). With every
call of a saved function there are then fewer replacements left, which ends the recursion of
`Callee` after as many calls as there are replacements (`BehindReaches`, by the least
counterexample; here the set of replacements must be finite, `FnsAssumption`).

`JumpHasTrampoline` and `TableTells` follow from `TableInv` (`InlineHook32Inv`), which
says at every control point what the code, the pages and `*proto_addr` are: `OpInv` (the
operation is on an item in the state it changes), `PagesInv` (one item for a function,
one page for an item, and the page of the item being deleted is gone already), `CodeInv`
(a function is torn only in the middle of an operation on it) and `ProtoInv`. Between
operations alone it is not inductive. The step that needs care is `Delete`: `From`
gives the place each remaining item had before.

`AllAreDone` is about `inlineUnHookAll`, whose loop deletes the item it is at and stays
there: the items in front of the current one are done (`LoopInv`), and an item that `Delete`
moves comes from behind it. `CallsReachProxy` is an invariant of the calls that owe a visit to the
replacement (`DueInv`): such a thread is at the entry of the function or behind the
instruction that pads the jump, the jump is in memory and fetched, and no operation is about
to remove it.

`ThreadsFollow` is the longest argument. `Transparent` compares where a thread is with where
the original function would be, which says nothing of whether the bytes there are about to
change, so it is strengthened to `Following`: `FrozenInv` (who is stopped at each control
point), `BoundsInv` (the boundary tables of an item are those of its function: without it a
moved thread lands between two instructions), `FlushInv` (only what is in memory is
fetched, but between a write and its flush), and for each thread `WhereInv`: a thread deep in
the function finds its old bytes, one in the jump finds the jump, one in a trampoline or on
the way to it finds it mapped, and one that is stopped is out of what the operation
is going to change. Attaching is the step that matters: the PC the table search moves must
leave the thread at the same instruction on the other side. That is shown from the layout
lemmas: an offset of the function has one instruction (`Start` is increasing), and the trampoline's
boundaries are where the relocated sequences begin, which for Thumb code of mixed
lengths takes sums over the window. They are proved for windows of any length.

`Implements` shows that every step of `XhCore` is one of `XhService` or a stutter. `LockInv` makes
the thread in a pass unique (`PasserOne`), so that taking and giving back the mutex are
`BeginPass` and `EndPass`; `InitInv` gives `init_ok` where a pass begins; and
`ClearStops` uses `ClearAlone` and `WorkerInv`: when clear resets `init_ok` the other callers
are idle and the refresh thread is joined. `FailuresEarly` adds `SawInv`: a call that
began initialised stays at points that find it so.

`TrampolineFirst` follows from what each control point knows of its hook (`HookInv`: from
`protect` on its trampoline is filled and of its function) and what each word of a
function knows of the hook that wrote it (`CodeInv`). `OwnTrampolines` needs that
the counter is beyond every entry handed out, since it moves on when the pool is
exhausted. `NearCallsEndWell` follows the caller: in a function all of whose hooks are near it
is at the first word, in the trampoline of a hook of that function, in such a hook's
proxy, or behind the first word with nothing in X17 (`CallsInv`), and a trampoline holds one
word, which is the original or another hook's of the same function (`TrampolineInv`).
`ChainsCalled` adds what the words of a function are as long as its hooks come one at a time:
after i hooks the first word is the i-th's and the words behind it the last far one's
(`StageInv`), and the trampoline of the i-th holds what the function was after i - 1
(`Holds`). A call is then at a word of what the first i hooks left, with
what a far jump needs in X17, in the proxy of the i-th, or at its end, and has met the hooks
behind the i-th, the last first (`OnChain`). Where a near hook's trampoline goes back into
the function, the words there are still those its copy was made from, because no far hook
follows a near one. `FailuresWriteNothing` is about the one early return after the
trampoline: a hook that has written a word is past it.

`NobodyRefusedEarly` needs `InitInv`: while the library is loaded only its constructor is
in `xu_fp_init`, and from then on the status is fixed and nobody takes the lock, so that
"failed" is never the mark of an initialisation under way. `OnlyStacksAreRead` needs
that the record to be read next is readable (`ReadInv`). `WalksRise` is an action property:
it needs the types only, and with stacks of finite size it says that every walk ends.
`CallersFound` follows a walk along the chain (`FoundInv`): it is at the k-th record with the
first k - 1 callers stored and room for one more, and from a record of the chain the walk goes on
exactly if there is another (`GoesOn`, `EndsAtZero`), across the signal frame too.

`StacksStandStill` and `NoneLeftStanding` follow from `HeldInv` (who stands still is
traced), `StillInv` (who is attached stands still until the detaching) and `SightInv` (who
is traced is attached or the one being waited for): without the last a thread whose
attach fails half-way could be forgotten. `StartsKeptApart` says what of the shared map each
thread knows: its arguments are its own from the allocation on (`MemberInv`), and who is in the
monitor has read the map as it is (`MapInv`), so that no record is overwritten.

The theorems of `XdlProof` come from one invariant. `ConstructInv`: while the library's
constructor runs nobody else does, which makes the unlocked flags safe. `MutexInv`: who holds the
linker's mutex at each control point. `LzmaInv`: the pointers are set in order, each
thread sets all of them before it decodes, and setting them twice does no harm.
`HandlesInv`: each handle has one owner, a cached one is of the library that is still there, and
the control point says which tables were looked for. `NothingLost` counts: the blocks of each
thread and handle are those its control point and its handle's tables name (`Expected`), so a
free is of a block that is alive and a return leaves none behind.

The theorems of `AlgorithmsProof` are about what loops compute, however long they run. The
library's induction theorems take an operator and cannot be used, so `AlgorithmsProof`
begins with what stands in for them, each by the least counterexample: a set that contains
`a` and climbs contains everything up to `b` (`UpTo`); a function defined step by step over an
interval exists (`Iterated`), and is then what its definition says (`OneIteration`); a walk
whose rank falls ends where it must (`WalkExists`). Every loop of the models is one of these.

* `Protection` follows the scan line by line (`ScanOK`): what lies below the place it has
  reached is known, and the protection so far is common to the lines met.
* `DynamicSegment` keeps, for the first k entries, that each field has the value of its entry
  if that is among them, and that the buckets are those of the GNU table once it was met
  (`ElfOK`): the order of `DT_HASH` and `DT_GNU_HASH` is what could matter.
* `Lookup` walks the SysV chains by their turn (`SysvFinds`), the sorted part of the table
  to the end of its bucket (`GnuFinds`; the bloom filter never hides a name, since both bits
  of each are set), and the symbols that are only used (`UndefinedFinds`); `NameFound` puts
  them together for `xh_elf_find_symidx_by_name`, `xdl_sym` and `xdl_dsym`.
* `SymbolAt` is about the searches over the same tables: they see every exported symbol
  (`ScanSees`) and take one that covers the address exactly if there is one.
* `Relocation64`: what each fixer gives for a kind, a label and a place (`FixedOK`), the
  places of the emitted instructions, which are at most nine words apart (`OutsOK`, `OutsNear`),
  from which the offsets fit and the trampoline has room; then the meaning of each
  record. Only the alignment of a literal takes arithmetic.
* `Relocation32` is the longest. The kinds come down to a few shapes of cells (`Emission`,
  `EmissionOf`), one table for Thumb and one for ARM. The boundary tables are sums over the
  window (`SumGiven`), the trampoline is a concatenation of the shapes (`ConcatGiven`), and so
  each lies where its boundary says (`TrampolineIs`, `EmittedLie`), at an even place in Thumb
  code, where every literal is aligned (`AtsEven`). One lemma for each shape runs it from
  its first cell to its end or to the jump that leaves it (`RunsTaken`, ..., `RunsCopyArm`):
  a run is a path of steps that ends in a state that stays (`Path`, `RunEnds`). The
  meaning of each kind in place is a table again, and `InstructionKept` compares the two. That
  the jump back is behind the patch, also when the last instruction sticks out, is
  `JumpBackBehind`.

* `PackedRelocations` goes through the stream the way the packer wrote it. Powers of two
  are what doubling makes them (`PowerSteps`), since the provers know no law of 2^k for a
  variable k. `Decoded`: what `SlebValue` makes of the bytes of an integer is its word; after
  each byte the sum and what is left of the number make up the number. `SlebRead`: where
  those bytes begin the decoder finds their end, unless the stream ends first. Every read
  is then of one shape: the iterator is what it should be, or its stream has ended (`Meant`,
  `ReadIfMeant`), and five of them make a group (`GroupMeant`), three a relocation's own
  part (`OwnMeant`). `Stands` says what the iterator is behind the i-th relocation, which
  fields of a group are still needed included, and `StepMeant` takes it from there to the
  next, at the place behind the next one's bytes. `UnpackIs` is the induction over the
  stream, whole or cut off anywhere.

All safety invariants and action properties of the runs are proved. `ProtectionMet` is proved
and in no run: the code asks for the protection of one pointer at a time, which lies on one
page, so that ranges over several mappings are no hazard of it. Only model-checked is
liveness (`EveryCallReturns`, `RequestServed`, `OperationEnds`, `HandlerReturns`), which is out
of the prover's reach.

## Not modelled

* Cydia Substrate: third party, its call sites are commented out.
* The ART and JVM struct layouts, `DlsymTest`, `SoTool`, `SoTest`, `forktest` and the sample
  application: layouts and one-shot experiments without protocol state.
* The proxies of `dlopen`, `abort` and `exit` (`HookProxy.h`, `InlineHookLooper.h`): they
  log, call the original and may ask for a refresh, which is a call of `XhCore`. The hook
  of `pthread_create` is commented out in `JNI_OnLoad`, but its proxy is modelled.
* xUnwind's CFI and EH backends and its printing: calls into `libbacktrace`,
  `libcorkscrew` and `libc++`, found by name once as in `XuFp`, and formatting.
* Of ELF parsing, the checks of the header's constants and the variant that opens a file
  with its section headers; of Thumb relocation, `ADR.W`, `TBB` and `TBH`, and register
  numbers; of ARM64 relocation, an `ADR` of a byte address in the window that is not a
  multiple of four, and the instruction cache; the counter of trampolines wraps after
  2^32 calls.
* Of thread starts, `getAllStacks`, which iterates without the monitor, and the collection
  of the map's weak entries; the routine's result, which the proxy drops
  (`HookThreadProxy.h:105`), and the arguments it never frees.
* Logging and the wording of messages.
