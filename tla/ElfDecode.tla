----------------------------- MODULE ElfDecode ------------------------------
(* What xh_elf.c reads out of a library before it replaces anything: the    *)
(* dynamic segment, plain and packed relocations, and the slots of a symbol; *)
(* and the page protection xh_util.c reads out of the maps. Words have W     *)
(* bits.                                                                     *)
EXTENDS Integers, Sequences, FiniteSets, SequencesExt

CONSTANT W  \* bits of size_t

\* A word holds the flags of a group.
ASSUME ElfDecodeAssumption == W \in Nat /\ W >= 4

\* The power of two with exponent k, as what it is built from.
Power(k) == LET of[i \in 0..k] == IF i = 0 THEN 1 ELSE 2 * of[i - 1] IN of[k]

\* A number as the word that holds it.
Word(n) == n % Power(W)

-----------------------------------------------------------------------------
(* SLEB128 *)

\* Mutant: the sign is taken from the top bit of the byte.
SignOfTop(bytes) ==
  LET shift == 7 * Len(bytes)
  IN IF shift < W /\ Last(bytes) > 127 THEN Power(W) - Power(shift) ELSE 0

\* The value of the encoding in bytes: seven bits of each, the lowest first, and the
\* sign of the last when it does not fill the word.
SignOf(bytes) ==
  LET shift == 7 * Len(bytes)
  IN IF shift < W /\ (Last(bytes) \div 64) % 2 = 1 THEN Power(W) - Power(shift) ELSE 0

SlebValue(bytes) ==
  LET sum[k \in 0..Len(bytes)] ==
        IF k = 0 THEN 0 ELSE sum[k - 1] + (bytes[k] % 128) * Power(7 * (k - 1))
  IN Word(sum[Len(bytes)] + SignOf(bytes))

\* The decoder at a position: the position behind the value, or 0 when the bytes
\* end within it or did before, and the value.
SlebNext(bytes, at) ==
  LET ends == {k \in 1..Len(bytes) : at # 0 /\ k >= at /\ bytes[k] < 128}
      last == CHOOSE k \in ends : \A j \in ends : k <= j
  IN IF ends = {} THEN [at |-> 0, value |-> 0]
     ELSE [at |-> last + 1, value |-> SlebValue(SubSeq(bytes, at, last))]

-----------------------------------------------------------------------------
(* Packed relocations *)

\* The flags of a group, as a set.
FlagsOf(n) == {f \in {"info", "delta", "addend", "hasAddend"} :
                 (n \div CASE f = "info" -> 1 [] f = "delta" -> 2
                           [] f = "addend" -> 4 [] f = "hasAddend" -> 8) % 2 = 1}

\* The iterator is a record; "at" is 0 once the stream has ended too early or is
\* malformed.

\* A value that was read: offsets and addends are added up.
Put(it, field, value) ==
  IF field \in {"offset", "addend"} THEN [it EXCEPT ![field] = Word(@ + value)]
  ELSE [it EXCEPT ![field] = IF field = "flags" THEN FlagsOf(value) ELSE value]

Read(bytes, it, field) ==
  LET v == SlebNext(bytes, it.at)
  IN [Put(it, field, v.value) EXCEPT !.at = v.at]

\* Whether a field comes with the group or with each of its relocations.
Comes(field, flags, group, rela) ==
  CASE field = "delta"  -> "delta" \in flags
    [] field = "offset" -> "delta" \notin flags
    [] field = "info"   -> group = ("info" \in flags)
    [] field = "addend" -> /\ "hasAddend" \in flags
                           /\ group = ("addend" \in flags)
                           /\ group \/ rela
    [] OTHER -> TRUE

ReadIf(bytes, it, field, group, rela) ==
  IF Comes(field, it.flags, group, rela) THEN Read(bytes, it, field) ELSE it

PackedInit(bytes) ==
  LET blank == [at |-> 1, count |-> 0, index |-> 0, size |-> 0, inGroup |-> 0, flags |-> {},
                delta |-> 0, offset |-> 0, info |-> 0, addend |-> 0]
  IN Read(bytes, Read(bytes, blank, "count"), "offset")

\* The fields of a group, and those of a relocation.
GroupFields(bytes, it, rela) ==
  LET next(x, field) == ReadIf(bytes, x, field, TRUE, rela)
  IN [next(next(next(next(next(it, "size"), "flags"), "delta"), "info"), "addend")
        EXCEPT !.inGroup = 0]

OwnFields(bytes, it, rela) ==
  LET next(x, field) == ReadIf(bytes, x, field, FALSE, rela)
  IN next(next(next(it, "offset"), "info"), "addend")

\* Mutant: a group without addends keeps the addend of the one before.
GroupAddendKept(it, rela) ==
  IF {"hasAddend", "addend"} \subseteq it.flags /\ ~rela THEN [it EXCEPT !.at = 0] ELSE it

\* An addend for the group is malformed in a REL.
GroupAddend(it, rela) ==
  IF "hasAddend" \notin it.flags THEN [it EXCEPT !.addend = 0]
  ELSE IF "addend" \in it.flags /\ ~rela THEN [it EXCEPT !.at = 0] ELSE it

\* A group begins.
ReadGroup(bytes, it, rela) == GroupAddend(GroupFields(bytes, it, rela), rela)

\* By the delta of the group.
Moved(it) == IF "delta" \in it.flags THEN Put(it, "offset", it.delta) ELSE it

\* The next relocation: the iterator holds it.
PackedNext(bytes, it, rela) ==
  LET grouped == IF it.inGroup = it.size THEN ReadGroup(bytes, it, rela) ELSE it
  IN [OwnFields(bytes, Moved(grouped), rela) EXCEPT !.index = @ + 1, !.inGroup = @ + 1]

Relocation(it) == [offset |-> it.offset, info |-> it.info, addend |-> it.addend]

\* All relocations the iterator hands out, unless the stream ends too early. The
\* addend is not part of a REL.
Hand(s, it) == [it |-> it, out |-> IF it.at = 0 THEN s.out ELSE Append(s.out, Relocation(it))]

UnpackStep(s, bytes, rela) ==
  IF s.it.at = 0 THEN s ELSE Hand(s, PackedNext(bytes, s.it, rela))

Unpack(bytes, rela) ==
  LET begun == PackedInit(bytes)
      s[n \in 0..begun.count] ==
        IF n = 0 THEN [it |-> begun, out |-> <<>>] ELSE UnpackStep(s[n - 1], bytes, rela)
  IN s[begun.count].out

-----------------------------------------------------------------------------
(* The dynamic segment *)

\* A library: its dynamic entries in order, each a tag and the address, size or
\* kind it gives. Addresses below the first mapped one make the library malformed.
AddressTags == {"STRTAB", "SYMTAB", "JMPREL", "REL", "ANDROID_REL", "HASH", "GNU_HASH"}

\* DT_PLTREL says that the slots of imported functions have addends (DT_RELA).
Rela == 7

NoElf == [ok |-> FALSE, STRTAB |-> 0, SYMTAB |-> 0, JMPREL |-> 0, REL |-> 0,
          ANDROID_REL |-> 0, buckets |-> 0, rela |-> FALSE, gnu |-> FALSE]

\* The entries up to DT_NULL.
Entries(dyn) ==
  LET nulls == {i \in 1..Len(dyn) : dyn[i].tag = "NULL"}
  IN IF nulls = {} THEN dyn
     ELSE SubSeq(dyn, 1, (CHOOSE i \in nulls : \A j \in nulls : i <= j) - 1)

\* Mutant: the last hash table counts.
TakeEntryLast(elf, e) ==
  CASE e.tag = "PLTREL" -> [elf EXCEPT !.rela = (e.val = Rela)]
    [] e.tag = "HASH" -> [elf EXCEPT !.buckets = e.val]
    [] e.tag = "GNU_HASH" -> [elf EXCEPT !.buckets = e.val, !.gnu = TRUE]
    [] OTHER -> [elf EXCEPT ![e.tag] = e.val]

\* One entry; DT_HASH does not count behind DT_GNU_HASH.
TakeEntry(elf, e) ==
  CASE e.tag = "PLTREL" -> [elf EXCEPT !.rela = (e.val = Rela)]
    [] e.tag = "HASH" -> IF elf.gnu THEN elf ELSE [elf EXCEPT !.buckets = e.val]
    [] e.tag = "GNU_HASH" -> [elf EXCEPT !.buckets = e.val, !.gnu = TRUE]
    [] OTHER -> [elf EXCEPT ![e.tag] = e.val]

\* xh_elf_init behind the program headers, xh_elf_check: strings, symbols and a hash
\* table must be there.
ElfInit(dyn, base) ==
  LET entries == Entries(dyn)
      taken[k \in 0..Len(entries)] ==
        IF k = 0 THEN NoElf ELSE TakeEntry(taken[k - 1], entries[k])
      elf == taken[Len(entries)]
      below == \E i \in 1..Len(entries) :
                 /\ entries[i].tag \in AddressTags /\ entries[i].val < base
                 /\ entries[i].tag = "HASH" =>
                      \A j \in 1..(i - 1) : entries[j].tag # "GNU_HASH"
  IN IF below \/ 0 \in {elf.STRTAB, elf.SYMTAB, elf.buckets} THEN NoElf
     ELSE [elf EXCEPT !.ok = TRUE]

-----------------------------------------------------------------------------
(* The slots of a symbol: r_info is 4 times the symbol index plus the type *)

JumpSlot == 1
GlobDat == 2
Absolute == 3

\* xh_elf_find_and_replace_func
IsSlot(r, symidx, plt) == /\ r.info \div 4 = symidx
                          /\ r.info % 4 \in IF plt THEN {JumpSlot} ELSE {GlobDat, Absolute}

\* xh_elf_hook: the first slot of .rel.plt, every slot of .rel.dyn and of the
\* packed relocations, in this order.
SlotOffsets(plt, dyn, packed, rela, symidx) ==
  LET inPlt == {i \in DOMAIN plt : IsSlot(plt[i], symidx, TRUE)}
      first == CHOOSE i \in inPlt : \A j \in inPlt : i <= j
      others(rs) == {r \in ToSet(rs) : IsSlot(r, symidx, FALSE)}
  IN {r.offset : r \in (IF inPlt = {} THEN {} ELSE {plt[first]})
                        \cup others(dyn) \cup others(Unpack(packed, rela))}

-----------------------------------------------------------------------------
(* Page protections *)

\* xh_util_get_mem_protect walks the lines of the maps in order; start is where the
\* part of the range not seen yet begins. A line is [from, to, perms, private, named].
ProtStep(s, line, end) ==
  IF s.all \/ ~line.named \/ ~line.private \/ ~(line.from <= s.start /\ s.start < line.to) THEN s
  ELSE [start |-> line.to, all |-> end <= line.to, first |-> FALSE,
        prot |-> IF s.first THEN line.perms ELSE s.prot \cap line.perms]

MemProtect(maps, addr, len) ==
  LET s[k \in 0..Len(maps)] ==
        IF k = 0 THEN [start |-> addr, all |-> FALSE, first |-> TRUE, prot |-> {}]
        ELSE ProtStep(s[k - 1], maps[k], addr + len)
      end == s[Len(maps)]
  IN [ok |-> end.all, prot |-> IF end.all THEN end.prot ELSE {}]
=============================================================================
