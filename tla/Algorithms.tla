----------------------------- MODULE Algorithms -----------------------------
(* The algorithms that read, look up and rewrite a library, against what a   *)
(* linker, an encoder or the processor means by the same bytes. A state is   *)
(* one input. Windows of instructions are put together one at a time, from   *)
(* few that are relocated to more than a copy and, among them, copied ones.  *)
EXTENDS Relocate32, Relocate64, ElfDecode, ElfLookup

CONSTANTS
  Labels,      \* labels of the instructions of a 32-bit window
  Immediates,  \* the 12 bits of an ADR in ARM code, negative where they are subtracted
  Bases,       \* where a 32-bit function begins
  MaxSpecial,  \* bound: instructions of a window that are not merely copied
  Windows64,   \* 64-bit functions that are hooked: [base, tramp, replace]
  Ahead64,     \* how far a label is from the function, by the words overwritten
  Packings,    \* relocations that are packed, in groups
  Segments,    \* dynamic segments: [entries, behind, base]
  Mappings,    \* what /proc/self/maps may say
  Addresses,   \* beginnings and sizes of the ranges whose protection is asked for
  Sizes,
  Libraries,   \* symbol tables: [elf, gnuHash, sysvHash, turn]
  Names        \* names that are looked up

VARIABLES
  code,   \* a 32-bit window
  input   \* any other input, told apart by its tag

vars == <<code, input>>

-----------------------------------------------------------------------------
(* 32-bit windows *)

WindowAssumption == /\ Labels \subseteq Int
                    /\ Immediates \subseteq -4095..4095
                    /\ Bases \subseteq Int
                    /\ MaxSpecial \in Nat

ASSUME WindowAssumption

Plain == {"OTHER_THUMB16", "OTHER_THUMB32", "OTHER_ARM"}

Special == Cardinality({i \in 1..Len(code.instrs) : code.instrs[i].kind \notin Plain})

Full == Start(code)[Len(code.instrs) + 1] >= Length(code)

Kinds(thumb) == IF thumb THEN Thumb16 \cup Thumb32 ELSE Arm

\* B<c> and CB{N}Z are conditional, ARM instructions may be.
Conds(kind) == IF kind \notin MayBeConditional THEN {FALSE}
               ELSE IF kind \in Arm THEN BOOLEAN ELSE {TRUE}

\* ARM code is word aligned, and its addresses count words.
Windows32 == [thumb : {TRUE}, base : Bases, instrs : {<<>>}]
               \cup [thumb : {FALSE}, base : {0}, instrs : {<<>>}]
NoWindow == [thumb |-> FALSE, base |-> 0, instrs |-> <<>>]

Append32(kind, label, cond) ==
  /\ input.tag = "none"
  /\ ~Full
  /\ kind \in Plain \/ Special < MaxSpecial
  /\ code' = [code EXCEPT !.instrs =
                Append(@, [kind |-> kind, label |-> label, cond |-> cond])]
  /\ UNCHANGED input

\* What is copied, or names registers only, has no label.
LabelsOf(kind) ==
  IF kind \in Plain \cup {"BX_THUMB16", "ADD_THUMB16", "MOV_THUMB16",
                       "BX_ARM", "ADD_ARM", "MOV_ARM"}
  THEN {0} ELSE IF kind = "ADR_ARM" THEN Immediates ELSE Labels

-----------------------------------------------------------------------------
(* 64-bit windows: the function, its trampoline, and the function that       *)
(* replaces it, near or far.                                                 *)

Window64Assumption == /\ \A w \in Windows64 : {w.base, w.tramp, w.replace} \subseteq Int
                      /\ \A n \in {1, 4, 5} : Ahead64[n] \subseteq Int

ASSUME Window64Assumption

Begun64(w) == [tag |-> "arm64", base |-> w.base, tramp |-> w.tramp, replace |-> w.replace,
               instrs |-> <<>>]

Wanted64(w) == Overwrites(w.base, w.replace)

LabelsOf64(w, kind) ==
  IF kind \in {"OTHER", "PRFM"} THEN {0}
  ELSE {w.base + a : a \in {x \in Ahead64[Wanted64(w)] :
                                 kind = "ADRP" \/ Abs(x) < FieldReach(kind)}}

Append64(kind, label) ==
  /\ input.tag = "arm64"
  /\ Len(input.instrs) < Wanted64(input)
  /\ kind = "OTHER" \/ MaxSpecial > Cardinality({i \in DOMAIN input.instrs :
                                                input.instrs[i].kind # "OTHER"})
  /\ input' = [input EXCEPT !.instrs = Append(@, [kind |-> kind, label |-> label])]
  /\ UNCHANGED code

-----------------------------------------------------------------------------
(* Packed relocations: [count, first, last, rela, flags, offset, deltas,      *)
(* infos, addends] are relocations in groups: the first and the last one of    *)
(* the group of each, its flags, and what changes from one to the next.       *)

Flags == {"info", "delta", "addend", "hasAddend"}

\* What a word holds, signed or not; longer encodings are shifted by more than a word.
Held == (-Power(W - 1))..(Power(W) - 1)

\* Only RELA has addends.
IsPacking(p) ==
  LET all == 1..p.count
  IN /\ p.count \in 1..(Power(W) - 1)
     /\ p.first \in [all -> all] /\ p.last \in [all -> all]
     /\ p.first[1] = 1 /\ p.last[p.count] = p.count
     /\ \A i \in all : p.first[i] <= i /\ i <= p.last[i]
     /\ \A i \in all \ {p.count} :
          IF i = p.last[i] THEN p.first[i + 1] = i + 1
          ELSE p.first[i + 1] = p.first[i] /\ p.last[i + 1] = p.last[i]
     /\ p.rela \in BOOLEAN
     /\ p.flags \in [all -> SUBSET Flags]
     /\ \A i \in all : p.flags[i] = p.flags[p.first[i]] /\ ("hasAddend" \in p.flags[i] => p.rela)
     /\ p.offset \in Held
     /\ p.deltas \in [all -> Held] /\ p.addends \in [all -> Held]
     /\ p.infos \in [all -> 0..(Power(W) - 1)]

PackingAssumption == \A p \in Packings : IsPacking(p)

ASSUME PackingAssumption

\* The shortest encoding of an integer: what is left of it behind each byte, and the
\* first byte that leaves only its sign.
Encoded(n) ==
  LET rest[k \in 0..Abs(n)] == IF k = 0 THEN n ELSE rest[k - 1] \div 128
      last == CHOOSE k \in 0..Abs(n) : /\ rest[k] \in -64..63
                                       /\ k = 0 \/ rest[k - 1] \notin -64..63
  IN [k \in 1..last + 1 |-> (rest[k - 1] % 128) + (IF k = last + 1 THEN 0 ELSE 128)]

FlagNumber(fs) == (IF "info" \in fs THEN 1 ELSE 0) + (IF "delta" \in fs THEN 2 ELSE 0)
                  + (IF "addend" \in fs THEN 4 ELSE 0) + (IF "hasAddend" \in fs THEN 8 ELSE 0)

EncodedIf(cond, n) == IF cond THEN Encoded(n) ELSE <<>>

\* What the packer writes in front of the group that begins with relocation i, and for
\* a relocation.
GroupBytes(p, i) ==
  LET fs == p.flags[i]
  IN Encoded(p.last[i] - i + 1) \o Encoded(FlagNumber(fs))
     \o EncodedIf("delta" \in fs, p.deltas[i]) \o EncodedIf("info" \in fs, p.infos[i])
     \o EncodedIf({"addend", "hasAddend"} \subseteq fs, p.addends[i])

RelocationBytes(p, i) ==
  LET fs == p.flags[i]
  IN (IF p.first[i] = i THEN GroupBytes(p, i) ELSE <<>>)
     \o EncodedIf("delta" \notin fs, p.deltas[i]) \o EncodedIf("info" \notin fs, p.infos[i])
     \o EncodedIf("hasAddend" \in fs /\ "addend" \notin fs, p.addends[i])

Packed(p) ==
  LET upTo[i \in 0..p.count] ==
        IF i = 0 THEN Encoded(p.count) \o Encoded(p.offset)
        ELSE upTo[i - 1] \o RelocationBytes(p, i)
  IN upTo[p.count]

\* The relocations that were packed.
NextPlain(p, before, i) ==
  LET fs == p.flags[i]
      from(flag) == IF flag \in fs THEN p.first[i] ELSE i
  IN [offset |-> Word(before.offset + p.deltas[from("delta")]),
      info |-> p.infos[from("info")],
      addend |-> IF "hasAddend" \notin fs THEN 0
                 ELSE IF "addend" \in fs /\ i # p.first[i] THEN before.addend
                 ELSE Word(before.addend + p.addends[i])]

Plainly(p) ==
  LET f[i \in 0..p.count] ==
        IF i = 0 THEN [offset |-> Word(p.offset), info |-> 0, addend |-> 0]
        ELSE NextPlain(p, f[i - 1], i)
  IN [i \in 1..p.count |-> f[i]]

-----------------------------------------------------------------------------
(* Dynamic segments: the entries in front of DT_NULL, one of a kind, what     *)
(* follows it, and the first mapped address.                                  *)

SegmentAssumption ==
  \A s \in Segments :
    /\ s.entries \in Seq([tag : AddressTags \cup {"PLTREL"}, val : Nat])
    /\ \A i, j \in DOMAIN s.entries : s.entries[i].tag = s.entries[j].tag => i = j
    /\ s.base \in Nat \ {0}
    /\ \A i \in DOMAIN s.entries : s.entries[i].tag = "HASH" => s.entries[i].val >= s.base
    /\ s.behind \in Seq([tag : AddressTags \cup {"PLTREL", "NULL"}, val : Nat])

ASSUME SegmentAssumption

DynOf(s) == s.entries \o <<[tag |-> "NULL", val |-> 0]>> \o s.behind

-----------------------------------------------------------------------------
(* Maps: the lines are in the order of their addresses.                       *)

Line == [from : Int, to : Int, perms : SUBSET {"r", "w", "x"}, private : BOOLEAN, named : BOOLEAN]

IsMaps(lines) ==
  /\ lines \in Seq(Line)
  /\ \A k \in DOMAIN lines : lines[k].from < lines[k].to
  /\ \A k, l \in DOMAIN lines : k < l => lines[k].to <= lines[l].from

MapsAssumption == /\ \A lines \in Mappings : IsMaps(lines)
                  /\ Addresses \subseteq Int
                  /\ Sizes \subseteq Nat \ {0}

ASSUME MapsAssumption

-----------------------------------------------------------------------------
(* Symbol tables, as a linker lays them out. turn[i] is the place of symbol i *)
(* in its chain of the SysV table.                                            *)

Numbers(elf) == 1..(Len(elf.syms) - 1)

\* The two bits a linker sets for a hash.
BloomOf(tab, h) == {<<(h \div Bits) % tab.words, h % Bits>>,
                    <<(h \div Bits) % tab.words, (h \div 2^tab.shift) % Bits>>}

Buckets(tab) == Cardinality(DOMAIN tab.bucket)

\* Exported symbols come last, sorted by bucket; a bucket begins with its first one
\* and the lowest bit of a hash marks its last.
GnuLaidOut(elf, hash) ==
  LET tab == elf.gnu
      table == tab.offset..(Len(elf.syms) - 1)
      h(i) == hash[Symbol(elf.syms, i).name]
      in(i) == h(i) % Buckets(tab)
  IN /\ tab.offset \in 1..Len(elf.syms)
     /\ DOMAIN tab.bucket = 0..(Buckets(tab) - 1) /\ Buckets(tab) \in Nat \ {0}
     /\ \A i \in Numbers(elf) : Symbol(elf.syms, i).def <=> i \in table
     /\ \A i, j \in table : i < j => in(i) <= in(j)
     /\ \A b \in DOMAIN tab.bucket :
          IF \E i \in table : in(i) = b
          THEN /\ tab.bucket[b] \in table /\ in(tab.bucket[b]) = b
               /\ \A i \in table : in(i) = b => tab.bucket[b] <= i
          ELSE tab.bucket[b] = 0
     /\ \A i \in table : LET c == tab.chain[i - tab.offset]
                         IN /\ c \in Nat /\ c \div 2 = h(i) \div 2
                            /\ c % 2 = 1 <=> \A j \in table : i < j => in(i) # in(j)
     /\ \A i \in table : BloomOf(tab, h(i)) \subseteq tab.bloom

\* Every symbol but the first is reached from the bucket of its hash, and no chain
\* comes back to where it was.
SysvLaidOut(elf, hash, turn) ==
  LET tab == elf.sysv
      in(i) == hash[Symbol(elf.syms, i).name] % Buckets(tab)
  IN /\ DOMAIN tab.bucket = 0..(Buckets(tab) - 1) /\ Buckets(tab) \in Nat \ {0}
     /\ \A b \in DOMAIN tab.bucket : tab.bucket[b] \in {0} \cup Numbers(elf)
     /\ turn \in [Numbers(elf) -> Numbers(elf)]
     /\ \A i \in Numbers(elf) :
          /\ tab.chain[i] \in {0} \cup {j \in Numbers(elf) : turn[i] < turn[j]}
          /\ \/ tab.bucket[in(i)] = i
             \/ \E j \in Numbers(elf) : tab.chain[j] = i /\ in(j) = in(i)

\* Names are those of one symbol only, and the first symbol has none.
LibraryAssumption ==
  \A l \in Libraries :
    LET syms == l.elf.syms
    IN /\ syms \in Seq([name : {syms[k].name : k \in DOMAIN syms}, value : Nat, size : Nat,
                        def : BOOLEAN, tls : BOOLEAN])
       /\ syms # <<>>
       /\ \A i, j \in Numbers(l.elf) : Symbol(syms, i).name = Symbol(syms, j).name => i = j
       /\ Symbol(syms, 0).name \notin Names
       /\ ~Symbol(syms, 0).def /\ Symbol(syms, 0).size = 0
       /\ \A i \in Numbers(l.elf) : ~Symbol(syms, i).def => Symbol(syms, i).size = 0
       /\ \A n \in Names \cup {Symbol(syms, i).name : i \in Numbers(l.elf)} :
            l.gnuHash[n] \in Nat /\ l.sysvHash[n] \in Nat
       /\ l.elf.useGnu \in BOOLEAN /\ l.elf.useSysv \in BOOLEAN
       /\ l.elf.useGnu \/ l.elf.useSysv
       /\ l.elf.useGnu => GnuLaidOut(l.elf, l.gnuHash)
       /\ l.elf.useSysv => SysvLaidOut(l.elf, l.sysvHash, l.turn)

ASSUME LibraryAssumption

-----------------------------------------------------------------------------
Nothing == [tag |-> "none"]

Init == \/ /\ code \in Windows32
           /\ input = Nothing
        \/ /\ code = NoWindow
           /\ \/ \E w \in Windows64 : input = Begun64(w)
              \/ \E p \in Packings : input = [tag |-> "packed", pack |-> p]
              \/ \E s \in Segments : input = [tag |-> "dyn", segment |-> s]
              \/ \E lines \in Mappings : input = [tag |-> "maps", lines |-> lines]
              \/ \E l \in Libraries : input = [tag |-> "table", lib |-> l]

Next == \/ \E kind \in Kinds(code.thumb) :
             \E label \in LabelsOf(kind), cond \in Conds(kind) : Append32(kind, label, cond)
        \/ /\ input.tag = "arm64"
           /\ \E kind \in Kinds64 :
                \E label \in LabelsOf64(input, kind) : Append64(kind, label)

Spec == Init /\ [][Next]_vars

-----------------------------------------------------------------------------
\* What relocation is known to change: a Thumb BX PC or 16-bit ADR, a Thumb B<c>.W
\* or BL at an address that is not word aligned (its label is taken from the aligned
\* PC), an ARM ADR whose immediate is rotated, the condition of any ARM instruction
\* that is not copied, and a branch into the overwritten part.
Changed(i) ==
  LET ins == code.instrs[i]
  IN \/ ins.kind \in {"BX_THUMB16", "ADR_THUMB16"}
     \/ /\ ins.kind \in {"BL_THUMB32", "B1_THUMB32", "B2_THUMB32"}
        /\ (code.base + Start(code)[i]) % 2 = 1
     \/ ins.kind = "ADR_ARM" /\ Abs(ins.label) >= 256
     \/ ins.kind \in Arm \ {"ADD_ARM", "OTHER_ARM"} /\ ins.cond
     \/ Overwritten(code, InPlace(code, i, TRUE).to)

\* Every other relocated instruction, run in the trampoline, goes to the same
\* place with the same LR and registers as in the function, or reaches the next
\* one; no literal is ever executed, and every literal load finds its literal. The
\* trampoline jumps back behind the jump that is written over the function, also
\* when the last instruction sticks out of the window, and that jump reads the address
\* right behind it (relocateInstructionInThumb16, -Thumb32, -Arm, doInlineHook).
RelocationKeeps ==
  input.tag = "none" /\ Full =>
    /\ \A i \in 1..Relocated(code) :
         ~Changed(i) => \A taken \in Taken(code.instrs[i]) :
           OutOfPlace(code, i, taken) = InPlace(code, i, taken)
    /\ PatchLength(code) <= Back(code)
    /\ code.thumb => LET at == code.base + JumpAt(code) IN AlignPc(at + 2) = at + 2

\* What ARM64 relocation is known to change: a reference backwards of anything but B
\* and BL, whose offset is not sign-extended, a load of other than an Xt or signed
\* word from a literal in front of the trampoline, and an ADRP of the window's page.
Changed64(w, i) ==
  LET ins == w.instrs[i]
  IN \/ ins.kind \notin Branches64 /\ ins.label < w.base + i - 1
     \/ ins.kind \in {"LDR4", "LDRD", "LDR16"} /\ ins.label < FixedAt(w, i)
     \/ ins.kind = "ADRP" /\ InRange(w, ins.label)

\* Every other relocated ARM64 instruction goes to the same place or refers to the
\* same address as in the function, in every offset that is emitted fits, and a pool
\* entry has room for all of it and the jump back (__fix_instructions).
Relocation64Keeps ==
  input.tag = "arm64" /\ Len(input.instrs) = Wanted64(input) =>
    /\ TrampolineWords(input) <= Room
    /\ \A i \in 1..Len(input.instrs) :
         /\ OffsetFits(input, i)
         /\ ~Changed64(input, i) =>
              \A taken \in BOOLEAN : OutOfPlace64(input, i, taken) = InPlace64(input, i, taken)

\* Packed relocations mean the same as plain ones, and the same slots of a symbol
\* are replaced; of bytes that end too early only whole relocations are handed out
\* (xh_elf_sleb128_decode, xh_elf_packed_reloc_iterator, xh_elf_hook).
PackedAsPlain ==
  input.tag = "packed" =>
    LET p == input.pack
        plain == Plainly(p)
        bytes == Packed(p)
        empty == Encoded(0) \o Encoded(0)
        slots(i) == {r \in ToSet(plain) : r.info \in {4 * i + GlobDat, 4 * i + Absolute}}
    IN /\ Unpack(bytes, p.rela) = plain
       /\ \A cut \in 0..(Len(bytes) - 1) :
            IsStrictPrefix(Unpack(SubSeq(bytes, 1, cut), p.rela), plain)
       /\ \A i \in {r.info \div 4 : r \in ToSet(plain)} :
            /\ SlotOffsets(<<>>, <<>>, bytes, p.rela, i) = {r.offset : r \in slots(i)}
            /\ SlotOffsets(<<>>, plain, empty, p.rela, i) = {r.offset : r \in slots(i)}

\* The tags of a dynamic segment, the value of each, and what a linker means by them.
TagsOf(es) == {es[i].tag : i \in DOMAIN es}
ValOf(es, tag) == IF tag \in TagsOf(es) THEN es[CHOOSE i \in DOMAIN es : es[i].tag = tag].val ELSE 0

WholeOf(es, base) ==
  /\ {"STRTAB", "SYMTAB"} \subseteq TagsOf(es) /\ {"HASH", "GNU_HASH"} \cap TagsOf(es) # {}
  /\ \A tag \in TagsOf(es) \cap AddressTags : ValOf(es, tag) >= base

ReadTo(es) ==
  [ok |-> TRUE, STRTAB |-> ValOf(es, "STRTAB"), SYMTAB |-> ValOf(es, "SYMTAB"),
   JMPREL |-> ValOf(es, "JMPREL"), REL |-> ValOf(es, "REL"),
   ANDROID_REL |-> ValOf(es, "ANDROID_REL"),
   buckets |-> ValOf(es, IF "GNU_HASH" \in TagsOf(es) THEN "GNU_HASH" ELSE "HASH"),
   rela |-> ValOf(es, "PLTREL") = Rela,
   gnu |-> "GNU_HASH" \in TagsOf(es)]

\* A library is read the same whatever the order of its dynamic entries, by the GNU
\* hash table if there is one, and refused unless it has names, symbols and a hash
\* table, none of them below the first mapped address (xh_elf_init).
DynOrder ==
  input.tag = "dyn" =>
    LET s == input.segment
    IN ElfInit(DynOf(s), s.base) = IF WholeOf(s.entries, s.base) THEN ReadTo(s.entries) ELSE NoElf

\* The protection of a range is known exactly when private file mappings cover all
\* of it, and it is what all of them allow (xh_util_get_mem_protect).
ProtectionMet ==
  input.tag = "maps" =>
    LET maps == input.lines
        on(page) == {k \in DOMAIN maps : maps[k].from <= page /\ page < maps[k].to}
        known(page) == \E k \in on(page) : maps[k].private /\ maps[k].named
    IN \A addr \in Addresses, len \in Sizes :
         LET pages == addr..(addr + len - 1)
             found == MemProtect(maps, addr, len)
         IN /\ found.ok <=> \A page \in pages : known(page)
            /\ found.ok => found.prot = {p \in {"r", "w", "x"} :
                             \A page \in pages : \A k \in on(page) : p \in maps[k].perms}

\* By either hash table a name finds its symbol, an exported one before one that is
\* only used, and a name the library does not have finds none
\* (xh_elf_find_symidx_by_name, xdl_sym, xdl_dsym).
LookupFinds ==
  input.tag = "table" =>
    LET elf == input.lib.elf
        have == Numbers(elf)
    IN \A name \in Names :
         LET i == FindIndex(elf, name, input.lib.gnuHash[name], input.lib.sysvHash[name])
             value == XdlSym(elf, name, input.lib.gnuHash[name], input.lib.sysvHash[name])
             exported == {j \in have : Symbol(elf.syms, j).name = name /\ Symbol(elf.syms, j).def}
         IN /\ IF i = None THEN \A j \in have : Symbol(elf.syms, j).name # name
               ELSE i \in have /\ Symbol(elf.syms, i).name = name
            /\ IF exported = {} THEN value = None
               ELSE \A j \in exported : value = Symbol(elf.syms, j).value
            /\ XdlDsym(elf.syms, name) = value

\* An address finds the symbol that it lies in, and no address finds a TLS symbol
\* or the one before it (xdl_sym_by_addr).
SymAt ==
  input.tag = "table" =>
    LET elf == input.lib.elf
    IN \A at \in Addresses :
         LET inside == {j \in Numbers(elf) :
                          LET s == Symbol(elf.syms, j)
                          IN s.def /\ ~s.tls /\ at \in s.value..(s.value + s.size - 1)}
         IN IF inside = {} THEN SymByAddr(elf, at) = None ELSE SymByAddr(elf, at) \in inside
=============================================================================
