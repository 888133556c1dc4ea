----------------------------- MODULE ElfLookup ------------------------------
(* Finding a symbol by its name or by an address: the hash tables of         *)
(* xh_elf.c and xdl.c. A symbol table is a sequence whose i-th element is     *)
(* symbol number i - 1: [name, value, size, def, tls]. The two hash functions *)
(* are given with the tables.                                                *)
EXTENDS Integers, Sequences, FiniteSets

CONSTANT Bits  \* bits of a word of the bloom filter

ASSUME ElfLookupAssumption == Bits \in Nat \ {0}

\* Symbol number i of a table.
Symbol(syms, i) == syms[i + 1]

None == -1

-----------------------------------------------------------------------------
(* SysV hash tables: [bucket, chain], functions of numbers *)

\* xh_elf_hash_lookup, xdl_dynsym_find_symbol_use_sysv_hash
SysvLookup(syms, tab, name, hash) ==
  LET walk[i \in 0..(Len(syms) - 1)] ==
        IF i = 0 THEN None
        ELSE IF Symbol(syms, i).name = name THEN i ELSE walk[tab.chain[i]]
  IN walk[tab.bucket[hash % Cardinality(DOMAIN tab.bucket)]]

-----------------------------------------------------------------------------
(* GNU hash tables: [bucket, chain, bloom, words, shift, offset]; the bloom   *)
(* filter is the set of the bits <<word, bit>> that are set                   *)

\* Mutant: the second bit is shifted one too far.
BloomBitsShifted(tab, hash) ==
  LET word == (hash \div Bits) % tab.words
  IN {<<word, hash % Bits>>, <<word, (hash \div 2^(tab.shift + 1)) % Bits>>}

BloomBits(tab, hash) ==
  LET word == (hash \div Bits) % tab.words
  IN {<<word, hash % Bits>>, <<word, (hash \div 2^tab.shift) % Bits>>}

\* xh_elf_gnu_hash_lookup_def, xdl_dynsym_find_symbol_use_gnu_hash. The lowest bit
\* of a hash in the chain marks the end of the chain.
GnuDefined(syms, tab, name, hash) ==
  LET walk[i \in tab.offset..(Len(syms) - 1)] ==
        LET symHash == tab.chain[i - tab.offset]
        IN IF hash \div 2 = symHash \div 2 /\ Symbol(syms, i).name = name THEN i
           ELSE IF symHash % 2 = 1 THEN None ELSE walk[i + 1]
      first == tab.bucket[hash % Cardinality(DOMAIN tab.bucket)]
  IN IF ~(BloomBits(tab, hash) \subseteq tab.bloom) \/ first < tab.offset THEN None
     ELSE walk[first]

\* xh_elf_gnu_hash_lookup_undef: the symbols in front of the table.
GnuUndefined(syms, tab, name) ==
  LET fit == {i \in 0..(tab.offset - 1) : Symbol(syms, i).name = name}
  IN IF fit = {} THEN None ELSE CHOOSE i \in fit : \A j \in fit : i <= j

\* xh_elf_find_symidx_by_name. A library is [syms, useGnu, gnu, useSysv, sysv].
FindIndex(elf, name, gnuHash, sysvHash) ==
  IF elf.useGnu
  THEN LET i == GnuDefined(elf.syms, elf.gnu, name, gnuHash)
       IN IF i # None THEN i ELSE GnuUndefined(elf.syms, elf.gnu, name)
  ELSE SysvLookup(elf.syms, elf.sysv, name, sysvHash)

\* xdl_sym: by the GNU table, else by the other; None when the symbol is not exported.
XdlSym(elf, name, gnuHash, sysvHash) ==
  LET byGnu == IF elf.useGnu THEN GnuDefined(elf.syms, elf.gnu, name, gnuHash) ELSE None
      i == IF byGnu = None /\ elf.useSysv
           THEN SysvLookup(elf.syms, elf.sysv, name, sysvHash) ELSE byGnu
  IN IF i = None \/ ~Symbol(elf.syms, i).def THEN None ELSE Symbol(elf.syms, i).value

\* xdl_dsym: the first exported symbol of that name in .symtab.
XdlDsym(syms, name) ==
  LET fit == {i \in 0..(Len(syms) - 1) : Symbol(syms, i).def /\ Symbol(syms, i).name = name}
  IN IF fit = {} THEN None
     ELSE Symbol(syms, CHOOSE i \in fit : \A j \in fit : i <= j).value

-----------------------------------------------------------------------------
(* The symbol at an address *)

\* Mutant: the address behind the symbol belongs to it.
CoversEnd(sym, at) == ~sym.tls /\ sym.value <= at /\ at <= sym.value + sym.size

\* xdl_sym_is_match: whether the symbol is exported makes no difference.
Covers(sym, at) == ~sym.tls /\ sym.value <= at /\ at < sym.value + sym.size

\* The symbols xdl_sym_by_addr looks at: those of the chains of the GNU table, or all.
Scanned(elf) ==
  IF elf.useGnu
  THEN UNION {LET first == elf.gnu.bucket[b]
                  chain == elf.gnu.chain
                  ends == {i \in first..(Len(elf.syms) - 1) : chain[i - elf.gnu.offset] % 2 = 1}
              IN IF first < elf.gnu.offset THEN {}
                 ELSE first..(CHOOSE i \in ends : \A j \in ends : i <= j)
              : b \in DOMAIN elf.gnu.bucket}
  ELSE IF elf.useSysv THEN 0..(Len(elf.syms) - 1) ELSE {}

\* xdl_sym_by_addr: one of the symbols that cover the address, or None.
SymByAddr(elf, at) ==
  LET fit == {i \in Scanned(elf) : Covers(Symbol(elf.syms, i), at)}
  IN IF fit = {} THEN None ELSE CHOOSE i \in fit : TRUE
=============================================================================
