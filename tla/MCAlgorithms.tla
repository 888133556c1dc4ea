---------------------------- MODULE MCAlgorithms ---------------------------
(* Algorithms on few inputs of each kind.                                    *)
EXTENDS Algorithms, TLC

\* A label behind the window, and one that may lie in it.
AheadAndBack == {6, -4}

\* #6, #-4, #256 and #-1020: 1 and 255 rotated.
TurnedOrNot == {6, -4, 3073, -4095}

\* A function may begin in the middle of a word.
TwoBases == {0, 1}

-----------------------------------------------------------------------------
\* The trampoline is near a function that is replaced by a branch, behind or in front
\* of it, and anywhere for a far one.
Base64 == 2^20

NearAndFar ==
  {[base |-> b, tramp |-> b - (b % 2) + d, replace |-> b + r] :
     b \in {Base64, Base64 + 1}, r \in {2^22}, d \in {-4096, 2^18 + 2^10, 2^25 + 2^13, 2^28}}
  \cup
  {[base |-> Base64 + b, tramp |-> Base64 + IF b = 0 THEN 2^28 ELSE 500,
    replace |-> Base64 + 2^26] : b \in {0, 1}}

\* In the window, behind it, at the ends of what the kinds reach, and backwards.
AheadAndBack64 ==
  [n \in {1, 4, 5} |-> IF n = 1 THEN {1, 40, 2^13 - 8, 2^18 - 8, 2^25 - 8, -64}
                       ELSE {1, 2, 2^18 - 8, -64}]

-----------------------------------------------------------------------------
\* Three relocations in one or two groups. Deltas and addends are long together.
Groupings == {<<1, 1, 1>>, <<1, 2, 2>>, <<1, 1, 3>>}

Grouped3(rela, first, flags, long) ==
  [count |-> 3, first |-> first, rela |-> rela,
   last |-> [i \in 1..3 |-> CHOOSE l \in i..3 : /\ first[l] = first[i]
                                                /\ l = 3 \/ first[l + 1] # first[i]],
   flags |-> [i \in 1..3 |-> flags[IF first[i] = 1 THEN 1 ELSE 2]], offset |-> 1000,
   deltas |-> IF long THEN <<64, -8193, -65>> ELSE <<63, 8191, -8192>>, infos |-> <<6, 7, 9>>,
   addends |-> IF long THEN <<127, -(2^15), -64>> ELSE <<0, 200, -3>>]

\* Only RELA has addends.
ThreePacked ==
  {Grouped3(c.rela, c.first, c.flags, c.long) :
     c \in {c \in [rela : BOOLEAN, first : Groupings, flags : [1..2 -> SUBSET Flags],
                   long : BOOLEAN] : \A g \in 1..2 : "hasAddend" \in c.flags[g] => c.rela}}

-----------------------------------------------------------------------------
DynVals == [STRTAB |-> 40, SYMTAB |-> 30, HASH |-> 50, GNU_HASH |-> 60, JMPREL |-> 70,
            PLTREL |-> Rela]

Orders == UNION {{s \in [1..Cardinality(tags) -> tags] : \A i, j \in DOMAIN s : s[i] = s[j] => i = j} :
                   tags \in SUBSET DOMAIN DynVals}

\* Some or all of the entries in every order, perhaps with an address that is too low.
\* What follows DT_NULL does not count.
AllOrders ==
  {[entries |-> [i \in 1..Len(order) |-> [tag |-> order[i], val |-> DynVals[order[i]]]],
    behind |-> <<[tag |-> "STRTAB", val |-> 1]>>, base |-> base] :
     order \in Orders, base \in {10, 35}}

-----------------------------------------------------------------------------
\* Three mappings of two pages each, perhaps with a gap in front of the last.
MapLines == [perms : {{"r"}, {"r", "w"}, {"r", "x"}}, private : BOOLEAN, named : BOOLEAN]

ThreeMappings ==
  {[k \in 1..3 |-> LET at == 2 * (k - 1) + (IF k = 3 THEN gap ELSE 0)
                   IN [from |-> at, to |-> at + 2, perms |-> lines[k].perms,
                       private |-> lines[k].private, named |-> lines[k].named]] :
     lines \in [1..3 -> MapLines], gap \in {0, 1}}

UpTo20 == 0..20
UpTo3 == 1..3

-----------------------------------------------------------------------------
(* Symbol tables *)

Exported == {"a", "b", "c"}
ABCZ == Exported \cup {"z"}

Tables == {t \in [defined : {<<"a", "b">>, <<"c", "a", "b">>, <<"b">>},
                  undefined : {<<>>, <<"c">>}, buckets : {1, 2}, shift : {1, 3},
                  hash : [ABCZ -> {0, 1, 14, 27}], used : {{"gnu"}, {"sysv"}, {"gnu", "sysv"}}] :
             \A i \in 1..Len(t.undefined) : t.undefined[i] \notin ToSet(t.defined)}

\* Symbols are as long as the next is away; the TLS symbol covers no address.
SymbolsOf(t) ==
  LET sorted == SelectSeq(t.defined, LAMBDA n : t.hash[n] % t.buckets = 0)
                \o SelectSeq(t.defined, LAMBDA n : t.hash[n] % t.buckets = 1)
      undef == <<"">> \o t.undefined
  IN [i \in 1..Len(undef) |-> [name |-> undef[i], value |-> 0, size |-> 0, def |-> FALSE, tls |-> FALSE]]
     \o [i \in 1..Len(sorted) |-> [name |-> sorted[i], value |-> 4 * i, size |-> 4, def |-> TRUE,
                                    tls |-> sorted[i] = "c"]]

GnuTable(t) ==
  LET syms == SymbolsOf(t)
      offset == 1 + Len(t.undefined)
      numbers == offset..(Len(syms) - 1)
      h(i) == t.hash[Symbol(syms, i).name]
      inBucket(b) == {i \in numbers : h(i) % t.buckets = b}
      table == [words |-> 2, shift |-> t.shift]
  IN [bucket |-> [b \in 0..(t.buckets - 1) |->
                    IF inBucket(b) = {} THEN 0 ELSE CHOOSE i \in inBucket(b) : \A j \in inBucket(b) : i <= j],
      chain |-> [k \in 0..(Len(syms) - 1 - offset) |->
                   2 * (h(offset + k) \div 2)
                   + (IF \E j \in inBucket(h(offset + k) % t.buckets) : j > offset + k THEN 0 ELSE 1)],
      bloom |-> UNION {BloomOf(table, h(i)) : i \in numbers},
      words |-> 2, shift |-> t.shift, offset |-> offset]

\* The other hash of a name; symbols are put in front of their chain, the last first
\* when there are two buckets.
SysvHash(t) == [n \in ABCZ |-> t.hash[n] \div 7]

TurnOf(t) == LET last == Len(SymbolsOf(t)) - 1
             IN [i \in 1..last |-> IF t.buckets = 1 THEN i ELSE last + 1 - i]

SysvTable(t) ==
  LET syms == SymbolsOf(t)
      turn == TurnOf(t)
      behind(at, b) ==
        LET later == {j \in 1..(Len(syms) - 1) : /\ turn[j] > at
                                                 /\ SysvHash(t)[Symbol(syms, j).name] % t.buckets = b}
        IN IF later = {} THEN 0 ELSE CHOOSE j \in later : \A k \in later : turn[j] <= turn[k]
  IN [bucket |-> [b \in 0..(t.buckets - 1) |-> behind(0, b)],
      chain |-> [i \in 0..(Len(syms) - 1) |->
                   IF i = 0 THEN 0
                   ELSE behind(turn[i], SysvHash(t)[Symbol(syms, i).name] % t.buckets)]]

LinkedLibraries ==
  {[elf |-> [syms |-> SymbolsOf(t), useGnu |-> "gnu" \in t.used, gnu |-> GnuTable(t),
             useSysv |-> "sysv" \in t.used, sysv |-> SysvTable(t)],
    gnuHash |-> t.hash, sysvHash |-> SysvHash(t), turn |-> TurnOf(t)] : t \in Tables}
=============================================================================
