-------------------------- MODULE AlgorithmsProof ---------------------------
(***************************************************************************)
(* Proofs about the algorithms, for every window of instructions, every    *)
(* library, every dynamic segment and all maps of the shape the            *)
(* assumptions of Algorithms name, whatever their size.                    *)
(***************************************************************************)
EXTENDS Algorithms, TLAPS, FiniteSetTheorems, SequenceTheorems, WellFoundedInduction

-----------------------------------------------------------------------------
(* Numbers and recursion *)

\* A set of numbers that is not empty has a least one.
LEMMA Least ==
  ASSUME NEW T, T \subseteq Nat, T # {}
  PROVE  \E x \in T : \A y \in T : x <= y
<1> DEFINE Less == OpToRel(<, Nat)
<1>1. IsWellFoundedOn(Less, Nat)
  BY NatLessThanWellFounded
<1>2. \A x, y \in Nat : <<y, x>> \in Less <=> y < x
  BY DEF OpToRel
<1> HIDE DEF Less
<1>3. PICK x \in T : \A y \in T : ~(<<y, x>> \in Less)
  BY <1>1, WFMin
<1>4. ASSUME NEW y \in T PROVE x <= y
  <2>1. x \in Nat /\ y \in Nat
    BY <1>3
  <2>2. ~(<<y, x>> \in Less)
    BY <1>3
  <2>3. ~(y < x)
    BY <1>2, <2>1, <2>2
  <2> QED BY <2>1, <2>3
<1> QED BY <1>4

\* A set with a number and, behind each of its members up to b, the next one, has
\* them all: induction, the set standing for the property.
Climbs(S, a, b) == /\ a \in Int /\ b \in Int /\ a \in S
                   /\ \A k \in a..b : k \in S /\ k < b => k + 1 \in S

LEMMA UpTo ==
  ASSUME NEW a, NEW b, NEW S, Climbs(S, a, b)
  PROVE  a..b \subseteq S
<1> USE DEF Climbs
<1> SUFFICES ASSUME NEW m \in a..b, m \notin S PROVE FALSE
  OBVIOUS
<1> DEFINE T == {k \in Nat : a + k <= b /\ a + k \notin S}
<1>1. PICK k \in T : \A j \in T : k <= j
  <2>1. m - a \in T /\ T \subseteq Nat
    <3>1. m - a \in Nat /\ a + (m - a) = m
      OBVIOUS
    <3> QED BY <3>1
  <2> HIDE DEF T
  <2> QED BY <2>1, Least
<1>2. k # 0 /\ k \in Nat /\ a + (k - 1) \in a..b /\ a + (k - 1) < b
  BY <1>1
<1>3. k - 1 \notin T
  BY <1>1, <1>2
<1>4. a + (k - 1) \in S
  BY <1>2, <1>3
<1>5. (a + (k - 1)) + 1 \in S
  BY <1>2, <1>4
<1>6. (a + (k - 1)) + 1 = a + k
  BY <1>2
<1> QED BY <1>1, <1>5, <1>6

\* Steps from a to b, g[i] the one to i, from z on, and the function they give.
AreSteps(a, b, T, z, g) == /\ a \in Int /\ b \in Int /\ a <= b
                           /\ z \in T /\ g \in [a + 1..b -> [T -> T]]
Iterates(f, a, b, T, z, g) == /\ f \in [a..b -> T] /\ f[a] = z
                              /\ \A i \in a + 1..b : f[i] = g[i][f[i - 1]]

\* A function defined from its value one before exists.
LEMMA Iterated ==
  ASSUME NEW a, NEW b, NEW T, NEW z, NEW g, AreSteps(a, b, T, z, g)
  PROVE  \E f : Iterates(f, a, b, T, z, g)
<1>0. a \in Int /\ b \in Int /\ a <= b /\ z \in T /\ g \in [a + 1..b -> [T -> T]]
  BY DEF AreSteps
<1> USE <1>0
<1> DEFINE Good(f, m) == /\ f \in [a..m -> T] /\ f[a] = z
                         /\ \A i \in a + 1..m : f[i] = g[i][f[i - 1]]
           S == {m \in a..b : \E f : Good(f, m)}
<1>1. a \in S
  <2> DEFINE f == [i \in a..a |-> z]
  <2>1. f \in [a..a -> T] /\ f[a] = z /\ a + 1..a = {}
    OBVIOUS
  <2> HIDE DEF f
  <2>2. Good(f, a) /\ a \in a..b
    BY <2>1
  <2> HIDE DEF Good
  <2> QED BY <2>2
<1>2. ASSUME NEW m \in a..b, m \in S, m < b PROVE m + 1 \in S
  <2>1. PICK f : Good(f, m)
    BY <1>2
  <2>2. f[m] \in T /\ m + 1 \in a + 1..b
    BY <1>2, <2>1
  <2> DEFINE h == [i \in a..m + 1 |-> IF i = m + 1 THEN g[m + 1][f[m]] ELSE f[i]]
  <2>3. g[m + 1][f[m]] \in T
    BY <2>2
  <2>4. h \in [a..m + 1 -> T]
    <3>1. ASSUME NEW i \in a..m + 1 PROVE (IF i = m + 1 THEN g[m + 1][f[m]] ELSE f[i]) \in T
      <4>1. CASE i = m + 1
        BY <2>3, <4>1
      <4>2. CASE i # m + 1
        <5>1. i \in a..m
          BY <4>2
        <5> QED BY <2>1, <4>2, <5>1
      <4> QED BY <4>1, <4>2
    <3> QED BY <3>1
  <2>5. h[a] = z
    <3>1. a \in a..m + 1 /\ a # m + 1
      OBVIOUS
    <3> QED BY <2>1, <3>1
  <2>6. ASSUME NEW i \in a + 1..m + 1 PROVE h[i] = g[i][h[i - 1]]
    <3>1. i \in a..m + 1 /\ i - 1 \in a..m + 1 /\ i - 1 # m + 1
      OBVIOUS
    <3>2. h[i - 1] = f[i - 1]
      BY <3>1
    <3>3. CASE i = m + 1
      BY <3>1, <3>2, <3>3
    <3>4. CASE i # m + 1
      <4>1. i \in a + 1..m /\ h[i] = f[i]
        BY <3>1, <3>4
      <4>2. f[i] = g[i][f[i - 1]]
        BY <2>1, <4>1
      <4> QED BY <3>2, <4>1, <4>2
    <3> QED BY <3>3, <3>4
  <2>7. m + 1 \in a..b
    BY <2>2
  <2> HIDE DEF h
  <2>8. Good(h, m + 1)
    BY <2>4, <2>5, <2>6
  <2> HIDE DEF Good
  <2> QED BY <2>7, <2>8
<1>3. b \in S
  <2> HIDE DEF S
  <2>1. Climbs(S, a, b)
    BY <1>1, <1>2 DEF Climbs
  <2> QED BY <2>1, UpTo
<1> QED BY <1>3 DEF Iterates

\* It is the only one: c need not be known to take its values in T.
Follows(c, a, b, T, z, g) == /\ c = [i \in a..b |-> c[i]] /\ c[a] = z
                             /\ \A i \in a + 1..b : c[i - 1] \in T => c[i] = g[i][c[i - 1]]

LEMMA OneIteration ==
  ASSUME NEW a, NEW b, NEW T, NEW z, NEW g, AreSteps(a, b, T, z, g),
         NEW c, Follows(c, a, b, T, z, g)
  PROVE  Iterates(c, a, b, T, z, g)
<1>1. PICK f : Iterates(f, a, b, T, z, g)
  BY Iterated
<1>2. a \in Int /\ b \in Int /\ a <= b
  BY DEF AreSteps
<1>3. f \in [a..b -> T] /\ f[a] = z /\ \A i \in a + 1..b : f[i] = g[i][f[i - 1]]
  BY <1>1 DEF Iterates
<1>4. /\ c = [i \in a..b |-> c[i]] /\ c[a] = z
      /\ \A i \in a + 1..b : c[i - 1] \in T => c[i] = g[i][c[i - 1]]
  BY DEF Follows
<1> DEFINE S == {k \in a..b : c[k] = f[k]}
<1>5. a \in S
  BY <1>2, <1>3, <1>4
<1>6. ASSUME NEW k \in a..b, k \in S, k < b PROVE k + 1 \in S
  <2>1. k + 1 \in a + 1..b /\ (k + 1) - 1 = k /\ k + 1 \in a..b
    BY <1>2, <1>6
  <2>2. c[k] = f[k] /\ f[k] \in T
    BY <1>3, <1>6
  <2>3. c[k + 1] = g[k + 1][c[k]] /\ f[k + 1] = g[k + 1][f[k]]
    BY <1>3, <1>4, <2>1, <2>2
  <2> QED BY <2>1, <2>2, <2>3
<1>7. a..b \subseteq S
  <2> HIDE DEF S
  <2>1. Climbs(S, a, b)
    BY <1>2, <1>5, <1>6 DEF Climbs
  <2> QED BY <2>1, UpTo
<1>8. c = f
  BY <1>3, <1>4, <1>7
<1> QED BY <1>1, <1>8

-----------------------------------------------------------------------------
(* Page protections *)

Scan == [start : Int, all : BOOLEAN, first : BOOLEAN, prot : SUBSET {"r", "w", "x"}]
Begun(addr) == [start |-> addr, all |-> FALSE, first |-> TRUE, prot |-> {}]

\* A line counts that is a private file mapping.
Counts(line) == line.private /\ line.named
Holds(line, page) == line.from <= page /\ page < line.to

\* One line of the maps.
LEMMA LineRead ==
  ASSUME NEW s \in Scan, NEW line \in Line, NEW end \in Int
  PROVE  LET t == ProtStep(s, line, end) IN
         /\ t \in Scan
         /\ s.all \/ ~Counts(line) \/ ~Holds(line, s.start) => t = s
         /\ ~s.all /\ Counts(line) /\ Holds(line, s.start) =>
              /\ t.start = line.to /\ (t.all <=> end <= line.to) /\ ~t.first
              /\ t.prot = IF s.first THEN line.perms ELSE s.prot \cap line.perms
<1>1. CASE s.all \/ ~Counts(line) \/ ~Holds(line, s.start)
  BY <1>1 DEF ProtStep, Counts, Holds
<1>2. CASE ~s.all /\ Counts(line) /\ Holds(line, s.start)
  BY <1>2 DEF ProtStep, Counts, Holds, Line, Scan
<1> QED BY <1>1, <1>2

\* What xh_util_get_mem_protect knows after each line.
LEMMA Scanning ==
  ASSUME NEW maps \in Seq(Line), NEW addr \in Int, NEW len \in Int
  PROVE  \E s \in [0..Len(maps) -> Scan] :
           /\ s[0] = Begun(addr)
           /\ \A k \in 1..Len(maps) : s[k] = ProtStep(s[k - 1], maps[k], addr + len)
           /\ MemProtect(maps, addr, len) =
                [ok |-> s[Len(maps)].all,
                 prot |-> IF s[Len(maps)].all THEN s[Len(maps)].prot ELSE {}]
<1> DEFINE n == Len(maps)
           end == addr + len
           Is(f) == f = [k \in 0..n |-> IF k = 0 THEN Begun(addr)
                                        ELSE ProtStep(f[k - 1], maps[k], addr + len)]
           c == CHOOSE f : Is(f)
           g == [k \in 1..n |-> [x \in Scan |-> ProtStep(x, maps[k], end)]]
<1>1. MemProtect(maps, addr, len) = [ok |-> c[n].all, prot |-> IF c[n].all THEN c[n].prot ELSE {}]
  BY DEF MemProtect, Begun
<1>2. n \in Nat /\ \A k \in 1..n : maps[k] \in Line
  OBVIOUS
<1> HIDE DEF n
<1>3. Begun(addr) \in Scan
  BY DEF Begun, Scan
<1>4. g \in [1..n -> [Scan -> Scan]]
  <2>1. \A k \in 1..n : \A x \in Scan : ProtStep(x, maps[k], end) \in Scan
    <3>1. end \in Int
      OBVIOUS
    <3> QED BY <1>2, <3>1, LineRead
  <2> QED BY <2>1
<1>5. \A k \in 1..n : \A x \in Scan : g[k][x] = ProtStep(x, maps[k], end)
  OBVIOUS
<1> HIDE DEF g
<1>6. AreSteps(0, n, Scan, Begun(addr), g)
  BY <1>2, <1>3, <1>4 DEF AreSteps
<1>7. PICK f : Iterates(f, 0, n, Scan, Begun(addr), g)
  BY <1>6, Iterated
<1>8. ASSUME NEW k \in 1..n PROVE f[k] = ProtStep(f[k - 1], maps[k], end)
  <2>1. k - 1 \in 0..n /\ k \in 0 + 1..n
    BY <1>2
  <2>2. f[k - 1] \in Scan /\ f[k] = g[k][f[k - 1]]
    BY <1>7, <2>1 DEF Iterates
  <2> QED BY <1>5, <2>2
<1>9. Is(f)
  <2>1. ASSUME NEW k \in 0..n, k # 0 PROVE f[k] = ProtStep(f[k - 1], maps[k], addr + len)
    <3>1. k \in 1..n
      BY <1>2, <2>1
    <3> QED BY <1>8, <3>1
  <2>2. f \in [0..n -> Scan] /\ f[0] = Begun(addr)
    BY <1>7 DEF Iterates
  <2> QED BY <2>1, <2>2
<1>10. Is(c)
  <2> HIDE DEF Is
  <2> QED BY <1>9
<1> HIDE DEF c
<1>11. Follows(c, 0, n, Scan, Begun(addr), g)
  <2>1. c = [k \in 0..n |-> c[k]] /\ c[0] = Begun(addr)
    BY <1>2, <1>10
  <2>2. ASSUME NEW k \in 0 + 1..n, c[k - 1] \in Scan PROVE c[k] = g[k][c[k - 1]]
    <3>1. k \in 0..n /\ k # 0 /\ k \in 1..n
      BY <1>2
    <3>2. c[k] = ProtStep(c[k - 1], maps[k], end)
      BY <1>10, <3>1
    <3> QED BY <1>5, <2>2, <3>1, <3>2
  <2> QED BY <2>1, <2>2 DEF Follows
<1>12. Iterates(c, 0, n, Scan, Begun(addr), g)
  BY <1>6, <1>11, OneIteration
<1>13. ASSUME NEW k \in 1..n PROVE c[k] = ProtStep(c[k - 1], maps[k], end)
  <2>1. k - 1 \in 0..n /\ k \in 0 + 1..n
    BY <1>2
  <2>2. c[k - 1] \in Scan /\ c[k] = g[k][c[k - 1]]
    BY <1>12, <2>1 DEF Iterates
  <2> QED BY <1>5, <2>2
<1> QED BY <1>1, <1>12, <1>13 DEF n, Iterates

\* A line of the maps of a range of pages [addr, end) that has been looked at up to s.
\* Every page in front of s.start is on a private file mapping and s.prot is what the
\* mappings of those pages all allow; s.start is on none of the lines behind.
ScanOK(maps, addr, end, s, k) ==
  /\ addr <= s.start /\ (s.all <=> end <= s.start)
  /\ s.first => s.start = addr
  /\ \A page \in addr..(s.start - 1) : \E j \in DOMAIN maps :
                                           Counts(maps[j]) /\ Holds(maps[j], page)
  /\ ~s.first => \A p \in {"r", "w", "x"} :
       p \in s.prot <=> \A page \in addr..(s.start - 1), j \in DOMAIN maps :
                          page < end /\ Holds(maps[j], page) => p \in maps[j].perms
  /\ ~s.all => \A j \in 1..k : Counts(maps[j]) => ~Holds(maps[j], s.start)

\* The lines of the maps.
LEMMA Lines ==
  ASSUME NEW maps, IsMaps(maps)
  PROVE  /\ Len(maps) \in Nat /\ DOMAIN maps = 1..Len(maps)
         /\ \A k \in DOMAIN maps :
              /\ maps[k] \in Line /\ maps[k].from < maps[k].to
              /\ maps[k].from \in Int /\ maps[k].to \in Int
              /\ maps[k].perms \subseteq {"r", "w", "x"}
         /\ \A k, l \in DOMAIN maps : k < l => maps[k].to <= maps[l].from
<1>1. maps \in Seq(Line)
  BY DEF IsMaps
<1>2. Len(maps) \in Nat /\ DOMAIN maps = 1..Len(maps) /\ \A k \in DOMAIN maps : maps[k] \in Line
  BY <1>1
<1>3. \A l \in Line : l.from \in Int /\ l.to \in Int /\ l.perms \subseteq {"r", "w", "x"}
  BY DEF Line
<1> QED BY <1>2, <1>3 DEF IsMaps

\* Two lines of the maps have no page in common.
LEMMA Apart ==
  ASSUME NEW maps, IsMaps(maps), NEW page \in Int, NEW j \in DOMAIN maps, NEW k \in DOMAIN maps,
         Holds(maps[j], page), Holds(maps[k], page)
  PROVE  j = k
<1>1. /\ maps[j].from \in Int /\ maps[j].to \in Int /\ maps[k].from \in Int /\ maps[k].to \in Int
      /\ j \in Int /\ k \in Int
  BY Lines
<1>2. CASE j < k
  <2>1. maps[j].to <= maps[k].from
    BY <1>2 DEF IsMaps
  <2> QED BY <1>1, <2>1 DEF Holds
<1>3. CASE k < j
  <2>1. maps[k].to <= maps[j].from
    BY <1>3 DEF IsMaps
  <2> QED BY <1>1, <2>1 DEF Holds
<1> QED BY <1>1, <1>2, <1>3

\* One line keeps what is known of the range.
LEMMA LineScanned ==
  ASSUME NEW maps, IsMaps(maps), NEW addr \in Int, NEW end \in Int, addr < end,
         NEW k \in DOMAIN maps, NEW s \in Scan, ScanOK(maps, addr, end, s, k - 1)
  PROVE  ScanOK(maps, addr, end, ProtStep(s, maps[k], end), k)
<1> DEFINE line == maps[k]
<1>0. PICK t : t = ProtStep(s, line, end)
  OBVIOUS
<1>1. /\ line \in Line /\ line.from < line.to /\ k \in Nat
      /\ line.from \in Int /\ line.to \in Int /\ line.perms \subseteq {"r", "w", "x"}
  BY Lines
<1>2. /\ s.start \in Int /\ s.all \in BOOLEAN /\ s.first \in BOOLEAN
      /\ s.prot \subseteq {"r", "w", "x"}
  BY DEF Scan
<1>3. CASE s.all \/ ~Counts(line) \/ ~Holds(line, s.start)
  <2>1. t = s
    BY <1>0, <1>1, <1>3, LineRead
  <2>2. \A j \in 1..k : j = k \/ j \in 1..k - 1
    BY <1>1
  <2>3. ~s.all => \A j \in 1..k : Counts(maps[j]) => ~Holds(maps[j], s.start)
    BY <1>3, <2>2 DEF ScanOK
  <2>4. ScanOK(maps, addr, end, s, k)
    BY <2>3 DEF ScanOK
  <2> QED BY <1>0, <2>1, <2>4
<1>4. CASE ~s.all /\ Counts(line) /\ Holds(line, s.start)
  <2>1. /\ t.start = line.to /\ (t.all <=> end <= line.to) /\ ~t.first
        /\ t.prot = IF s.first THEN line.perms ELSE s.prot \cap line.perms
    BY <1>0, <1>1, <1>4, LineRead
  <2>2. line.from <= s.start /\ s.start < line.to /\ s.start < end /\ addr <= s.start
    <3>1. line.from <= s.start /\ s.start < line.to
      BY <1>4 DEF Holds
    <3>2. addr <= s.start /\ (s.all <=> end <= s.start)
      BY DEF ScanOK
    <3> QED BY <1>2, <1>4, <3>1, <3>2
  <2>3. \A page \in addr..(t.start - 1) : page \in addr..(s.start - 1) \/ Holds(line, page)
    BY <1>1, <1>2, <2>1, <2>2 DEF Holds
  <2>4. \A page \in addr..(t.start - 1) : \E j \in DOMAIN maps :
          Counts(maps[j]) /\ Holds(maps[j], page)
    BY <1>4, <2>3 DEF ScanOK
  <2>5. ASSUME NEW p \in {"r", "w", "x"}
        PROVE  p \in t.prot <=> \A page \in addr..(t.start - 1), j \in DOMAIN maps :
                 page < end /\ Holds(maps[j], page) => p \in maps[j].perms
    <3>1. ASSUME p \in t.prot, NEW page \in addr..(t.start - 1), NEW j \in DOMAIN maps,
                 page < end, Holds(maps[j], page)
          PROVE  p \in maps[j].perms
      <4>1. CASE Holds(line, page)
        <5>1. j = k
          BY <3>1, <4>1, Apart
        <5>2. p \in line.perms
          BY <2>1, <3>1
        <5> QED BY <5>1, <5>2
      <4>2. CASE page \in addr..(s.start - 1)
        <5>1. ~s.first
          BY <1>2, <4>2 DEF ScanOK
        <5>2. p \in s.prot
          BY <2>1, <3>1, <5>1
        <5> QED BY <3>1, <4>2, <5>1, <5>2 DEF ScanOK
      <4> QED BY <2>3, <4>1, <4>2
    <3>2. ASSUME \A page \in addr..(t.start - 1), j \in DOMAIN maps :
                   page < end /\ Holds(maps[j], page) => p \in maps[j].perms
          PROVE  p \in t.prot
      <4>1. s.start \in addr..(t.start - 1)
        BY <1>1, <1>2, <2>1, <2>2
      <4>2. p \in line.perms
        BY <1>4, <2>2, <3>2, <4>1
      <4>3. ASSUME ~s.first PROVE p \in s.prot
        <5>1. \A page \in addr..(s.start - 1) : page \in addr..(t.start - 1)
          BY <1>1, <1>2, <2>1, <2>2
        <5> QED BY <3>2, <4>3, <5>1 DEF ScanOK
      <4> QED BY <2>1, <4>2, <4>3
    <3> QED BY <3>1, <3>2
  <2>6. ASSUME NEW j \in 1..k, Counts(maps[j]) PROVE ~Holds(maps[j], t.start)
    <3>1. CASE j = k
      BY <1>1, <2>1, <3>1 DEF Holds
    <3>2. CASE j # k
      <4>1. j < k /\ j \in DOMAIN maps
        BY <1>1, <3>2, Lines
      <4>2. maps[j].to <= line.from /\ maps[j].to \in Int
        BY <4>1, Lines
      <4> QED BY <1>1, <2>1, <4>2 DEF Holds
    <3> QED BY <3>1, <3>2
  <2>7. addr <= t.start
    BY <1>1, <1>2, <2>1, <2>2
  <2>8. ScanOK(maps, addr, end, t, k)
    BY <2>1, <2>4, <2>5, <2>6, <2>7 DEF ScanOK
  <2> QED BY <1>0, <2>8
<1> QED BY <1>2, <1>3, <1>4

\* The protection of one range.
LEMMA RangeKnown ==
  ASSUME NEW maps, IsMaps(maps), NEW addr \in Int, NEW len \in Nat \ {0}
  PROVE  LET on(page) == {k \in DOMAIN maps : maps[k].from <= page /\ page < maps[k].to}
             known(page) == \E k \in on(page) : maps[k].private /\ maps[k].named
             pages == addr..(addr + len - 1)
             found == MemProtect(maps, addr, len)
         IN /\ found.ok <=> \A page \in pages : known(page)
            /\ found.ok => found.prot = {p \in {"r", "w", "x"} :
                             \A page \in pages : \A k \in on(page) : p \in maps[k].perms}
<1> SUFFICES
      LET pages == addr..(addr + len - 1)
          found == MemProtect(maps, addr, len)
      IN /\ found.ok <=> \A page \in pages : \E k \in DOMAIN maps :
                           Holds(maps[k], page) /\ Counts(maps[k])
         /\ found.ok => found.prot = {p \in {"r", "w", "x"} :
                          \A page \in pages : \A k \in DOMAIN maps :
                            Holds(maps[k], page) => p \in maps[k].perms}
  BY DEF Holds, Counts
<1> DEFINE end == addr + len
           n == Len(maps)
<1>1. n \in Nat /\ DOMAIN maps = 1..n /\ maps \in Seq(Line)
  BY Lines DEF IsMaps
<1>2. end \in Int /\ addr < end /\ \A page : page \in addr..(addr + len - 1) <=>
                                     page \in Int /\ addr <= page /\ page < end
  OBVIOUS
<1>3. PICK s \in [0..n -> Scan] :
        /\ s[0] = Begun(addr)
        /\ \A k \in 1..n : s[k] = ProtStep(s[k - 1], maps[k], end)
        /\ MemProtect(maps, addr, len) = [ok |-> s[n].all,
            prot |-> IF s[n].all THEN s[n].prot ELSE {}]
  <2>1. addr + len = end /\ len \in Int
    OBVIOUS
  <2> QED BY <1>1, <2>1, Scanning
<1> HIDE DEF n, end
<1>4. \A k \in 0..n : ScanOK(maps, addr, end, s[k], k)
  <2> DEFINE S == {k \in 0..n : ScanOK(maps, addr, end, s[k], k)}
  <2>1. 0 \in S
    <3>1. ScanOK(maps, addr, end, Begun(addr), 0)
      <4>1. addr..(addr - 1) = {} /\ 1..0 = {}
        OBVIOUS
      <4> QED BY <1>2, <4>1 DEF ScanOK, Begun
    <3> QED BY <1>1, <1>3, <3>1
  <2>2. ASSUME NEW k \in 0..n, k \in S, k < n PROVE k + 1 \in S
    <3>1. k + 1 \in 1..n /\ k + 1 \in 0..n /\ (k + 1) - 1 = k
      BY <1>1, <2>2
    <3>2. s[k + 1] = ProtStep(s[k], maps[k + 1], end) /\ s[k] \in Scan
      BY <1>3, <2>2, <3>1
    <3>3. ScanOK(maps, addr, end, s[k], (k + 1) - 1) /\ k + 1 \in DOMAIN maps
      BY <1>1, <2>2, <3>1
    <3>4. ScanOK(maps, addr, end, ProtStep(s[k], maps[k + 1], end), k + 1)
      BY <1>2, <3>2, <3>3, LineScanned
    <3> QED BY <3>1, <3>2, <3>4
  <2>3. 0..n \subseteq S
    <3> HIDE DEF S
    <3>1. Climbs(S, 0, n)
      BY <1>1, <2>1, <2>2 DEF Climbs
    <3> QED BY <3>1, UpTo
  <2> QED BY <2>3
<1> DEFINE t == s[n]
           found == MemProtect(maps, addr, len)
<1>5. /\ t \in Scan /\ ScanOK(maps, addr, end, t, n)
      /\ t.start \in Int /\ t.prot \subseteq {"r", "w", "x"} /\ t.all \in BOOLEAN
      /\ found.ok = t.all /\ (t.all => found.prot = t.prot)
  <2>1. n \in 0..n
    BY <1>1
  <2>2. t \in Scan /\ ScanOK(maps, addr, end, t, n)
    BY <1>3, <1>4, <2>1
  <2>3. \A x \in Scan : x.start \in Int /\ x.prot \subseteq {"r", "w", "x"} /\ x.all \in BOOLEAN
    BY DEF Scan
  <2> QED BY <1>3, <2>2, <2>3
<1> HIDE DEF t, found
<1>6. /\ t.all <=> end <= t.start
      /\ addr <= t.start
      /\ t.first => t.start = addr
      /\ \A page \in addr..(t.start - 1) : \E j \in DOMAIN maps :
           Counts(maps[j]) /\ Holds(maps[j], page)
      /\ ~t.first => \A p \in {"r", "w", "x"} :
           p \in t.prot <=> \A page \in addr..(t.start - 1), j \in DOMAIN maps :
                              page < end /\ Holds(maps[j], page) => p \in maps[j].perms
      /\ ~t.all => \A j \in DOMAIN maps : Counts(maps[j]) => ~Holds(maps[j], t.start)
  BY <1>1, <1>5 DEF ScanOK
<1>7. CASE t.all
  <2>1. \A page \in addr..(addr + len - 1) : page \in addr..(t.start - 1) /\ page < end
    BY <1>2, <1>5, <1>6, <1>7
  <2>2. ASSUME NEW page \in addr..(t.start - 1), page < end PROVE page \in addr..(addr + len - 1)
    <3>1. page \in Int /\ addr <= page
      BY <1>5
    <3> QED BY <1>2, <2>2, <3>1
  <2>3. ~t.first
    BY <1>2, <1>5, <1>6, <1>7
  <2>4. found.prot = {p \in {"r", "w", "x"} : \A page \in addr..(addr + len - 1) :
                        \A k \in DOMAIN maps : Holds(maps[k], page) => p \in maps[k].perms}
    <3>1. ASSUME NEW p \in {"r", "w", "x"}
          PROVE  p \in t.prot <=> \A page \in addr..(addr + len - 1) :
                   \A k \in DOMAIN maps : Holds(maps[k], page) => p \in maps[k].perms
      BY <1>6, <2>1, <2>2, <2>3
    <3> QED BY <1>5, <1>7, <3>1
  <2>5. \A page \in addr..(addr + len - 1) : \E k \in DOMAIN maps :
          Holds(maps[k], page) /\ Counts(maps[k])
    BY <1>6, <2>1
  <2> QED BY <1>5, <1>7, <2>4, <2>5 DEF found
<1>8. CASE ~t.all
  <2>1. t.start \in addr..(addr + len - 1)
    BY <1>2, <1>5, <1>6, <1>8
  <2>2. ~\E k \in DOMAIN maps : Holds(maps[k], t.start) /\ Counts(maps[k])
    BY <1>6, <1>8
  <2> QED BY <1>5, <1>8, <2>1, <2>2 DEF found
<1> QED BY <1>5, <1>7, <1>8

-----------------------------------------------------------------------------
(* The inputs *)

\* What a state is given stays what it is; only windows of instructions grow.
GivenInv ==
  \/ input = Nothing
  \/ input.tag = "arm64"
  \/ \E p \in Packings : input = [tag |-> "packed", pack |-> p]
  \/ \E s \in Segments : input = [tag |-> "dyn", segment |-> s]
  \/ \E lines \in Mappings : input = [tag |-> "maps", lines |-> lines]
  \/ \E l \in Libraries : input = [tag |-> "table", lib |-> l]

LEMMA GivenInit == Init => GivenInv
BY DEF Init, GivenInv, Begun64

LEMMA GivenStep == GivenInv /\ [Next]_vars => GivenInv'
<1> SUFFICES ASSUME GivenInv, [Next]_vars PROVE GivenInv'
  OBVIOUS
<1>1. CASE UNCHANGED input
  BY <1>1 DEF GivenInv
<1>2. ASSUME NEW kind, NEW label, Append64(kind, label) PROVE GivenInv'
  <2>1. input.tag = "arm64" /\ input'.tag = input.tag
    BY <1>2 DEF Append64
  <2> QED BY <2>1 DEF GivenInv
<1>3. QED
  BY <1>1, <1>2 DEF Next, Append32, vars

LEMMA Given ==
  ASSUME GivenInv
  PROVE  /\ input.tag = "maps" => input.lines \in Mappings
         /\ input.tag = "dyn" => input.segment \in Segments
         /\ input.tag = "table" => input.lib \in Libraries
         /\ input.tag = "packed" => input.pack \in Packings
BY DEF GivenInv, Nothing

\* The protection of a range of pages is known exactly when private file mappings cover
\* it, however the pages are spread over the lines of the maps.
THEOREM Protection == Spec => []ProtectionMet
<1>1. GivenInv => ProtectionMet
  <2> SUFFICES ASSUME GivenInv, input.tag = "maps", NEW addr \in Addresses, NEW len \in Sizes
               PROVE  LET maps == input.lines
                          on(page) == {k \in DOMAIN maps : maps[k].from <= page
                                              /\ page < maps[k].to}
                          known(page) == \E k \in on(page) : maps[k].private /\ maps[k].named
                          pages == addr..(addr + len - 1)
                          found == MemProtect(maps, addr, len)
                      IN /\ found.ok <=> \A page \in pages : known(page)
                         /\ found.ok => found.prot = {p \in {"r", "w", "x"} :
                              \A page \in pages : \A k \in on(page) : p \in maps[k].perms}
    BY DEF ProtectionMet
  <2>1. IsMaps(input.lines) /\ addr \in Int /\ len \in Nat \ {0}
    BY Given, MapsAssumption DEF MapsAssumption
  <2> QED BY <2>1, RangeKnown
<1> QED BY <1>1, GivenInit, GivenStep, PTL DEF Spec

-----------------------------------------------------------------------------
(* The dynamic segment *)

Fields == {"STRTAB", "SYMTAB", "JMPREL", "REL", "ANDROID_REL"}
Elf == [ok : BOOLEAN, STRTAB : Nat, SYMTAB : Nat, JMPREL : Nat, REL : Nat, ANDROID_REL : Nat,
        buckets : Nat, rela : BOOLEAN, gnu : BOOLEAN]
Entry == [tag : AddressTags \cup {"PLTREL"}, val : Nat]

\* One entry, by what it gives.
ReadBy(t, elf, e) ==
  /\ t \in Elf /\ (t.ok <=> elf.ok)
  /\ e.tag \in AddressTags \cup {"PLTREL"} /\ e.val \in Nat
  /\ \A f \in Fields : t[f] = IF e.tag = f THEN e.val ELSE elf[f]
  /\ e.tag = "PLTREL" => (t.rela <=> e.val = Rela)
  /\ e.tag # "PLTREL" => (t.rela <=> elf.rela)
  /\ t.gnu <=> (elf.gnu \/ e.tag = "GNU_HASH")
  /\ e.tag = "GNU_HASH" \/ (e.tag = "HASH" /\ ~elf.gnu) => t.buckets = e.val
  /\ ~(e.tag = "GNU_HASH" \/ (e.tag = "HASH" /\ ~elf.gnu)) => t.buckets = elf.buckets

LEMMA EntryRead ==
  ASSUME NEW elf, NEW e, elf \in Elf, e \in Entry
  PROVE  ReadBy(TakeEntry(elf, e), elf, e)
<1>1. e.tag \in AddressTags \cup {"PLTREL"} /\ e.val \in Nat
  BY DEF Entry
<1>2. CASE e.tag = "PLTREL"
  BY <1>1, <1>2 DEF TakeEntry, Elf, Fields, AddressTags, ReadBy
<1>3. CASE e.tag = "HASH"
  BY <1>1, <1>3 DEF TakeEntry, Elf, Fields, AddressTags, ReadBy
<1>4. CASE e.tag = "GNU_HASH"
  BY <1>1, <1>4 DEF TakeEntry, Elf, Fields, AddressTags, ReadBy
<1>5. CASE e.tag \in Fields
  BY <1>1, <1>5 DEF TakeEntry, Elf, Fields, AddressTags, ReadBy
<1> QED BY <1>1, <1>2, <1>3, <1>4, <1>5 DEF Fields, AddressTags

\* What the first k entries have given.
ElfOK(es, k, elf) ==
  /\ ~elf.ok
  /\ \A i \in 1..k : es[i].tag \in Fields => elf[es[i].tag] = es[i].val
  /\ \A f \in Fields : (\A i \in 1..k : es[i].tag # f) => elf[f] = 0
  /\ elf.rela <=> \E i \in 1..k : es[i].tag = "PLTREL" /\ es[i].val = Rela
  /\ elf.gnu <=> \E i \in 1..k : es[i].tag = "GNU_HASH"
  /\ \A i \in 1..k : es[i].tag = "GNU_HASH" => elf.buckets = es[i].val
  /\ ~elf.gnu => \A i \in 1..k : es[i].tag = "HASH" => elf.buckets = es[i].val
  /\ (\A i \in 1..k : es[i].tag \notin {"HASH", "GNU_HASH"}) => elf.buckets = 0

LEMMA EntryTaken ==
  ASSUME NEW es \in Seq(Entry), \A i, j \in DOMAIN es : es[i].tag = es[j].tag => i = j,
         NEW k \in DOMAIN es, NEW elf \in Elf, ElfOK(es, k - 1, elf)
  PROVE  ElfOK(es, k, TakeEntry(elf, es[k]))
<1>0. PICK t : t = TakeEntry(elf, es[k])
  OBVIOUS
<1>1. /\ k \in Nat /\ es[k] \in Entry
      /\ \A i \in 1..k : i \in DOMAIN es /\ (i = k \/ i \in 1..k - 1)
      /\ \A i \in 1..k - 1 : i \in 1..k /\ i # k
  OBVIOUS
<1>2. \A i \in 1..k - 1 : es[i].tag # es[k].tag
  BY <1>1
<1>3. ReadBy(t, elf, es[k])
  BY <1>0, <1>1, EntryRead
<1>4. \A i \in 1..k : es[i].tag \in Fields => t[es[i].tag] = es[i].val
  BY <1>1, <1>2, <1>3 DEF ElfOK, ReadBy
<1>5. \A f \in Fields : (\A i \in 1..k : es[i].tag # f) => t[f] = 0
  BY <1>1, <1>3 DEF ElfOK, ReadBy
<1>6. t.rela <=> \E i \in 1..k : es[i].tag = "PLTREL" /\ es[i].val = Rela
  <2>1. elf.rela <=> \E i \in 1..k - 1 : es[i].tag = "PLTREL" /\ es[i].val = Rela
    BY DEF ElfOK
  <2>2. CASE es[k].tag = "PLTREL"
    <3>1. t.rela <=> es[k].val = Rela
      BY <1>3, <2>2 DEF ReadBy
    <3>2. k \in 1..k
      BY <1>1
    <3> QED BY <1>1, <1>2, <2>2, <3>1, <3>2
  <2>3. CASE es[k].tag # "PLTREL"
    <3>1. t.rela <=> elf.rela
      BY <1>3, <2>3 DEF ReadBy
    <3> QED BY <1>1, <2>1, <2>3, <3>1
  <2> QED BY <2>2, <2>3
<1>7. t.gnu <=> \E i \in 1..k : es[i].tag = "GNU_HASH"
  BY <1>1, <1>3 DEF ElfOK, ReadBy
<1>8. \A i \in 1..k : es[i].tag = "GNU_HASH" => t.buckets = es[i].val
  BY <1>1, <1>2, <1>3 DEF ElfOK, ReadBy
<1>9. ~t.gnu => \A i \in 1..k : es[i].tag = "HASH" => t.buckets = es[i].val
  BY <1>1, <1>2, <1>3 DEF ElfOK, ReadBy
<1>10. (\A i \in 1..k : es[i].tag \notin {"HASH", "GNU_HASH"}) => t.buckets = 0
  BY <1>1, <1>3 DEF ElfOK, ReadBy
<1>11. ElfOK(es, k, t)
  BY <1>3, <1>4, <1>5, <1>6, <1>7, <1>8, <1>9, <1>10 DEF ElfOK, ReadBy
<1> QED BY <1>0, <1>11

\* Two sequences put together.
Joined(c, s, t) == /\ Len(c) = Len(s) + Len(t) /\ Len(s) \in Nat /\ Len(t) \in Nat
                   /\ \A i \in 1..Len(s) : c[i] = s[i]
                   /\ \A i \in 1..Len(t) : c[Len(s) + i] = t[i]

LEMMA Joining ==
  ASSUME NEW E, NEW s, NEW t, s \in Seq(E), t \in Seq(E)
  PROVE  s \o t \in Seq(E) /\ Joined(s \o t, s, t)
<1>1. Len(s) \in Nat /\ Len(t) \in Nat
  OBVIOUS
<1>2. s \o t \in Seq(E) /\ Len(s \o t) = Len(s) + Len(t)
  OBVIOUS
<1>3. \A i \in 1..Len(s) : (s \o t)[i] = s[i]
  OBVIOUS
<1>4. \A i \in 1..Len(t) : (s \o t)[Len(s) + i] = t[i]
  <2> SUFFICES ASSUME NEW i \in 1..Len(t) PROVE (s \o t)[Len(s) + i] = t[i]
    OBVIOUS
  <2>1. Len(s) + i \in 1..Len(s) + Len(t) /\ ~(Len(s) + i <= Len(s)) /\ (Len(s) + i) - Len(s) = i
    BY <1>1
  <2> QED BY <2>1
<1> QED BY <1>1, <1>2, <1>3, <1>4 DEF Joined

\* The entries in front of DT_NULL.
LEMMA EntriesOf ==
  ASSUME NEW s, s.entries \in Seq(Entry),
         s.behind \in Seq([tag : AddressTags \cup {"PLTREL", "NULL"}, val : Nat])
  PROVE  Entries(DynOf(s)) = s.entries
<1>0. PICK E : E = [tag : AddressTags \cup {"PLTREL", "NULL"}, val : Nat]
  OBVIOUS
<1>1. PICK es : es = s.entries
  OBVIOUS
<1>2. PICK behind : behind = s.behind
  OBVIOUS
<1>3. PICK null : null = <<[tag |-> "NULL", val |-> 0]>>
  OBVIOUS
<1>4. PICK dyn : dyn = es \o null \o behind
  OBVIOUS
<1>5. es \in Seq(Entry) /\ Entry \subseteq E
  BY <1>0, <1>1 DEF Entry
<1>6. es \in Seq(E) /\ behind \in Seq(E)
  <2>1. behind \in Seq(E)
    BY <1>0, <1>2
  <2> QED BY <1>5, <2>1, SeqMonotonic
<1>7. null \in Seq(E) /\ Len(null) = 1 /\ null[1].tag = "NULL"
  <2>1. [tag |-> "NULL", val |-> 0] \in E
    BY <1>0
  <2> QED BY <1>3, <2>1
<1>8. /\ dyn \in Seq(E) /\ Len(dyn) = Len(es) + (1 + Len(behind))
      /\ \A i \in 1..Len(es) : dyn[i] = es[i]
      /\ dyn[Len(es) + 1] = null[1]
  <2>1. PICK front : front = es \o null
    OBVIOUS
  <2>2. front \in Seq(E) /\ Joined(front, es, null)
    BY <1>6, <1>7, <2>1, Joining
  <2>3. dyn = front \o behind
    BY <1>4, <2>1
  <2>4. dyn \in Seq(E) /\ Joined(dyn, front, behind)
    BY <1>6, <2>2, <2>3, Joining
  <2>5. /\ Len(es) \in Nat /\ Len(behind) \in Nat /\ Len(front) = Len(es) + 1
        /\ Len(dyn) = Len(front) + Len(behind)
        /\ \A i \in 1..Len(es) : front[i] = es[i]
        /\ \A i \in 1..Len(front) : dyn[i] = front[i]
        /\ front[Len(es) + 1] = null[1]
    BY <1>7, <2>2, <2>4 DEF Joined
  <2>6. \A i \in 1..Len(es) + 1 : i \in 1..Len(front)
    BY <2>5
  <2>7. \A i \in 1..Len(es) : i \in 1..Len(front)
    BY <2>5
  <2>8. Len(es) + 1 \in 1..Len(front)
    BY <2>5
  <2> QED BY <2>4, <2>5, <2>7, <2>8
<1>9. Len(es) \in Nat /\ Len(behind) \in Nat
  BY <1>6, LenProperties
<1>10. \A i \in 1..Len(es) : dyn[i].tag # "NULL"
  <2>1. \A e \in Entry : e.tag # "NULL"
    BY DEF Entry, AddressTags
  <2>2. \A i \in 1..Len(es) : es[i] \in Entry
    BY <1>5, ElementOfSeq
  <2> QED BY <1>8, <2>1, <2>2
<1>11. PICK nulls : nulls = {i \in 1..Len(dyn) : dyn[i].tag = "NULL"}
  OBVIOUS
<1>12. Len(es) + 1 \in nulls /\ nulls \subseteq Int /\ \A i \in nulls : Len(es) + 1 <= i
  BY <1>7, <1>8, <1>9, <1>10, <1>11
<1>13. PICK m : m = CHOOSE i \in nulls : \A j \in nulls : i <= j
  OBVIOUS
<1>14. m = Len(es) + 1
  <2>1. m \in nulls /\ \A j \in nulls : m <= j
    BY <1>12, <1>13
  <2> QED BY <1>9, <1>12, <2>1
<1>15. DynOf(s) = dyn
  BY <1>1, <1>2, <1>3, <1>4 DEF DynOf
<1>16. Entries(dyn) = SubSeq(dyn, 1, Len(es))
  <2>1. Entries(dyn) = SubSeq(dyn, 1, m - 1)
    BY <1>11, <1>12, <1>13 DEF Entries
  <2>2. m - 1 = Len(es)
    BY <1>9, <1>14
  <2> QED BY <2>1, <2>2
<1>17. PICK sub : sub = SubSeq(dyn, 1, Len(es))
  OBVIOUS
<1>18. sub \in Seq(E) /\ Len(sub) = Len(es) /\ \A i \in 1..Len(es) : sub[i] = es[i]
  <2>1. \A i \in 1..Len(es) : dyn[i] \in E
    BY <1>8, <1>9, ElementOfSeq
  <2>2. /\ sub \in Seq(E) /\ Len(sub) = IF 1 <= Len(es) THEN Len(es) - 1 + 1 ELSE 0
        /\ \A i \in 1..Len(es) - 1 + 1 : sub[i] = dyn[1 + i - 1]
    BY <1>9, <1>17, <2>1, SubSeqProperties
  <2>3. Len(es) - 1 + 1 = Len(es) /\ \A i \in 1..Len(es) : 1 + i - 1 = i
    BY <1>9
  <2>4. Len(sub) = Len(es)
    BY <1>9, <2>2
  <2> QED BY <1>8, <2>2, <2>3, <2>4
<1>19. sub = es
  BY <1>6, <1>18, SeqEqual
<1> QED BY <1>1, <1>15, <1>16, <1>17, <1>19

\* The library after each entry.
ElfGot(es, base, elf, got) ==
  got = IF \/ \E i \in 1..Len(es) :
                /\ es[i].tag \in AddressTags /\ es[i].val < base
                /\ es[i].tag = "HASH" => \A j \in 1..(i - 1) : es[j].tag # "GNU_HASH"
           \/ 0 \in {elf.STRTAB, elf.SYMTAB, elf.buckets}
        THEN NoElf ELSE [elf EXCEPT !.ok = TRUE]

LEMMA Taking ==
  ASSUME NEW s, NEW es, es = s.entries, es \in Seq(Entry), NEW base,
         s.behind \in Seq([tag : AddressTags \cup {"PLTREL", "NULL"}, val : Nat]),
         \A i, j \in DOMAIN es : es[i].tag = es[j].tag => i = j
  PROVE  \E elf \in Elf : ElfOK(es, Len(es), elf) /\ ElfGot(es, base, elf, ElfInit(DynOf(s), base))
<1> DEFINE n == Len(es)
           Is(f) == f = [k \in 0..n |-> IF k = 0 THEN NoElf ELSE TakeEntry(f[k - 1], es[k])]
           c == CHOOSE f : Is(f)
           g == [k \in 1..n |-> [x \in Elf |-> TakeEntry(x, es[k])]]
<1>1. ElfInit(DynOf(s), base) =
        IF \/ \E i \in 1..n :
                /\ es[i].tag \in AddressTags /\ es[i].val < base
                /\ es[i].tag = "HASH" => \A j \in 1..(i - 1) : es[j].tag # "GNU_HASH"
           \/ 0 \in {c[n].STRTAB, c[n].SYMTAB, c[n].buckets}
        THEN NoElf ELSE [c[n] EXCEPT !.ok = TRUE]
  <2>1. Entries(DynOf(s)) = es
    BY EntriesOf
  <2> QED BY <2>1 DEF ElfInit
<1>2. n \in Nat /\ \A k \in 1..n : es[k] \in Entry /\ k \in DOMAIN es
  OBVIOUS
<1> HIDE DEF n
<1>3. NoElf \in Elf
  BY DEF NoElf, Elf
<1>4. g \in [1..n -> [Elf -> Elf]]
  <2>1. \A k \in 1..n : \A x \in Elf : TakeEntry(x, es[k]) \in Elf
    BY <1>2, EntryRead DEF ReadBy
  <2> QED BY <2>1
<1>5. \A k \in 1..n : \A x \in Elf : g[k][x] = TakeEntry(x, es[k])
  OBVIOUS
<1> HIDE DEF g
<1>6. AreSteps(0, n, Elf, NoElf, g)
  BY <1>2, <1>3, <1>4 DEF AreSteps
<1>7. PICK f : Iterates(f, 0, n, Elf, NoElf, g)
  BY <1>6, Iterated
<1>8. ASSUME NEW k \in 1..n PROVE f[k] = TakeEntry(f[k - 1], es[k])
  <2>1. k - 1 \in 0..n /\ k \in 0 + 1..n
    BY <1>2
  <2>2. f[k - 1] \in Elf /\ f[k] = g[k][f[k - 1]]
    BY <1>7, <2>1 DEF Iterates
  <2> QED BY <1>5, <2>2
<1>9. Is(f)
  <2>1. ASSUME NEW k \in 0..n, k # 0 PROVE f[k] = TakeEntry(f[k - 1], es[k])
    <3>1. k \in 1..n
      BY <1>2, <2>1
    <3> QED BY <1>8, <3>1
  <2>2. f \in [0..n -> Elf] /\ f[0] = NoElf
    BY <1>7 DEF Iterates
  <2> QED BY <2>1, <2>2
<1>10. Is(c)
  <2> HIDE DEF Is
  <2> QED BY <1>9
<1> HIDE DEF c
<1>11. Follows(c, 0, n, Elf, NoElf, g)
  <2>1. c = [k \in 0..n |-> c[k]] /\ c[0] = NoElf
    BY <1>2, <1>10
  <2>2. ASSUME NEW k \in 0 + 1..n, c[k - 1] \in Elf PROVE c[k] = g[k][c[k - 1]]
    <3>1. k \in 0..n /\ k # 0 /\ k \in 1..n
      BY <1>2
    <3>2. c[k] = TakeEntry(c[k - 1], es[k])
      BY <1>10, <3>1
    <3> QED BY <1>5, <2>2, <3>1, <3>2
  <2> QED BY <2>1, <2>2 DEF Follows
<1>12. Iterates(c, 0, n, Elf, NoElf, g)
  BY <1>6, <1>11, OneIteration
<1>13. ASSUME NEW k \in 1..n PROVE c[k - 1] \in Elf /\ c[k] = TakeEntry(c[k - 1], es[k])
  <2>1. k - 1 \in 0..n /\ k \in 0 + 1..n
    BY <1>2
  <2>2. c[k - 1] \in Elf /\ c[k] = g[k][c[k - 1]]
    BY <1>12, <2>1 DEF Iterates
  <2> QED BY <1>5, <2>2
<1>14. 0..n \subseteq {k \in 0..n : ElfOK(es, k, c[k])}
  <2> DEFINE S == {k \in 0..n : ElfOK(es, k, c[k])}
  <2>1. 0 \in S
    <3>1. c[0] = NoElf /\ 1..0 = {} /\ 0 \in 0..n
      BY <1>2, <1>12 DEF Iterates
    <3>2. ElfOK(es, 0, NoElf)
      BY <3>1 DEF ElfOK, NoElf, Fields
    <3> QED BY <3>1, <3>2
  <2>2. ASSUME NEW k \in 0..n, k \in S, k < n PROVE k + 1 \in S
    <3>1. k + 1 \in 1..n /\ (k + 1) - 1 = k /\ k + 1 \in 0..n
      BY <1>2, <2>2
    <3>2. c[(k + 1) - 1] \in Elf /\ c[k + 1] = TakeEntry(c[(k + 1) - 1], es[k + 1])
      BY <1>13, <3>1
    <3>3. ElfOK(es, (k + 1) - 1, c[(k + 1) - 1])
      BY <2>2, <3>1
    <3>4. k + 1 \in DOMAIN es
      BY <1>2, <3>1
    <3>5. ElfOK(es, k + 1, TakeEntry(c[(k + 1) - 1], es[k + 1]))
      BY <3>2, <3>3, <3>4, EntryTaken
    <3> QED BY <3>1, <3>2, <3>5
  <2> HIDE DEF S
  <2>3. Climbs(S, 0, n)
    BY <1>2, <2>1, <2>2 DEF Climbs
  <2>4. 0..n \subseteq S
    BY <2>3, UpTo
  <2> QED BY <2>4 DEF S
<1>15. n \in 0..n /\ c[n] \in Elf
  BY <1>2, <1>12 DEF Iterates
<1>16. ElfOK(es, n, c[n])
  BY <1>14, <1>15
<1> QED BY <1>1, <1>15, <1>16 DEF n, ElfGot

\* What a library is read to.
LEMMA ValGiven ==
  ASSUME NEW es, \A i, j \in DOMAIN es : es[i].tag = es[j].tag => i = j,
         NEW i, i \in DOMAIN es
  PROVE  es[i].tag \in TagsOf(es) /\ ValOf(es, es[i].tag) = es[i].val
<1>1. es[i].tag \in TagsOf(es)
  BY DEF TagsOf
<1>2. PICK j : j = CHOOSE k \in DOMAIN es : es[k].tag = es[i].tag
  OBVIOUS
<1>3. j \in DOMAIN es /\ es[j].tag = es[i].tag
  BY <1>2
<1>4. j = i
  BY <1>3
<1> QED BY <1>1, <1>2, <1>4 DEF ValOf

LEMMA ElfTaken ==
  ASSUME NEW es, es \in Seq(Entry), \A i, j \in DOMAIN es : es[i].tag = es[j].tag => i = j,
         NEW elf, elf \in Elf, ElfOK(es, Len(es), elf)
  PROVE  /\ [elf EXCEPT !.ok = TRUE] = ReadTo(es)
         /\ \A f \in Fields : elf[f] = ValOf(es, f)
         /\ elf.buckets = ValOf(es, IF "GNU_HASH" \in TagsOf(es) THEN "GNU_HASH" ELSE "HASH")
<1>1. DOMAIN es = 1..Len(es)
  OBVIOUS
<1>2. \A i \in 1..Len(es) : es[i].tag \in TagsOf(es) /\ ValOf(es, es[i].tag) = es[i].val
  BY <1>1, ValGiven
<1>3. \A tag \in TagsOf(es) : \E i \in 1..Len(es) : es[i].tag = tag
  BY <1>1 DEF TagsOf
<1>4. \A tag : tag \notin TagsOf(es) => ValOf(es, tag) = 0
  BY DEF ValOf
<1>5. ASSUME NEW f \in Fields PROVE elf[f] = ValOf(es, f)
  <2>1. CASE f \in TagsOf(es)
    <3>1. PICK i \in 1..Len(es) : es[i].tag = f
      BY <1>3, <2>1
    <3>2. elf[es[i].tag] = es[i].val
      BY <1>5, <3>1 DEF ElfOK
    <3> QED BY <1>2, <3>1, <3>2
  <2>2. CASE f \notin TagsOf(es)
    <3>1. elf[f] = 0
      BY <1>2, <1>5, <2>2 DEF ElfOK
    <3> QED BY <1>4, <2>2, <3>1
  <2> QED BY <2>1, <2>2
<1>6. elf.gnu <=> "GNU_HASH" \in TagsOf(es)
  <2>1. elf.gnu <=> \E i \in 1..Len(es) : es[i].tag = "GNU_HASH"
    BY DEF ElfOK
  <2> QED BY <1>2, <1>3, <2>1
<1>7. elf.rela <=> ValOf(es, "PLTREL") = Rela
  <2>1. elf.rela <=> \E i \in 1..Len(es) : es[i].tag = "PLTREL" /\ es[i].val = Rela
    BY DEF ElfOK
  <2>2. CASE "PLTREL" \in TagsOf(es)
    <3>1. PICK i \in 1..Len(es) : es[i].tag = "PLTREL"
      BY <1>3, <2>2
    <3>2. ValOf(es, "PLTREL") = es[i].val
      BY <1>2, <3>1
    <3> QED BY <1>2, <2>1, <3>1, <3>2
  <2>3. CASE "PLTREL" \notin TagsOf(es)
    <3>1. ValOf(es, "PLTREL") = 0 /\ Rela # 0
      BY <1>4, <2>3 DEF Rela
    <3> QED BY <1>2, <2>1, <2>3, <3>1
  <2> QED BY <2>2, <2>3
<1>8. elf.buckets = ValOf(es, IF "GNU_HASH" \in TagsOf(es) THEN "GNU_HASH" ELSE "HASH")
  <2>1. CASE "GNU_HASH" \in TagsOf(es)
    <3>1. PICK i \in 1..Len(es) : es[i].tag = "GNU_HASH"
      BY <1>3, <2>1
    <3>2. elf.buckets = es[i].val
      BY <3>1 DEF ElfOK
    <3>3. ValOf(es, "GNU_HASH") = es[i].val
      BY <1>2, <3>1
    <3> QED BY <2>1, <3>2, <3>3
  <2>2. CASE "GNU_HASH" \notin TagsOf(es) /\ "HASH" \in TagsOf(es)
    <3>1. PICK i \in 1..Len(es) : es[i].tag = "HASH"
      BY <1>3, <2>2
    <3>2. elf.buckets = es[i].val
      BY <1>6, <2>2, <3>1 DEF ElfOK
    <3>3. ValOf(es, "HASH") = es[i].val
      BY <1>2, <3>1
    <3> QED BY <2>2, <3>2, <3>3
  <2>3. CASE "GNU_HASH" \notin TagsOf(es) /\ "HASH" \notin TagsOf(es)
    <3>1. \A i \in 1..Len(es) : es[i].tag \notin {"HASH", "GNU_HASH"}
      BY <1>2, <2>3
    <3>2. elf.buckets = 0
      BY <3>1 DEF ElfOK
    <3> QED BY <1>4, <2>3, <3>2
  <2> QED BY <2>1, <2>2, <2>3
<1>9. PICK t : t = [elf EXCEPT !.ok = TRUE]
  OBVIOUS
<1>10. t = [ok |-> TRUE, STRTAB |-> elf.STRTAB, SYMTAB |-> elf.SYMTAB, JMPREL |-> elf.JMPREL,
            REL |-> elf.REL, ANDROID_REL |-> elf.ANDROID_REL, buckets |-> elf.buckets,
            rela |-> elf.rela, gnu |-> elf.gnu]
  BY <1>9 DEF Elf
<1>11. /\ elf.STRTAB = ValOf(es, "STRTAB") /\ elf.SYMTAB = ValOf(es, "SYMTAB")
       /\ elf.JMPREL = ValOf(es, "JMPREL") /\ elf.REL = ValOf(es, "REL")
       /\ elf.ANDROID_REL = ValOf(es, "ANDROID_REL")
  BY <1>5 DEF Fields
<1>12. elf.rela = (ValOf(es, "PLTREL") = Rela) /\ elf.gnu = ("GNU_HASH" \in TagsOf(es))
  <2>1. elf.rela \in BOOLEAN /\ elf.gnu \in BOOLEAN
    BY DEF Elf
  <2> QED BY <1>6, <1>7, <2>1
<1>13. t = ReadTo(es)
  BY <1>8, <1>10, <1>11, <1>12 DEF ReadTo
<1> QED BY <1>5, <1>8, <1>9, <1>13

LEMMA DynRead ==
  ASSUME NEW s, NEW es, es = s.entries, es \in Seq(Entry),
         NEW base, base = s.base, base \in Nat \ {0},
         s.behind \in Seq([tag : AddressTags \cup {"PLTREL", "NULL"}, val : Nat]),
         \A i, j \in DOMAIN es : es[i].tag = es[j].tag => i = j,
         \A i \in DOMAIN es : es[i].tag = "HASH" => es[i].val >= base
  PROVE  ElfInit(DynOf(s), base) = IF WholeOf(es, base) THEN ReadTo(es) ELSE NoElf
<1>0. PICK elf \in Elf : ElfOK(es, Len(es), elf) /\ ElfGot(es, base, elf, ElfInit(DynOf(s), base))
  BY Taking
<1>1. ElfInit(DynOf(s), base) =
        IF \/ \E i \in 1..Len(es) :
                /\ es[i].tag \in AddressTags /\ es[i].val < base
                /\ es[i].tag = "HASH" => \A j \in 1..(i - 1) : es[j].tag # "GNU_HASH"
           \/ 0 \in {elf.STRTAB, elf.SYMTAB, elf.buckets}
        THEN NoElf ELSE [elf EXCEPT !.ok = TRUE]
  BY <1>0 DEF ElfGot
<1>2. /\ [elf EXCEPT !.ok = TRUE] = ReadTo(es)
      /\ elf.STRTAB = ValOf(es, "STRTAB") /\ elf.SYMTAB = ValOf(es, "SYMTAB")
      /\ elf.buckets = ValOf(es, IF "GNU_HASH" \in TagsOf(es) THEN "GNU_HASH" ELSE "HASH")
  BY <1>0, ElfTaken DEF Fields
<1>3. /\ DOMAIN es = 1..Len(es)
      /\ \A i \in 1..Len(es) : es[i].tag \in TagsOf(es) /\ ValOf(es, es[i].tag) = es[i].val
      /\ \A i \in 1..Len(es) : es[i].val \in Nat /\ (es[i].tag = "HASH" => es[i].val >= base)
      /\ \A tag \in TagsOf(es) : \E i \in 1..Len(es) : es[i].tag = tag
  <2>1. DOMAIN es = 1..Len(es)
    OBVIOUS
  <2>2. \A i \in 1..Len(es) : es[i].val \in Nat
    <3>1. \A i \in 1..Len(es) : es[i] \in Entry
      OBVIOUS
    <3> QED BY <3>1 DEF Entry
  <2> QED BY <2>1, <2>2, ValGiven DEF TagsOf
<1>4. ASSUME WholeOf(es, base) PROVE ElfInit(DynOf(s), base) = ReadTo(es)
  <2>1. \A i \in 1..Len(es) : es[i].tag \in AddressTags => es[i].val >= base
    <3>1. \A tag \in TagsOf(es) \cap AddressTags : ValOf(es, tag) >= base
      BY <1>4 DEF WholeOf
    <3> SUFFICES ASSUME NEW i \in 1..Len(es), es[i].tag \in AddressTags PROVE es[i].val >= base
      OBVIOUS
    <3>2. es[i].tag \in TagsOf(es) \cap AddressTags /\ ValOf(es, es[i].tag) = es[i].val
      BY <1>3
    <3>3. ValOf(es, es[i].tag) >= base
      BY <3>1, <3>2
    <3> QED BY <3>2, <3>3
  <2>2. ~\E i \in 1..Len(es) : es[i].tag \in AddressTags /\ es[i].val < base
    BY <1>3, <2>1
  <2>3. \A tag \in TagsOf(es) \cap AddressTags : ValOf(es, tag) # 0
    <3>1. \A tag \in TagsOf(es) \cap AddressTags : ValOf(es, tag) >= base
      BY <1>4 DEF WholeOf
    <3>2. ~(0 >= base)
      OBVIOUS
    <3> QED BY <3>1, <3>2
  <2>4. elf.STRTAB # 0 /\ elf.SYMTAB # 0
    BY <1>2, <1>4, <2>3 DEF WholeOf, AddressTags
  <2>5. elf.buckets # 0
    BY <1>2, <1>4, <2>3 DEF WholeOf, AddressTags
  <2> QED BY <1>1, <1>2, <2>2, <2>4, <2>5
<1>5. ASSUME ~WholeOf(es, base) PROVE ElfInit(DynOf(s), base) = NoElf
  <2>1. CASE ~({"STRTAB", "SYMTAB"} \subseteq TagsOf(es))
    <3>1. elf.STRTAB = 0 \/ elf.SYMTAB = 0
      BY <1>2, <2>1 DEF ValOf
    <3> QED BY <1>1, <3>1
  <2>2. CASE {"HASH", "GNU_HASH"} \cap TagsOf(es) = {}
    <3>1. elf.buckets = 0
      BY <1>2, <2>2 DEF ValOf
    <3> QED BY <1>1, <3>1
  <2>3. CASE \E tag \in TagsOf(es) \cap AddressTags : ~(ValOf(es, tag) >= base)
    <3>1. PICK tag \in TagsOf(es) \cap AddressTags : ~(ValOf(es, tag) >= base)
      BY <2>3
    <3>2. PICK i \in 1..Len(es) : es[i].tag = tag
      BY <1>3, <3>1
    <3>3. ~(es[i].val >= base) /\ es[i].tag \in AddressTags
      BY <1>3, <3>1, <3>2
    <3>4. es[i].val < base /\ es[i].tag # "HASH"
      <4>1. es[i].val \in Nat /\ (es[i].tag = "HASH" => es[i].val >= base)
        BY <1>3
      <4> QED BY <3>3, <4>1
    <3>5. \E k \in 1..Len(es) :
            /\ es[k].tag \in AddressTags /\ es[k].val < base
            /\ es[k].tag = "HASH" => \A j \in 1..(k - 1) : es[j].tag # "GNU_HASH"
      BY <3>3, <3>4
    <3> QED BY <1>1, <3>5
  <2> QED BY <1>5, <2>1, <2>2, <2>3 DEF WholeOf
<1> QED BY <1>4, <1>5

\* Whatever the order of its dynamic entries and whatever follows DT_NULL, a library is
\* read the same, and refused unless it is whole (xh_elf_init).
THEOREM DynamicSegment == Spec => []DynOrder
<1>1. GivenInv => DynOrder
  <2> SUFFICES ASSUME GivenInv, input.tag = "dyn" PROVE DynOrder
    BY DEF DynOrder
  <2>1. PICK s : s = input.segment
    OBVIOUS
  <2>2. PICK es : es = s.entries
    OBVIOUS
  <2>3. s \in Segments
    BY <2>1, Given
  <2>4. /\ es \in Seq(Entry) /\ s.base \in Nat \ {0}
        /\ \A i, j \in DOMAIN es : es[i].tag = es[j].tag => i = j
        /\ \A i \in DOMAIN es : es[i].tag = "HASH" => es[i].val >= s.base
        /\ s.behind \in Seq([tag : AddressTags \cup {"PLTREL", "NULL"}, val : Nat])
    BY <2>2, <2>3, SegmentAssumption DEF SegmentAssumption, Entry
  <2>5. ElfInit(DynOf(s), s.base) = IF WholeOf(es, s.base) THEN ReadTo(es) ELSE NoElf
    BY <2>2, <2>4, DynRead
  <2> QED BY <2>1, <2>2, <2>5 DEF DynOrder
<1> QED BY <1>1, GivenInit, GivenStep, PTL DEF Spec

-----------------------------------------------------------------------------
(* Looking up a symbol *)

\* A walk: from x it goes to next[x] until it is in stop, and gives val there.
Leads(D, stop, val, next, rank, M) ==
  /\ M \in Nat /\ stop \subseteq D
  /\ rank \in [D -> 0..M] /\ next \in [D \ stop -> D] /\ val \in [stop -> Int]
  /\ \A x \in D \ stop : rank[next[x]] < rank[x]

Walks(f, D, stop, val, next) ==
  /\ f \in [D -> Int]
  /\ \A x \in D : f[x] = IF x \in stop THEN val[x] ELSE f[next[x]]

\* It ends when something decreases.
LEMMA WalkExists ==
  ASSUME NEW D, NEW stop, NEW val, NEW next, NEW rank, NEW M,
         Leads(D, stop, val, next, rank, M)
  PROVE  \E f : Walks(f, D, stop, val, next)
<1>0. /\ M \in Nat /\ stop \subseteq D
      /\ rank \in [D -> 0..M] /\ next \in [D \ stop -> D] /\ val \in [stop -> Int]
      /\ \A x \in D \ stop : rank[next[x]] < rank[x]
  BY DEF Leads
<1> DEFINE Low(m) == {x \in D : rank[x] <= m}
           S == {m \in 0..M : \E f : Walks(f, Low(m), stop \cap Low(m), val, next)}
<1>1. 0 \in S
  <2>1. \A x \in Low(0) : x \in D /\ x \in stop
    <3> SUFFICES ASSUME NEW x \in Low(0), x \notin stop PROVE FALSE
      OBVIOUS
    <3>1. rank[x] \in Nat /\ rank[x] <= 0 /\ next[x] \in D /\ rank[next[x]] < rank[x]
      BY <1>0
    <3>2. rank[next[x]] \in Nat
      BY <1>0, <3>1
    <3> QED BY <3>1, <3>2
  <2> HIDE DEF Low
  <2> DEFINE f == [x \in Low(0) |-> val[x]]
  <2>2. Walks(f, Low(0), stop \cap Low(0), val, next)
    BY <1>0, <2>1 DEF Walks
  <2> QED BY <1>0, <2>2
<1>2. ASSUME NEW m \in 0..M, m \in S, m < M PROVE m + 1 \in S
  <2>1. PICK f : Walks(f, Low(m), stop \cap Low(m), val, next)
    BY <1>2
  <2>2. \A x \in Low(m + 1) : x \in D /\ (x \notin stop => next[x] \in Low(m))
    <3> SUFFICES ASSUME NEW x \in Low(m + 1), x \notin stop PROVE next[x] \in Low(m)
      OBVIOUS
    <3>1. rank[x] \in Nat /\ rank[x] <= m + 1 /\ next[x] \in D /\ rank[next[x]] < rank[x]
      BY <1>0
    <3>2. rank[next[x]] \in Nat
      BY <1>0, <3>1
    <3>3. rank[next[x]] <= m
      BY <3>1, <3>2
    <3> QED BY <3>1, <3>3
  <2>3. \A x \in Low(m) : x \in Low(m + 1)
    <3> SUFFICES ASSUME NEW x \in Low(m) PROVE rank[x] <= m + 1
      OBVIOUS
    <3>1. rank[x] \in Nat /\ rank[x] <= m
      BY <1>0
    <3> QED BY <3>1
  <2> HIDE DEF Low
  <2> DEFINE h == [x \in Low(m + 1) |-> IF x \in stop THEN val[x] ELSE f[next[x]]]
  <2>4. /\ f \in [Low(m) -> Int]
        /\ \A x \in Low(m) : f[x] = IF x \in stop THEN val[x] ELSE f[next[x]]
    BY <2>1 DEF Walks
  <2>5. h \in [Low(m + 1) -> Int]
    BY <1>0, <2>2, <2>4
  <2>6. \A x \in Low(m) : h[x] = f[x]
    BY <2>3, <2>4
  <2>7. \A x \in Low(m + 1) : h[x] = IF x \in stop THEN val[x] ELSE h[next[x]]
    BY <2>2, <2>6
  <2> HIDE DEF h
  <2>8. Walks(h, Low(m + 1), stop \cap Low(m + 1), val, next)
    BY <2>5, <2>7 DEF Walks
  <2>9. m + 1 \in 0..M
    BY <1>0, <1>2
  <2> QED BY <2>8, <2>9
<1>3. M \in S
  <2> HIDE DEF S
  <2>1. Climbs(S, 0, M)
    BY <1>0, <1>1, <1>2 DEF Climbs
  <2>2. M \in 0..M
    BY <1>0
  <2> QED BY <2>1, <2>2, UpTo
<1>4. Low(M) = D /\ stop \cap Low(M) = stop
  BY <1>0
<1> QED BY <1>3, <1>4

\* A symbol table, and the hashes of its names.
Syms(syms, hash) ==
  /\ Len(syms) \in Nat \ {0} /\ syms \in Seq([name : {syms[k].name : k \in DOMAIN syms},
                                      value : Nat,
                                              size : Nat, def : BOOLEAN, tls : BOOLEAN])
  /\ \A i, j \in 1..Len(syms) - 1 : Symbol(syms, i).name = Symbol(syms, j).name => i = j
  /\ \A i \in 1..Len(syms) - 1 : hash[Symbol(syms, i).name] \in Nat

\* By the SysV table a name finds its symbol, and one the library does not have none.
SysvFound(elf, name, i) ==
  /\ \A k \in Numbers(elf) : Symbol(elf.syms, k).name = name => i = k
  /\ (\A k \in Numbers(elf) : Symbol(elf.syms, k).name # name) => i = None

LEMMA SysvFinds ==
  ASSUME NEW elf, NEW hash, NEW name, NEW turn, Syms(elf.syms, hash),
         hash[name] \in Nat,
         SysvLaidOut(elf, hash, turn)
  PROVE  SysvFound(elf, name, SysvLookup(elf.syms, elf.sysv, name, hash[name]))
<1> DEFINE syms == elf.syms
           chain == elf.sysv.chain
           bucket == elf.sysv.bucket
           n == Len(syms) - 1
           size == Buckets(elf.sysv)
           Named(i) == Symbol(syms, i).name = name
           In(i) == hash[Symbol(syms, i).name] % size
           Is(f) == f = [i \in 0..n |-> IF i = 0 THEN None ELSE IF Named(i) THEN i ELSE f[chain[i]]]
           c == CHOOSE f : Is(f)
<1>1. SysvLookup(syms, elf.sysv, name, hash[name]) = c[bucket[hash[name] % size]]
  BY DEF SysvLookup, Buckets
<1>2. /\ Numbers(elf) = 1..n /\ n \in Nat /\ size \in Nat \ {0} /\ DOMAIN bucket = 0..(size - 1)
      /\ hash[name] % size \in 0..(size - 1) /\ turn \in [1..n -> 1..n]
      /\ \A b \in 0..(size - 1) : bucket[b] \in 0..n
      /\ \A i \in 1..n : chain[i] \in 0..n /\ (chain[i] # 0 => turn[i] < turn[chain[i]])
  <2>1. Numbers(elf) = 1..n /\ n \in Nat /\ hash[name] \in Nat
    BY DEF Syms, Numbers
  <2>2. /\ size \in Nat \ {0} /\ DOMAIN bucket = 0..(size - 1) /\ turn \in [1..n -> 1..n]
        /\ \A b \in 0..(size - 1) : bucket[b] \in {0} \cup 1..n
        /\ \A i \in 1..n : chain[i] \in {0} \cup {j \in 1..n : turn[i] < turn[j]}
    BY <2>1 DEF SysvLaidOut
  <2> HIDE DEF n, size, bucket, chain
  <2>3. hash[name] % size \in 0..(size - 1)
    BY <2>1, <2>2
  <2>4. \A i : i \in {0} \cup 1..n => i \in 0..n
    BY <2>1
  <2>5. \A i \in 1..n : chain[i] \in 0..n /\ (chain[i] # 0 => turn[i] < turn[chain[i]])
    <3> SUFFICES ASSUME NEW i \in 1..n
                 PROVE  chain[i] \in 0..n /\ (chain[i] # 0 => turn[i] < turn[chain[i]])
      OBVIOUS
    <3>1. chain[i] = 0 \/ (chain[i] \in 1..n /\ turn[i] < turn[chain[i]])
      BY <2>2
    <3> QED BY <2>4, <3>1
  <2> QED BY <2>1, <2>2, <2>3, <2>4, <2>5
<1>3. \A k \in 1..n : \/ bucket[In(k)] = k
                      \/ \E j \in 1..n : chain[j] = k /\ In(j) = In(k)
  BY <1>2 DEF SysvLaidOut
<1>4. \A i, k \in 1..n : Named(i) /\ Named(k) => i = k
  BY DEF Syms
<1> HIDE DEF n, size, bucket, chain, syms
<1>5. \A k \in 1..n : Named(k) => In(k) = hash[name] % size
  OBVIOUS
<1> HIDE DEF Named, In
<1>10. n \in Nat /\ 0 \in 0..n /\ \A i \in 1..n : i \in 0..n /\ i # 0
  BY <1>2
<1>11. \A i \in 0..n : i # 0 => i \in 1..n
  BY <1>10
<1>12. \A i \in 1..n : turn[i] \in Nat /\ 1 <= turn[i] /\ turn[i] <= n
  <2>1. \A i \in 1..n : turn[i] \in 1..n
    BY <1>2
  <2> QED BY <1>10, <2>1
<1>13. \A i \in 1..n :
         /\ chain[i] \in 0..n
         /\ chain[i] # 0 => chain[i] \in 1..n /\ turn[i] < turn[chain[i]]
  BY <1>2, <1>11
<1>6. Is(c)
  <2> DEFINE D == 0..n
             stop == {i \in D : i = 0 \/ Named(i)}
             val == [i \in stop |-> IF i = 0 THEN None ELSE i]
             next == [i \in D \ stop |-> chain[i]]
             rank == [i \in D |-> IF i = 0 THEN 0 ELSE n + 1 - turn[i]]
  <2>1. Leads(D, stop, val, next, rank, n)
    <3>1. n \in Nat /\ stop \subseteq D
      BY <1>2
    <3>2. rank \in [D -> 0..n]
      <4>1. ASSUME NEW i \in D PROVE (IF i = 0 THEN 0 ELSE n + 1 - turn[i]) \in 0..n
        <5>1. CASE i = 0
          BY <1>10, <5>1
        <5>2. CASE i # 0
          <6>1. turn[i] \in Nat /\ 1 <= turn[i] /\ turn[i] <= n
            BY <1>11, <1>12, <5>2
          <6>2. n + 1 - turn[i] \in 0..n
            BY <1>10, <6>1
          <6> QED BY <5>2, <6>2
        <5> QED BY <5>1, <5>2
      <4> QED BY <4>1
    <3>3. \A i \in D \ stop : i \in 1..n
      BY <1>2
    <3>4. next \in [D \ stop -> D]
      BY <1>2, <3>3
    <3>5. val \in [stop -> Int]
      BY <1>2 DEF None
    <3>6. ASSUME NEW i \in D \ stop PROVE rank[next[i]] < rank[i]
      <4>1. i \in 1..n /\ i \in 0..n /\ i # 0
        BY <1>10, <3>3
      <4>2. turn[i] \in Nat /\ 1 <= turn[i] /\ turn[i] <= n /\ chain[i] \in 0..n
        BY <1>12, <1>13, <4>1
      <4>3. rank[i] = n + 1 - turn[i] /\ next[i] = chain[i]
        BY <4>1
      <4>4. CASE chain[i] = 0
        <5>1. rank[chain[i]] = 0
          BY <4>2, <4>4
        <5>2. 0 < n + 1 - turn[i]
          BY <1>10, <4>2
        <5> HIDE DEF rank, next
        <5> QED BY <4>3, <5>1, <5>2
      <4>5. CASE chain[i] # 0
        <5>1. turn[i] < turn[chain[i]] /\ turn[chain[i]] \in Nat
          BY <1>12, <1>13, <4>1, <4>5
        <5>2. rank[chain[i]] = n + 1 - turn[chain[i]]
          BY <4>2, <4>5
        <5>3. n + 1 - turn[chain[i]] < n + 1 - turn[i]
          BY <1>10, <4>2, <5>1
        <5> HIDE DEF rank, next
        <5> QED BY <4>3, <5>2, <5>3
      <4> QED BY <4>4, <4>5
    <3> HIDE DEF D, stop, val, next, rank
    <3> QED BY <3>1, <3>2, <3>4, <3>5, <3>6 DEF Leads
  <2>2. PICK f : Walks(f, D, stop, val, next)
    <3> HIDE DEF D, stop, val, next, rank
    <3> QED BY <2>1, WalkExists
  <2>3. Is(f)
    <3>1. f \in [D -> Int] /\ \A i \in D : f[i] = IF i \in stop THEN val[i] ELSE f[next[i]]
      BY <2>2 DEF Walks
    <3>2. \A i \in D : f[i] = IF i = 0 THEN None ELSE IF Named(i) THEN i ELSE f[chain[i]]
      BY <3>1
    <3> QED BY <3>1, <3>2
  <2> HIDE DEF Is
  <2> QED BY <2>3
<1> HIDE DEF c
<1>7. \A i \in 0..n : c[i] = IF i = 0 THEN None ELSE IF Named(i) THEN i ELSE c[chain[i]]
  BY <1>6
<1>8. ASSUME NEW k \in 1..n, Named(k) PROVE c[bucket[hash[name] % size]] = k
  <2> DEFINE T == {turn[i] : i \in {j \in 1..n : c[j] = k /\ In(j) = In(k)}}
  <2>1. turn[k] \in T /\ T \subseteq Nat
    <3>1. c[k] = k
      BY <1>7, <1>8, <1>10
    <3> QED BY <1>12, <3>1
  <2>2. PICK t \in T : \A u \in T : t <= u
    <3> HIDE DEF T
    <3> QED BY <2>1, Least
  <2>3. PICK i \in 1..n : t = turn[i] /\ c[i] = k /\ In(i) = In(k)
    BY <2>2
  <2>4. CASE bucket[In(i)] = i
    BY <1>5, <1>8, <2>3, <2>4
  <2>5. CASE \E j \in 1..n : chain[j] = i /\ In(j) = In(i)
    <3>1. PICK j \in 1..n : chain[j] = i /\ In(j) = In(i)
      BY <2>5
    <3>2. j \in 0..n /\ j # 0 /\ i # 0
      BY <1>10
    <3>3. c[j] = k
      <4>1. CASE Named(j)
        BY <1>4, <1>7, <1>8, <3>2, <4>1
      <4>2. CASE ~Named(j)
        BY <1>7, <2>3, <3>1, <3>2, <4>2
      <4> QED BY <4>1, <4>2
    <3>4. turn[j] \in T
      BY <2>3, <3>1, <3>3
    <3>5. t <= turn[j]
      <4> HIDE DEF T
      <4> QED BY <2>2, <3>4
    <3>6. turn[j] < t
      BY <1>13, <2>3, <3>1, <3>2
    <3>7. turn[j] \in Nat /\ t \in Nat
      BY <1>12, <2>3
    <3> QED BY <3>5, <3>6, <3>7
  <2> QED BY <1>3, <2>4, <2>5
<1>9. ASSUME \A k \in 1..n : ~Named(k) PROVE c[bucket[hash[name] % size]] = None
  <2> DEFINE T == {n - turn[i] : i \in {j \in 1..n : c[j] # None}}
  <2>1. T = {}
    <3> SUFFICES ASSUME T # {} PROVE FALSE
      OBVIOUS
    <3>1. T \subseteq Nat
      <4>1. \A i \in 1..n : n - turn[i] \in Nat
        BY <1>10, <1>12
      <4> QED BY <4>1
    <3>2. PICK t \in T : \A u \in T : t <= u
      <4> HIDE DEF T
      <4> QED BY <3>1, Least
    <3>3. PICK i \in 1..n : t = n - turn[i] /\ c[i] # None
      BY <3>2
    <3>4. c[i] = c[chain[i]]
      BY <1>7, <1>9, <1>10
    <3>5. chain[i] # 0
      BY <1>7, <1>10, <3>3, <3>4
    <3>6. chain[i] \in 1..n /\ turn[i] < turn[chain[i]]
      BY <1>13, <3>5
    <3>7. n - turn[chain[i]] \in T
      BY <3>3, <3>4, <3>6
    <3>8. t <= n - turn[chain[i]]
      <4> HIDE DEF T
      <4> QED BY <3>2, <3>7
    <3>9. turn[i] \in Nat /\ turn[chain[i]] \in Nat
      BY <1>12, <3>6
    <3>10. ~(n - turn[i] <= n - turn[chain[i]])
      BY <1>10, <3>6, <3>9
    <3> QED BY <3>3, <3>8, <3>10
  <2>2. \A i \in 1..n : c[i] = None
    BY <2>1
  <2>3. \A i \in 0..n : c[i] = None
    <3> QED BY <1>7, <1>11, <2>2
  <2> QED BY <1>2, <2>3
<1> QED BY <1>1, <1>2, <1>8, <1>9 DEF Named, syms, SysvFound

\* A GNU table: the symbols from the first of a bucket on, up to one of that bucket, are
\* of that bucket, and only the last one ends a chain.
GnuIn(elf, hash, i) == hash[Symbol(elf.syms, i).name] % Buckets(elf.gnu)

GnuBuckets(elf, hash, n, off, size, bucket, chain) ==
  /\ n \in Nat /\ off \in Nat \ {0} /\ off <= n + 1 /\ size \in Nat \ {0}
  /\ DOMAIN bucket = 0..size - 1 /\ Buckets(elf.gnu) = size
  /\ \A i \in off..n : i \in 1..n /\ GnuIn(elf, hash, i) \in 0..size - 1
  /\ \A i \in 1..n : Symbol(elf.syms, i).def <=> i \in off..n
  /\ \A i \in off..n : /\ bucket[GnuIn(elf, hash, i)] \in off..n
                       /\ bucket[GnuIn(elf, hash, i)] <= i
                       /\ \A j \in bucket[GnuIn(elf, hash, i)]..i - 1 : chain[j - off] % 2 # 1
  /\ \A i \in off..n : chain[i - off] \div 2 = hash[Symbol(elf.syms, i).name] \div 2
  /\ off <= n => chain[n - off] % 2 = 1
  /\ \A b \in 0..size - 1 : bucket[b] = 0 \/ bucket[b] \in off..n

LEMMA GnuTable ==
  ASSUME NEW elf, NEW hash, Syms(elf.syms, hash), GnuLaidOut(elf, hash),
         NEW n, n = Len(elf.syms) - 1, NEW off, off = elf.gnu.offset,
         NEW size, size = Buckets(elf.gnu), NEW bucket, bucket = elf.gnu.bucket,
         NEW chain, chain = elf.gnu.chain
  PROVE  GnuBuckets(elf, hash, n, off, size, bucket, chain)
<1> DEFINE In(i) == GnuIn(elf, hash, i)
<1>1. n \in Nat /\ off \in Nat \ {0} /\ off <= n + 1 /\ size \in Nat \ {0}
  <2>1. Len(elf.syms) \in Nat \ {0}
    BY DEF Syms
  <2>2. off \in 1..Len(elf.syms) /\ size \in Nat \ {0}
    BY DEF GnuLaidOut
  <2> QED BY <2>1, <2>2
<1>2. DOMAIN bucket = 0..size - 1
  BY DEF GnuLaidOut
<1>3. \A i \in off..n : i \in 1..n
  BY <1>1
<1>4. ASSUME NEW i \in off..n PROVE In(i) \in 0..size - 1
  <2>1. hash[Symbol(elf.syms, i).name] \in Nat
    BY <1>3 DEF Syms
  <2>2. In(i) = hash[Symbol(elf.syms, i).name] % size
    BY DEF GnuIn
  <2> HIDE DEF In
  <2> QED BY <1>1, <2>1, <2>2
<1>5. /\ \A i \in 1..n : Symbol(elf.syms, i).def <=> i \in off..n
      /\ \A i, j \in off..n : i < j => In(i) <= In(j)
  BY DEF GnuLaidOut, GnuIn, Numbers
<1>6. \A b \in 0..size - 1 :
        IF \E i \in off..n : In(i) = b
        THEN /\ bucket[b] \in off..n /\ In(bucket[b]) = b
             /\ \A i \in off..n : In(i) = b => bucket[b] <= i
        ELSE bucket[b] = 0
  BY <1>2 DEF GnuLaidOut, GnuIn
<1>7. /\ \A i \in off..n : chain[i - off] \div 2 = hash[Symbol(elf.syms, i).name] \div 2
      /\ \A i \in off..n : chain[i - off] % 2 = 1 <=> \A j \in off..n : i < j => In(i) # In(j)
  BY DEF GnuLaidOut, GnuIn
<1> HIDE DEF In
<1>8. ASSUME NEW i \in off..n
      PROVE  /\ bucket[In(i)] \in off..n
             /\ bucket[In(i)] <= i
             /\ \A j \in bucket[In(i)]..i - 1 : chain[j - off] % 2 # 1
  <2>1. bucket[In(i)] \in off..n /\ In(bucket[In(i)]) = In(i) /\ bucket[In(i)] <= i
    BY <1>4, <1>6
  <2>2. PICK first : first = bucket[In(i)]
    OBVIOUS
  <2>3. first \in Int /\ off <= first /\ first <= i /\ i \in Int /\ i <= n
    BY <1>1, <2>1, <2>2
  <2>4. ASSUME NEW j \in first..i - 1 PROVE chain[j - off] % 2 # 1
    <3>1. j \in off..n /\ j < i /\ (first = j \/ first < j) /\ first \in off..n
      BY <1>1, <2>3
    <3>2. In(first) <= In(j) /\ In(j) <= In(i)
      <4>1. In(j) <= In(i)
        BY <1>5, <3>1
      <4>2. In(j) \in 0..size - 1
        BY <1>4, <3>1
      <4>3. In(j) <= In(j)
        BY <1>1, <4>2
      <4>4. In(first) <= In(j)
        BY <1>5, <3>1, <4>3
      <4> QED BY <4>1, <4>4
    <3>3. In(j) = In(i)
      <4>1. In(j) \in 0..size - 1 /\ In(i) \in 0..size - 1
        BY <1>4, <3>1
      <4>2. In(first) = In(i)
        BY <2>1, <2>2
      <4> QED BY <1>1, <3>2, <4>1, <4>2
    <3> QED BY <1>7, <3>1, <3>3
  <2> QED BY <2>1, <2>2, <2>4
<1>9. off <= n => chain[n - off] % 2 = 1
  <2> SUFFICES ASSUME off <= n PROVE chain[n - off] % 2 = 1
    OBVIOUS
  <2>1. n \in off..n /\ \A j \in off..n : ~(n < j)
    BY <1>1
  <2> QED BY <1>7, <2>1
<1>10. \A b \in 0..size - 1 : bucket[b] = 0 \/ bucket[b] \in off..n
  BY <1>6
<1> QED BY <1>1, <1>2, <1>3, <1>4, <1>5, <1>7, <1>8, <1>9, <1>10 DEF GnuBuckets, In

\* By the GNU table a name finds its exported symbol, and one that is not exported none.
GnuFound(elf, name, i) ==
  /\ \A k \in Numbers(elf) : Symbol(elf.syms, k).name = name /\ Symbol(elf.syms, k).def => i = k
  /\ (\A k \in Numbers(elf) : Symbol(elf.syms, k).name = name => ~Symbol(elf.syms, k).def)
       => i = None

LEMMA GnuFinds ==
  ASSUME NEW elf, NEW hash, NEW name, Syms(elf.syms, hash), hash[name] \in Nat,
         GnuLaidOut(elf, hash)
  PROVE  GnuFound(elf, name, GnuDefined(elf.syms, elf.gnu, name, hash[name]))
<1> DEFINE syms == elf.syms
           tab == elf.gnu
           chain == elf.gnu.chain
           bucket == elf.gnu.bucket
           off == elf.gnu.offset
           n == Len(syms) - 1
           size == Buckets(elf.gnu)
           h == hash[name]
           Named(i) == Symbol(syms, i).name = name
           Match(i) == h \div 2 = chain[i - off] \div 2 /\ Symbol(syms, i).name = name
           Is(f) == f = [i \in off..n |->
                           LET symHash == chain[i - off]
                           IN IF h \div 2 = symHash \div 2 /\ Symbol(syms, i).name = name THEN i
                              ELSE IF symHash % 2 = 1 THEN None ELSE f[i + 1]]
           c == CHOOSE f : Is(f)
           first == bucket[h % size]
           got == GnuDefined(syms, tab, name, h)
<1>1. got = IF ~(BloomBits(tab, h) \subseteq tab.bloom) \/ first < off THEN None ELSE c[first]
  BY DEF GnuDefined, Buckets
<1>2. GnuBuckets(elf, hash, n, off, size, bucket, chain)
  <2> HIDE DEF n, off, size, bucket, chain
  <2> QED BY GnuTable DEF n, off, size, bucket, chain, syms
<1>3. Numbers(elf) = 1..n /\ h \in Nat /\ \A i, k \in 1..n : Named(i) /\ Named(k) => i = k
  BY DEF Syms, Numbers
<1>4. \A k \in off..n : Named(k) => BloomBits(tab, h) \subseteq tab.bloom
  BY DEF GnuLaidOut, BloomBits, BloomOf
<1>5. \A k \in off..n : Named(k) => GnuIn(elf, hash, k) = h % size
  BY DEF GnuIn
<1>6. \A i : Match(i) <=> h \div 2 = chain[i - off] \div 2 /\ Named(i)
  OBVIOUS
<1>7. \A i \in off..n : Named(i) => Match(i)
  BY <1>2 DEF GnuBuckets
<1> HIDE DEF n, off, size, bucket, chain, syms, tab, h, Named, Match
<1>8. n \in Nat /\ off \in Nat \ {0} /\ off <= n + 1
  BY <1>2 DEF GnuBuckets
<1>9. \A i \in off..n : chain[i - off] % 2 # 1 => i + 1 \in off..n
  <2> SUFFICES ASSUME NEW i \in off..n, chain[i - off] % 2 # 1 PROVE i + 1 \in off..n
    OBVIOUS
  <2>1. off <= n /\ i \in Int /\ off <= i /\ i <= n
    BY <1>8
  <2>2. i # n
    BY <1>2, <2>1 DEF GnuBuckets
  <2> QED BY <1>8, <2>1, <2>2
<1>10. Is(c)
  <2> DEFINE D == off..n
             stop == {i \in D : Match(i) \/ chain[i - off] % 2 = 1}
             val == [i \in stop |-> IF Match(i) THEN i ELSE None]
             next == [i \in D \ stop |-> i + 1]
             rank == [i \in D |-> n - i]
  <2>1. Leads(D, stop, val, next, rank, n)
    <3>1. n \in Nat /\ stop \subseteq D
      BY <1>8
    <3>2. rank \in [D -> 0..n]
      BY <1>8
    <3>3. next \in [D \ stop -> D]
      BY <1>9
    <3>4. val \in [stop -> Int]
      BY <1>8 DEF None
    <3>5. ASSUME NEW i \in D \ stop PROVE rank[next[i]] < rank[i]
      <4>1. next[i] = i + 1 /\ i + 1 \in D /\ i \in D
        BY <1>9
      <4>2. rank[i + 1] = n - (i + 1) /\ rank[i] = n - i
        BY <4>1
      <4>3. n - (i + 1) < n - i
        BY <1>8, <4>1
      <4> HIDE DEF rank, next
      <4> QED BY <4>1, <4>2, <4>3
    <3> HIDE DEF D, stop, val, next, rank
    <3> QED BY <3>1, <3>2, <3>3, <3>4, <3>5 DEF Leads
  <2>2. PICK f : Walks(f, D, stop, val, next)
    <3> HIDE DEF D, stop, val, next, rank
    <3> QED BY <2>1, WalkExists
  <2>3. Is(f)
    <3>1. f \in [D -> Int] /\ \A i \in D : f[i] = IF i \in stop THEN val[i] ELSE f[next[i]]
      BY <2>2 DEF Walks
    <3>2. \A i \in D : f[i] = IF Match(i) THEN i ELSE IF chain[i - off] % 2 = 1 THEN None
                              ELSE f[i + 1]
      BY <3>1
    <3> QED BY <3>1, <3>2 DEF Match
  <2> HIDE DEF Is
  <2> QED BY <2>3
<1> HIDE DEF c
<1>11. \A i \in off..n : c[i] = IF Match(i) THEN i ELSE IF chain[i - off] % 2 = 1 THEN None
                                ELSE c[i + 1]
  BY <1>10 DEF Match
<1>12. ASSUME NEW k \in off..n, Named(k) PROVE got = k
  <2>1. /\ first \in off..n /\ first <= k
        /\ \A j \in first..k - 1 : chain[j - off] % 2 # 1
    BY <1>2, <1>5, <1>12 DEF GnuBuckets
  <2> HIDE DEF first
  <2>2. first \in Int /\ off <= first /\ k \in Int /\ k <= n /\ k \in 1..n
    BY <1>8, <2>1
  <2>3. \A j \in first..k - 1 : j \in off..n /\ j \in 1..n /\ j # k
    BY <1>8, <2>2
  <2>4. \A j \in first..k - 1 : c[j] = c[j + 1]
    <3> SUFFICES ASSUME NEW j \in first..k - 1 PROVE c[j] = c[j + 1]
      OBVIOUS
    <3>1. ~Named(j)
      BY <1>3, <1>12, <2>2, <2>3
    <3>2. ~Match(j)
      BY <1>6, <3>1
    <3> QED BY <1>11, <2>1, <2>3, <3>2
  <2> DEFINE S == {j \in first..k : c[first] = c[j]}
  <2>5. Climbs(S, first, k)
    <3>1. first \in S
      BY <2>1, <2>2
    <3>2. ASSUME NEW j \in first..k, j \in S, j < k PROVE j + 1 \in S
      <4>1. j \in first..k - 1 /\ j + 1 \in first..k
        BY <2>2, <3>2
      <4> QED BY <2>4, <3>2, <4>1
    <3> HIDE DEF S
    <3> QED BY <2>2, <3>1, <3>2 DEF Climbs
  <2>6. k \in S
    <3> HIDE DEF S
    <3>1. k \in first..k
      BY <2>1, <2>2
    <3> QED BY <2>5, <3>1, UpTo
  <2>7. c[first] = c[k] /\ c[k] = k
    BY <1>7, <1>11, <1>12, <2>6
  <2>8. ~(first < off)
    BY <1>8, <2>2
  <2>9. BloomBits(tab, h) \subseteq tab.bloom
    BY <1>4, <1>12
  <2> HIDE DEF got
  <2> QED BY <1>1, <2>7, <2>8, <2>9
<1>13. ASSUME \A k \in off..n : ~Named(k) PROVE got = None
  <2> DEFINE S == {m \in 0..n - off : c[n - m] = None}
  <2>1. CASE off <= n
    <3>1. Climbs(S, 0, n - off)
      <4>1. 0 \in S
        <5>1. n \in off..n /\ n - 0 = n /\ 0 \in 0..n - off
          BY <1>8, <2>1
        <5>2. chain[n - off] % 2 = 1
          BY <1>2, <2>1 DEF GnuBuckets
        <5> QED BY <1>6, <1>11, <1>13, <5>1, <5>2
      <4>2. ASSUME NEW m \in 0..n - off, m \in S, m < n - off PROVE m + 1 \in S
        <5>1. n - (m + 1) \in off..n /\ n - (m + 1) + 1 = n - m /\ m + 1 \in 0..n - off
          BY <1>8, <4>2
        <5> QED BY <1>6, <1>11, <1>13, <4>2, <5>1
      <4>3. n - off \in Int
        BY <1>8
      <4> HIDE DEF S
      <4> QED BY <4>1, <4>2, <4>3 DEF Climbs
    <3>2. 0..n - off \subseteq S
      <4> HIDE DEF S
      <4> QED BY <3>1, UpTo
    <3>3. ASSUME NEW i \in off..n PROVE c[i] = None
      <4>1. n - i \in 0..n - off /\ n - (n - i) = i
        BY <1>8
      <4> QED BY <3>2, <4>1
    <3>4. first < off \/ first \in off..n
      <4>1. h % size \in 0..size - 1
        BY <1>2, <1>3 DEF GnuBuckets
      <4>2. first = 0 \/ first \in off..n
        BY <1>2, <4>1 DEF GnuBuckets
      <4> QED BY <1>8, <4>2
    <3> HIDE DEF first, got
    <3> QED BY <1>1, <3>3, <3>4
  <2>2. CASE ~(off <= n)
    <3>1. off..n = {}
      BY <1>8, <2>2
    <3>2. h % size \in 0..size - 1
      BY <1>2, <1>3 DEF GnuBuckets
    <3>3. first = 0
      BY <1>2, <3>1, <3>2 DEF GnuBuckets
    <3>4. first < off
      BY <1>8, <3>3
    <3> HIDE DEF first, got
    <3> QED BY <1>1, <3>4
  <2> QED BY <2>1, <2>2
<1>14. \A k \in 1..n : Symbol(elf.syms, k).def <=> k \in off..n
  BY <1>2 DEF GnuBuckets
<1>15. \A k \in off..n : k \in 1..n
  BY <1>8
<1> HIDE DEF got
<1>16. ASSUME NEW k \in Numbers(elf), Symbol(elf.syms, k).name = name, Symbol(elf.syms, k).def
       PROVE  got = k
  BY <1>3, <1>12, <1>14, <1>16 DEF Named, syms
<1>17. ASSUME \A k \in Numbers(elf) : Symbol(elf.syms, k).name = name => ~Symbol(elf.syms, k).def
       PROVE  got = None
  BY <1>3, <1>13, <1>14, <1>15, <1>17 DEF Named, syms
<1> QED BY <1>16, <1>17 DEF got, syms, tab, h, GnuFound

\* One symbol at most has a name in front of the GNU table; the first has none of ours.
UndefinedFound(elf, name, i) ==
  /\ \A k \in Numbers(elf) : Symbol(elf.syms, k).name = name /\ ~Symbol(elf.syms, k).def => i = k
  /\ (\A k \in Numbers(elf) : Symbol(elf.syms, k).name # name) => i = None

LEMMA UndefinedFinds ==
  ASSUME NEW elf, NEW hash, NEW name, Syms(elf.syms, hash), GnuLaidOut(elf, hash),
         Symbol(elf.syms, 0).name # name
  PROVE  UndefinedFound(elf, name, GnuUndefined(elf.syms, elf.gnu, name))
<1>1. PICK fit : fit = {i \in 0..(elf.gnu.offset - 1) : Symbol(elf.syms, i).name = name}
  OBVIOUS
<1>2. PICK i : i = GnuUndefined(elf.syms, elf.gnu, name)
  OBVIOUS
<1>3. i = IF fit = {} THEN None ELSE CHOOSE x \in fit : \A j \in fit : x <= j
  BY <1>1, <1>2 DEF GnuUndefined
<1>4. PICK n : n = Len(elf.syms) - 1
  OBVIOUS
<1>5. PICK off : off = elf.gnu.offset
  OBVIOUS
<1>6. /\ n \in Nat /\ off \in Nat /\ off <= n + 1 /\ Numbers(elf) = 1..n
      /\ \A k \in 1..n : Symbol(elf.syms, k).def <=> k \in off..n
      /\ \A x, k \in 1..n : Symbol(elf.syms, x).name = Symbol(elf.syms, k).name => x = k
  <2>1. Len(elf.syms) \in Nat \ {0}
    BY DEF Syms
  <2>2. off \in 1..Len(elf.syms)
    BY <1>5 DEF GnuLaidOut
  <2>3. \A k \in 1..n : Symbol(elf.syms, k).def <=> k \in off..n
    BY <1>4, <1>5 DEF GnuLaidOut, Numbers
  <2> QED BY <1>4, <2>1, <2>2, <2>3 DEF Syms, Numbers
<1>7. \A x \in 0..(off - 1) : x # 0 => x \in 1..n
  BY <1>6
<1>8. \A x \in fit : x \in 1..n /\ Symbol(elf.syms, x).name = name
  BY <1>1, <1>5, <1>7
<1>9. ASSUME NEW k \in 1..n, Symbol(elf.syms, k).name = name, ~Symbol(elf.syms, k).def PROVE i = k
  <2>1. k \in 0..(off - 1)
    BY <1>6, <1>9
  <2>2. k \in fit /\ \A x \in fit : x = k
    BY <1>1, <1>5, <1>6, <1>8, <1>9, <2>1
  <2>3. \A j \in fit : k <= j
    BY <1>6, <2>2
  <2> QED BY <1>3, <2>2, <2>3
<1>10. ASSUME \A k \in 1..n : Symbol(elf.syms, k).name # name PROVE i = None
  <2>1. fit = {}
    BY <1>8, <1>10
  <2> QED BY <1>3, <2>1
<1> QED BY <1>2, <1>6, <1>9, <1>10 DEF UndefinedFound

\* What the assumption says of a library and a name.
LEMMA LibraryGiven ==
  ASSUME NEW l, l \in Libraries
  PROVE  /\ Len(l.elf.syms) \in Nat \ {0} /\ Numbers(l.elf) = 1..Len(l.elf.syms) - 1
         /\ l.elf.useGnu \in BOOLEAN /\ l.elf.useSysv \in BOOLEAN
         /\ l.elf.useGnu \/ l.elf.useSysv
         /\ l.elf.useGnu => GnuLaidOut(l.elf, l.gnuHash)
         /\ l.elf.useSysv => SysvLaidOut(l.elf, l.sysvHash, l.turn)
         /\ Symbol(l.elf.syms, 0).name \notin Names /\ ~Symbol(l.elf.syms, 0).def
         /\ Symbol(l.elf.syms, 0).size = 0
         /\ \A i \in Numbers(l.elf) : ~Symbol(l.elf.syms, i).def => Symbol(l.elf.syms, i).size = 0
         /\ \A i \in 0..Len(l.elf.syms) - 1 :
              Symbol(l.elf.syms, i).value \in Nat /\ Symbol(l.elf.syms, i).size \in Nat
         /\ Syms(l.elf.syms, l.gnuHash) /\ Syms(l.elf.syms, l.sysvHash)
         /\ \A name \in Names : l.gnuHash[name] \in Nat /\ l.sysvHash[name] \in Nat
<1>1. PICK syms : syms = l.elf.syms
  OBVIOUS
<1>2. PICK S : S = [name : {syms[k].name : k \in DOMAIN syms}, value : Nat, size : Nat,
                    def : BOOLEAN, tls : BOOLEAN]
  OBVIOUS
<1>3. syms \in Seq(S) /\ syms # <<>>
  BY <1>1, <1>2, LibraryAssumption DEF LibraryAssumption
<1>4. Len(syms) \in Nat \ {0} /\ DOMAIN syms = 1..Len(syms)
  BY <1>3
<1>5. \A i \in 0..Len(syms) - 1 : Symbol(syms, i) \in S
  <2>1. \A i \in 0..Len(syms) - 1 : i + 1 \in 1..Len(syms)
    BY <1>4
  <2> QED BY <1>3, <2>1 DEF Symbol
<1>6. \A i \in 0..Len(syms) - 1 : Symbol(syms, i).value \in Nat /\ Symbol(syms, i).size \in Nat
  BY <1>2, <1>5
<1>7. Numbers(l.elf) = 1..Len(syms) - 1
  BY <1>1 DEF Numbers
<1>8. /\ \A i, j \in Numbers(l.elf) : Symbol(syms, i).name = Symbol(syms, j).name => i = j
      /\ \A n \in Names \cup {Symbol(syms, i).name : i \in Numbers(l.elf)} :
            l.gnuHash[n] \in Nat /\ l.sysvHash[n] \in Nat
      /\ Symbol(syms, 0).name \notin Names
      /\ ~Symbol(syms, 0).def /\ Symbol(syms, 0).size = 0
      /\ \A i \in Numbers(l.elf) : ~Symbol(syms, i).def => Symbol(syms, i).size = 0
  BY <1>1, LibraryAssumption DEF LibraryAssumption
<1>9. /\ l.elf.useGnu \in BOOLEAN /\ l.elf.useSysv \in BOOLEAN
      /\ l.elf.useGnu \/ l.elf.useSysv
      /\ l.elf.useGnu => GnuLaidOut(l.elf, l.gnuHash)
      /\ l.elf.useSysv => SysvLaidOut(l.elf, l.sysvHash, l.turn)
  BY LibraryAssumption DEF LibraryAssumption
<1>10. Syms(syms, l.gnuHash) /\ Syms(syms, l.sysvHash)
  BY <1>2, <1>3, <1>4, <1>7, <1>8 DEF Syms
<1> QED BY <1>1, <1>4, <1>6, <1>7, <1>8, <1>9, <1>10

\* What the lookups of a name are to give.
NameMeans(elf, name, i, value, dsym) ==
  LET have == Numbers(elf)
      exported == {j \in have : Symbol(elf.syms, j).name = name /\ Symbol(elf.syms, j).def}
  IN /\ IF i = None THEN \A j \in have : Symbol(elf.syms, j).name # name
        ELSE i \in have /\ Symbol(elf.syms, i).name = name
     /\ IF exported = {} THEN value = None
        ELSE \A j \in exported : value = Symbol(elf.syms, j).value
     /\ dsym = value

LEMMA NameFound ==
  ASSUME NEW l, l \in Libraries, NEW name, name \in Names,
         NEW elf, elf = l.elf, NEW gnu, gnu = l.gnuHash[name], NEW sysv, sysv = l.sysvHash[name]
  PROVE  NameMeans(elf, name, FindIndex(elf, name, gnu, sysv), XdlSym(elf, name, gnu, sysv),
                   XdlDsym(elf.syms, name))
<1> DEFINE have == Numbers(elf)
           Named(j) == Symbol(elf.syms, j).name = name
           Def(j) == Symbol(elf.syms, j).def
           byGnu == GnuDefined(elf.syms, elf.gnu, name, gnu)
           undef == GnuUndefined(elf.syms, elf.gnu, name)
           bySysv == SysvLookup(elf.syms, elf.sysv, name, sysv)
           n == Len(elf.syms) - 1
<1>1. /\ n \in Nat /\ have = 1..n
      /\ elf.useGnu \in BOOLEAN /\ elf.useSysv \in BOOLEAN
      /\ elf.useGnu \/ elf.useSysv
      /\ elf.useGnu => GnuLaidOut(elf, l.gnuHash)
      /\ elf.useSysv => SysvLaidOut(elf, l.sysvHash, l.turn)
      /\ ~Named(0) /\ ~Def(0)
  <2>1. Len(elf.syms) \in Nat \ {0} /\ Numbers(elf) = 1..Len(elf.syms) - 1
    BY LibraryGiven
  <2>2. n \in Nat
    BY <2>1
  <2> QED BY <2>1, <2>2, LibraryGiven
<1>2. Syms(elf.syms, l.gnuHash) /\ Syms(elf.syms, l.sysvHash) /\ gnu \in Nat /\ sysv \in Nat
  BY LibraryGiven
<1>3. elf.useGnu => /\ \A k \in have : Named(k) /\ Def(k) => byGnu = k
                    /\ (\A k \in have : Named(k) => ~Def(k)) => byGnu = None
                    /\ \A k \in have : Named(k) /\ ~Def(k) => undef = k
                    /\ (\A k \in have : ~Named(k)) => undef = None
  <2> SUFFICES ASSUME elf.useGnu
               PROVE  GnuFound(elf, name, byGnu) /\ UndefinedFound(elf, name, undef)
    BY DEF GnuFound, UndefinedFound
  <2>1. Syms(elf.syms, l.gnuHash) /\ GnuLaidOut(elf, l.gnuHash) /\ l.gnuHash[name] \in Nat
    BY <1>1, <1>2
  <2>2. GnuFound(elf, name, GnuDefined(elf.syms, elf.gnu, name, l.gnuHash[name]))
    BY <2>1, GnuFinds
  <2>3. UndefinedFound(elf, name, undef)
    BY <1>1, <2>1, UndefinedFinds
  <2> QED BY <2>2, <2>3
<1>4. elf.useSysv => /\ \A k \in have : Named(k) => bySysv = k
                     /\ (\A k \in have : ~Named(k)) => bySysv = None
  <2> SUFFICES ASSUME elf.useSysv PROVE SysvFound(elf, name, bySysv)
    BY DEF SysvFound
  <2>1. /\ Syms(elf.syms, l.sysvHash) /\ SysvLaidOut(elf, l.sysvHash, l.turn)
         /\ l.sysvHash[name] \in Nat
    BY <1>1, <1>2
  <2>2. SysvFound(elf, name, SysvLookup(elf.syms, elf.sysv, name, l.sysvHash[name]))
    BY <2>1, SysvFinds
  <2> QED BY <2>2
<1>5. \A i, k \in have : Named(i) /\ Named(k) => i = k
  BY <1>2 DEF Syms, Numbers
<1>6. PICK i : i = FindIndex(elf, name, gnu, sysv)
  OBVIOUS
<1>7. i = IF elf.useGnu THEN IF byGnu # None THEN byGnu ELSE undef ELSE bySysv
  BY <1>6 DEF FindIndex
<1>8. PICK value : value = XdlSym(elf, name, gnu, sysv)
  OBVIOUS
<1>9. PICK x : x = IF (IF elf.useGnu THEN byGnu ELSE None) = None /\ elf.useSysv THEN bySysv
                   ELSE IF elf.useGnu THEN byGnu ELSE None
  OBVIOUS
<1>10. value = IF x = None \/ ~Def(x) THEN None ELSE Symbol(elf.syms, x).value
  BY <1>8, <1>9 DEF XdlSym
<1>11. PICK dsym : dsym = XdlDsym(elf.syms, name)
  OBVIOUS
<1>12. PICK fit : fit = {j \in 0..n : Def(j) /\ Named(j)}
  OBVIOUS
<1>13. dsym = IF fit = {} THEN None
              ELSE Symbol(elf.syms, CHOOSE j \in fit : \A m \in fit : j <= m).value
  BY <1>11, <1>12 DEF XdlDsym
<1>14. \A j : j \in fit <=> j \in have /\ Def(j) /\ Named(j)
  <2>1. \A j \in 0..n : j = 0 \/ j \in have
    BY <1>1
  <2>2. \A j \in have : j \in 0..n
    BY <1>1
  <2> QED BY <1>1, <1>12, <2>1, <2>2
<1>15. None \notin have
  BY <1>1 DEF None
<1> HIDE DEF have, Named, Def, byGnu, undef, bySysv, n
<1>16. IF i = None THEN \A j \in have : ~Named(j) ELSE i \in have /\ Named(i)
  <2>1. CASE \E k \in have : Named(k)
    <3>1. PICK k \in have : Named(k)
      BY <2>1
    <3>2. i = k
      <4>1. CASE elf.useGnu /\ Def(k)
        BY <1>3, <1>7, <1>15, <3>1, <4>1
      <4>2. CASE elf.useGnu /\ ~Def(k)
        <5>1. \A m \in have : Named(m) => ~Def(m)
          BY <1>5, <3>1, <4>2
        <5> QED BY <1>3, <1>7, <3>1, <4>2, <5>1
      <4>3. CASE ~elf.useGnu
        BY <1>1, <1>4, <1>7, <3>1, <4>3
      <4> QED BY <4>1, <4>2, <4>3
    <3> QED BY <1>15, <3>1, <3>2
  <2>2. CASE \A k \in have : ~Named(k)
    BY <1>1, <1>3, <1>4, <1>7, <2>2
  <2> QED BY <2>1, <2>2
<1>17. CASE \E k \in have : Named(k) /\ Def(k)
  <2>1. PICK k \in have : Named(k) /\ Def(k)
    BY <1>17
  <2>2. x = k
    <3>1. CASE elf.useGnu
      BY <1>3, <1>9, <1>15, <2>1, <3>1
    <3>2. CASE ~elf.useGnu
      BY <1>1, <1>4, <1>9, <2>1, <3>2
    <3> QED BY <3>1, <3>2
  <2>3. value = Symbol(elf.syms, k).value
    BY <1>10, <1>15, <2>1, <2>2
  <2>4. \A j \in have : Named(j) /\ Def(j) => value = Symbol(elf.syms, j).value
    BY <1>5, <2>1, <2>3
  <2>5. dsym = value
    <3>1. k \in fit /\ \A j \in fit : j = k
      BY <1>5, <1>14, <2>1
    <3>2. \A j \in fit : k <= j
      <4>1. k \in Int
        BY <1>1
      <4> QED BY <3>1, <4>1
    <3>3. (CHOOSE j \in fit : \A m \in fit : j <= m) = k
      BY <3>1, <3>2
    <3> QED BY <1>13, <2>3, <3>1, <3>3
  <2> QED BY <1>6, <1>8, <1>11, <1>16, <2>1, <2>4, <2>5 DEF have, Named, Def, NameMeans
<1>18. CASE \A k \in have : Named(k) => ~Def(k)
  <2>1. value = None
    <3>1. CASE elf.useSysv
      <4>1. elf.useGnu => byGnu = None
        BY <1>3, <1>18
      <4>2. x = bySysv
        BY <1>9, <3>1, <4>1
      <4>3. CASE \E k \in have : Named(k)
        <5>1. PICK k \in have : Named(k)
          BY <4>3
        <5>2. x = k /\ ~Def(k)
          BY <1>4, <1>18, <3>1, <4>2, <5>1
        <5> QED BY <1>10, <5>2
      <4>4. CASE \A k \in have : ~Named(k)
        <5>1. x = None
          BY <1>4, <3>1, <4>2, <4>4
        <5> QED BY <1>10, <5>1
      <4> QED BY <4>3, <4>4
    <3>2. CASE ~elf.useSysv
      <4>1. x = None
        BY <1>1, <1>3, <1>9, <1>18, <3>2
      <4> QED BY <1>10, <4>1
    <3> QED BY <3>1, <3>2
  <2>2. dsym = None
    <3>1. fit = {}
      BY <1>14, <1>18
    <3> QED BY <1>13, <3>1
  <2> QED BY <1>6, <1>8, <1>11, <1>16, <1>18, <2>1, <2>2 DEF have, Named, Def, NameMeans
<1> QED BY <1>17, <1>18

\* By either hash table, in every library a linker lays out, a name finds its symbol, an
\* exported one before one that is only used, and a name it does not have finds none
\* (xh_elf_find_symidx_by_name, xdl_sym, xdl_dsym).
THEOREM Lookup == Spec => []LookupFinds
<1>1. GivenInv => LookupFinds
  <2> SUFFICES ASSUME GivenInv, input.tag = "table" PROVE LookupFinds
    BY DEF LookupFinds
  <2>1. PICK l : l = input.lib
    OBVIOUS
  <2>2. l \in Libraries
    BY <2>1, Given
  <2>3. \A name \in Names :
          NameMeans(l.elf, name, FindIndex(l.elf, name, l.gnuHash[name], l.sysvHash[name]),
                    XdlSym(l.elf, name, l.gnuHash[name], l.sysvHash[name]),
                    XdlDsym(l.elf.syms, name))
    BY <2>2, NameFound
  <2> QED BY <2>1, <2>3 DEF LookupFinds, NameMeans
<1> QED BY <1>1, GivenInit, GivenStep, PTL DEF Spec

\* The scan for an address sees every exported symbol, and none that is not in the table.
LEMMA ScanSees ==
  ASSUME NEW l, l \in Libraries, NEW elf, elf = l.elf, NEW n, n = Len(elf.syms) - 1
  PROVE  /\ \A i \in Scanned(elf) : i \in 0..n
         /\ \A j \in Numbers(elf) : Symbol(elf.syms, j).def => j \in Scanned(elf)
<1>1. n \in Nat /\ Numbers(elf) = 1..n /\ elf.useGnu \in BOOLEAN /\ (elf.useGnu \/ elf.useSysv)
  <2>1. Len(elf.syms) \in Nat \ {0}
    BY LibraryGiven
  <2>2. n \in Nat
    BY <2>1
  <2> QED BY <2>2, LibraryGiven
<1>2. CASE ~elf.useGnu
  <2>1. Scanned(elf) = 0..n
    BY <1>1, <1>2 DEF Scanned
  <2>2. \A j \in 1..n : j \in 0..n
    BY <1>1
  <2> QED BY <1>1, <2>1, <2>2
<1>3. CASE elf.useGnu
  <2> DEFINE hash == l.gnuHash
             off == elf.gnu.offset
             size == Buckets(elf.gnu)
             bucket == elf.gnu.bucket
             chain == elf.gnu.chain
             ends(b) == {i \in bucket[b]..n : chain[i - off] % 2 = 1}
             last(b) == CHOOSE i \in ends(b) : \A j \in ends(b) : i <= j
             seen(b) == IF bucket[b] < off THEN {} ELSE bucket[b]..last(b)
  <2>1. Scanned(elf) = UNION {seen(b) : b \in DOMAIN bucket}
    BY <1>3 DEF Scanned
  <2>2. Scanned(elf) \subseteq 0..n /\ \A j \in Numbers(elf) :
                                                   Symbol(elf.syms, j).def => j \in Scanned(elf)
    <3>1. Syms(elf.syms, hash)
      BY LibraryGiven
    <3>2. GnuLaidOut(elf, hash)
      BY <1>3, LibraryGiven
    <3>3. GnuBuckets(elf, hash, n, off, size, bucket, chain)
      <4> HIDE DEF hash, off, size, bucket, chain
      <4> QED BY <3>1, <3>2, GnuTable DEF off, size, bucket, chain
    <3> HIDE DEF hash, off, size, bucket, chain, last, ends
    <3>4. off \in Nat \ {0} /\ DOMAIN bucket = 0..size - 1
      BY <3>3 DEF GnuBuckets
    <3>5. ASSUME NEW b \in DOMAIN bucket, ~(bucket[b] < off)
          PROVE  /\ bucket[b] \in off..n /\ last(b) \in ends(b) /\ last(b) \in bucket[b]..n
                 /\ \A i \in ends(b) : last(b) <= i
      <4>1. bucket[b] = 0 \/ bucket[b] \in off..n
        BY <3>3, <3>4 DEF GnuBuckets
      <4>2. bucket[b] \in off..n
        BY <3>4, <3>5, <4>1
      <4>3. off <= n /\ bucket[b] \in Nat /\ bucket[b] <= n /\ n \in bucket[b]..n
        BY <1>1, <3>4, <4>2
      <4>4. chain[n - off] % 2 = 1
        BY <3>3, <4>3 DEF GnuBuckets
      <4>5. n \in ends(b) /\ ends(b) \subseteq Nat
        BY <4>3, <4>4 DEF ends
      <4>6. PICK e \in ends(b) : \A i \in ends(b) : e <= i
        BY <4>5, Least
      <4>7. last(b) \in ends(b) /\ \A i \in ends(b) : last(b) <= i
        BY <4>6 DEF last
      <4> QED BY <4>2, <4>7 DEF ends
    <3>6. ASSUME NEW i \in Scanned(elf) PROVE i \in 0..n
      <4>1. PICK b \in DOMAIN bucket : i \in seen(b)
        BY <2>1, <3>6
      <4>2. ~(bucket[b] < off) /\ i \in bucket[b]..last(b)
        BY <4>1
      <4>3. bucket[b] \in off..n /\ last(b) \in bucket[b]..n
        BY <3>5, <4>2
      <4>4. bucket[b] \in Nat /\ last(b) \in Nat /\ last(b) <= n
        BY <1>1, <3>4, <4>3
      <4> QED BY <1>1, <4>2, <4>4
    <3>7. ASSUME NEW j \in Numbers(elf), Symbol(elf.syms, j).def PROVE j \in Scanned(elf)
      <4>1. j \in off..n
        BY <1>1, <3>3, <3>7 DEF GnuBuckets
      <4>2. PICK b : b = GnuIn(elf, hash, j)
        OBVIOUS
      <4>3. /\ b \in DOMAIN bucket /\ bucket[b] \in off..n /\ bucket[b] <= j
            /\ \A i \in bucket[b]..j - 1 : chain[i - off] % 2 # 1
        BY <3>3, <3>4, <4>1, <4>2 DEF GnuBuckets
      <4>4. ~(bucket[b] < off)
        BY <3>4, <4>3
      <4>5. last(b) \in ends(b) /\ last(b) \in bucket[b]..n
        BY <3>5, <4>3, <4>4
      <4>6. j <= last(b)
        <5>1. chain[last(b) - off] % 2 = 1
          BY <4>5 DEF ends
        <5>2. last(b) \notin bucket[b]..j - 1
          BY <4>3, <5>1
        <5> QED BY <1>1, <3>4, <4>1, <4>3, <4>5, <5>2
      <4>7. j \in bucket[b]..last(b)
        BY <1>1, <3>4, <4>1, <4>3, <4>5, <4>6
      <4>8. j \in seen(b)
        BY <4>4, <4>7
      <4> QED BY <2>1, <4>3, <4>8
    <3> QED BY <3>6, <3>7
  <2> QED BY <2>2
<1> QED BY <1>1, <1>2, <1>3

\* What an address is to find.
Within(elf, at) == {j \in Numbers(elf) :
                      LET s == Symbol(elf.syms, j)
                      IN s.def /\ ~s.tls /\ at \in s.value..(s.value + s.size - 1)}

LEMMA AddressFound ==
  ASSUME NEW l, l \in Libraries, NEW elf, elf = l.elf, NEW at, at \in Int
  PROVE  IF Within(elf, at) = {} THEN SymByAddr(elf, at) = None
         ELSE SymByAddr(elf, at) \in Within(elf, at)
<1>1. PICK n : n = Len(elf.syms) - 1
  OBVIOUS
<1>2. PICK fit : fit = {i \in Scanned(elf) : Covers(Symbol(elf.syms, i), at)}
  OBVIOUS
<1>3. /\ \A i \in Scanned(elf) : i \in 0..n
      /\ \A j \in Numbers(elf) : Symbol(elf.syms, j).def => j \in Scanned(elf)
  BY <1>1, ScanSees
<1>4. /\ n \in Nat /\ Numbers(elf) = 1..n
      /\ \A i \in 0..n : Symbol(elf.syms, i).value \in Nat /\ Symbol(elf.syms, i).size \in Nat
      /\ Symbol(elf.syms, 0).size = 0
      /\ \A i \in 1..n : ~Symbol(elf.syms, i).def => Symbol(elf.syms, i).size = 0
  <2>1. Len(elf.syms) \in Nat \ {0}
    BY LibraryGiven
  <2>2. n \in Nat
    BY <1>1, <2>1
  <2> QED BY <1>1, <2>2, LibraryGiven
<1>5. \A i \in 0..n : i = 0 \/ i \in 1..n
  BY <1>4
<1>6. \A i \in 1..n : i \in 0..n
  BY <1>4
<1>7. ASSUME NEW i \in fit PROVE i \in Within(elf, at)
  <2>1. PICK s : s = Symbol(elf.syms, i)
    OBVIOUS
  <2>2. i \in Scanned(elf) /\ ~s.tls /\ s.value <= at /\ at < s.value + s.size
    BY <1>2, <2>1 DEF Covers
  <2>3. i \in 0..n /\ s.value \in Nat /\ s.size \in Nat
    BY <1>3, <1>4, <2>1, <2>2
  <2>4. s.size # 0
    BY <2>2, <2>3
  <2>5. i \in 1..n /\ s.def
    BY <1>4, <1>5, <2>1, <2>3, <2>4
  <2>6. at \in s.value..(s.value + s.size - 1)
    BY <2>2, <2>3
  <2> QED BY <1>4, <2>1, <2>2, <2>5, <2>6 DEF Within
<1>8. ASSUME NEW j \in Within(elf, at) PROVE j \in fit
  <2>1. PICK s : s = Symbol(elf.syms, j)
    OBVIOUS
  <2>2. j \in 1..n /\ s.def /\ ~s.tls /\ at \in s.value..(s.value + s.size - 1)
    BY <1>4, <2>1 DEF Within
  <2>3. s.value \in Nat /\ s.size \in Nat
    BY <1>4, <1>6, <2>1, <2>2
  <2>4. s.value <= at /\ at < s.value + s.size
    BY <2>2, <2>3
  <2>5. j \in Scanned(elf)
    BY <1>3, <1>4, <2>1, <2>2
  <2> QED BY <1>2, <2>1, <2>2, <2>4, <2>5 DEF Covers
<1>9. SymByAddr(elf, at) = IF fit = {} THEN None ELSE CHOOSE i \in fit : TRUE
  BY <1>2 DEF SymByAddr
<1>10. fit # {} => (CHOOSE i \in fit : TRUE) \in fit
  OBVIOUS
<1> QED BY <1>7, <1>8, <1>9, <1>10

\* An address finds an exported symbol that it lies in whenever there is one, by either
\* hash table, and nothing else (xdl_sym_by_addr).
THEOREM SymbolAt == Spec => []SymAt
<1>1. GivenInv => SymAt
  <2> SUFFICES ASSUME GivenInv, input.tag = "table" PROVE SymAt
    BY DEF SymAt
  <2>1. PICK l : l = input.lib
    OBVIOUS
  <2>2. l \in Libraries /\ \A at \in Addresses : at \in Int
    BY <2>1, Given, MapsAssumption DEF MapsAssumption
  <2>3. \A at \in Addresses : IF Within(l.elf, at) = {} THEN SymByAddr(l.elf, at) = None
                              ELSE SymByAddr(l.elf, at) \in Within(l.elf, at)
    BY <2>2, AddressFound
  <2> QED BY <2>1, <2>3 DEF SymAt, Within
<1> QED BY <1>1, GivenInit, GivenStep, PTL DEF Spec

-----------------------------------------------------------------------------
(* Relocation of ARM64 instructions *)

Instr64 == [kind : Kinds64, label : Int]
Window64 == [tag : {"arm64"}, base : Int, tramp : Int, replace : Int, instrs : Seq(Instr64)]

\* The words that are overwritten are never fewer than the instructions put together.
Window64Inv == input.tag = "arm64" => input \in Window64 /\ Len(input.instrs) <= Wanted64(input)

LEMMA Wanted64Values ==
  ASSUME NEW w
  PROVE  Wanted64(w) \in {1, 4, 5}
BY DEF Wanted64, Overwrites

LEMMA Window64Init == Init => Window64Inv
<1> SUFFICES ASSUME Init, input.tag = "arm64"
             PROVE  input \in Window64 /\ Len(input.instrs) <= Wanted64(input)
  BY DEF Window64Inv
<1>1. PICK w \in Windows64 : input = Begun64(w)
  BY DEF Init, Nothing
<1>2. w.base \in Int /\ w.tramp \in Int /\ w.replace \in Int
  BY Window64Assumption DEF Window64Assumption
<1>3. Wanted64(input) \in {1, 4, 5}
  BY Wanted64Values
<1>4. input \in Window64 /\ input.instrs = <<>>
  BY <1>1, <1>2 DEF Begun64, Window64
<1> QED BY <1>3, <1>4

LEMMA Window64Step == Window64Inv /\ [Next]_vars => Window64Inv'
<1> SUFFICES ASSUME Window64Inv, [Next]_vars PROVE Window64Inv'
  OBVIOUS
<1>1. CASE UNCHANGED input
  BY <1>1 DEF Window64Inv, Wanted64
<1>2. ASSUME NEW kind \in Kinds64, NEW label \in LabelsOf64(input, kind), Append64(kind, label)
      PROVE  Window64Inv'
  <2>1. input \in Window64 /\ Len(input.instrs) < Wanted64(input)
    BY <1>2 DEF Append64, Window64Inv
  <2>2. label \in Int
    <3>1. input.base \in Int /\ Ahead64[Wanted64(input)] \subseteq Int
      BY <2>1, Wanted64Values, Window64Assumption DEF Window64, Window64Assumption
    <3> QED BY <3>1 DEF LabelsOf64
  <2>3. PICK e : e = [kind |-> kind, label |-> label]
    OBVIOUS
  <2>4. e \in Instr64
    BY <2>2, <2>3 DEF Instr64
  <2>5. input' = [input EXCEPT !.instrs = Append(input.instrs, e)]
    BY <1>2, <2>3 DEF Append64
  <2>6. input.instrs \in Seq(Instr64)
    BY <2>1 DEF Window64
  <2>7. /\ Append(input.instrs, e) \in Seq(Instr64)
        /\ Len(Append(input.instrs, e)) = Len(input.instrs) + 1 /\ Len(input.instrs) \in Nat
    BY <2>4, <2>6
  <2>8. /\ input' \in Window64 /\ input'.instrs = Append(input.instrs, e)
        /\ input'.base = input.base /\ input'.replace = input.replace
    BY <2>1, <2>5, <2>7 DEF Window64
  <2>9. Wanted64(input)' = Wanted64(input)
    BY <2>8 DEF Wanted64
  <2>10. Wanted64(input) \in {1, 4, 5}
    BY Wanted64Values
  <2>11. Len(input'.instrs) <= Wanted64(input)
    BY <2>1, <2>7, <2>8, <2>10
  <2> QED BY <2>8, <2>9, <2>11 DEF Window64Inv
<1> QED BY <1>1, <1>2 DEF Next, Append32, vars

\* What an instruction becomes at any place: at most three NOPs and nine words in all;
\* an offset that is emitted fits, and what it means is what is referred to.
Ops64(kind) == CASE kind = "B" -> {"b", "far"} [] kind = "BL" -> {"bl", "far_link"}
                 [] kind \in Conditional64 -> {"cond", "far_cond"}
                 [] kind \in Loads64 -> {"load", "data4", "data8", "data16"}
                 [] kind = "ADR" -> {"adr", "far_adr"} [] kind = "ADRP" -> {"copy", "far_adr"}
                 [] kind = "PRFM" -> {"none"} [] kind = "OTHER" -> {"copy"}

FixedOK(w, kind, to, out, e) ==
  /\ e.nops \in Nat /\ e.nops <= 3 /\ Words(e) \in Nat /\ Words(e) <= 9
  /\ e.op \in Ops64(kind) /\ e.idx \in Nat /\ e.idx <= Len(w.instrs)
  /\ e.idx # 0 => w.base + e.idx - 1 = to /\ e.op \in {"b", "bl", "cond", "adr"}
  /\ e.idx = 0 /\ e.op \notin {"copy", "none"} => e.to = to
  /\ e.idx = 0 /\ e.op \in {"b", "bl", "cond", "load", "adr"} =>
       -FieldReach(kind) <= e.to - (out + e.nops) /\ e.to - (out + e.nops) < FieldReach(kind)
  /\ kind = "ADRP" /\ e.op = "copy" => InRange(w, to)

\* A place of a window.
Fixes(w, n, i, kind, to, out) ==
  /\ w.base \in Int /\ out \in Int /\ to \in Int
  /\ n = Len(w.instrs) /\ n \in 1..5 /\ i \in 1..n
  /\ kind = w.instrs[i].kind /\ kind \in Kinds64 /\ to = Absolute64(w, i)

LEMMA InTheWindow ==
  ASSUME NEW w, NEW n, NEW i, NEW kind, NEW to, NEW out, Fixes(w, n, i, kind, to, out),
         InRange(w, to)
  PROVE  /\ Index(w, to) \in Nat /\ 1 <= Index(w, to) /\ Index(w, to) <= n
         /\ w.base + Index(w, to) - 1 = to
BY DEF Fixes, InRange, Index

\* A group of words behind the NOP that may align it.
Grouped(e, op, to) ==
  /\ e.op = op /\ e.to = to /\ e.idx = 0
  /\ e.nops \in Nat /\ e.nops <= 3 /\ Words(e) \in Nat /\ Words(e) <= 9

LEMMA AlignedGroup ==
  ASSUME NEW op, NEW to, NEW out, NEW ahead, out \in Int, ahead \in Int,
         op \in {"far", "far_link", "far_cond", "far_adr"}
  PROVE  Grouped(Aligned(out, ahead, Emit64(op, to)), op, to)
<1>1. PICK k : k = (out + ahead) % 2
  OBVIOUS
<1>2. k \in Nat /\ k <= 1
  BY <1>1
<1>3. PICK e : e = Aligned(out, ahead, Emit64(op, to))
  OBVIOUS
<1>4. e = [op |-> op, to |-> to, idx |-> 0, nops |-> k]
  BY <1>1, <1>3 DEF Aligned, Behind, Emit64
<1>5. Size(e) = 4 \/ Size(e) = 5 \/ Size(e) = 6
  BY <1>4 DEF Size
<1>6. e.nops = k /\ Words(e) = k + Size(e)
  BY <1>4 DEF Words
<1>7. e.nops \in Nat /\ e.nops <= 3 /\ Words(e) \in Nat /\ Words(e) <= 9
  BY <1>2, <1>5, <1>6
<1>8. e.op = op /\ e.to = to /\ e.idx = 0
  BY <1>4
<1>9. Grouped(e, op, to)
  BY <1>7, <1>8 DEF Grouped
<1> QED BY <1>3, <1>9

LEMMA Branch64Fixed ==
  ASSUME NEW w, NEW n, NEW i, NEW kind, NEW to, NEW out, Fixes(w, n, i, kind, to, out),
         kind \in Branches64
  PROVE  FixedOK(w, kind, to, out, FixBranch(w, i, out))
<1> DEFINE near == IF kind = "B" THEN "b" ELSE "bl"
<1>1. /\ out \in Int /\ to \in Int /\ n = Len(w.instrs) /\ 0 \in 0..n
      /\ kind = w.instrs[i].kind /\ to = Absolute64(w, i)
  BY DEF Fixes
<1>2. kind \in {"B", "BL"} /\ Reach(kind) = 2^25 - 1 /\ FieldReach(kind) = 2^25
  BY DEF Branches64, Loads64, Reach, FieldReach
<1>3. /\ kind = "B" => Ops64(kind) = {"b", "far"}
      /\ kind = "BL" => Ops64(kind) = {"bl", "far_link"}
  BY DEF Ops64, Conditional64, Loads64
<1>4. (out + 2) % 2 \in 0..1 /\ (out + 3) % 2 \in 0..1
  BY <1>1
<1>5. PICK e : e = FixBranch(w, i, out)
  OBVIOUS
<1> SUFFICES FixedOK(w, kind, to, out, e)
  BY <1>5
<1>6. CASE InRange(w, to)
  <2>1. e = EmitTo(near, Index(w, to))
    BY <1>1, <1>5, <1>6 DEF FixBranch
  <2>2. /\ e.op = near /\ e.nops = 0 /\ e.idx = Index(w, to) /\ Words(e) = 1
    BY <2>1 DEF EmitTo, Words, Size
  <2>3. /\ Index(w, to) \in Nat /\ 1 <= Index(w, to) /\ Index(w, to) <= n
        /\ w.base + Index(w, to) - 1 = to
    BY <1>6, InTheWindow
  <2>4. e.idx \in Nat /\ e.idx <= n /\ e.idx # 0 /\ w.base + e.idx - 1 = to
    BY <2>2, <2>3
  <2> QED BY <1>1, <1>2, <1>3, <2>2, <2>4 DEF FixedOK
<1>7. CASE ~InRange(w, to) /\ Abs(to - out) >= 2^25 - 1
  <2>1. e = IF kind = "B" THEN Aligned(out, 2, Emit64("far", to))
            ELSE Aligned(out, 3, Emit64("far_link", to))
    BY <1>1, <1>2, <1>5, <1>7 DEF FixBranch
  <2>2. Grouped(e, "far", to) \/ Grouped(e, "far_link", to)
    BY <1>1, <2>1, AlignedGroup
  <2>3. kind = "B" => Grouped(e, "far", to)
    BY <1>1, <2>1, AlignedGroup
  <2>4. kind = "BL" => Grouped(e, "far_link", to)
    BY <1>1, <2>1, AlignedGroup
  <2>5. e.op \in Ops64(kind)
    BY <1>2, <1>3, <2>3, <2>4 DEF Grouped
  <2> QED BY <1>1, <2>2, <2>5 DEF FixedOK, Grouped
<1>8. CASE ~InRange(w, to) /\ ~(Abs(to - out) >= 2^25 - 1)
  <2>1. e = Emit64(near, to)
    BY <1>1, <1>2, <1>5, <1>8 DEF FixBranch
  <2>2. e.op = near /\ e.nops = 0 /\ e.idx = 0 /\ e.to = to /\ Words(e) = 1
    BY <2>1 DEF Emit64, Words, Size
  <2>3. -(2^25) <= to - (out + 0) /\ to - (out + 0) < 2^25
    BY <1>1, <1>8 DEF Abs
  <2> QED BY <1>1, <1>2, <1>3, <2>2, <2>3 DEF FixedOK
<1> QED BY <1>6, <1>7, <1>8

LEMMA Conditional64Fixed ==
  ASSUME NEW w, NEW n, NEW i, NEW kind, NEW to, NEW out, Fixes(w, n, i, kind, to, out),
         kind \in Conditional64
  PROVE  FixedOK(w, kind, to, out, FixConditional(w, i, out))
<1>1. /\ out \in Int /\ to \in Int /\ n = Len(w.instrs) /\ 0 \in 0..n
      /\ kind = w.instrs[i].kind /\ to = Absolute64(w, i)
  BY DEF Fixes
<1>2. /\ kind \in {"COND", "TEST"}
      /\ kind = "COND" => Reach(kind) = 2^18 - 1 /\ FieldReach(kind) = 2^18
      /\ kind = "TEST" => Reach(kind) = 2^13 - 1 /\ FieldReach(kind) = 2^13
  BY DEF Conditional64, Reach, FieldReach, Branches64, Loads64
<1>3. Ops64(kind) = {"cond", "far_cond"}
  BY DEF Ops64, Conditional64, Loads64
<1>4. (out + 4) % 2 \in 0..1
  BY <1>1
<1>5. PICK e : e = FixConditional(w, i, out)
  OBVIOUS
<1> SUFFICES FixedOK(w, kind, to, out, e)
  BY <1>5
<1>6. CASE InRange(w, to)
  <2>1. e = EmitTo("cond", Index(w, to))
    BY <1>1, <1>5, <1>6 DEF FixConditional
  <2>2. /\ e.op = "cond" /\ e.nops = 0 /\ e.idx = Index(w, to) /\ Words(e) = 1
    BY <2>1 DEF EmitTo, Words, Size
  <2>3. /\ Index(w, to) \in Nat /\ 1 <= Index(w, to) /\ Index(w, to) <= n
        /\ w.base + Index(w, to) - 1 = to
    BY <1>6, InTheWindow
  <2>4. e.idx \in Nat /\ e.idx <= n /\ e.idx # 0 /\ w.base + e.idx - 1 = to
    BY <2>2, <2>3
  <2> QED BY <1>1, <1>2, <1>3, <2>2, <2>4 DEF FixedOK
<1>7. CASE ~InRange(w, to) /\ Abs(to - out) >= Reach(kind)
  <2>1. e = Aligned(out, 4, Emit64("far_cond", to))
    BY <1>1, <1>5, <1>7 DEF FixConditional
  <2>2. e.op = "far_cond" /\ e.nops \in 0..1 /\ e.idx = 0 /\ e.to = to /\ Words(e) \in 0..9
    BY <1>4, <2>1 DEF Aligned, Behind, Emit64, Words, Size
  <2>3. e.nops \in 0..3
    BY <2>2
  <2> QED BY <1>1, <1>2, <1>3, <2>2, <2>3 DEF FixedOK
<1>8. CASE ~InRange(w, to) /\ ~(Abs(to - out) >= Reach(kind))
  <2>1. e = Emit64("cond", to)
    BY <1>1, <1>5, <1>8 DEF FixConditional
  <2>2. e.op = "cond" /\ e.nops = 0 /\ e.idx = 0 /\ e.to = to /\ Words(e) = 1
    BY <2>1 DEF Emit64, Words, Size
  <2>3. -FieldReach(kind) <= to - (out + 0) /\ to - (out + 0) < FieldReach(kind)
    BY <1>1, <1>2, <1>8 DEF Abs
  <2> QED BY <1>1, <1>2, <1>3, <2>2, <2>3 DEF FixedOK
<1> QED BY <1>6, <1>7, <1>8

\* Fewer NOPs than a literal has words align it.
LEMMA PadFits ==
  ASSUME NEW m \in Int, NEW n \in {1, 2, 4}, NEW sign \in {1, -1}
  PROVE  Min({k \in 0..3 : (m + sign * k) % n = 0}) \in 0..n - 1
<1> DEFINE T == {k \in 0..3 : (m + sign * k) % n = 0}
<1>1. \E k \in T : k <= n - 1
  <2>1. CASE n = 1
    <3>1. (m + sign * 0) % 1 = 0 /\ 0 \in 0..3 /\ 0 <= 1 - 1
      OBVIOUS
    <3> QED BY <2>1, <3>1
  <2>2. CASE n = 2 /\ sign = 1
    <3>1. (m + 1 * 0) % 2 = 0 \/ (m + 1 * 1) % 2 = 0
      OBVIOUS
    <3> QED BY <2>2, <3>1
  <2>3. CASE n = 2 /\ sign = -1
    <3>1. (m + (-1) * 0) % 2 = 0 \/ (m + (-1) * 1) % 2 = 0
      OBVIOUS
    <3> QED BY <2>3, <3>1
  <2>4. CASE n = 4 /\ sign = 1
    <3>1. \/ (m + 1 * 0) % 4 = 0 \/ (m + 1 * 1) % 4 = 0
          \/ (m + 1 * 2) % 4 = 0 \/ (m + 1 * 3) % 4 = 0
      OBVIOUS
    <3> QED BY <2>4, <3>1
  <2>5. CASE n = 4 /\ sign = -1
    <3>1. \/ (m + (-1) * 0) % 4 = 0 \/ (m + (-1) * 1) % 4 = 0
          \/ (m + (-1) * 2) % 4 = 0 \/ (m + (-1) * 3) % 4 = 0
      OBVIOUS
    <3>2. PICK k \in 0..3 : (m + (-1) * k) % 4 = 0
      BY <3>1
    <3>3. k \in T /\ k <= n - 1
      BY <2>5, <3>2
    <3> QED BY <3>3
  <2> QED BY <2>1, <2>2, <2>3, <2>4, <2>5
<1>2. T \subseteq Nat
  OBVIOUS
<1> HIDE DEF T
<1>3. PICK x \in T : \A y \in T : x <= y
  BY <1>1, <1>2, Least
<1>4. PICK y : y = Min(T)
  OBVIOUS
<1>5. y \in T /\ \A z \in T : y <= z
  BY <1>3, <1>4 DEF Min
<1>6. y \in Nat /\ y <= n - 1
  BY <1>1, <1>2, <1>5
<1>7. y \in 0..n - 1
  BY <1>6
<1> QED BY <1>4, <1>7 DEF T

\* A load of a literal, by its kind and what it refers to.
LoadAs(w, kind, to, out) ==
  LET n == LiteralWords(kind)
      copied == InRange(w, to) \/ Abs(to - out) + n - 1 >= Reach("LDR8")
      pad == IF copied THEN Min({k \in 0..3 : (out + k + 2) % n = 0})
             ELSE Min({k \in 0..3 : (to - out - k) % n = 0})
      op == IF ~copied THEN "load"
            ELSE CASE n = 1 -> "data4" [] n = 2 -> "data8" [] n = 4 -> "data16"
  IN Behind(pad, Emit64(op, to))

LEMMA Load64Fixed ==
  ASSUME NEW w, NEW n, NEW i, NEW kind, NEW to, NEW out, Fixes(w, n, i, kind, to, out),
         kind \in Loads64
  PROVE  FixedOK(w, kind, to, out, FixLoad(w, i, out))
<1> DEFINE size == LiteralWords(kind)
           copied == InRange(w, to) \/ Abs(to - out) + size - 1 >= Reach("LDR8")
           toCopy == Min({k \in 0..3 : (out + k + 2) % size = 0})
           toLiteral == Min({k \in 0..3 : (to - out - k) % size = 0})
           loads == CASE size = 1 -> "data4" [] size = 2 -> "data8" [] size = 4 -> "data16"
<1>1. /\ out \in Int /\ to \in Int /\ n = Len(w.instrs) /\ n \in Nat
      /\ kind = w.instrs[i].kind /\ to = Absolute64(w, i)
  BY DEF Fixes
<1>2. kind \in Loads64 /\ Reach("LDR8") = 2^18 - 1 /\ FieldReach(kind) = 2^18
  BY DEF Branches64, Loads64, Reach, FieldReach
<1>3. Ops64(kind) = {"load", "data4", "data8", "data16"}
  BY DEF Ops64, Conditional64, Loads64
<1>4. size \in {1, 2, 4}
  BY DEF LiteralWords, Loads64
<1>5. PICK e : e = FixLoad(w, i, out)
  OBVIOUS
<1> SUFFICES FixedOK(w, kind, to, out, e)
  BY <1>5
<1>6. toCopy \in 0..size - 1
  <2>1. {k \in 0..3 : (out + k + 2) % size = 0} = {k \in 0..3 : ((out + 2) + 1 * k) % size = 0}
    <3>1. \A k \in 0..3 : out + k + 2 = (out + 2) + 1 * k
      BY <1>1
    <3> HIDE DEF size
    <3> QED BY <3>1
  <2>2. out + 2 \in Int /\ 1 \in {1, -1}
    BY <1>1
  <2> HIDE DEF size
  <2> QED BY <1>4, <2>1, <2>2, PadFits
<1>7. toLiteral \in 0..size - 1
  <2>1. {k \in 0..3 : (to - out - k) % size = 0} = {k \in 0..3 : ((to - out) + (-1) * k) % size = 0}
    <3>1. \A k \in 0..3 : to - out - k = (to - out) + (-1) * k
      BY <1>1
    <3> HIDE DEF size
    <3> QED BY <3>1
  <2>2. to - out \in Int /\ -1 \in {1, -1}
    BY <1>1
  <2> HIDE DEF size
  <2> QED BY <1>4, <2>1, <2>2, PadFits
<1>8. e = Behind(IF copied THEN toCopy ELSE toLiteral,
              Emit64(IF ~copied THEN "load" ELSE loads, to))
  <2>1. FixLoad(w, i, out) = LoadAs(w, w.instrs[i].kind, Absolute64(w, i), out)
    BY DEF FixLoad, LoadAs
  <2>2. e = LoadAs(w, kind, to, out)
    BY <1>1, <1>5, <2>1
  <2> QED BY <2>2 DEF LoadAs
<1>9. loads \in {"data4", "data8", "data16"}
  BY <1>4
<1> HIDE DEF size, toCopy, toLiteral, loads, copied
<1>10. CASE copied
  <2>1. e = [op |-> loads, to |-> to, idx |-> 0, nops |-> toCopy]
    BY <1>8, <1>10 DEF Behind, Emit64
  <2>2. toCopy \in Nat /\ toCopy <= 3
    BY <1>4, <1>6
  <2>3. e.op \in {"data4", "data8", "data16"} /\ e.to = to /\ e.idx = 0 /\ e.nops = toCopy
    BY <1>9, <2>1
  <2>4. Size(e) = 3 \/ Size(e) = 4 \/ Size(e) = 6
    BY <2>3 DEF Size
  <2>5. Words(e) \in Nat /\ Words(e) <= 9
    BY <2>2, <2>3, <2>4 DEF Words
  <2> QED BY <1>1, <1>3, <2>2, <2>3, <2>5, kind \in Loads64 DEF FixedOK, Loads64
<1>11. CASE ~copied
  <2>1. e = [op |-> "load", to |-> to, idx |-> 0, nops |-> toLiteral]
    BY <1>8, <1>11 DEF Behind, Emit64
  <2>2. toLiteral \in Nat /\ toLiteral <= 3 /\ toLiteral <= size - 1
    BY <1>4, <1>7
  <2>3. e.op = "load" /\ e.to = to /\ e.idx = 0 /\ e.nops = toLiteral
    BY <2>1
  <2>4. Size(e) = 1
    BY <2>3 DEF Size
  <2>5. Words(e) \in Nat /\ Words(e) <= 9
    BY <2>2, <2>3, <2>4 DEF Words
  <2>6. Abs(to - out) + size - 1 < 2^18 - 1
    BY <1>1, <1>2, <1>4, <1>11 DEF copied, Abs
  <2>7. -(2^18) <= to - (out + toLiteral) /\ to - (out + toLiteral) < 2^18
    BY <1>1, <1>4, <2>2, <2>6 DEF Abs
  <2> QED BY <1>1, <1>2, <1>3, <2>2, <2>3, <2>5, <2>7 DEF FixedOK, Loads64
<1> QED BY <1>10, <1>11

LEMMA Address64Fixed ==
  ASSUME NEW w, NEW n, NEW i, NEW kind, NEW to, NEW out, Fixes(w, n, i, kind, to, out),
         kind \in {"ADR", "ADRP"}
  PROVE  FixedOK(w, kind, to, out, FixAddress(w, i, out))
<1>1. /\ out \in Int /\ to \in Int /\ n = Len(w.instrs) /\ n \in Nat
      /\ kind = w.instrs[i].kind /\ to = Absolute64(w, i) /\ i \in Nat /\ i # 0 /\ i <= n
  BY DEF Fixes
<1>2. Reach("ADR") = 2^18 - 1 /\ FieldReach("ADR") = 2^18
  BY DEF Branches64, Loads64, Reach, FieldReach
<1>3. Ops64("ADR") = {"adr", "far_adr"} /\ Ops64("ADRP") = {"copy", "far_adr"}
  BY DEF Ops64, Conditional64, Loads64
<1>4. PICK e : e = FixAddress(w, i, out)
  OBVIOUS
<1> SUFFICES FixedOK(w, kind, to, out, e)
  BY <1>4
<1>5. CASE Grouped(e, "far_adr", to)
  BY <1>1, <1>3, <1>5 DEF FixedOK, Grouped
<1>6. CASE kind = "ADRP" /\ InRange(w, to)
  <2>1. e = Emit64("copy", i)
    BY <1>1, <1>4, <1>6 DEF FixAddress
  <2>2. e.op = "copy" /\ e.nops = 0 /\ e.idx = 0 /\ Words(e) = 1
    BY <2>1 DEF Emit64, Words, Size
  <2> QED BY <1>1, <1>3, <1>6, <2>2 DEF FixedOK
<1>7. CASE kind = "ADR" /\ InRange(w, to)
  <2>1. e = EmitTo("adr", Index(w, to))
    BY <1>1, <1>4, <1>7 DEF FixAddress
  <2>2. e.op = "adr" /\ e.nops = 0 /\ e.idx = Index(w, to) /\ Words(e) = 1
    BY <2>1 DEF EmitTo, Words, Size
  <2>3. /\ Index(w, to) \in Nat /\ 1 <= Index(w, to) /\ Index(w, to) <= n
        /\ w.base + Index(w, to) - 1 = to
    BY <1>7, InTheWindow
  <2>4. e.idx \in Nat /\ e.idx <= n /\ e.idx # 0 /\ w.base + e.idx - 1 = to
    BY <2>2, <2>3
  <2> QED BY <1>1, <1>2, <1>3, <1>7, <2>2, <2>4 DEF FixedOK
<1>8. CASE kind = "ADR" /\ ~InRange(w, to) /\ ~(Abs(to - out) > 2^18 - 1)
  <2>1. e = Emit64("adr", to)
    BY <1>1, <1>2, <1>4, <1>8 DEF FixAddress
  <2>2. e.op = "adr" /\ e.nops = 0 /\ e.idx = 0 /\ e.to = to /\ Words(e) = 1
    BY <2>1 DEF Emit64, Words, Size
  <2>3. -(2^18) <= to - (out + 0) /\ to - (out + 0) < 2^18
    BY <1>1, <1>8 DEF Abs
  <2> QED BY <1>1, <1>2, <1>3, <1>8, <2>2, <2>3 DEF FixedOK
<1>9. CASE ~InRange(w, to) /\ (kind = "ADRP" \/ Abs(to - out) > 2^18 - 1)
  <2>1. e = Aligned(out, 2, Emit64("far_adr", to))
    BY <1>1, <1>2, <1>4, <1>9 DEF FixAddress
  <2>2. Grouped(e, "far_adr", to)
    BY <1>1, <2>1, AlignedGroup
  <2> QED BY <1>5, <2>2
<1> QED BY <1>6, <1>7, <1>8, <1>9

LEMMA Fix64Fixed ==
  ASSUME NEW w, NEW n, NEW i, NEW kind, NEW to, NEW out, Fixes(w, n, i, kind, to, out)
  PROVE  FixedOK(w, kind, to, out, Fix(w, i, out))
<1>1. /\ out \in Int /\ to \in Int /\ n = Len(w.instrs) /\ n \in Nat
      /\ kind = w.instrs[i].kind /\ kind \in Kinds64
  BY DEF Fixes
<1>2. CASE kind \in Branches64
  <2>1. Fix(w, i, out) = FixBranch(w, i, out)
    BY <1>1, <1>2 DEF Fix, Branches64, Conditional64, Loads64
  <2> QED BY <1>2, <2>1, Branch64Fixed
<1>3. CASE kind \in Conditional64
  <2>1. Fix(w, i, out) = FixConditional(w, i, out)
    BY <1>1, <1>3 DEF Fix, Branches64, Conditional64, Loads64
  <2> QED BY <1>3, <2>1, Conditional64Fixed
<1>4. CASE kind \in Loads64
  <2>1. Fix(w, i, out) = FixLoad(w, i, out)
    BY <1>1, <1>4 DEF Fix, Branches64, Conditional64, Loads64
  <2> QED BY <1>4, <2>1, Load64Fixed
<1>5. CASE kind \in {"ADR", "ADRP"}
  <2>1. Fix(w, i, out) = FixAddress(w, i, out)
    BY <1>1, <1>5 DEF Fix, Branches64, Conditional64, Loads64
  <2> QED BY <1>5, <2>1, Address64Fixed
<1>6. CASE kind \in {"PRFM", "OTHER"}
  <2>1. PICK e : e = Fix(w, i, out)
    OBVIOUS
  <2>2. e = IF kind = "PRFM" THEN Emit64("none", 0) ELSE Emit64("copy", i)
    BY <1>1, <1>6, <2>1 DEF Fix, Branches64, Conditional64, Loads64
  <2>3. e.op = (IF kind = "PRFM" THEN "none" ELSE "copy") /\ e.idx = 0 /\ e.nops = 0
    BY <2>2 DEF Emit64
  <2>4. Words(e) = IF kind = "PRFM" THEN 0 ELSE 1
    BY <2>3 DEF Words, Size
  <2>5. Ops64("PRFM") = {"none"} /\ Ops64("OTHER") = {"copy"}
    BY DEF Ops64, Conditional64, Loads64
  <2>6. FixedOK(w, kind, to, out, e)
    BY <1>1, <1>6, <2>3, <2>4, <2>5 DEF FixedOK
  <2> QED BY <2>1, <2>6
<1> QED BY <1>1, <1>2, <1>3, <1>4, <1>5, <1>6 DEF Kinds64

\* A window whose instructions are all there: n of them.
Whole64(w, n) ==
  /\ w.base \in Int /\ w.tramp \in Int /\ n = Len(w.instrs) /\ n \in 1..5
  /\ \A i \in 1..n : w.instrs[i].kind \in Kinds64 /\ w.instrs[i].label \in Int

LEMMA AbsoluteIs ==
  ASSUME NEW w, NEW n, Whole64(w, n), NEW i, i \in 1..n
  PROVE  /\ Absolute64(w, i) \in Int
         /\ w.instrs[i].kind \in Branches64 \/ w.instrs[i].label >= w.base + i - 1
              => Absolute64(w, i) = w.instrs[i].label
<1>1. w.instrs[i].kind \in Kinds64 /\ w.instrs[i].label \in Int /\ w.base \in Int /\ i \in Int
  BY DEF Whole64
<1>2. PICK k : k = Wrap(w.instrs[i].kind)
  OBVIOUS
<1>3. k \in Int /\ (w.instrs[i].kind \in Branches64 => k = 0)
  BY <1>1, <1>2 DEF Wrap, Kinds64, Branches64, Conditional64, Loads64
<1>4. Absolute64(w, i) = IF w.instrs[i].label < w.base + i - 1 THEN w.instrs[i].label + k
                         ELSE w.instrs[i].label
  BY <1>2 DEF Absolute64
<1> QED BY <1>1, <1>3, <1>4

LEMMA FixAnywhere ==
  ASSUME NEW w, NEW n, Whole64(w, n), NEW i, i \in 1..n, NEW out, out \in Int
  PROVE  FixedOK(w, w.instrs[i].kind, Absolute64(w, i), out, Fix(w, i, out))
<1>1. Fixes(w, n, i, w.instrs[i].kind, Absolute64(w, i), out)
  BY AbsoluteIs DEF Fixes, Whole64
<1> QED BY <1>1, Fix64Fixed

\* The places of the instructions in the trampoline.
OutsOK(w, n, outs) ==
  /\ outs[1] = w.tramp
  /\ \A i \in 1..n + 1 : outs[i] \in Int
  /\ \A i \in 1..n : outs[i + 1] = outs[i] + Words(Fix(w, i, outs[i]))

LEMMA OutsGiven ==
  ASSUME NEW w, NEW n, Whole64(w, n)
  PROVE  OutsOK(w, n, Outs(w))
<1> DEFINE Is(f) == f = [i \in 1..Len(w.instrs) + 1 |->
                           IF i = 1 THEN w.tramp
                           ELSE f[i - 1] + Words(Fix(w, i - 1, f[i - 1]))]
           c == CHOOSE f : Is(f)
           g == [i \in 1 + 1..n + 1 |-> [x \in Int |-> x + Words(Fix(w, i - 1, x))]]
<1>1. Outs(w) = c
  BY DEF Outs
<1>2. n \in Nat /\ n = Len(w.instrs) /\ w.tramp \in Int
  BY DEF Whole64
<1>3. g \in [1 + 1..n + 1 -> [Int -> Int]]
  <2>1. ASSUME NEW i \in 1 + 1..n + 1, NEW x \in Int PROVE x + Words(Fix(w, i - 1, x)) \in Int
    <3>1. i - 1 \in 1..n
      BY <1>2
    <3>2. Words(Fix(w, i - 1, x)) \in Nat
      BY <3>1, FixAnywhere DEF FixedOK
    <3> QED BY <3>2
  <2> QED BY <2>1
<1>4. \A i \in 1 + 1..n + 1 : \A x \in Int : g[i][x] = x + Words(Fix(w, i - 1, x))
  OBVIOUS
<1> HIDE DEF g
<1>5. AreSteps(1, n + 1, Int, w.tramp, g)
  BY <1>2, <1>3 DEF AreSteps
<1>6. PICK f : Iterates(f, 1, n + 1, Int, w.tramp, g)
  BY <1>5, Iterated
<1>7. ASSUME NEW i \in 1..n + 1, i # 1 PROVE f[i] = f[i - 1] + Words(Fix(w, i - 1, f[i - 1]))
  <2>1. i - 1 \in 1..n + 1 /\ i \in 1 + 1..n + 1
    BY <1>2, <1>7
  <2>2. f[i - 1] \in Int /\ f[i] = g[i][f[i - 1]]
    BY <1>6, <2>1 DEF Iterates
  <2> QED BY <1>4, <2>1, <2>2
<1>8. f \in [1..n + 1 -> Int] /\ f[1] = w.tramp
  BY <1>6 DEF Iterates
<1>9. Is(f)
  BY <1>2, <1>7, <1>8
<1>10. Is(c)
  <2> HIDE DEF Is
  <2> QED BY <1>9
<1> HIDE DEF c
<1>11. Follows(c, 1, n + 1, Int, w.tramp, g)
  <2>1. c = [i \in 1..n + 1 |-> c[i]] /\ c[1] = w.tramp
    BY <1>2, <1>10
  <2>2. ASSUME NEW i \in 1 + 1..n + 1, c[i - 1] \in Int PROVE c[i] = g[i][c[i - 1]]
    <3>1. i \in 1..n + 1 /\ i # 1
      BY <1>2
    <3>2. c[i] = c[i - 1] + Words(Fix(w, i - 1, c[i - 1]))
      BY <1>2, <1>10, <3>1
    <3> QED BY <1>4, <2>2, <3>2
  <2> QED BY <2>1, <2>2 DEF Follows
<1>12. Iterates(c, 1, n + 1, Int, w.tramp, g)
  BY <1>5, <1>11, OneIteration
<1>13. \A i \in 1..n + 1 : c[i] \in Int
  BY <1>12 DEF Iterates
<1>14. ASSUME NEW i \in 1..n PROVE c[i + 1] = c[i] + Words(Fix(w, i, c[i]))
  <2>1. i + 1 \in 1 + 1..n + 1 /\ (i + 1) - 1 = i /\ i \in 1..n + 1
    BY <1>2
  <2>2. c[i + 1] = g[i + 1][c[i]]
    BY <1>12, <2>1 DEF Iterates
  <2>3. c[i] \in Int
    BY <1>13, <2>1
  <2> QED BY <1>4, <2>1, <2>2, <2>3
<1>15. c[1] = w.tramp
  BY <1>12 DEF Iterates
<1> QED BY <1>1, <1>13, <1>14, <1>15 DEF OutsOK

\* An instruction takes at most nine words, so the places are at most 45 apart.
LEMMA OutsNear ==
  ASSUME NEW w, NEW n, Whole64(w, n), NEW i, i \in 1..n + 1
  PROVE  Outs(w)[i] \in Int /\ w.tramp <= Outs(w)[i] /\ Outs(w)[i] <= w.tramp + 9 * (i - 1)
<1>1. PICK outs : outs = Outs(w)
  OBVIOUS
<1>2. /\ outs[1] = w.tramp
      /\ \A k \in 1..n + 1 : outs[k] \in Int
      /\ \A k \in 1..n : outs[k + 1] = outs[k] + Words(Fix(w, k, outs[k]))
  BY <1>1, OutsGiven DEF OutsOK
<1>3. n \in Nat /\ w.tramp \in Int /\ i \in Int
  BY DEF Whole64
<1> DEFINE S == {k \in 1..n + 1 : w.tramp <= outs[k] /\ outs[k] <= w.tramp + 9 * (k - 1)}
<1>4. 1 \in S
  BY <1>2, <1>3
<1>5. ASSUME NEW k \in 1..n + 1, k \in S, k < n + 1 PROVE k + 1 \in S
  <2>1. k \in 1..n /\ k + 1 \in 1..n + 1
    BY <1>3, <1>5
  <2>2. PICK x : x = Words(Fix(w, k, outs[k]))
    OBVIOUS
  <2>3. x \in Nat /\ x <= 9
    BY <1>2, <2>1, <2>2, FixAnywhere DEF FixedOK
  <2>4. outs[k + 1] = outs[k] + x /\ outs[k] \in Int
    BY <1>2, <2>1, <2>2
  <2>5. w.tramp <= outs[k] /\ outs[k] <= w.tramp + 9 * (k - 1)
    BY <1>5
  <2>6. w.tramp <= outs[k + 1] /\ outs[k + 1] <= w.tramp + 9 * ((k + 1) - 1)
    BY <1>3, <2>3, <2>4, <2>5
  <2> QED BY <2>1, <2>6
<1>6. 1..n + 1 \subseteq S
  <2> HIDE DEF S
  <2>1. Climbs(S, 1, n + 1)
    BY <1>3, <1>4, <1>5 DEF Climbs
  <2> QED BY <2>1, UpTo
<1>7. w.tramp <= outs[i] /\ outs[i] <= w.tramp + 9 * (i - 1)
  BY <1>6
<1> QED BY <1>1, <1>2, <1>7

\* An instruction at its place.
LEMMA FixedThere ==
  ASSUME NEW w, NEW n, Whole64(w, n), NEW i, i \in 1..n
  PROVE  /\ FixedOK(w, w.instrs[i].kind, Absolute64(w, i), Outs(w)[i], Fixed(w, i))
         /\ FixedAt(w, i) \in Int /\ FixedAt(w, i) = Outs(w)[i] + Fixed(w, i).nops
         /\ w.tramp <= FixedAt(w, i) /\ FixedAt(w, i) <= w.tramp + 48
<1>1. n \in Nat /\ n <= 5 /\ i \in Int /\ i <= 5 /\ i \in 1..n + 1 /\ w.tramp \in Int
  <2>1. n \in 1..5 /\ w.tramp \in Int
    BY DEF Whole64
  <2>2. n \in Nat /\ n <= 5 /\ i \in Int /\ 1 <= i /\ i <= n
    BY <2>1
  <2> QED BY <2>1, <2>2
<1>2. PICK out : out = Outs(w)[i]
  OBVIOUS
<1>3. out \in Int /\ w.tramp <= out /\ out <= w.tramp + 9 * (i - 1)
  BY <1>1, <1>2, OutsNear
<1>4. FixedOK(w, w.instrs[i].kind, Absolute64(w, i), out, Fix(w, i, out))
  BY <1>3, FixAnywhere
<1>5. FixedOK(w, w.instrs[i].kind, Absolute64(w, i), out, Fixed(w, i))
  BY <1>2, <1>4 DEF Fixed
<1>6. PICK k : k = Fixed(w, i).nops
  OBVIOUS
<1>7. k \in Nat /\ k <= 3
  BY <1>5, <1>6 DEF FixedOK
<1>8. FixedAt(w, i) = out + k
  BY <1>2, <1>6 DEF FixedAt
<1>9. out + k \in Int /\ w.tramp <= out + k /\ out + k <= w.tramp + 48
  BY <1>1, <1>3, <1>7
<1> QED BY <1>2, <1>5, <1>6, <1>8, <1>9

LEMMA FieldsReach ==
  ASSUME NEW kind, kind \in Kinds64
  PROVE  FieldReach(kind) \in Int /\ FieldReach(kind) >= 2^13
<1>1. FieldReach(kind) = 2^25 \/ FieldReach(kind) = 2^13 \/ FieldReach(kind) = 2^18
  BY DEF FieldReach, Kinds64, Branches64, Conditional64, Loads64
<1> QED BY <1>1

LEMMA OffsetFitsThere ==
  ASSUME NEW w, NEW n, Whole64(w, n), NEW i, i \in 1..n
  PROVE  OffsetFits(w, i)
<1>1. PICK kind : kind = w.instrs[i].kind
  OBVIOUS
<1>2. PICK e : e = Fixed(w, i)
  OBVIOUS
<1>3. PICK reach : reach = FieldReach(kind)
  OBVIOUS
<1>4. reach \in Int /\ reach >= 2^13 /\ w.tramp \in Int /\ n = Len(w.instrs) /\ n \in Nat
  BY <1>1, <1>3, FieldsReach DEF Whole64
<1>5. FixedOK(w, kind, Absolute64(w, i), Outs(w)[i], e)
  BY <1>1, <1>2, FixedThere
<1>6. PICK at : at = FixedAt(w, i)
  OBVIOUS
<1>7. at \in Int /\ at = Outs(w)[i] + e.nops /\ w.tramp <= at /\ at <= w.tramp + 48
  BY <1>2, <1>6, FixedThere
<1> SUFFICES ASSUME e.op \in {"b", "bl", "cond", "load", "adr"}
             PROVE  /\ -reach <= (IF e.idx = 0 THEN e.to ELSE FixedAt(w, e.idx)) - at
                    /\ (IF e.idx = 0 THEN e.to ELSE FixedAt(w, e.idx)) - at < reach
  BY <1>1, <1>2, <1>3, <1>6, Zenon DEF OffsetFits
<1>8. CASE e.idx = 0
  <2>1. -reach <= e.to - at /\ e.to - at < reach
    BY <1>3, <1>5, <1>7, <1>8 DEF FixedOK
  <2> QED BY <1>8, <2>1
<1>9. CASE e.idx # 0
  <2>1. e.idx \in 1..n
    BY <1>4, <1>5, <1>9 DEF FixedOK
  <2>2. PICK there : there = FixedAt(w, e.idx)
    OBVIOUS
  <2>3. there \in Int /\ w.tramp <= there /\ there <= w.tramp + 48
    BY <2>1, <2>2, FixedThere
  <2>4. -reach <= there - at /\ there - at < reach
    BY <1>4, <1>7, <2>3
  <2> QED BY <1>9, <2>2, <2>4
<1> QED BY <1>8, <1>9

LEMMA TrampolineFits ==
  ASSUME NEW w, NEW n, Whole64(w, n)
  PROVE  TrampolineWords(w) <= Room
<1>1. PICK out : out = Outs(w)[n + 1]
  OBVIOUS
<1>2. n \in Nat /\ n <= 5 /\ n + 1 \in 1..n + 1 /\ w.tramp \in Int /\ n = Len(w.instrs)
  BY DEF Whole64
<1>3. out \in Int /\ out <= w.tramp + 9 * ((n + 1) - 1)
  BY <1>1, <1>2, OutsNear
<1>4. PICK e : e = JumpBack(w, out)
  OBVIOUS
<1>5. e = Emit64("b", Callback(w)) \/ e = Aligned(out, 2, Emit64("far", Callback(w)))
  BY <1>4 DEF JumpBack
<1>6. Words(e) \in Nat /\ Words(e) <= 5
  <2>1. CASE e = Emit64("b", Callback(w))
    <3>1. e.op = "b" /\ e.nops = 0
      BY <2>1 DEF Emit64
    <3> QED BY <3>1 DEF Words, Size
  <2>2. CASE e = Aligned(out, 2, Emit64("far", Callback(w)))
    <3>1. PICK k : k = (out + 2) % 2
      OBVIOUS
    <3>2. k \in Nat /\ k <= 1
      BY <1>3, <3>1
    <3>3. e.op = "far" /\ e.nops = k
      BY <2>2, <3>1 DEF Aligned, Behind, Emit64
    <3>4. Words(e) = k + 4
      BY <3>3 DEF Words, Size
    <3> QED BY <3>2, <3>4
  <2> QED BY <1>5, <2>1, <2>2
<1>7. TrampolineWords(w) = out - w.tramp + Words(e)
  BY <1>1, <1>2, <1>4 DEF TrampolineWords
<1> QED BY <1>2, <1>3, <1>6, <1>7 DEF Room

LEMMA Meaning64 ==
  ASSUME NEW w, NEW n, Whole64(w, n), NEW i, i \in 1..n, ~Changed64(w, i), NEW taken
  PROVE  OutOfPlace64(w, i, taken) = InPlace64(w, i, taken)
<1>1. PICK kind : kind = w.instrs[i].kind
  OBVIOUS
<1>2. PICK label : label = w.instrs[i].label
  OBVIOUS
<1>3. PICK e : e = Fixed(w, i)
  OBVIOUS
<1>4. kind \in Kinds64 /\ label \in Int /\ w.base \in Int /\ i \in Int
  BY <1>1, <1>2 DEF Whole64
<1>5. /\ kind \in Branches64 \/ label >= w.base + i - 1
      /\ kind \in {"LDR4", "LDRD", "LDR16"} => ~(label < FixedAt(w, i))
      /\ kind = "ADRP" => ~InRange(w, label)
  BY <1>1, <1>2, <1>4 DEF Changed64
<1>6. Absolute64(w, i) = label
  BY <1>1, <1>2, <1>5, AbsoluteIs
<1>7. FixedOK(w, kind, label, Outs(w)[i], e)
  BY <1>1, <1>3, <1>6, FixedThere
<1>8. /\ e.op \in Ops64(kind)
      /\ e.idx # 0 => w.base + e.idx - 1 = label /\ e.op \in {"b", "bl", "cond", "adr"}
      /\ e.idx = 0 /\ e.op \notin {"copy", "none"} => e.to = label
      /\ kind = "ADRP" /\ e.op = "copy" => InRange(w, label)
  BY <1>7 DEF FixedOK
<1>9. e.op \notin {"copy", "none"} => Destination(w, e) = label
  BY <1>8 DEF Destination
<1>10. ~(e.op = "load" /\ e.to < FixedAt(w, i) /\ kind \notin {"LDR8", "LDRSW"})
  <2>1. SUFFICES ASSUME e.op = "load", e.to < FixedAt(w, i), kind \notin {"LDR8", "LDRSW"}
                 PROVE  FALSE
    OBVIOUS
  <2>2. e.to = label
    BY <1>8, <2>1
  <2>3. kind \in Loads64
    BY <1>4, <1>8, <2>1 DEF Ops64, Kinds64, Branches64, Conditional64, Loads64
  <2> QED BY <1>5, <2>1, <2>2, <2>3 DEF Loads64
<1>11. OutOfPlace64(w, i, taken) = Runs(w, e, taken)
  BY <1>1, <1>3, <1>10 DEF OutOfPlace64
<1>12. CASE kind = "B"
  <2>1. e.op \in {"b", "far"}
    BY <1>8, <1>12 DEF Ops64, Conditional64, Loads64
  <2>2. Runs(w, e, taken) = Goes(<<label>>, FALSE)
    BY <1>9, <2>1 DEF Runs
  <2>3. InPlace64(w, i, taken) = Goes(<<label>>, FALSE)
    BY <1>1, <1>2, <1>12 DEF InPlace64, Branches64, Conditional64
  <2> QED BY <1>11, <2>2, <2>3
<1>13. CASE kind = "BL"
  <2>1. e.op \in {"bl", "far_link"}
    BY <1>8, <1>13 DEF Ops64, Conditional64, Loads64
  <2>2. Runs(w, e, taken) = Goes(<<label>>, TRUE)
    BY <1>9, <2>1 DEF Runs
  <2>3. InPlace64(w, i, taken) = Goes(<<label>>, TRUE)
    BY <1>1, <1>2, <1>13 DEF InPlace64, Branches64, Conditional64
  <2> QED BY <1>11, <2>2, <2>3
<1>14. CASE kind \in Conditional64
  <2>1. e.op \in {"cond", "far_cond"}
    BY <1>8, <1>14 DEF Ops64, Conditional64, Loads64
  <2>2. Runs(w, e, taken) = IF taken THEN Goes(<<label>>, FALSE) ELSE Falls
    BY <1>9, <2>1 DEF Runs
  <2>3. InPlace64(w, i, taken) = IF taken THEN Goes(<<label>>, FALSE) ELSE Falls
    BY <1>1, <1>2, <1>14 DEF InPlace64, Branches64, Conditional64
  <2> QED BY <1>11, <2>2, <2>3
<1>15. CASE kind \in {"OTHER", "PRFM"}
  <2>1. e.op \in {"copy", "none"}
    BY <1>8, <1>15 DEF Ops64, Conditional64, Loads64
  <2>2. Runs(w, e, taken) = Falls
    BY <2>1 DEF Runs
  <2>3. InPlace64(w, i, taken) = Falls
    BY <1>1, <1>15 DEF InPlace64, Branches64, Conditional64
  <2> QED BY <1>11, <2>2, <2>3
<1>16. CASE kind \in Loads64 \cup {"ADR", "ADRP"}
  <2>1. e.op \in {"load", "data4", "data8", "data16", "adr", "far_adr"}
    BY <1>5, <1>8, <1>16 DEF Ops64, Conditional64, Loads64
  <2>2. Runs(w, e, taken) = Refers(label)
    BY <1>9, <2>1 DEF Runs
  <2>3. InPlace64(w, i, taken) = Refers(label)
    BY <1>1, <1>2, <1>16 DEF InPlace64, Branches64, Conditional64, Loads64
  <2> QED BY <1>11, <2>2, <2>3
<1> QED BY <1>4, <1>12, <1>13, <1>14, <1>15, <1>16 DEF Kinds64, Branches64

\* ARM64 relocation, wherever the function, its trampoline and the labels are: every
\* instruction but those it is known to change keeps its meaning, every offset fits its
\* field, and five instructions and the jump back fit in a pool entry
\* (__fix_instructions).
THEOREM Relocation64 == Spec => []Relocation64Keeps
<1>1. Window64Inv => Relocation64Keeps
  <2> SUFFICES ASSUME Window64Inv, input.tag = "arm64", Len(input.instrs) = Wanted64(input)
               PROVE  /\ TrampolineWords(input) <= Room
                      /\ \A i \in 1..Len(input.instrs) :
                           /\ OffsetFits(input, i)
                           /\ ~Changed64(input, i) => \A taken \in BOOLEAN :
                                OutOfPlace64(input, i, taken) = InPlace64(input, i, taken)
    BY DEF Relocation64Keeps
  <2>1. PICK w : w = input
    OBVIOUS
  <2>2. PICK n : n = Len(w.instrs)
    OBVIOUS
  <2>3. w \in Window64 /\ n \in {1, 4, 5}
    BY <2>1, <2>2, Wanted64Values DEF Window64Inv
  <2>4. w.instrs \in Seq(Instr64) /\ w.base \in Int /\ w.tramp \in Int
    BY <2>3 DEF Window64
  <2>5. \A i \in 1..n : w.instrs[i] \in Instr64
    BY <2>2, <2>4
  <2>6. \A i \in 1..n : w.instrs[i].kind \in Kinds64 /\ w.instrs[i].label \in Int
    BY <2>5 DEF Instr64
  <2>7. n \in 1..5
    BY <2>3
  <2>8. Whole64(w, n)
    BY <2>2, <2>4, <2>6, <2>7 DEF Whole64
  <2> QED BY <2>1, <2>2, <2>8, TrampolineFits, OffsetFitsThere, Meaning64
<1> QED BY <1>1, Window64Init, Window64Step, PTL DEF Spec

-----------------------------------------------------------------------------
(* Relocation of ARM and Thumb instructions *)

Instr32(c) == {x \in [kind : Kinds(c.thumb), label : Int, cond : BOOLEAN] :
             x.cond \in Conds(x.kind)}

Window32(c) == c.thumb \in BOOLEAN /\ c.base \in Int /\ c.instrs \in Seq(Instr32(c))

Window32Inv == input.tag = "none" => Window32(code)

LEMMA Window32Init == Init => Window32Inv
<1> SUFFICES ASSUME Init, input.tag = "none" PROVE Window32(code)
  BY DEF Window32Inv
<1>1. code \in Windows32
  BY DEF Init, Begun64
<1>2. code.thumb \in BOOLEAN /\ code.base \in Int /\ code.instrs = <<>>
  <2>1. CASE code \in [thumb : {TRUE}, base : Bases, instrs : {<<>>}]
    <3>1. code.thumb = TRUE /\ code.base \in Bases /\ code.instrs = <<>>
      BY <2>1
    <3>2. Bases \subseteq Int
      BY WindowAssumption DEF WindowAssumption
    <3>3. code.thumb \in BOOLEAN
      BY <3>1, Zenon
    <3> QED BY <3>1, <3>2, <3>3
  <2>2. CASE code \in [thumb : {FALSE}, base : {0}, instrs : {<<>>}]
    <3>1. code.thumb = FALSE /\ code.base = 0 /\ code.instrs = <<>>
      BY <2>2
    <3>2. code.thumb \in BOOLEAN
      BY <3>1, Zenon
    <3> QED BY <3>1, <3>2
  <2> QED BY <1>1, <2>1, <2>2 DEF Windows32
<1>3. <<>> \in Seq(Instr32(code))
  OBVIOUS
<1> QED BY <1>2, <1>3 DEF Window32

LEMMA Window32Step == Window32Inv /\ [Next]_vars => Window32Inv'
<1> SUFFICES ASSUME Window32Inv, [Next]_vars, input'.tag = "none" PROVE Window32(code')
  BY DEF Window32Inv, Window32, Instr32, Kinds
<1>1. CASE UNCHANGED vars
  BY <1>1 DEF Window32Inv, vars
<1>2. ASSUME NEW kind \in Kinds(code.thumb), NEW label \in LabelsOf(kind), NEW cond \in Conds(kind),
             Append32(kind, label, cond)
      PROVE  Window32(code')
  <2>1. PICK e : e = [kind |-> kind, label |-> label, cond |-> cond]
    OBVIOUS
  <2>2. Window32(code) /\ code' = [code EXCEPT !.instrs = Append(code.instrs, e)]
    BY <1>2, <2>1 DEF Append32, Window32Inv
  <2>3. label \in Int /\ cond \in BOOLEAN
    <3>1. label = 0 \/ label \in Labels \/ label \in Immediates
      BY <1>2 DEF LabelsOf
    <3>2. cond = TRUE \/ cond = FALSE
      BY <1>2, Zenon DEF Conds
    <3>3. cond \in BOOLEAN
      BY <3>2, Zenon
    <3>4. label \in Int
      <4>1. Labels \subseteq Int /\ Immediates \subseteq Int
        BY WindowAssumption DEF WindowAssumption
      <4>2. CASE label = 0
        BY ONLY <4>2
      <4>3. CASE label \in Labels \/ label \in Immediates
        BY ONLY <4>1, <4>3
      <4> QED BY <3>1, <4>2, <4>3
    <3> QED BY <3>3, <3>4
  <2>4. e \in Instr32(code)
    BY <2>1, <2>3 DEF Instr32
  <2>5. Append(code.instrs, e) \in Seq(Instr32(code))
    BY <2>2, <2>4 DEF Window32
  <2>6. PICK c : c = code'
    OBVIOUS
  <2>7. c.thumb = code.thumb /\ c.base = code.base /\ c.instrs = Append(code.instrs, e)
    BY <2>2, <2>6 DEF Window32
  <2>8. Instr32(c) = Instr32(code)
    BY <2>7 DEF Instr32
  <2>9. Window32(c)
    BY <2>2, <2>5, <2>7, <2>8 DEF Window32
  <2> QED BY <2>6, <2>9
<1>3. ASSUME input.tag = "arm64", NEW kind, NEW label, Append64(kind, label) PROVE Window32(code')
  BY <1>3 DEF Append64
<1> QED BY <1>1, <1>2, <1>3 DEF Next

\* Sequences that are put together from parts written out.
LEMMA Same ==
  ASSUME NEW E, NEW s, NEW t, s \in Seq(E), t \in Seq(E), Len(s) = Len(t),
         \A k \in 1..Len(s) : s[k] = t[k]
  PROVE  s = t
BY SeqEqual

LEMMA Join11 ==
  ASSUME NEW a, NEW b
  PROVE  <<a>> \o <<b>> = <<a, b>>
<1> DEFINE S == {a, b}
           s == <<a>> \o <<b>>
           t == <<a, b>>
<1>1. s \in Seq(S) /\ t \in Seq(S)
  OBVIOUS
<1>2. Len(s) = Len(t) /\ \A k \in 1..Len(s) : s[k] = t[k]
  OBVIOUS
<1> HIDE DEF S, s, t
<1>3. s = t
  BY <1>1, <1>2, Same
<1> QED BY <1>3 DEF s, t

LEMMA Join12 ==
  ASSUME NEW a, NEW b, NEW c
  PROVE  <<a>> \o <<b, c>> = <<a, b, c>>
<1> DEFINE S == {a, b, c}
           s == <<a>> \o <<b, c>>
           t == <<a, b, c>>
<1>1. s \in Seq(S) /\ t \in Seq(S)
  OBVIOUS
<1>2. Len(s) = Len(t) /\ \A k \in 1..Len(s) : s[k] = t[k]
  OBVIOUS
<1> HIDE DEF S, s, t
<1>3. s = t
  BY <1>1, <1>2, Same
<1> QED BY <1>3 DEF s, t

LEMMA Join22 ==
  ASSUME NEW a, NEW b, NEW c, NEW d
  PROVE  <<a, b>> \o <<c, d>> = <<a, b, c, d>>
<1> DEFINE S == {a, b, c, d}
           s == <<a, b>> \o <<c, d>>
           t == <<a, b, c, d>>
<1>1. s \in Seq(S) /\ t \in Seq(S)
  OBVIOUS
<1>2. Len(s) = Len(t) /\ \A k \in 1..Len(s) : s[k] = t[k]
  OBVIOUS
<1> HIDE DEF S, s, t
<1>3. s = t
  BY <1>1, <1>2, Same
<1> QED BY <1>3 DEF s, t

LEMMA Join24 ==
  ASSUME NEW a, NEW b, NEW c, NEW d, NEW e, NEW f
  PROVE  <<a, b>> \o <<c, d, e, f>> = <<a, b, c, d, e, f>>
<1> DEFINE S == {a, b, c, d, e, f}
           s == <<a, b>> \o <<c, d, e, f>>
           t == <<a, b, c, d, e, f>>
<1>1. s \in Seq(S) /\ t \in Seq(S)
  OBVIOUS
<1>2. Len(s) = Len(t) /\ \A k \in 1..Len(s) : s[k] = t[k]
  OBVIOUS
<1> HIDE DEF S, s, t
<1>3. s = t
  BY <1>1, <1>2, Same
<1> QED BY <1>3 DEF s, t

LEMMA Join114 ==
  ASSUME NEW a, NEW b, NEW c, NEW d, NEW e, NEW f
  PROVE  <<a>> \o <<b>> \o <<c, d, e, f>> = <<a, b, c, d, e, f>>
<1> DEFINE S == {a, b, c, d, e, f}
           s == <<a>> \o <<b>> \o <<c, d, e, f>>
           t == <<a, b, c, d, e, f>>
<1>1. s \in Seq(S) /\ t \in Seq(S)
  OBVIOUS
<1>2. Len(s) = Len(t) /\ \A k \in 1..Len(s) : s[k] = t[k]
  OBVIOUS
<1> HIDE DEF S, s, t
<1>3. s = t
  BY <1>1, <1>2, Same
<1> QED BY <1>3 DEF s, t

LEMMA Join2112 ==
  ASSUME NEW a, NEW b, NEW c, NEW d, NEW e, NEW f
  PROVE  <<a, b>> \o <<c>> \o <<d>> \o <<e, f>> = <<a, b, c, d, e, f>>
<1> DEFINE S == {a, b, c, d, e, f}
           s == <<a, b>> \o <<c>> \o <<d>> \o <<e, f>>
           t == <<a, b, c, d, e, f>>
<1>1. s \in Seq(S) /\ t \in Seq(S)
  OBVIOUS
<1>2. Len(s) = Len(t) /\ \A k \in 1..Len(s) : s[k] = t[k]
  OBVIOUS
<1> HIDE DEF S, s, t
<1>3. s = t
  BY <1>1, <1>2, Same
<1> QED BY <1>3 DEF s, t

LEMMA Join11112 ==
  ASSUME NEW a, NEW b, NEW c, NEW d, NEW e, NEW f
  PROVE  <<a>> \o <<b>> \o <<c>> \o <<d>> \o <<e, f>> = <<a, b, c, d, e, f>>
<1> DEFINE S == {a, b, c, d, e, f}
           s == <<a>> \o <<b>> \o <<c>> \o <<d>> \o <<e, f>>
           t == <<a, b, c, d, e, f>>
<1>1. s \in Seq(S) /\ t \in Seq(S)
  OBVIOUS
<1>2. Len(s) = Len(t) /\ \A k \in 1..Len(s) : s[k] = t[k]
  OBVIOUS
<1> HIDE DEF S, s, t
<1>3. s = t
  BY <1>1, <1>2, Same
<1> QED BY <1>3 DEF s, t

\* What is emitted, cell by cell.
CondJump(v) == <<Op("cond", 0), Op("skip", 3), Op("ldr_pc", 0), Op("wide", 0),
                 Op("word", v), Op("high", v)>>
AddThumb(v) == <<Op("push", 0), Op("ldr", 4), Op("copy", 0), Op("pop", 0), Op("skip", 2),
                 Op("nop", 0), Op("word", v), Op("high", v)>>
LoadThumb(v) == <<Op("ldr", 0), Op("skip", 1), Op("word", v), Op("high", v)>>
LoadWide(v) == <<Op("ldr", 2), Op("wide", 0), Op("nop", 0), Op("skip", 1),
                 Op("word", v), Op("high", v)>>
LinkThumb(v) == <<Op("set_lr", 4), Op("wide", 0), Op("ldr_pc", 0), Op("wide", 0),
                  Op("word", v), Op("high", v)>>
CopyThumb == <<Op("copy", 0), Op("nop", 0)>>
CopyWide == <<Op("copy", 0), Op("wide", 0)>>
LinkArm(v) == <<Op("set_lr", 1), Op("ldr_pc", -1), Op("word", v)>>
AddArm(v) == <<Op("push", 0), Op("ldr", 2), Op("copy", 0), Op("pop", 0), Op("skip", 0),
               Op("word", v)>>
LoadArm(v) == <<Op("ldr", 0), Op("skip", 0), Op("word", v)>>
CopyArm == <<Op("copy", 0)>>

LEMMA CondCells == ASSUME NEW v PROVE Conditional(ThumbJump(v)) = CondJump(v)
BY Join114 DEF Conditional, ThumbJump, Lone, CondJump

LEMMA AddCells ==
  ASSUME NEW v
  PROVE  Lone("push") \o <<Op("ldr", 4)>> \o Lone("copy") \o Lone("pop") \o <<Op("skip", 2)>>
           \o Lone("nop") \o Literal(v) = AddThumb(v)
<1> DEFINE S == {Op("push", 0), Op("ldr", 4), Op("copy", 0), Op("pop", 0), Op("skip", 2),
                 Op("nop", 0), Op("word", v), Op("high", v)}
           s == Lone("push") \o <<Op("ldr", 4)>> \o Lone("copy") \o Lone("pop")
                  \o <<Op("skip", 2)>> \o Lone("nop") \o Literal(v)
           t == AddThumb(v)
<1>1. s \in Seq(S) /\ t \in Seq(S)
  BY DEF Lone, Literal, AddThumb
<1>2. Len(s) = Len(t) /\ \A k \in 1..Len(s) : s[k] = t[k]
  BY DEF Lone, Literal, AddThumb
<1> HIDE DEF S, s, t
<1>3. s = t
  BY <1>1, <1>2, Same
<1> QED BY <1>3 DEF s, t

LEMMA LoadCells ==
  ASSUME NEW v
  PROVE  <<Op("ldr", 0), Op("skip", 1)>> \o Literal(v) = LoadThumb(v)
BY Join22 DEF Literal, LoadThumb

LEMMA WideCells ==
  ASSUME NEW v
  PROVE  <<Op("ldr", 2), Op("wide", 0)>> \o Lone("nop") \o <<Op("skip", 1)>> \o Literal(v)
           = LoadWide(v)
BY Join2112 DEF Lone, Literal, LoadWide

LEMMA LinkCells ==
  ASSUME NEW v
  PROVE  <<Op("set_lr", 4), Op("wide", 0)>> \o ThumbJump(v) = LinkThumb(v)
BY Join24 DEF ThumbJump, LinkThumb

LEMMA CopyCells ==
  Lone("copy") \o Lone("nop") = CopyThumb /\ Lone("copy") \o Lone("wide") = CopyWide
<1>1. Lone("copy") \o Lone("nop") = CopyThumb
  BY Join11 DEF Lone, CopyThumb
<1>2. Lone("copy") \o Lone("wide") = CopyWide
  BY Join11 DEF Lone, CopyWide
<1> QED BY <1>1, <1>2

LEMMA LinkArmCells == ASSUME NEW v PROVE <<Op("set_lr", 1)>> \o ArmJump(v) = LinkArm(v)
BY Join12 DEF ArmJump, LinkArm

LEMMA AddArmCells ==
  ASSUME NEW v
  PROVE  Lone("push") \o <<Op("ldr", 2)>> \o Lone("copy") \o Lone("pop")
           \o <<Op("skip", 0), Op("word", v)>> = AddArm(v)
BY Join11112 DEF Lone, AddArm

\* What each kind of instruction becomes.

Thumb16As(x, pc, es) ==
  /\ x.kind = "B1_THUMB16" => es = CondJump(Place(pc + x.label, TRUE))
  /\ x.kind = "CB_THUMB16" => es = CondJump(Place(pc + x.label, TRUE))
  /\ x.kind = "B2_THUMB16" => es = ThumbJump(Place(pc + x.label, TRUE))
  /\ x.kind = "BX_THUMB16" => es = ThumbJump(Place(pc, TRUE))
  /\ x.kind = "ADD_THUMB16" => es = AddThumb(pc)
  /\ x.kind = "MOV_THUMB16" => es = LoadThumb(pc)
  /\ x.kind = "ADR_THUMB16" => es = LoadThumb(4 * AlignPc(pc) + x.label)
  /\ x.kind = "LDR_THUMB16" => es = LoadThumb(AlignPc(pc) + x.label)
  /\ x.kind = "OTHER_THUMB16" => es = CopyThumb

LEMMA Thumb16Emits ==
  ASSUME NEW x, NEW pc
  PROVE  Thumb16As(x, pc, EmitThumb16(x, pc))
<1>1. ASSUME x.kind = "B1_THUMB16"
      PROVE  EmitThumb16(x, pc) = CondJump(Place(pc + x.label, TRUE))
  <2>1. EmitThumb16(x, pc) = Conditional(ThumbJump(Place(pc + x.label, TRUE)))
    BY ONLY <1>1 DEF EmitThumb16
  <2> QED BY <2>1, CondCells
<1>2. ASSUME x.kind = "CB_THUMB16"
      PROVE  EmitThumb16(x, pc) = CondJump(Place(pc + x.label, TRUE))
  <2>1. EmitThumb16(x, pc) = Conditional(ThumbJump(Place(pc + x.label, TRUE)))
    BY ONLY <1>2 DEF EmitThumb16
  <2> QED BY <2>1, CondCells
<1>3. ASSUME x.kind = "B2_THUMB16"
      PROVE  EmitThumb16(x, pc) = ThumbJump(Place(pc + x.label, TRUE))
  BY ONLY <1>3 DEF EmitThumb16
<1>4. ASSUME x.kind = "BX_THUMB16"
      PROVE  EmitThumb16(x, pc) = ThumbJump(Place(pc, TRUE))
  BY ONLY <1>4 DEF EmitThumb16
<1>5. ASSUME x.kind = "ADD_THUMB16"
      PROVE  EmitThumb16(x, pc) = AddThumb(pc)
  <2>1. EmitThumb16(x, pc) = Lone("push") \o <<Op("ldr", 4)>> \o Lone("copy") \o Lone("pop")
                  \o <<Op("skip", 2)>> \o Lone("nop") \o Literal(pc)
    BY ONLY <1>5 DEF EmitThumb16
  <2> QED BY <2>1, AddCells
<1>6. ASSUME x.kind = "MOV_THUMB16"
      PROVE  EmitThumb16(x, pc) = LoadThumb(pc)
  <2>1. EmitThumb16(x, pc) = <<Op("ldr", 0), Op("skip", 1)>> \o Literal(pc)
    BY ONLY <1>6 DEF EmitThumb16
  <2> QED BY <2>1, LoadCells
<1>7. ASSUME x.kind = "ADR_THUMB16"
      PROVE  EmitThumb16(x, pc) = LoadThumb(4 * AlignPc(pc) + x.label)
  <2>1. EmitThumb16(x, pc) = <<Op("ldr", 0), Op("skip", 1)>> \o Literal(4 * AlignPc(pc) + x.label)
    BY ONLY <1>7 DEF EmitThumb16
  <2> QED BY <2>1, LoadCells
<1>8. ASSUME x.kind = "LDR_THUMB16"
      PROVE  EmitThumb16(x, pc) = LoadThumb(AlignPc(pc) + x.label)
  <2>1. EmitThumb16(x, pc) = <<Op("ldr", 0), Op("skip", 1)>> \o Literal(AlignPc(pc) + x.label)
    BY ONLY <1>8 DEF EmitThumb16
  <2> QED BY <2>1, LoadCells
<1>9. ASSUME x.kind = "OTHER_THUMB16"
      PROVE  EmitThumb16(x, pc) = CopyThumb
  <2>1. EmitThumb16(x, pc) = Lone("copy") \o Lone("nop")
    BY ONLY <1>9 DEF EmitThumb16
  <2> QED BY <2>1, CopyCells
<1> QED BY <1>1, <1>2, <1>3, <1>4, <1>5, <1>6, <1>7, <1>8, <1>9 DEF Thumb16As

Thumb32As(x, pc, es) ==
  /\ x.kind = "BLX_THUMB32" => es = LinkThumb(Place(AlignPc(pc) + x.label, FALSE))
  /\ x.kind = "BL_THUMB32" => es = LinkThumb(Place(AlignPc(pc) + x.label, TRUE))
  /\ x.kind = "B1_THUMB32" => es = CondJump(Place(AlignPc(pc) + x.label, TRUE))
  /\ x.kind = "B2_THUMB32" => es = ThumbJump(Place(AlignPc(pc) + x.label, TRUE))
  /\ x.kind = "LDR_THUMB32" => es = LoadWide(AlignPc(pc) + x.label)
  /\ x.kind = "OTHER_THUMB32" => es = CopyWide

LEMMA Thumb32Emits ==
  ASSUME NEW x, NEW pc
  PROVE  Thumb32As(x, pc, EmitThumb32(x, pc))
<1>1. ASSUME x.kind = "BLX_THUMB32"
      PROVE  EmitThumb32(x, pc) = LinkThumb(Place(AlignPc(pc) + x.label, FALSE))
  <2> DEFINE raw == <<Op("set_lr", 4), Op("wide", 0)>>
                  \o ThumbJump(Place(AlignPc(pc) + x.label, FALSE))
             same == [kind |-> "BLX_THUMB32", label |-> x.label]
  <2>1. EmitThumb32(x, pc) = EmitThumb32(same, pc)
    BY ONLY <1>1 DEF EmitThumb32
  <2>2. EmitThumb32(same, pc) = raw
    BY ONLY TRUE DEF EmitThumb32
  <2>3. raw = LinkThumb(Place(AlignPc(pc) + x.label, FALSE))
    BY LinkCells
  <2> HIDE DEF raw, same
  <2> QED BY ONLY <2>1, <2>2, <2>3
<1>2. ASSUME x.kind = "BL_THUMB32"
      PROVE  EmitThumb32(x, pc) = LinkThumb(Place(AlignPc(pc) + x.label, TRUE))
  <2> DEFINE raw == <<Op("set_lr", 4), Op("wide", 0)>>
                  \o ThumbJump(Place(AlignPc(pc) + x.label, TRUE))
             same == [kind |-> "BL_THUMB32", label |-> x.label]
  <2>1. EmitThumb32(x, pc) = EmitThumb32(same, pc)
    BY ONLY <1>2 DEF EmitThumb32
  <2>2. EmitThumb32(same, pc) = raw
    BY ONLY TRUE DEF EmitThumb32
  <2>3. raw = LinkThumb(Place(AlignPc(pc) + x.label, TRUE))
    BY LinkCells
  <2> HIDE DEF raw, same
  <2> QED BY ONLY <2>1, <2>2, <2>3
<1>3. ASSUME x.kind = "B1_THUMB32"
      PROVE  EmitThumb32(x, pc) = CondJump(Place(AlignPc(pc) + x.label, TRUE))
  <2>1. EmitThumb32(x, pc) = Conditional(ThumbJump(Place(AlignPc(pc) + x.label, TRUE)))
    BY ONLY <1>3 DEF EmitThumb32
  <2> QED BY <2>1, CondCells
<1>4. ASSUME x.kind = "B2_THUMB32"
      PROVE  EmitThumb32(x, pc) = ThumbJump(Place(AlignPc(pc) + x.label, TRUE))
  BY ONLY <1>4 DEF EmitThumb32
<1>5. ASSUME x.kind = "LDR_THUMB32"
      PROVE  EmitThumb32(x, pc) = LoadWide(AlignPc(pc) + x.label)
  <2>1. EmitThumb32(x, pc) = <<Op("ldr", 2), Op("wide", 0)>> \o Lone("nop") \o <<Op("skip", 1)>>
                  \o Literal(AlignPc(pc) + x.label)
    BY ONLY <1>5 DEF EmitThumb32
  <2> QED BY <2>1, WideCells
<1>6. ASSUME x.kind = "OTHER_THUMB32"
      PROVE  EmitThumb32(x, pc) = CopyWide
  <2>1. EmitThumb32(x, pc) = Lone("copy") \o Lone("wide")
    BY ONLY <1>6 DEF EmitThumb32
  <2> QED BY <2>1, CopyCells
<1> QED BY <1>1, <1>2, <1>3, <1>4, <1>5, <1>6 DEF Thumb32As

ArmAs(x, pc, es) ==
  /\ x.kind = "BLX_ARM" => es = LinkArm(Place(pc + x.label, TRUE))
  /\ x.kind = "BL_ARM" => es = LinkArm(Place(pc + x.label, FALSE))
  /\ x.kind = "B_ARM" => es = ArmJump(Place(pc + x.label, FALSE))
  /\ x.kind = "BX_ARM" => es = ArmJump(Place(pc, FALSE))
  /\ x.kind = "ADD_ARM" => es = AddArm(pc)
  /\ x.kind = "ADR_ARM" => es = LoadArm(4 * pc + x.label)
  /\ x.kind = "MOV_ARM" => es = LoadArm(pc)
  /\ x.kind = "LDR_ARM" => es = LoadArm(pc + x.label)
  /\ x.kind = "OTHER_ARM" => es = CopyArm

LEMMA ArmEmits ==
  ASSUME NEW x, NEW pc
  PROVE  ArmAs(x, pc, EmitArm(x, pc))
<1>1. ASSUME x.kind = "BLX_ARM"
      PROVE  EmitArm(x, pc) = LinkArm(Place(pc + x.label, TRUE))
  <2> DEFINE raw == <<Op("set_lr", 1)>> \o ArmJump(Place(pc + x.label, TRUE))
             same == [kind |-> "BLX_ARM", label |-> x.label]
  <2>1. EmitArm(x, pc) = EmitArm(same, pc)
    BY ONLY <1>1 DEF EmitArm
  <2>2. EmitArm(same, pc) = raw
    BY ONLY TRUE DEF EmitArm
  <2>3. raw = LinkArm(Place(pc + x.label, TRUE))
    BY LinkArmCells
  <2> HIDE DEF raw, same
  <2> QED BY ONLY <2>1, <2>2, <2>3
<1>2. ASSUME x.kind = "BL_ARM"
      PROVE  EmitArm(x, pc) = LinkArm(Place(pc + x.label, FALSE))
  <2> DEFINE raw == <<Op("set_lr", 1)>> \o ArmJump(Place(pc + x.label, FALSE))
             same == [kind |-> "BL_ARM", label |-> x.label]
  <2>1. EmitArm(x, pc) = EmitArm(same, pc)
    BY ONLY <1>2 DEF EmitArm
  <2>2. EmitArm(same, pc) = raw
    BY ONLY TRUE DEF EmitArm
  <2>3. raw = LinkArm(Place(pc + x.label, FALSE))
    BY LinkArmCells
  <2> HIDE DEF raw, same
  <2> QED BY ONLY <2>1, <2>2, <2>3
<1>3. ASSUME x.kind = "B_ARM"
      PROVE  EmitArm(x, pc) = ArmJump(Place(pc + x.label, FALSE))
  BY ONLY <1>3 DEF EmitArm
<1>4. ASSUME x.kind = "BX_ARM"
      PROVE  EmitArm(x, pc) = ArmJump(Place(pc, FALSE))
  BY ONLY <1>4 DEF EmitArm
<1>5. ASSUME x.kind = "ADD_ARM"
      PROVE  EmitArm(x, pc) = AddArm(pc)
  <2>1. EmitArm(x, pc) = Lone("push") \o <<Op("ldr", 2)>> \o Lone("copy") \o Lone("pop")
                  \o <<Op("skip", 0), Op("word", pc)>>
    BY ONLY <1>5 DEF EmitArm
  <2> QED BY <2>1, AddArmCells
<1>6. ASSUME x.kind = "ADR_ARM"
      PROVE  EmitArm(x, pc) = LoadArm(4 * pc + x.label)
  <2>1. EmitArm(x, pc) = <<Op("ldr", 0), Op("skip", 0), Op("word", 4 * pc + x.label)>>
    BY ONLY <1>6 DEF EmitArm
  <2> QED BY <2>1 DEF LoadArm, CopyArm, Lone
<1>7. ASSUME x.kind = "MOV_ARM"
      PROVE  EmitArm(x, pc) = LoadArm(pc)
  <2>1. EmitArm(x, pc) = <<Op("ldr", 0), Op("skip", 0), Op("word", pc)>>
    BY ONLY <1>7 DEF EmitArm
  <2> QED BY <2>1 DEF LoadArm, CopyArm, Lone
<1>8. ASSUME x.kind = "LDR_ARM"
      PROVE  EmitArm(x, pc) = LoadArm(pc + x.label)
  <2>1. EmitArm(x, pc) = <<Op("ldr", 0), Op("skip", 0), Op("word", pc + x.label)>>
    BY ONLY <1>8 DEF EmitArm
  <2> QED BY <2>1 DEF LoadArm, CopyArm, Lone
<1>9. ASSUME x.kind = "OTHER_ARM"
      PROVE  EmitArm(x, pc) = CopyArm
  <2>1. EmitArm(x, pc) = Lone("copy")
    BY ONLY <1>9 DEF EmitArm
  <2> QED BY <2>1 DEF LoadArm, CopyArm, Lone
<1> QED BY <1>1, <1>2, <1>3, <1>4, <1>5, <1>6, <1>7, <1>8, <1>9 DEF ArmAs

\* A run of at most eight cells, not begun by the second half of an instruction; in
\* Thumb code they fill whole words.
Emission(thumb, es) ==
  /\ \E S : es \in Seq(S)
  /\ Len(es) \in Nat /\ 1 <= Len(es) /\ Len(es) <= 8 /\ es[1].op # "wide"
  /\ thumb => Len(es) % 2 = 0

LEMMA ThumbEmissions ==
  ASSUME NEW v
  PROVE  /\ Emission(TRUE, CondJump(v))
         /\ Emission(TRUE, ThumbJump(v))
         /\ Emission(TRUE, AddThumb(v))
         /\ Emission(TRUE, LoadThumb(v))
         /\ Emission(TRUE, LoadWide(v))
         /\ Emission(TRUE, LinkThumb(v))
         /\ Emission(TRUE, CopyThumb)
         /\ Emission(TRUE, CopyWide)
<1>1. Emission(TRUE, CondJump(v))
  <2>1. CondJump(v) \in Seq({Op("cond", 0), Op("skip", 3), Op("ldr_pc", 0), Op("wide", 0),
                             Op("word", v), Op("high", v)})
    BY DEF CondJump
  <2>2. Len(CondJump(v)) = 6 /\ CondJump(v)[1].op # "wide"
    BY DEF CondJump, Op
  <2> QED BY <2>1, <2>2 DEF Emission
<1>2. Emission(TRUE, ThumbJump(v))
  <2>1. ThumbJump(v) \in Seq({Op("ldr_pc", 0), Op("wide", 0), Op("word", v), Op("high", v)})
    BY DEF ThumbJump
  <2>2. Len(ThumbJump(v)) = 4 /\ ThumbJump(v)[1].op # "wide"
    BY DEF ThumbJump, Op
  <2> QED BY <2>1, <2>2 DEF Emission
<1>3. Emission(TRUE, AddThumb(v))
  <2>1. AddThumb(v) \in Seq({Op("push", 0), Op("ldr", 4), Op("copy", 0), Op("pop", 0), Op("skip",
                             2), Op("nop", 0), Op("word", v), Op("high", v)})
    BY DEF AddThumb
  <2>2. Len(AddThumb(v)) = 8 /\ AddThumb(v)[1].op # "wide"
    BY DEF AddThumb, Op
  <2> QED BY <2>1, <2>2 DEF Emission
<1>4. Emission(TRUE, LoadThumb(v))
  <2>1. LoadThumb(v) \in Seq({Op("ldr", 0), Op("skip", 1), Op("word", v), Op("high", v)})
    BY DEF LoadThumb
  <2>2. Len(LoadThumb(v)) = 4 /\ LoadThumb(v)[1].op # "wide"
    BY DEF LoadThumb, Op
  <2> QED BY <2>1, <2>2 DEF Emission
<1>5. Emission(TRUE, LoadWide(v))
  <2>1. LoadWide(v) \in Seq({Op("ldr", 2), Op("wide", 0), Op("nop", 0), Op("skip", 1), Op("word",
                             v), Op("high", v)})
    BY DEF LoadWide
  <2>2. Len(LoadWide(v)) = 6 /\ LoadWide(v)[1].op # "wide"
    BY DEF LoadWide, Op
  <2> QED BY <2>1, <2>2 DEF Emission
<1>6. Emission(TRUE, LinkThumb(v))
  <2>1. LinkThumb(v) \in Seq({Op("set_lr", 4), Op("wide", 0), Op("ldr_pc", 0), Op("word", v),
                              Op("high", v)})
    BY DEF LinkThumb
  <2>2. Len(LinkThumb(v)) = 6 /\ LinkThumb(v)[1].op # "wide"
    BY DEF LinkThumb, Op
  <2> QED BY <2>1, <2>2 DEF Emission
<1>7. Emission(TRUE, CopyThumb)
  <2>1. CopyThumb \in Seq({Op("copy", 0), Op("nop", 0)})
    BY DEF CopyThumb
  <2>2. Len(CopyThumb) = 2 /\ CopyThumb[1].op # "wide"
    BY DEF CopyThumb, Op
  <2> QED BY <2>1, <2>2 DEF Emission
<1>8. Emission(TRUE, CopyWide)
  <2>1. CopyWide \in Seq({Op("copy", 0), Op("wide", 0)})
    BY DEF CopyWide
  <2>2. Len(CopyWide) = 2 /\ CopyWide[1].op # "wide"
    BY DEF CopyWide, Op
  <2> QED BY <2>1, <2>2 DEF Emission
<1> QED BY <1>1, <1>2, <1>3, <1>4, <1>5, <1>6, <1>7, <1>8

LEMMA ArmEmissions ==
  ASSUME NEW v
  PROVE  /\ Emission(FALSE, LinkArm(v))
         /\ Emission(FALSE, ArmJump(v))
         /\ Emission(FALSE, AddArm(v))
         /\ Emission(FALSE, LoadArm(v))
         /\ Emission(FALSE, CopyArm)
<1>1. Emission(FALSE, LinkArm(v))
  <2>1. LinkArm(v) \in Seq({Op("set_lr", 1), Op("ldr_pc", -1), Op("word", v)})
    BY DEF LinkArm
  <2>2. Len(LinkArm(v)) = 3 /\ LinkArm(v)[1].op # "wide"
    BY DEF LinkArm, Op
  <2> QED BY <2>1, <2>2 DEF Emission
<1>2. Emission(FALSE, ArmJump(v))
  <2>1. ArmJump(v) \in Seq({Op("ldr_pc", -1), Op("word", v)})
    BY DEF ArmJump
  <2>2. Len(ArmJump(v)) = 2 /\ ArmJump(v)[1].op # "wide"
    BY DEF ArmJump, Op
  <2> QED BY <2>1, <2>2 DEF Emission
<1>3. Emission(FALSE, AddArm(v))
  <2>1. AddArm(v) \in Seq({Op("push", 0), Op("ldr", 2), Op("copy", 0), Op("pop", 0), Op("skip",
                           0), Op("word", v)})
    BY DEF AddArm
  <2>2. Len(AddArm(v)) = 6 /\ AddArm(v)[1].op # "wide"
    BY DEF AddArm, Op
  <2> QED BY <2>1, <2>2 DEF Emission
<1>4. Emission(FALSE, LoadArm(v))
  <2>1. LoadArm(v) \in Seq({Op("ldr", 0), Op("skip", 0), Op("word", v)})
    BY DEF LoadArm
  <2>2. Len(LoadArm(v)) = 3 /\ LoadArm(v)[1].op # "wide"
    BY DEF LoadArm, Op
  <2> QED BY <2>1, <2>2 DEF Emission
<1>5. Emission(FALSE, CopyArm)
  <2>1. CopyArm \in Seq({Op("copy", 0)})
    BY DEF CopyArm
  <2>2. Len(CopyArm) = 1 /\ CopyArm[1].op # "wide"
    BY DEF CopyArm, Op
  <2> QED BY <2>1, <2>2 DEF Emission
<1> QED BY <1>1, <1>2, <1>3, <1>4, <1>5

LEMMA EmissionOf ==
  ASSUME NEW c, NEW x, NEW pc, c.thumb \in BOOLEAN, x.kind \in Kinds(c.thumb)
  PROVE  Emission(c.thumb, Emit(x, pc))
<1>1. CASE c.thumb = TRUE /\ x.kind \in Thumb16
  <2>1. Emit(x, pc) = EmitThumb16(x, pc)
    BY <1>1 DEF Emit
  <2>2. Thumb16As(x, pc, EmitThumb16(x, pc))
    BY Thumb16Emits
  <2>3. Emission(TRUE, EmitThumb16(x, pc))
    BY <1>1, <2>2, ThumbEmissions DEF Thumb16As, Thumb16
  <2> QED BY <1>1, <2>1, <2>3
<1>2. CASE c.thumb = TRUE /\ x.kind \in Thumb32
  <2>1. Emit(x, pc) = EmitThumb32(x, pc)
    BY <1>2 DEF Emit, Thumb16, Thumb32
  <2>2. Thumb32As(x, pc, EmitThumb32(x, pc))
    BY Thumb32Emits
  <2>3. Emission(TRUE, EmitThumb32(x, pc))
    BY <1>2, <2>2, ThumbEmissions DEF Thumb32As, Thumb32
  <2> QED BY <1>2, <2>1, <2>3
<1>3. CASE c.thumb = FALSE
  <2>1. x.kind \in Arm
    BY <1>3 DEF Kinds
  <2>2. Emit(x, pc) = EmitArm(x, pc)
    BY <2>1 DEF Emit, Thumb16, Thumb32, Arm
  <2>3. ArmAs(x, pc, EmitArm(x, pc))
    BY ArmEmits
  <2>4. Emission(FALSE, EmitArm(x, pc))
    BY <2>1, <2>3, ArmEmissions DEF ArmAs, Arm
  <2> QED BY <1>3, <2>2, <2>4
<1>4. c.thumb = TRUE => x.kind \in Thumb16 \/ x.kind \in Thumb32
  BY DEF Kinds
<1> QED BY <1>1, <1>2, <1>3, <1>4

\* A set of numbers from 1 on that has no holes is as long as it has members.
LEMMA Prefix ==
  ASSUME NEW n \in Nat, NEW P \in SUBSET (1..n), \A i \in P, j \in 1..n : j < i => j \in P
  PROVE  Cardinality(P) \in 0..n /\ P = 1..Cardinality(P)
<1> DEFINE Q == {i \in 1..n + 1 : i \notin P}
<1>1. PICK m \in Q : \A j \in Q : m <= j
  <2>1. n + 1 \in Q /\ Q \subseteq Nat
    OBVIOUS
  <2> HIDE DEF Q
  <2> QED BY <2>1, Least
<1>2. \A j \in 1..m - 1 : j \in P
  BY <1>1
<1>3. \A j \in P : j \in 1..m - 1
  BY <1>1
<1>4. P = 1..m - 1
  BY <1>2, <1>3
<1>5. Cardinality(1..m - 1) = m - 1
  BY <1>1, FS_Interval
<1> QED BY <1>1, <1>4, <1>5

\* Numbers, each of which is below the next, rise.
Rising(f, n) == /\ n \in Nat /\ \A i \in 1..n + 1 : f[i] \in Nat
                /\ \A i \in 1..n : f[i] < f[i + 1]

LEMMA Rises ==
  ASSUME NEW f, NEW n, Rising(f, n), NEW i, NEW j, i \in 1..n + 1, j \in 1..n + 1, i < j
  PROVE  f[i] < f[j]
<1>1. n \in Nat /\ (\A k \in 1..n + 1 : f[k] \in Nat) /\ (\A k \in 1..n : f[k] < f[k + 1])
  BY DEF Rising
<1> DEFINE S == {k \in 1..n + 1 : f[i] < f[k]}
<1>2. i \in 1..n /\ i + 1 \in S /\ i + 1 \in Int /\ n + 1 \in Int
  BY <1>1
<1>3. ASSUME NEW k \in i + 1..n + 1, k \in S, k < n + 1 PROVE k + 1 \in S
  <2>1. k \in 1..n /\ k + 1 \in 1..n + 1 /\ k \in 1..n + 1
    BY <1>1, <1>3
  <2>2. f[k] < f[k + 1] /\ f[i] < f[k]
    BY <1>1, <1>3, <2>1
  <2>3. f[i] \in Nat /\ f[k] \in Nat /\ f[k + 1] \in Nat
    BY <1>1, <2>1
  <2> QED BY <2>1, <2>2, <2>3
<1>4. i + 1..n + 1 \subseteq S
  <2> HIDE DEF S
  <2>1. Climbs(S, i + 1, n + 1)
    BY <1>2, <1>3 DEF Climbs
  <2> QED BY <2>1, UpTo
<1>5. j \in i + 1..n + 1
  BY <1>1
<1> QED BY <1>4, <1>5

\* The instructions of a window.
LEMMA InstrsOf ==
  ASSUME NEW c, Window32(c), NEW i, i \in 1..Len(c.instrs)
  PROVE  /\ c.instrs[i].kind \in Kinds(c.thumb) /\ c.instrs[i].label \in Int
         /\ c.instrs[i].cond \in Conds(c.instrs[i].kind)
         /\ Width(c.instrs[i].kind) \in Nat
         /\ 1 <= Width(c.instrs[i].kind) /\ Width(c.instrs[i].kind) <= 2
         /\ ~c.thumb => Width(c.instrs[i].kind) = 1
<1>1. c.instrs[i] \in Instr32(c)
  BY DEF Window32
<1>2. /\ c.instrs[i].kind \in Kinds(c.thumb) /\ c.instrs[i].label \in Int
      /\ c.instrs[i].cond \in Conds(c.instrs[i].kind)
  BY <1>1 DEF Instr32
<1>3. Width(c.instrs[i].kind) = 1 \/ Width(c.instrs[i].kind) = 2
  BY DEF Width
<1>4. ~c.thumb => Width(c.instrs[i].kind) = 1
  BY <1>2 DEF Width, Kinds, Arm, Thumb32
<1> QED BY <1>2, <1>3, <1>4

\* A function that begins with 0 and adds what an operator gives: g.
SumsTo(f, n, g) == /\ f[1] = 0 /\ \A i \in 1..n + 1 : f[i] \in Nat
                   /\ \A i \in 1..n : f[i + 1] = f[i] + g[i]

IsSum(f, n, g) == f = [i \in 1..n + 1 |-> IF i = 1 THEN 0 ELSE f[i - 1] + g[i - 1]]

Adds(n, g) == [i \in 1 + 1..n + 1 |-> [x \in Nat |-> x + g[i - 1]]]

LEMMA Adding ==
  ASSUME NEW n, n \in Nat, NEW g, \A i \in 1..n : g[i] \in Nat
  PROVE  /\ AreSteps(1, n + 1, Nat, 0, Adds(n, g))
         /\ \A i \in 1 + 1..n + 1 : \A x \in Nat : Adds(n, g)[i][x] = x + g[i - 1]
<1>1. Adds(n, g) \in [1 + 1..n + 1 -> [Nat -> Nat]]
  <2>1. ASSUME NEW i \in 1 + 1..n + 1, NEW x \in Nat PROVE x + g[i - 1] \in Nat
    <3>1. i - 1 \in 1..n
      OBVIOUS
    <3> QED BY <3>1
  <2> QED BY <2>1 DEF Adds
<1>2. \A i \in 1 + 1..n + 1 : \A x \in Nat : Adds(n, g)[i][x] = x + g[i - 1]
  BY DEF Adds
<1> QED BY <1>1, <1>2 DEF AreSteps

LEMMA SumExists ==
  ASSUME NEW n, n \in Nat, NEW g, \A i \in 1..n : g[i] \in Nat
  PROVE  \E f : IsSum(f, n, g)
<1>1. PICK h : h = Adds(n, g)
  OBVIOUS
<1>2. AreSteps(1, n + 1, Nat, 0, h) /\ \A i \in 1 + 1..n + 1 : \A x \in Nat : h[i][x] = x + g[i - 1]
  BY <1>1, Adding
<1>3. PICK f : Iterates(f, 1, n + 1, Nat, 0, h)
  BY <1>2, Iterated
<1>4. ASSUME NEW i \in 1..n + 1, i # 1 PROVE f[i] = f[i - 1] + g[i - 1]
  <2>1. i - 1 \in 1..n + 1 /\ i \in 1 + 1..n + 1
    BY <1>4
  <2>2. f[i - 1] \in Nat /\ f[i] = h[i][f[i - 1]]
    BY <1>3, <2>1 DEF Iterates
  <2> QED BY <1>2, <2>1, <2>2
<1>5. f \in [1..n + 1 -> Nat] /\ f[1] = 0
  BY <1>3 DEF Iterates
<1>6. IsSum(f, n, g)
  BY <1>4, <1>5 DEF IsSum
<1> QED BY <1>6

LEMMA SumGiven ==
  ASSUME NEW n, n \in Nat, NEW g, \A i \in 1..n : g[i] \in Nat, NEW c, IsSum(c, n, g)
  PROVE  SumsTo(c, n, g)
<1>1. PICK h : h = Adds(n, g)
  OBVIOUS
<1>2. AreSteps(1, n + 1, Nat, 0, h) /\ \A i \in 1 + 1..n + 1 : \A x \in Nat : h[i][x] = x + g[i - 1]
  BY <1>1, Adding
<1>3. c = [i \in 1..n + 1 |-> IF i = 1 THEN 0 ELSE c[i - 1] + g[i - 1]]
  BY DEF IsSum
<1>4. Follows(c, 1, n + 1, Nat, 0, h)
  <2>1. c = [i \in 1..n + 1 |-> c[i]] /\ c[1] = 0
    BY <1>3
  <2>2. ASSUME NEW i \in 1 + 1..n + 1, c[i - 1] \in Nat PROVE c[i] = h[i][c[i - 1]]
    <3>1. i \in 1..n + 1 /\ i # 1
      OBVIOUS
    <3>2. c[i] = c[i - 1] + g[i - 1]
      BY <1>3, <3>1
    <3> QED BY <1>2, <2>2, <3>2
  <2> QED BY <2>1, <2>2 DEF Follows
<1>5. Iterates(c, 1, n + 1, Nat, 0, h)
  BY <1>2, <1>4, OneIteration
<1>6. c[1] = 0 /\ \A i \in 1..n + 1 : c[i] \in Nat
  BY <1>5 DEF Iterates
<1>7. ASSUME NEW i \in 1..n PROVE c[i + 1] = c[i] + g[i]
  <2>1. i + 1 \in 1 + 1..n + 1 /\ (i + 1) - 1 = i /\ i \in 1..n + 1
    OBVIOUS
  <2>2. c[i + 1] = h[i + 1][c[i]] /\ c[i] \in Nat
    BY <1>5, <1>6, <2>1 DEF Iterates
  <2> QED BY <1>2, <2>1, <2>2
<1> QED BY <1>6, <1>7 DEF SumsTo

\* Where the instructions of a window start.
LEMMA StartsGiven ==
  ASSUME NEW c, Window32(c), NEW n, n = Len(c.instrs)
  PROVE  /\ n \in Nat /\ Start(c)[1] = 0 /\ Rising(Start(c), n)
         /\ \A i \in 1..n : Start(c)[i + 1] = Start(c)[i] + Width(c.instrs[i].kind)
<1> DEFINE Is(f) == f = [i \in 1..Len(c.instrs) + 1 |->
                           IF i = 1 THEN 0 ELSE f[i - 1] + Width(c.instrs[i - 1].kind)]
           g == [i \in 1..n |-> Width(c.instrs[i].kind)]
<1>1. n \in Nat
  BY DEF Window32
<1>2. \A i \in 1..n : g[i] = Width(c.instrs[i].kind)
  OBVIOUS
<1>3. \A i \in 1..n : g[i] \in Nat /\ 1 <= g[i]
  BY <1>2, InstrsOf
<1> HIDE DEF g
<1>4. ASSUME NEW f PROVE Is(f) <=> IsSum(f, n, g)
  <2>1. [i \in 1..Len(c.instrs) + 1 |-> IF i = 1 THEN 0 ELSE f[i - 1] + Width(c.instrs[i - 1].kind)]
          = [i \in 1..n + 1 |-> IF i = 1 THEN 0 ELSE f[i - 1] + g[i - 1]]
    <3>1. \A i \in 1..n + 1 : i # 1 => g[i - 1] = Width(c.instrs[i - 1].kind)
      <4>1. \A i \in 1..n + 1 : i # 1 => i - 1 \in 1..n
        BY <1>1
      <4> QED BY <1>2, <4>1
    <3> QED BY <3>1
  <2> QED BY <2>1 DEF IsSum
<1>5. PICK st : st = Start(c)
  OBVIOUS
<1>6. Is(st)
  <2>1. st = CHOOSE f : Is(f)
    BY <1>5 DEF Start
  <2>2. \E f : Is(f)
    <3> HIDE DEF Is
    <3> QED BY <1>1, <1>3, <1>4, SumExists
  <2> HIDE DEF Is
  <2> QED BY <2>1, <2>2
<1>7. SumsTo(st, n, g)
  <2> HIDE DEF Is
  <2>1. IsSum(st, n, g)
    BY <1>4, <1>6
  <2> QED BY <1>1, <1>3, <2>1, SumGiven
<1>8. /\ st[1] = 0 /\ \A i \in 1..n + 1 : st[i] \in Nat
      /\ \A i \in 1..n : st[i + 1] = st[i] + g[i]
  BY <1>7 DEF SumsTo
<1>9. ASSUME NEW i \in 1..n PROVE st[i] < st[i + 1]
  <2>1. i \in 1..n + 1
    BY <1>1
  <2>2. st[i] \in Nat /\ g[i] \in Nat /\ 1 <= g[i] /\ st[i + 1] = st[i] + g[i]
    BY <1>3, <1>8, <2>1
  <2> QED BY <2>2
<1>10. Rising(st, n)
  BY <1>1, <1>8, <1>9 DEF Rising
<1> QED BY <1>1, <1>2, <1>5, <1>8, <1>10

\* The instructions that are relocated are the first ones.
LEMMA RelocatedAre ==
  ASSUME NEW c, Window32(c), NEW n, n = Len(c.instrs), NEW r, r = Relocated(c)
  PROVE  /\ n \in Nat /\ r \in Nat /\ r <= n
         /\ \A i \in 1..n : i <= r <=> Start(c)[i + 1] <= Length(c)
<1>1. PICK st : st = Start(c)
  OBVIOUS
<1>2. n \in Nat /\ Rising(st, n) /\ \A i \in 1..n + 1 : st[i] \in Nat
  BY <1>1, StartsGiven DEF Rising
<1>3. PICK len \in Nat : len = Length(c)
  BY DEF Length
<1> DEFINE P == {i \in 1..n : st[i + 1] <= len}
<1>4. r = Cardinality(P)
  BY <1>1, <1>3 DEF Relocated
<1>5. ASSUME NEW i \in P, NEW j \in 1..n, j < i PROVE j \in P
  <2>1. i + 1 \in 1..n + 1 /\ j + 1 \in 1..n + 1 /\ j + 1 < i + 1
    BY <1>2, <1>5
  <2>2. st[j + 1] < st[i + 1] /\ st[j + 1] \in Nat /\ st[i + 1] \in Nat
    BY <1>2, <2>1, Rises
  <2> QED BY <1>3, <1>5, <2>2
<1>6. P \in SUBSET (1..n)
  OBVIOUS
<1>7. \A i \in 1..n : i \in P <=> st[i + 1] <= Length(c)
  BY <1>3
<1> HIDE DEF P
<1>8. r \in 0..n /\ P = 1..r
  BY <1>2, <1>4, <1>5, <1>6, Prefix
<1>9. \A i \in 1..n : i <= r <=> i \in P
  BY <1>2, <1>8
<1> QED BY <1>1, <1>2, <1>7, <1>8, <1>9

\* Where the instructions of a trampoline start, and that they fill it.
LEMMA EmittedAre ==
  ASSUME NEW c, Window32(c), NEW r, r = Relocated(c), NEW i, i \in 1..r
  PROVE  i \in 1..Len(c.instrs) /\ Emission(c.thumb, Emitted(c, i))
<1>1. i \in 1..Len(c.instrs)
  BY RelocatedAre
<1>2. c.instrs[i].kind \in Kinds(c.thumb) /\ c.thumb \in BOOLEAN
  BY <1>1, InstrsOf DEF Window32
<1> QED BY <1>1, <1>2, EmissionOf DEF Emitted

LEMMA AtsGiven ==
  ASSUME NEW c, Window32(c), NEW r, r = Relocated(c)
  PROVE  /\ r \in Nat /\ At(c)[1] = 0 /\ Rising(At(c), r)
         /\ \A i \in 1..r : At(c)[i + 1] = At(c)[i] + Len(Emitted(c, i))
<1> DEFINE Is(f) == f = [i \in 1..Relocated(c) + 1 |->
                           IF i = 1 THEN 0 ELSE f[i - 1] + Len(Emitted(c, i - 1))]
           g == [i \in 1..r |-> Len(Emitted(c, i))]
<1>1. r \in Nat
  BY RelocatedAre
<1>2. \A i \in 1..r : g[i] = Len(Emitted(c, i))
  OBVIOUS
<1>3. \A i \in 1..r : g[i] \in Nat /\ 1 <= g[i]
  <2> HIDE DEF g
  <2> QED BY <1>2, EmittedAre DEF Emission
<1> HIDE DEF g
<1>4. ASSUME NEW f PROVE Is(f) <=> IsSum(f, r, g)
  <2>1. [i \in 1..Relocated(c) + 1 |-> IF i = 1 THEN 0 ELSE f[i - 1] + Len(Emitted(c, i - 1))]
          = [i \in 1..r + 1 |-> IF i = 1 THEN 0 ELSE f[i - 1] + g[i - 1]]
    <3>1. \A i \in 1..r + 1 : i # 1 => g[i - 1] = Len(Emitted(c, i - 1))
      <4>1. \A i \in 1..r + 1 : i # 1 => i - 1 \in 1..r
        BY <1>1
      <4> QED BY <1>2, <4>1
    <3> QED BY <3>1
  <2> QED BY <2>1 DEF IsSum
<1>5. PICK at : at = At(c)
  OBVIOUS
<1>6. Is(at)
  <2>1. at = CHOOSE f : Is(f)
    BY <1>5 DEF At
  <2>2. \E f : Is(f)
    <3> HIDE DEF Is
    <3> QED BY <1>1, <1>3, <1>4, SumExists
  <2> HIDE DEF Is
  <2> QED BY <2>1, <2>2
<1>7. SumsTo(at, r, g)
  <2> HIDE DEF Is
  <2>1. IsSum(at, r, g)
    BY <1>4, <1>6
  <2> QED BY <1>1, <1>3, <2>1, SumGiven
<1>8. /\ at[1] = 0 /\ \A i \in 1..r + 1 : at[i] \in Nat
      /\ \A i \in 1..r : at[i + 1] = at[i] + g[i]
  BY <1>7 DEF SumsTo
<1>9. ASSUME NEW i \in 1..r PROVE at[i] < at[i + 1]
  <2>1. i \in 1..r + 1
    BY <1>1
  <2>2. at[i] \in Nat /\ g[i] \in Nat /\ 1 <= g[i] /\ at[i + 1] = at[i] + g[i]
    BY <1>3, <1>8, <2>1
  <2> QED BY <2>2
<1>10. Rising(at, r)
  BY <1>1, <1>8, <1>9 DEF Rising
<1> QED BY <1>1, <1>2, <1>5, <1>8, <1>10

\* In Thumb code every instruction starts at a word.
LEMMA AtsEven ==
  ASSUME NEW c, Window32(c), NEW r, r = Relocated(c), c.thumb, NEW i, i \in 1..r + 1
  PROVE  At(c)[i] % 2 = 0
<1>1. PICK at : at = At(c)
  OBVIOUS
<1>2. /\ r \in Nat /\ at[1] = 0 /\ Rising(at, r)
      /\ \A j \in 1..r : at[j + 1] = at[j] + Len(Emitted(c, j))
  BY <1>1, AtsGiven
<1> DEFINE S == {j \in 1..r + 1 : at[j] % 2 = 0}
<1>3. ASSUME NEW j \in 1..r + 1, j \in S, j < r + 1 PROVE j + 1 \in S
  <2>1. j \in 1..r /\ j + 1 \in 1..r + 1
    BY <1>2, <1>3
  <2>2. at[j] \in Nat /\ at[j] % 2 = 0
    BY <1>2, <1>3 DEF Rising
  <2>3. PICK len : len = Len(Emitted(c, j))
    OBVIOUS
  <2>4. len \in Nat /\ len % 2 = 0
    BY <2>1, <2>3, EmittedAre DEF Emission
  <2>5. at[j + 1] = at[j] + len
    BY <1>2, <2>1, <2>3
  <2>6. at[j + 1] % 2 = 0
    BY <2>2, <2>4, <2>5
  <2> QED BY <2>1, <2>6
<1>4. 1 \in S /\ 1 \in Int /\ r + 1 \in Int
  BY <1>2
<1>5. 1..r + 1 \subseteq S
  <2> HIDE DEF S
  <2>1. Climbs(S, 1, r + 1)
    BY <1>3, <1>4 DEF Climbs
  <2> QED BY <2>1, UpTo
<1> QED BY <1>1, <1>5

\* The trampoline as a whole: sequences that are put together one after the other.
LEMMA CellsIn ==
  ASSUME NEW S, NEW es \in Seq(S), NEW E, \A k \in 1..Len(es) : es[k] \in E
  PROVE  es \in Seq(E)
<1>1. es = [k \in 1..Len(es) |-> es[k]] /\ Len(es) \in Nat
  OBVIOUS
<1>2. es \in [1..Len(es) -> E]
  BY <1>1
<1> QED BY <1>1, <1>2

Concats(f, n, e) == f = [i \in 0..n |-> IF i = 0 THEN <<>> ELSE f[i - 1] \o e[i]]

Behinds(n, e, T) == [i \in 0 + 1..n |-> [x \in T |-> x \o e[i]]]

Puts(h, n, e, T) == /\ AreSteps(0, n, T, <<>>, h)
                    /\ \A i \in 1..n : \A x \in T : h[i][x] = x \o e[i]

LEMMA PuttingBehind ==
  ASSUME NEW n, n \in Nat, NEW e, NEW E, \A i \in 1..n : e[i] \in Seq(E)
  PROVE  Puts(Behinds(n, e, Seq(E)), n, e, Seq(E))
<1> DEFINE T == Seq(E)
<1>1. Behinds(n, e, T) \in [0 + 1..n -> [T -> T]]
  <2>1. ASSUME NEW i \in 0 + 1..n, NEW x \in T PROVE x \o e[i] \in T
    <3>1. i \in 1..n
      OBVIOUS
    <3> QED BY <3>1
  <2> HIDE DEF T
  <2> QED BY <2>1 DEF Behinds
<1>2. \A i \in 1..n : \A x \in T : Behinds(n, e, T)[i][x] = x \o e[i]
  <2> HIDE DEF T
  <2> QED BY DEF Behinds
<1>3. <<>> \in T
  OBVIOUS
<1>4. AreSteps(0, n, T, <<>>, Behinds(n, e, T))
  BY <1>1, <1>3 DEF AreSteps
<1> QED BY <1>2, <1>4 DEF Puts

LEMMA ConcatExists ==
  ASSUME NEW n, n \in Nat, NEW e, NEW E, \A i \in 1..n : e[i] \in Seq(E)
  PROVE  \E f : Concats(f, n, e)
<1>1. PICK T : T = Seq(E)
  OBVIOUS
<1>2. PICK h : h = Behinds(n, e, T)
  OBVIOUS
<1>3. AreSteps(0, n, T, <<>>, h) /\ \A i \in 1..n : \A x \in T : h[i][x] = x \o e[i]
  <2>1. Puts(h, n, e, T)
    BY <1>1, <1>2, PuttingBehind
  <2> QED BY <2>1 DEF Puts
<1>4. PICK f : Iterates(f, 0, n, T, <<>>, h)
  BY <1>3, Iterated
<1>5. ASSUME NEW i \in 0..n, i # 0 PROVE f[i] = f[i - 1] \o e[i]
  <2>1. i - 1 \in 0..n /\ i \in 0 + 1..n /\ i \in 1..n
    BY <1>5
  <2>2. f[i - 1] \in T /\ f[i] = h[i][f[i - 1]]
    BY <1>4, <2>1 DEF Iterates
  <2> QED BY <1>3, <2>1, <2>2
<1>6. f = [i \in 0..n |-> f[i]] /\ f[0] = <<>>
  BY <1>4 DEF Iterates
<1>7. Concats(f, n, e)
  BY <1>5, <1>6, Zenon DEF Concats
<1> QED BY <1>7

Concated(c, n, e, E) == /\ c[0] = <<>> /\ \A i \in 0..n : c[i] \in Seq(E)
                        /\ \A i \in 1..n : c[i] = c[i - 1] \o e[i]

LEMMA ConcatGiven ==
  ASSUME NEW n, n \in Nat, NEW e, NEW E, \A i \in 1..n : e[i] \in Seq(E), NEW c, Concats(c, n, e)
  PROVE  Concated(c, n, e, E)
<1>1. PICK T : T = Seq(E)
  OBVIOUS
<1>2. PICK h : h = Behinds(n, e, T)
  OBVIOUS
<1>3. AreSteps(0, n, T, <<>>, h) /\ \A i \in 1..n : \A x \in T : h[i][x] = x \o e[i]
  <2>1. Puts(h, n, e, T)
    BY <1>1, <1>2, PuttingBehind
  <2> QED BY <2>1 DEF Puts
<1>4. /\ c = [i \in 0..n |-> c[i]] /\ c[0] = <<>>
      /\ \A i \in 0..n : i # 0 => c[i] = c[i - 1] \o e[i]
  <2>1. c = [i \in 0..n |-> IF i = 0 THEN <<>> ELSE c[i - 1] \o e[i]]
    BY DEF Concats
  <2>2. \A i \in 0..n : c[i] = IF i = 0 THEN <<>> ELSE c[i - 1] \o e[i]
    BY <2>1, Zenon
  <2>3. c = [i \in 0..n |-> c[i]]
    BY <2>1, <2>2, Zenon
  <2>4. 0 \in 0..n
    OBVIOUS
  <2> QED BY <2>2, <2>3, <2>4, Zenon
<1>5. \A i \in 1..n : c[i] = c[i - 1] \o e[i]
  <2>1. \A i \in 1..n : i \in 0..n /\ i # 0
    OBVIOUS
  <2> QED BY <1>4, <2>1, Zenon
<1>6. Follows(c, 0, n, T, <<>>, h)
  <2>1. ASSUME NEW i \in 0 + 1..n, c[i - 1] \in T PROVE c[i] = h[i][c[i - 1]]
    <3>1. i \in 1..n
      OBVIOUS
    <3> QED BY <1>3, <1>5, <2>1, <3>1, Zenon
  <2> QED BY <1>4, <2>1 DEF Follows
<1>7. Iterates(c, 0, n, T, <<>>, h)
  BY <1>3, <1>6, OneIteration
<1>8. \A i \in 0..n : c[i] \in T
  BY <1>7 DEF Iterates
<1> QED BY <1>1, <1>4, <1>5, <1>8 DEF Concated

\* After i of them the cells of each are found where it starts.
Laid(f, at, e, i) ==
  /\ Len(f[i]) = at[i + 1]
  /\ \A j \in 1..i : \A k \in 1..Len(e[j]) : f[i][at[j] + k] = e[j][k]

LEMMA OneMoreLaid ==
  ASSUME NEW n, n \in Nat, NEW e, NEW E, \A i \in 1..n : e[i] \in Seq(E),
         NEW c, Concats(c, n, e), NEW at, Rising(at, n), at[1] = 0,
         \A i \in 1..n : at[i + 1] = at[i] + Len(e[i]),
         NEW i, i \in 0..n, i < n, Laid(c, at, e, i)
  PROVE  Laid(c, at, e, i + 1)
<1>1. i + 1 \in 1..n /\ i \in Nat /\ i + 1 \in 1..n + 1
  OBVIOUS
<1>2. PICK s : s = c[i]
  OBVIOUS
<1>3. PICK t : t = e[i + 1]
  OBVIOUS
<1>0. Concated(c, n, e, E)
  BY ConcatGiven
<1>4. s \in Seq(E) /\ t \in Seq(E)
  BY <1>0, <1>1, <1>2, <1>3 DEF Concated
<1>5. PICK u : u = c[i + 1]
  OBVIOUS
<1>6. u = s \o t
  <2>1. c[i + 1] = c[(i + 1) - 1] \o e[i + 1]
    BY <1>0, <1>1 DEF Concated
  <2>2. (i + 1) - 1 = i
    BY <1>1
  <2> QED BY <1>2, <1>3, <1>5, <2>1, <2>2
<1>7. /\ Len(u) = Len(s) + Len(t)
      /\ \A k \in 1..Len(s) : u[k] = s[k]
      /\ \A k \in 1..Len(t) : u[Len(s) + k] = t[k]
  BY <1>4, <1>6
<1>8. Len(s) = at[i + 1] /\ \A j \in 1..i : \A k \in 1..Len(e[j]) : s[at[j] + k] = e[j][k]
  BY <1>2 DEF Laid
<1>9. at[i + 2] = at[i + 1] + Len(t)
  <2>1. at[(i + 1) + 1] = at[i + 1] + Len(e[i + 1])
    BY <1>1
  <2>2. (i + 1) + 1 = i + 2
    BY <1>1
  <2> QED BY <1>3, <2>1, <2>2
<1>10. Len(u) = at[(i + 1) + 1]
  <2>1. (i + 1) + 1 = i + 2
    BY <1>1
  <2> QED BY <1>7, <1>8, <1>9, <2>1
<1>11. ASSUME NEW j \in 1..i + 1, NEW k \in 1..Len(e[j]) PROVE u[at[j] + k] = e[j][k]
  <2>1. CASE j = i + 1
    <3>1. at[j] = Len(s) /\ k \in 1..Len(t)
      BY <1>3, <1>8, <1>11, <2>1
    <3> QED BY <1>3, <1>7, <2>1, <3>1
  <2>2. CASE j # i + 1
    <3>1. j \in 1..i /\ j \in 1..n /\ j + 1 \in 1..n + 1 /\ j \in 1..n + 1
      BY <1>1, <1>11, <2>2
    <3>2. s[at[j] + k] = e[j][k]
      BY <1>8, <1>11, <3>1
    <3>3. at[j + 1] <= at[i + 1]
      <4>1. CASE j = i
        <5>1. at[i + 1] \in Nat
          BY <1>1 DEF Rising
        <5> QED BY <4>1, <5>1
      <4>2. CASE j # i
        <5>1. j + 1 < i + 1
          BY <1>1, <3>1, <4>2
        <5>2. at[j + 1] < at[i + 1] /\ at[j + 1] \in Nat /\ at[i + 1] \in Nat
          BY <1>1, <3>1, <5>1, Rises DEF Rising
        <5> QED BY <5>2
      <4> QED BY <4>1, <4>2
    <3>4. at[j] \in Nat /\ at[j + 1] \in Nat /\ at[i + 1] \in Nat
      BY <1>1, <3>1 DEF Rising
    <3>5. at[j + 1] = at[j] + Len(e[j]) /\ Len(e[j]) \in Nat
      BY <3>1
    <3>6. at[j] + k \in 1..Len(s)
      <4>1. PICK len : len = Len(e[j])
        OBVIOUS
      <4>2. k \in Nat /\ 1 <= k /\ k <= len
        BY <1>11, <3>5, <4>1
      <4>3. at[j] + k \in Nat /\ 1 <= at[j] + k /\ at[j] + k <= at[i + 1]
        <5>1. PICK a, b, d : a = at[j] /\ b = at[j + 1] /\ d = at[i + 1]
          OBVIOUS
        <5>2. a \in Nat /\ b = a + len /\ b <= d /\ d \in Nat
          BY <3>3, <3>4, <3>5, <4>1, <5>1
        <5>3. len \in Nat
          BY <3>5, <4>1
        <5>4. a + k \in Nat /\ 1 <= a + k /\ a + k <= d
          BY ONLY <4>2, <5>2, <5>3
        <5> QED BY <5>1, <5>4
      <4> QED BY <1>8, <4>3
    <3> QED BY <1>7, <3>2, <3>6
  <2> QED BY <2>1, <2>2
<1> QED BY <1>5, <1>10, <1>11 DEF Laid

LEMMA AllLaid ==
  ASSUME NEW n, n \in Nat, NEW e, NEW E, \A i \in 1..n : e[i] \in Seq(E),
         NEW c, Concats(c, n, e), NEW at, Rising(at, n), at[1] = 0,
         \A i \in 1..n : at[i + 1] = at[i] + Len(e[i])
  PROVE  Laid(c, at, e, n)
<1> DEFINE S == {i \in 0..n : Laid(c, at, e, i)}
<1>1. 0 \in S
  <2>1. c[0] = <<>>
    BY ConcatGiven DEF Concated
  <2>2. Len(c[0]) = 0 /\ at[0 + 1] = 0
    BY <2>1
  <2> QED BY <2>2 DEF Laid
<1>2. ASSUME NEW i \in 0..n, i \in S, i < n PROVE i + 1 \in S
  <2>1. Laid(c, at, e, i + 1)
    BY <1>2, OneMoreLaid
  <2> QED BY <1>2, <2>1
<1>3. 0..n \subseteq S
  <2> HIDE DEF S
  <2>1. Climbs(S, 0, n)
    BY <1>1, <1>2 DEF Climbs
  <2> QED BY <2>1, UpTo
<1>4. n \in 0..n
  OBVIOUS
<1> QED BY <1>3, <1>4

\* The trampoline of a window holds what each instruction became, and the jump back.
JumpOver(c) ==
  IF c.thumb THEN ThumbJump(Place(c.base + Back(c), c.thumb))
  ELSE ArmJump(Place(c.base + Back(c), c.thumb))

LEMMA JumpOverIs ==
  ASSUME NEW c
  PROVE  \E J : /\ JumpOver(c) \in Seq(J) /\ Len(JumpOver(c)) \in Nat /\ 1 <= Len(JumpOver(c))
                /\ JumpOver(c)[1].op = "ldr_pc"
<1>1. PICK v : v = Place(c.base + Back(c), c.thumb)
  OBVIOUS
<1>2. CASE c.thumb
  <2>1. JumpOver(c) = <<Op("ldr_pc", 0), Op("wide", 0), Op("word", v), Op("high", v)>>
    BY <1>1, <1>2 DEF JumpOver, ThumbJump
  <2>2. JumpOver(c) \in Seq({Op("ldr_pc", 0), Op("wide", 0), Op("word", v), Op("high", v)})
    BY <2>1
  <2>3. Len(JumpOver(c)) = 4 /\ JumpOver(c)[1].op = "ldr_pc"
    BY <2>1 DEF Op
  <2> QED BY <2>2, <2>3
<1>3. CASE ~c.thumb
  <2>1. JumpOver(c) = <<Op("ldr_pc", -1), Op("word", v)>>
    BY <1>1, <1>3 DEF JumpOver, ArmJump
  <2>2. JumpOver(c) \in Seq({Op("ldr_pc", -1), Op("word", v)})
    BY <2>1
  <2>3. Len(JumpOver(c)) = 2 /\ JumpOver(c)[1].op = "ldr_pc"
    BY <2>1 DEF Op
  <2> QED BY <2>2, <2>3
<1> QED BY <1>2, <1>3

TrampolineOK(c, mem, at, r) ==
  /\ DOMAIN mem = 1..Len(mem) /\ Len(mem) \in Nat
  /\ at[r + 1] < Len(mem) /\ mem[at[r + 1] + 1].op = "ldr_pc"
  /\ \A i \in 1..r : \A k \in 1..Len(Emitted(c, i)) : mem[at[i] + k] = Emitted(c, i)[k]

LEMMA TrampolineIs ==
  ASSUME NEW c, Window32(c), NEW r, r = Relocated(c)
  PROVE  TrampolineOK(c, Trampoline(c), At(c), r)
<1>1. PICK at : at = At(c)
  OBVIOUS
<1>2. /\ r \in Nat /\ at[1] = 0 /\ Rising(at, r)
      /\ \A i \in 1..r : at[i + 1] = at[i] + Len(Emitted(c, i))
  BY <1>1, AtsGiven
<1> DEFINE e == [i \in 1..r |-> Emitted(c, i)]
           E == UNION {{Emitted(c, i)[k] : k \in 1..Len(Emitted(c, i))} : i \in 1..r}
<1>3. \A i \in 1..r : e[i] = Emitted(c, i)
  OBVIOUS
<1>4. ASSUME NEW i \in 1..r PROVE e[i] \in Seq(E)
  <2>1. PICK s : s = Emitted(c, i)
    OBVIOUS
  <2>2. PICK S : s \in Seq(S)
    BY <2>1, EmittedAre DEF Emission
  <2>3. \A k \in 1..Len(s) : s[k] \in E
    BY <2>1
  <2> HIDE DEF E, e
  <2>4. s \in Seq(E)
    BY <2>2, <2>3, CellsIn
  <2> QED BY <1>3, <2>1, <2>4
<1> HIDE DEF e, E
<1> DEFINE Is(f) == f = [i \in 0..Relocated(c) |->
                           IF i = 0 THEN <<>> ELSE f[i - 1] \o Emitted(c, i)]
<1>5. ASSUME NEW f PROVE Is(f) <=> Concats(f, r, e)
  <2>1. [i \in 0..Relocated(c) |-> IF i = 0 THEN <<>> ELSE f[i - 1] \o Emitted(c, i)]
          = [i \in 0..r |-> IF i = 0 THEN <<>> ELSE f[i - 1] \o e[i]]
    <3>1. \A i \in 0..r : i # 0 => e[i] = Emitted(c, i)
      <4>1. \A i \in 0..r : i # 0 => i \in 1..r
        BY <1>2
      <4> QED BY <1>3, <4>1
    <3> QED BY <3>1
  <2> QED BY <2>1, Zenon DEF Concats
<1>6. PICK all : all = CHOOSE f : Is(f)
  OBVIOUS
<1>7. Concats(all, r, e)
  <2> HIDE DEF Is
  <2>1. \E f : Is(f)
    BY <1>2, <1>4, <1>5, ConcatExists
  <2>2. Is(all)
    BY <1>6, <2>1
  <2> QED BY <1>5, <2>2
<1>8. PICK jump : jump = JumpOver(c)
  OBVIOUS
<1>9. PICK s : s = all[r]
  OBVIOUS
<1>10. PICK mem : mem = Trampoline(c)
  OBVIOUS
<1>11. mem = s \o jump
  <2>1. Trampoline(c) = (CHOOSE f : Is(f))[Relocated(c)] \o JumpOver(c)
    BY Zenon DEF Trampoline, JumpOver
  <2> HIDE DEF Is
  <2> QED BY <1>6, <1>8, <1>9, <1>10, <2>1
<1> HIDE DEF Is
<1>12. PICK J : jump \in Seq(J) /\ Len(jump) \in Nat /\ 1 <= Len(jump) /\ jump[1].op = "ldr_pc"
  BY <1>8, JumpOverIs
<1>13. s \in Seq(E)
  <2>1. Concated(all, r, e, E)
    BY <1>2, <1>4, <1>7, ConcatGiven
  <2>2. r \in 0..r
    BY <1>2
  <2> QED BY <1>9, <2>1, <2>2 DEF Concated
<1>14. Laid(all, at, e, r)
  <2>1. \A i \in 1..r : at[i + 1] = at[i] + Len(e[i])
    BY <1>2, <1>3
  <2> QED BY <1>2, <1>4, <1>7, <2>1, AllLaid
<1>15. Len(s) = at[r + 1] /\ \A j \in 1..r : \A k \in 1..Len(e[j]) : s[at[j] + k] = e[j][k]
  BY <1>9, <1>14 DEF Laid
<1>16. /\ mem \in Seq(E \cup J) /\ Len(mem) = Len(s) + Len(jump)
       /\ \A k \in 1..Len(s) : mem[k] = s[k]
       /\ \A k \in 1..Len(jump) : mem[Len(s) + k] = jump[k]
  <2>1. s \in Seq(E \cup J) /\ jump \in Seq(E \cup J)
    <3>1. \A k \in 1..Len(s) : s[k] \in E \cup J
      BY <1>13
    <3>2. \A k \in 1..Len(jump) : jump[k] \in E \cup J
      BY <1>12
    <3>3. s \in Seq(E \cup J)
      BY <1>13, <3>1, CellsIn
    <3>4. jump \in Seq(E \cup J)
      BY <1>12, <3>2, CellsIn
    <3> QED BY <3>3, <3>4
  <2>2. PICK D : D = E \cup J
    OBVIOUS
  <2>3. s \in Seq(D) /\ jump \in Seq(D)
    BY <2>1, <2>2
  <2>4. /\ mem \in Seq(D) /\ Len(mem) = Len(s) + Len(jump)
        /\ \A k \in 1..Len(s) : mem[k] = s[k]
        /\ \A k \in 1..Len(jump) : mem[Len(s) + k] = jump[k]
    BY ONLY <1>11, <2>3
  <2> QED BY <2>2, <2>4
<1>17. Len(mem) \in Nat /\ DOMAIN mem = 1..Len(mem)
  BY <1>16
<1>18. at[r + 1] < Len(mem) /\ mem[at[r + 1] + 1].op = "ldr_pc"
  <2>1. at[r + 1] \in Nat
    <3>1. r + 1 \in 1..r + 1
      BY <1>2
    <3> QED BY <1>2, <3>1 DEF Rising
  <2>2. Len(mem) = at[r + 1] + Len(jump)
    BY <1>15, <1>16
  <2>3. 1 \in 1..Len(jump)
    BY <1>12
  <2>4. mem[at[r + 1] + 1] = jump[1]
    BY <1>15, <1>16, <2>3
  <2> QED BY <1>12, <2>1, <2>2, <2>4
<1>19. ASSUME NEW i \in 1..r, NEW k \in 1..Len(Emitted(c, i))
       PROVE mem[at[i] + k] = Emitted(c, i)[k]
  <2>1. e[i] = Emitted(c, i)
    BY <1>3
  <2>2. s[at[i] + k] = Emitted(c, i)[k]
    BY <1>15, <1>19, <2>1
  <2>3. at[i + 1] = at[i] + Len(Emitted(c, i))
    BY <1>2
  <2>4. at[i + 1] <= at[r + 1] /\ at[i] \in Nat /\ at[i + 1] \in Nat /\ at[r + 1] \in Nat
    <3>1. i \in 1..r + 1 /\ i + 1 \in 1..r + 1 /\ r + 1 \in 1..r + 1
      BY <1>2
    <3>2. at[i] \in Nat /\ at[i + 1] \in Nat /\ at[r + 1] \in Nat
      BY <1>2, <3>1 DEF Rising
    <3>3. CASE i = r
      BY <3>2, <3>3
    <3>4. CASE i # r
      <4>1. i + 1 < r + 1
        BY <1>2, <3>4
      <4>2. at[i + 1] < at[r + 1]
        BY <1>2, <3>1, <4>1, Rises
      <4> QED BY <3>2, <4>2
    <3> QED BY <3>3, <3>4
  <2>5. PICK len : len = Len(Emitted(c, i))
    OBVIOUS
  <2>6. len \in Nat /\ k \in Nat /\ 1 <= k /\ k <= len
    <3>1. len \in Nat
      BY <2>5, EmittedAre DEF Emission
    <3> QED BY <1>19, <2>5, <3>1
  <2>7. PICK a, b, d : a = at[i] /\ b = at[i + 1] /\ d = at[r + 1]
    OBVIOUS
  <2>8. a \in Nat /\ b = a + len /\ b <= d /\ d \in Nat
    BY <2>3, <2>4, <2>5, <2>7
  <2>9. a + k \in 1..d
    BY ONLY <2>6, <2>8
  <2>10. at[i] + k \in 1..Len(s)
    BY <1>15, <2>7, <2>9
  <2> QED BY <1>16, <2>2, <2>10
<1> QED BY <1>1, <1>10, <1>17, <1>18, <1>19 DEF TrampolineOK

\* The cells from first to last - 1 hold es, what is behind them is no second half, and
\* in Thumb code they start at a word.
Lies(c, mem, first, last, es) ==
  /\ first \in Nat /\ 1 <= first /\ Len(es) \in Nat /\ last = first + Len(es)
  /\ \A k \in 1..Len(es) : first + k - 1 \in DOMAIN mem /\ mem[first + k - 1] = es[k]
  /\ last \in DOMAIN mem /\ mem[last].op # "wide"
  /\ c.thumb => (first - 1) % 2 = 0

LEMMA EmittedLie ==
  ASSUME NEW c, Window32(c), NEW i, i \in 1..Relocated(c)
  PROVE  Lies(c, Trampoline(c), At(c)[i] + 1, At(c)[i + 1] + 1, Emitted(c, i))
<1>1. PICK r : r = Relocated(c)
  OBVIOUS
<1>2. PICK at : at = At(c)
  OBVIOUS
<1>3. PICK mem : mem = Trampoline(c)
  OBVIOUS
<1>4. PICK es : es = Emitted(c, i)
  OBVIOUS
<1>5. /\ r \in Nat /\ Rising(at, r)
      /\ \A j \in 1..r : at[j + 1] = at[j] + Len(Emitted(c, j))
  BY <1>1, <1>2, AtsGiven
<1>6. TrampolineOK(c, mem, at, r)
  BY <1>1, <1>2, <1>3, TrampolineIs
<1>7. i \in 1..r /\ i \in 1..r + 1 /\ i + 1 \in 1..r + 1 /\ r + 1 \in 1..r + 1
  BY <1>1, <1>5
<1>8. at[i] \in Nat /\ at[i + 1] \in Nat /\ at[r + 1] \in Nat
  BY <1>5, <1>7 DEF Rising
<1>9. at[i + 1] = at[i] + Len(es) /\ Len(es) \in Nat
  <2>1. Len(es) \in Nat
    BY <1>1, <1>4, <1>7, EmittedAre DEF Emission
  <2> QED BY <1>4, <1>5, <1>7, <2>1
<1>10. at[i + 1] <= at[r + 1]
  <2>1. CASE i = r
    BY <1>8, <2>1
  <2>2. CASE i # r
    <3>1. i + 1 < r + 1
      BY <1>5, <1>7, <2>2
    <3>2. at[i + 1] < at[r + 1]
      BY <1>5, <1>7, <3>1, Rises
    <3> QED BY <1>8, <3>2
  <2> QED BY <2>1, <2>2
<1>11. /\ DOMAIN mem = 1..Len(mem) /\ Len(mem) \in Nat
       /\ at[r + 1] < Len(mem) /\ mem[at[r + 1] + 1].op = "ldr_pc"
       /\ \A k \in 1..Len(es) : mem[at[i] + k] = es[k]
  BY <1>4, <1>6, <1>7 DEF TrampolineOK
<1>12. PICK first : first = at[i] + 1
  OBVIOUS
<1>13. PICK last : last = at[i + 1] + 1
  OBVIOUS
<1>14. first \in Nat /\ 1 <= first /\ last = first + Len(es)
  BY ONLY <1>8, <1>9, <1>12, <1>13
<1>15. ASSUME NEW k \in 1..Len(es) PROVE first + k - 1 \in DOMAIN mem /\ mem[first + k - 1] = es[k]
  <2>1. PICK len : len = Len(es)
    OBVIOUS
  <2>2. k \in Nat /\ 1 <= k /\ k <= len /\ len \in Nat
    BY <1>9, <1>15, <2>1
  <2>3. first + k - 1 = at[i] + k
    BY <1>8, <1>12, <2>2
  <2>4. PICK a, b, d, m : a = at[i] /\ b = at[i + 1] /\ d = at[r + 1] /\ m = Len(mem)
    OBVIOUS
  <2>5. a \in Nat /\ b = a + len /\ b <= d /\ d \in Nat /\ m \in Nat /\ d < m
    BY <1>8, <1>9, <1>10, <1>11, <2>1, <2>4
  <2>6. a + k \in 1..m
    BY ONLY <2>2, <2>5
  <2>7. at[i] + k \in DOMAIN mem
    BY <1>11, <2>4, <2>6
  <2> QED BY <1>11, <1>15, <2>3, <2>7
<1>16. last \in DOMAIN mem /\ mem[last].op # "wide"
  <2>1. last \in DOMAIN mem
    BY <1>8, <1>10, <1>11, <1>13
  <2>2. CASE i = r
    BY <1>11, <1>13, <2>1, <2>2
  <2>3. CASE i # r
    <3>1. i + 1 \in 1..r
      BY <1>5, <1>7, <2>3
    <3>2. PICK next : next = Emitted(c, i + 1)
      OBVIOUS
    <3>3. Len(next) \in Nat /\ 1 <= Len(next) /\ next[1].op # "wide"
      BY <1>1, <3>1, <3>2, EmittedAre DEF Emission
    <3>4. 1 \in 1..Len(next)
      BY <3>3
    <3>5. mem[at[i + 1] + 1] = next[1]
      BY <1>6, <3>1, <3>2, <3>4 DEF TrampolineOK
    <3> QED BY <1>13, <2>1, <3>3, <3>5
  <2> QED BY <2>2, <2>3
<1>17. c.thumb => (first - 1) % 2 = 0
  <2>1. ASSUME c.thumb PROVE (first - 1) % 2 = 0
    <3>1. at[i] % 2 = 0
      BY <1>1, <1>2, <1>7, <2>1, AtsEven
    <3>2. first - 1 = at[i]
      BY <1>8, <1>12
    <3> QED BY <3>1, <3>2
  <2> QED BY <2>1
<1>18. Lies(c, mem, first, last, es)
  BY <1>9, <1>14, <1>15, <1>16, <1>17 DEF Lies
<1> QED BY <1>2, <1>3, <1>4, <1>12, <1>13, <1>18

\* Running a trampoline, one cell after the other.
State(c, to, lr, reg, scratch, pushed) ==
  [c |-> c, to |-> to, lr |-> lr, reg |-> reg, scratch |-> scratch, pushed |-> pushed]

InState(s, a, to, lr, reg, scratch, pushed) == s = State(a, to, lr, reg, scratch, pushed)

\* Control is at cell a, which is among those of the instruction and holds e.
IsAt(mem, first, last, a, e) ==
  /\ a \in Nat /\ a # 0 /\ first <= a /\ a < last /\ first \in Nat /\ last \in Nat
  /\ a \in DOMAIN mem /\ mem[a] = e

StepsTo(c, mem, first, last, taken, s, t) == RunStep(c, mem, first, last, taken, s) = t

\* The next instruction is at b; a literal load finds v; LR is set to the cell behind.
Nexts(mem, a, b) == Behind32(mem, a) = b
Reads(c, mem, a, n, v) == LET at == LiteralAt(c, a - 1, n) + 1
                          IN Readable(c, mem, at) /\ mem[at].arg = v
Links32(c, a, n, last) == LiteralAt(c, a - 1, n) + 1 = last

\* A state in which two or three things change.
Changes(s, c, to, lr, reg, scratch, pushed, x, y) ==
  /\ [s EXCEPT !.c = x, !.reg = y] = State(x, to, lr, y, scratch, pushed)
  /\ [s EXCEPT !.c = x, !.lr = y] = State(x, to, y, reg, scratch, pushed)
  /\ [s EXCEPT !.c = x, !.scratch = y] = State(x, to, lr, reg, y, pushed)
  /\ [s EXCEPT !.c = x, !.pushed = y] = State(x, to, lr, reg, scratch, y)
  /\ [s EXCEPT !.c = x, !.to = y] = State(x, y, lr, reg, scratch, pushed)
  /\ \A z : [s EXCEPT !.c = x, !.pushed = z, !.scratch = y] = State(x, to, lr, reg, y, z)

LEMMA TwoChange ==
  ASSUME NEW s, NEW c, NEW to, NEW lr, NEW reg, NEW scratch, NEW pushed,
         s = State(c, to, lr, reg, scratch, pushed), NEW x, NEW y
  PROVE  Changes(s, c, to, lr, reg, scratch, pushed, x, y)
<1>1. PICK t : t = [s EXCEPT !.c = x]
  OBVIOUS
<1>2. t = State(x, to, lr, reg, scratch, pushed)
  BY <1>1 DEF State
<1>3. [s EXCEPT !.c = x, !.reg = y] = State(x, to, lr, y, scratch, pushed)
  <2>1. [s EXCEPT !.c = x, !.reg = y] = [t EXCEPT !.reg = y]
    BY ONLY <1>1
  <2>2. [t EXCEPT !.reg = y] = State(x, to, lr, y, scratch, pushed)
    BY ONLY <1>2 DEF State
  <2> QED BY <2>1, <2>2
<1>4. [s EXCEPT !.c = x, !.lr = y] = State(x, to, y, reg, scratch, pushed)
  <2>1. [s EXCEPT !.c = x, !.lr = y] = [t EXCEPT !.lr = y]
    BY ONLY <1>1
  <2>2. [t EXCEPT !.lr = y] = State(x, to, y, reg, scratch, pushed)
    BY ONLY <1>2 DEF State
  <2> QED BY <2>1, <2>2
<1>5. [s EXCEPT !.c = x, !.scratch = y] = State(x, to, lr, reg, y, pushed)
  <2>1. [s EXCEPT !.c = x, !.scratch = y] = [t EXCEPT !.scratch = y]
    BY ONLY <1>1
  <2>2. [t EXCEPT !.scratch = y] = State(x, to, lr, reg, y, pushed)
    BY ONLY <1>2 DEF State
  <2> QED BY <2>1, <2>2
<1>6. [s EXCEPT !.c = x, !.pushed = y] = State(x, to, lr, reg, scratch, y)
  <2>1. [s EXCEPT !.c = x, !.pushed = y] = [t EXCEPT !.pushed = y]
    BY ONLY <1>1
  <2>2. [t EXCEPT !.pushed = y] = State(x, to, lr, reg, scratch, y)
    BY ONLY <1>2 DEF State
  <2> QED BY <2>1, <2>2
<1>7. [s EXCEPT !.c = x, !.to = y] = State(x, y, lr, reg, scratch, pushed)
  <2>1. [s EXCEPT !.c = x, !.to = y] = [t EXCEPT !.to = y]
    BY ONLY <1>1
  <2>2. [t EXCEPT !.to = y] = State(x, y, lr, reg, scratch, pushed)
    BY ONLY <1>2 DEF State
  <2> QED BY <2>1, <2>2
<1>8. ASSUME NEW z
      PROVE  [s EXCEPT !.c = x, !.pushed = z, !.scratch = y] = State(x, to, lr, reg, y, z)
  <2>1. PICK u : u = [t EXCEPT !.pushed = z]
    OBVIOUS
  <2>2. [s EXCEPT !.c = x, !.pushed = z, !.scratch = y] = [u EXCEPT !.scratch = y]
    BY ONLY <1>1, <2>1
  <2>3. u = State(x, to, lr, reg, scratch, z)
    BY ONLY <1>2, <2>1 DEF State
  <2>4. [u EXCEPT !.scratch = y] = State(x, to, lr, reg, y, z)
    BY ONLY <2>3 DEF State
  <2> QED BY <2>2, <2>4
<1> QED BY <1>3, <1>4, <1>5, <1>6, <1>7, <1>8 DEF Changes

LEMMA StepNop ==
  ASSUME NEW c, NEW mem, NEW first, NEW last, NEW taken, NEW a, NEW to, NEW lr, NEW reg,
         NEW scratch, NEW pushed, NEW b, NEW s, NEW t,
         InState(s, a, to, lr, reg, scratch, pushed), IsAt(mem, first, last, a, Op("nop", 0)),
         b = a + 1, InState(t, b, to, lr, reg, scratch, pushed)
  PROVE  StepsTo(c, mem, first, last, taken, s, t)
<1>1. s.c = a /\ s.scratch = scratch /\ s.pushed = pushed
  BY DEF InState, State
<1>2. mem[a].op = "nop" /\ mem[a].arg = 0
  BY DEF IsAt, Op
<1>3. RunStep(c, mem, first, last, taken, s) = [s EXCEPT !.c = a + 1]
  BY <1>1, <1>2 DEF IsAt, RunStep, Control
<1>4. [s EXCEPT !.c = a + 1] = State(a + 1, to, lr, reg, scratch, pushed)
  BY DEF InState, State
<1> QED BY <1>3, <1>4 DEF InState, StepsTo

LEMMA StepSkip ==
  ASSUME NEW c, NEW mem, NEW first, NEW last, NEW taken, NEW a, NEW to, NEW lr, NEW reg,
         NEW scratch, NEW pushed, NEW n, NEW b, NEW s, NEW t,
         InState(s, a, to, lr, reg, scratch, pushed), IsAt(mem, first, last, a, Op("skip", n)),
         b = a + 2 + n, InState(t, b, to, lr, reg, scratch, pushed)
  PROVE  StepsTo(c, mem, first, last, taken, s, t)
<1>1. s.c = a /\ s.scratch = scratch /\ s.pushed = pushed
  BY DEF InState, State
<1>2. mem[a].op = "skip" /\ mem[a].arg = n
  BY DEF IsAt, Op
<1>3. RunStep(c, mem, first, last, taken, s) = [s EXCEPT !.c = a + 2 + n]
  BY <1>1, <1>2 DEF IsAt, RunStep, Control
<1>4. [s EXCEPT !.c = a + 2 + n] = State(a + 2 + n, to, lr, reg, scratch, pushed)
  BY DEF InState, State
<1> QED BY <1>3, <1>4 DEF InState, StepsTo

LEMMA StepTaken ==
  ASSUME NEW c, NEW mem, NEW first, NEW last, NEW taken, NEW a, NEW to, NEW lr, NEW reg,
         NEW scratch, NEW pushed, NEW b, NEW s, NEW t, taken = TRUE,
         InState(s, a, to, lr, reg, scratch, pushed), IsAt(mem, first, last, a, Op("cond", 0)),
         b = a + 2, InState(t, b, to, lr, reg, scratch, pushed)
  PROVE  StepsTo(c, mem, first, last, taken, s, t)
<1>1. s.c = a /\ s.scratch = scratch /\ s.pushed = pushed
  BY DEF InState, State
<1>2. mem[a].op = "cond" /\ mem[a].arg = 0
  BY DEF IsAt, Op
<1>3. RunStep(c, mem, first, last, taken, s) = [s EXCEPT !.c = a + 2]
  BY <1>1, <1>2 DEF IsAt, RunStep, Control
<1>4. [s EXCEPT !.c = a + 2] = State(a + 2, to, lr, reg, scratch, pushed)
  BY DEF InState, State
<1> QED BY <1>3, <1>4 DEF InState, StepsTo

LEMMA StepNotTaken ==
  ASSUME NEW c, NEW mem, NEW first, NEW last, NEW taken, NEW a, NEW to, NEW lr, NEW reg,
         NEW scratch, NEW pushed, NEW b, NEW s, NEW t, taken = FALSE,
         InState(s, a, to, lr, reg, scratch, pushed), IsAt(mem, first, last, a, Op("cond", 0)),
         b = a + 1, InState(t, b, to, lr, reg, scratch, pushed)
  PROVE  StepsTo(c, mem, first, last, taken, s, t)
<1>1. s.c = a /\ s.scratch = scratch /\ s.pushed = pushed
  BY DEF InState, State
<1>2. mem[a].op = "cond" /\ mem[a].arg = 0
  BY DEF IsAt, Op
<1>3. RunStep(c, mem, first, last, taken, s) = [s EXCEPT !.c = a + 1]
  BY <1>1, <1>2 DEF IsAt, RunStep, Control
<1>4. [s EXCEPT !.c = a + 1] = State(a + 1, to, lr, reg, scratch, pushed)
  BY DEF InState, State
<1> QED BY <1>3, <1>4 DEF InState, StepsTo

LEMMA StepPush ==
  ASSUME NEW c, NEW mem, NEW first, NEW last, NEW taken, NEW a, NEW to, NEW lr, NEW reg,
         NEW scratch, NEW pushed, NEW b, NEW s, NEW t,
         InState(s, a, to, lr, reg, scratch, pushed), IsAt(mem, first, last, a, Op("push", 0)),
         b = a + 1, InState(t, b, to, lr, reg, scratch, TRUE)
  PROVE  StepsTo(c, mem, first, last, taken, s, t)
<1>1. s.c = a /\ s.scratch = scratch /\ s.pushed = pushed
  BY DEF InState, State
<1>2. mem[a].op = "push" /\ mem[a].arg = 0
  BY DEF IsAt, Op
<1>3. PICK x, y : x = a + 1 /\ y = TRUE
  OBVIOUS
<1>4. RunStep(c, mem, first, last, taken, s) = [s EXCEPT !.c = x, !.pushed = y]
  BY <1>1, <1>2, <1>3 DEF IsAt, RunStep
<1>5. Changes(s, a, to, lr, reg, scratch, pushed, x, y)
  BY TwoChange DEF InState
<1> QED BY <1>3, <1>4, <1>5 DEF Changes, InState, StepsTo

LEMMA StepPop ==
  ASSUME NEW c, NEW mem, NEW first, NEW last, NEW taken, NEW a, NEW to, NEW lr, NEW reg,
         NEW scratch, NEW pushed, NEW b, NEW s, NEW t,
         InState(s, a, to, lr, reg, scratch, pushed), IsAt(mem, first, last, a, Op("pop", 0)),
         b = a + 1, InState(t, b, to, lr, reg, Kept, FALSE)
  PROVE  StepsTo(c, mem, first, last, taken, s, t)
<1>1. s.c = a /\ s.scratch = scratch /\ s.pushed = pushed
  BY DEF InState, State
<1>2. mem[a].op = "pop" /\ mem[a].arg = 0
  BY DEF IsAt, Op
<1>3. PICK x, y : x = a + 1 /\ y = Kept
  OBVIOUS
<1>4. RunStep(c, mem, first, last, taken, s) = [s EXCEPT !.c = x, !.pushed = FALSE, !.scratch = y]
  BY <1>1, <1>2, <1>3 DEF IsAt, RunStep
<1>5. Changes(s, a, to, lr, reg, scratch, pushed, x, y)
  BY TwoChange DEF InState
<1> QED BY <1>3, <1>4, <1>5 DEF Changes, InState, StepsTo

LEMMA StepCopy ==
  ASSUME NEW c, NEW mem, NEW first, NEW last, NEW taken, NEW a, NEW to, NEW lr, NEW reg,
         NEW scratch, NEW pushed, NEW b, NEW s, NEW t, taken = TRUE,
         InState(s, a, to, lr, reg, scratch, pushed), IsAt(mem, first, last, a, Op("copy", 0)),
         Nexts(mem, a, b), InState(t, b, to, lr, Copied(scratch), scratch, pushed)
  PROVE  StepsTo(c, mem, first, last, taken, s, t)
<1>1. s.c = a /\ s.scratch = scratch /\ s.pushed = pushed
  BY DEF InState, State
<1>2. mem[a].op = "copy" /\ mem[a].arg = 0
  BY DEF IsAt, Op
<1>3. PICK x, y : x = Behind32(mem, a) /\ y = Copied(scratch)
  OBVIOUS
<1>4. RunStep(c, mem, first, last, taken, s) = [s EXCEPT !.c = x, !.reg = y]
  BY <1>1, <1>2, <1>3 DEF IsAt, RunStep
<1>5. Changes(s, a, to, lr, reg, scratch, pushed, x, y)
  BY TwoChange DEF InState
<1> QED BY <1>3, <1>4, <1>5 DEF Changes, InState, StepsTo, Nexts

LEMMA StepNoCopy ==
  ASSUME NEW c, NEW mem, NEW first, NEW last, NEW taken, NEW a, NEW to, NEW lr, NEW reg,
         NEW scratch, NEW pushed, NEW b, NEW s, NEW t, taken = FALSE,
         InState(s, a, to, lr, reg, scratch, pushed), IsAt(mem, first, last, a, Op("copy", 0)),
         Nexts(mem, a, b), InState(t, b, to, lr, Kept, scratch, pushed)
  PROVE  StepsTo(c, mem, first, last, taken, s, t)
<1>1. s.c = a /\ s.scratch = scratch /\ s.pushed = pushed
  BY DEF InState, State
<1>2. mem[a].op = "copy" /\ mem[a].arg = 0
  BY DEF IsAt, Op
<1>3. PICK x, y : x = Behind32(mem, a) /\ y = Kept
  OBVIOUS
<1>4. RunStep(c, mem, first, last, taken, s) = [s EXCEPT !.c = x, !.reg = y]
  BY <1>1, <1>2, <1>3 DEF IsAt, RunStep
<1>5. Changes(s, a, to, lr, reg, scratch, pushed, x, y)
  BY TwoChange DEF InState
<1> QED BY <1>3, <1>4, <1>5 DEF Changes, InState, StepsTo, Nexts

LEMMA StepSetLr ==
  ASSUME NEW c, NEW mem, NEW first, NEW last, NEW taken, NEW a, NEW to, NEW lr, NEW reg,
         NEW scratch, NEW pushed, NEW n, NEW b, NEW s, NEW t,
         InState(s, a, to, lr, reg, scratch, pushed), IsAt(mem, first, last, a, Op("set_lr", n)),
         Nexts(mem, a, b), Links32(c, a, n, last), InState(t, b, to, Next1, reg, scratch, pushed)
  PROVE  StepsTo(c, mem, first, last, taken, s, t)
<1>1. s.c = a /\ s.scratch = scratch /\ s.pushed = pushed
  BY DEF InState, State
<1>2. mem[a].op = "set_lr" /\ mem[a].arg = n
  BY DEF IsAt, Op
<1>3. PICK x, y : x = Behind32(mem, a) /\ y = Next1
  OBVIOUS
<1>4. RunStep(c, mem, first, last, taken, s) = [s EXCEPT !.c = x, !.lr = y]
  <2>1. PICK at : at = LiteralAt(c, s.c - 1, mem[s.c].arg) + 1
    OBVIOUS
  <2>2. at = last
    BY <1>1, <1>2, <2>1 DEF Links32
  <2>3. RunStep(c, mem, first, last, taken, s)
          = [s EXCEPT !.c = Behind32(mem, s.c), !.lr = IF at = last THEN Next1 ELSE Lost]
    BY <1>1, <1>2, <2>1, <2>2 DEF IsAt, RunStep
  <2> QED BY <1>1, <1>3, <2>2, <2>3
<1>5. Changes(s, a, to, lr, reg, scratch, pushed, x, y)
  BY TwoChange DEF InState
<1> QED BY <1>3, <1>4, <1>5 DEF Changes, InState, StepsTo, Nexts

LEMMA StepLoad ==
  ASSUME NEW c, NEW mem, NEW first, NEW last, NEW taken, NEW a, NEW to, NEW lr, NEW reg,
         NEW scratch, NEW n, NEW v, NEW b, NEW s, NEW t,
         InState(s, a, to, lr, reg, scratch, FALSE), IsAt(mem, first, last, a, Op("ldr", n)),
         Nexts(mem, a, b), Reads(c, mem, a, n, v),
         InState(t, b, to, lr, <<"value", v>>, scratch, FALSE)
  PROVE  StepsTo(c, mem, first, last, taken, s, t)
<1>1. s.c = a /\ s.scratch = scratch /\ s.pushed = FALSE
  BY DEF InState, State
<1>2. mem[a].op = "ldr" /\ mem[a].arg = n
  BY DEF IsAt, Op
<1>3. PICK x, y : x = Behind32(mem, a) /\ y = <<"value", v>>
  OBVIOUS
<1>4. RunStep(c, mem, first, last, taken, s) = [s EXCEPT !.c = x, !.reg = y]
  <2>1. PICK at : at = LiteralAt(c, s.c - 1, mem[s.c].arg) + 1
    OBVIOUS
  <2>2. Readable(c, mem, at)
    BY <1>1, <1>2, <2>1 DEF Reads
  <2>3. RunStep(c, mem, first, last, taken, s)
          = [s EXCEPT !.c = Behind32(mem, s.c), !.reg = <<"value", mem[at].arg>>]
    BY <1>1, <1>2, <2>1, <2>2 DEF IsAt, RunStep
  <2>4. mem[at].arg = v
    BY <1>1, <1>2, <2>1 DEF Reads
  <2> QED BY <1>1, <1>3, <2>3, <2>4
<1>5. Changes(s, a, to, lr, reg, scratch, FALSE, x, y)
  BY TwoChange DEF InState
<1> QED BY <1>3, <1>4, <1>5 DEF Changes, InState, StepsTo, Nexts

LEMMA StepScratch ==
  ASSUME NEW c, NEW mem, NEW first, NEW last, NEW taken, NEW a, NEW to, NEW lr, NEW reg,
         NEW scratch, NEW n, NEW v, NEW b, NEW s, NEW t,
         InState(s, a, to, lr, reg, scratch, TRUE), IsAt(mem, first, last, a, Op("ldr", n)),
         Nexts(mem, a, b), Reads(c, mem, a, n, v), InState(t, b, to, lr, reg, <<v>>, TRUE)
  PROVE  StepsTo(c, mem, first, last, taken, s, t)
<1>1. s.c = a /\ s.scratch = scratch /\ s.pushed = TRUE
  BY DEF InState, State
<1>2. mem[a].op = "ldr" /\ mem[a].arg = n
  BY DEF IsAt, Op
<1>3. PICK x, y : x = Behind32(mem, a) /\ y = <<v>>
  OBVIOUS
<1>4. RunStep(c, mem, first, last, taken, s) = [s EXCEPT !.c = x, !.scratch = y]
  <2>1. PICK at : at = LiteralAt(c, s.c - 1, mem[s.c].arg) + 1
    OBVIOUS
  <2>2. Readable(c, mem, at)
    BY <1>1, <1>2, <2>1 DEF Reads
  <2>3. RunStep(c, mem, first, last, taken, s)
          = [s EXCEPT !.c = Behind32(mem, s.c), !.scratch = <<mem[at].arg>>]
    BY <1>1, <1>2, <2>1, <2>2 DEF IsAt, RunStep
  <2>4. mem[at].arg = v
    BY <1>1, <1>2, <2>1 DEF Reads
  <2> QED BY <1>1, <1>3, <2>3, <2>4
<1>5. Changes(s, a, to, lr, reg, scratch, TRUE, x, y)
  BY TwoChange DEF InState
<1> QED BY <1>3, <1>4, <1>5 DEF Changes, InState, StepsTo, Nexts

LEMMA StepJump ==
  ASSUME NEW c, NEW mem, NEW first, NEW last, NEW taken, NEW a, NEW to, NEW lr, NEW reg,
         NEW scratch, NEW pushed, NEW n, NEW v, NEW s, NEW t,
         InState(s, a, to, lr, reg, scratch, pushed), IsAt(mem, first, last, a, Op("ldr_pc", n)),
         Reads(c, mem, a, n, v),
         InState(t, 0, IF Overwritten(c, v) THEN Lost ELSE v, lr, reg, scratch, pushed)
  PROVE  StepsTo(c, mem, first, last, taken, s, t)
<1>1. s.c = a /\ s.scratch = scratch /\ s.pushed = pushed
  BY DEF InState, State
<1>2. mem[a].op = "ldr_pc" /\ mem[a].arg = n
  BY DEF IsAt, Op
<1>3. PICK x, y : x = 0 /\ y = IF Overwritten(c, v) THEN Lost ELSE v
  OBVIOUS
<1>4. RunStep(c, mem, first, last, taken, s) = [s EXCEPT !.c = x, !.to = y]
  <2>1. PICK at : at = LiteralAt(c, s.c - 1, mem[s.c].arg) + 1
    OBVIOUS
  <2>2. Readable(c, mem, at)
    BY <1>1, <1>2, <2>1 DEF Reads
  <2>3. RunStep(c, mem, first, last, taken, s)
          = [s EXCEPT !.c = 0, !.to = IF Overwritten(c, mem[at].arg) THEN Lost
                                      ELSE mem[at].arg]
    BY <1>1, <1>2, <2>1, <2>2 DEF IsAt, RunStep, Leave
  <2>4. mem[at].arg = v
    BY <1>1, <1>2, <2>1 DEF Reads
  <2> QED BY <1>1, <1>3, <2>3, <2>4
<1>5. Changes(s, a, to, lr, reg, scratch, pushed, x, y)
  BY TwoChange DEF InState
<1> QED BY <1>3, <1>4, <1>5 DEF Changes, InState, StepsTo

LEMMA StepStops ==
  ASSUME NEW c, NEW mem, NEW first, NEW last, NEW taken, NEW a, NEW to, NEW lr, NEW reg,
         NEW scratch, NEW pushed, NEW s, InState(s, a, to, lr, reg, scratch, pushed),
         a = last \/ a = 0
  PROVE  StepsTo(c, mem, first, last, taken, s, s)
BY DEF RunStep, InState, State, StepsTo

\* The states that control goes through, up to one where it stays.
Path(c, mem, first, last, taken, path, n) ==
  /\ first \in Nat /\ last \in Nat /\ n \in Nat /\ 1 <= n /\ n <= last - first + 2
  /\ path[1] = EnterAt(first)
  /\ \A k \in 1..n - 1 : RunStep(c, mem, first, last, taken, path[k]) = path[k + 1]
  /\ RunStep(c, mem, first, last, taken, path[n]) = path[n]

EndOf(s) == [to |-> s.to, lr |-> s.lr, reg |-> s.reg, scratch |-> s.scratch]

\* The states of a run of N steps, as functions.
RunOf(f, c, mem, first, last, taken, N) ==
  f = [k \in 0..N |-> IF k = 0 THEN EnterAt(first)
                      ELSE RunStep(c, mem, first, last, taken, f[k - 1])]

RunFuns(N, T, c, mem, first, last, taken) ==
  [k \in 0 + 1..N |-> [x \in T |-> RunStep(c, mem, first, last, taken, x)]]

LEMMA RunKept ==
  ASSUME NEW c, NEW mem, NEW first, NEW last, NEW taken, NEW path, NEW n,
         Path(c, mem, first, last, taken, path, n), NEW N, N \in Nat, n <= N + 1
  PROVE  /\ \E f : RunOf(f, c, mem, first, last, taken, N)
         /\ \A f : RunOf(f, c, mem, first, last, taken, N) => f[N] = path[n]
<1> DEFINE T == {path[k] : k \in 1..n}
           step(x) == RunStep(c, mem, first, last, taken, x)
<1>1. /\ n \in Nat /\ 1 <= n /\ path[1] = EnterAt(first)
      /\ \A k \in 1..n - 1 : step(path[k]) = path[k + 1]
      /\ step(path[n]) = path[n]
  BY DEF Path
<1>2. ASSUME NEW x \in T PROVE step(x) \in T
  <2>1. PICK k \in 1..n : x = path[k]
    BY <1>2
  <2> HIDE DEF step
  <2>2. CASE k = n
    BY <1>1, <2>1, <2>2
  <2>3. CASE k # n
    <3>1. k \in 1..n - 1 /\ k + 1 \in 1..n
      BY <1>1, <2>1, <2>3
    <3>2. step(x) = path[k + 1]
      BY <1>1, <2>1, <3>1
    <3> QED BY <3>1, <3>2
  <2> QED BY <2>2, <2>3
<1>3. path[1] \in T
  BY <1>1
<1>4. PICK h : h = RunFuns(N, T, c, mem, first, last, taken)
  OBVIOUS
<1>5. h = [k \in 0 + 1..N |-> [x \in T |-> step(x)]]
  BY <1>4 DEF RunFuns
<1> HIDE DEF T
<1>6. AreSteps(0, N, T, path[1], h) /\ \A k \in 1..N : \A x \in T : h[k][x] = step(x)
  <2> HIDE DEF step
  <2>1. h \in [0 + 1..N -> [T -> T]]
    BY <1>2, <1>5
  <2>2. \A k \in 1..N : \A x \in T : h[k][x] = step(x)
    BY <1>5
  <2>3. AreSteps(0, N, T, path[1], h)
    BY <1>3, <2>1 DEF AreSteps
  <2> QED BY <2>2, <2>3
<1>7. PICK g : Iterates(g, 0, N, T, path[1], h)
  BY <1>6, Iterated
<1>8. RunOf(g, c, mem, first, last, taken, N)
  <2>1. g = [k \in 0..N |-> g[k]] /\ g[0] = path[1] /\ \A k \in 0..N : g[k] \in T
    BY <1>7 DEF Iterates
  <2>2. ASSUME NEW k \in 0..N, k # 0 PROVE g[k] = step(g[k - 1])
    <3>1. k \in 1..N /\ k \in 0 + 1..N /\ k - 1 \in 0..N
      BY <2>2
    <3>2. g[k] = h[k][g[k - 1]] /\ g[k - 1] \in T
      BY <1>7, <2>1, <3>1 DEF Iterates
    <3> HIDE DEF step
    <3> QED BY <1>6, <3>1, <3>2
  <2>3. g[0] = EnterAt(first)
    BY <1>1, <2>1
  <2> QED BY <2>1, <2>2, <2>3, Zenon DEF RunOf
<1>9. ASSUME NEW f, RunOf(f, c, mem, first, last, taken, N) PROVE f[N] = path[n]
  <2>1. \A k \in 0..N : f[k] = IF k = 0 THEN EnterAt(first) ELSE step(f[k - 1])
    BY <1>9, Zenon DEF RunOf
  <2> HIDE DEF step
  <2> DEFINE place(k) == IF k + 1 <= n THEN k + 1 ELSE n
             S == {k \in 0..N : f[k] = path[place(k)]}
  <2>2. 0 \in S
    <3>1. 0 \in 0..N /\ place(0) = 1
      BY <1>1
    <3>2. f[0] = EnterAt(first)
      BY <2>1, <3>1
    <3> QED BY <1>1, <3>1, <3>2
  <2>3. ASSUME NEW k \in 0..N, k \in S, k < N PROVE k + 1 \in S
    <3>1. k + 1 \in 0..N /\ k + 1 # 0 /\ (k + 1) - 1 = k /\ k \in Nat
      BY <2>3
    <3>2. f[k + 1] = step(f[k])
      BY <2>1, <3>1
    <3>3. f[k] = path[place(k)]
      BY <2>3
    <3>4. CASE k + 1 <= n - 1
      <4>1. place(k) = k + 1 /\ place(k + 1) = (k + 1) + 1 /\ k + 1 \in 1..n - 1
        BY <1>1, <3>1, <3>4
      <4>2. step(path[k + 1]) = path[(k + 1) + 1]
        BY <1>1, <4>1
      <4> QED BY <3>1, <3>2, <3>3, <4>1, <4>2
    <3>5. CASE ~(k + 1 <= n - 1)
      <4>1. place(k) = n /\ place(k + 1) = n
        BY <1>1, <3>1, <3>5
      <4> QED BY <1>1, <3>1, <3>2, <3>3, <4>1
    <3> QED BY <3>4, <3>5
  <2>4. 0..N \subseteq S
    <3> HIDE DEF S
    <3>1. Climbs(S, 0, N)
      BY <2>2, <2>3 DEF Climbs
    <3> QED BY <3>1, UpTo
  <2>5. N \in S
    BY <2>4
  <2>6. place(N) = n
    BY <1>1
  <2> QED BY <2>5, <2>6
<1> QED BY <1>8, <1>9

LEMMA RunEnds ==
  ASSUME NEW c, NEW i, NEW taken, NEW mem, mem = Trampoline(c), NEW first, first = At(c)[i] + 1,
         NEW last, last = At(c)[i + 1] + 1, NEW path, NEW n,
         Path(c, mem, first, last, taken, path, n)
  PROVE  OutOfPlace(c, i, taken) = EndOf(path[n])
<1>1. PICK N : N = last - first + 1
  OBVIOUS
<1>2. N \in Nat /\ n <= N + 1
  BY <1>1 DEF Path
<1> DEFINE Is(f) == f = [k \in 0..last - first + 1 |->
                           IF k = 0 THEN EnterAt(first)
                           ELSE RunStep(c, mem, first, last, taken, f[k - 1])]
<1>3. PICK run : run = CHOOSE f : Is(f)
  OBVIOUS
<1>4. OutOfPlace(c, i, taken) = EndOf(run[N])
  BY <1>1, <1>3, Zenon DEF OutOfPlace, EndOf
<1>5. ASSUME NEW f PROVE Is(f) <=> RunOf(f, c, mem, first, last, taken, N)
  BY <1>1 DEF RunOf
<1> HIDE DEF Is
<1>6. /\ \E f : RunOf(f, c, mem, first, last, taken, N)
      /\ \A f : RunOf(f, c, mem, first, last, taken, N) => f[N] = path[n]
  BY <1>2, RunKept
<1>7. Is(run)
  BY <1>3, <1>5, <1>6
<1>8. run[N] = path[n]
  BY <1>5, <1>6, <1>7
<1> QED BY <1>4, <1>8

\* The cells of an instruction, those behind them, and the literals they read.
LEMMA RunsAt ==
  ASSUME NEW c, NEW mem, NEW first, NEW last, NEW es, Lies(c, mem, first, last, es),
         NEW k, k \in 1..Len(es), NEW a, a = first + k - 1, NEW e, e = es[k]
  PROVE  IsAt(mem, first, last, a, e)
<1>1. PICK len : len = Len(es)
  OBVIOUS
<1>2. first \in Nat /\ 1 <= first /\ len \in Nat /\ last = first + len
  BY <1>1 DEF Lies
<1>3. k \in Nat /\ 1 <= k /\ k <= len
  BY <1>1, <1>2
<1>4. a \in DOMAIN mem /\ mem[a] = es[k]
  BY DEF Lies
<1>5. a \in Nat /\ a # 0 /\ first <= a /\ a < last /\ last \in Nat
  BY <1>2, <1>3
<1> QED BY <1>2, <1>4, <1>5 DEF IsAt

LEMMA NextOne ==
  ASSUME NEW c, NEW mem, NEW first, NEW last, NEW es, Lies(c, mem, first, last, es),
         NEW k, k \in 1..Len(es), k < Len(es) => es[k + 1].op # "wide",
         NEW a, a = first + k - 1, NEW b, b = first + k
  PROVE  Nexts(mem, a, b)
<1>1. PICK len : len = Len(es)
  OBVIOUS
<1>2. first \in Nat /\ 1 <= first /\ len \in Nat /\ last = first + len
  BY <1>1 DEF Lies
<1>3. k \in Nat /\ 1 <= k /\ k <= len /\ a + 1 = b
  BY <1>1, <1>2
<1>4. CASE k < len
  <2>1. k + 1 \in 1..Len(es) /\ first + (k + 1) - 1 = b
    BY <1>1, <1>2, <1>3, <1>4
  <2>2. b \in DOMAIN mem /\ mem[b] = es[k + 1]
    BY <2>1 DEF Lies
  <2> QED BY <1>1, <1>3, <1>4, <2>2 DEF Behind32, Nexts
<1>5. CASE k = len
  <2>1. b = last
    BY <1>2, <1>3, <1>5
  <2>2. mem[b].op # "wide"
    BY <2>1 DEF Lies
  <2> QED BY <1>3, <2>2 DEF Behind32, Nexts
<1> QED BY <1>2, <1>3, <1>4, <1>5

LEMMA NextTwo ==
  ASSUME NEW c, NEW mem, NEW first, NEW last, NEW es, Lies(c, mem, first, last, es),
         NEW k, k \in Nat, 1 <= k, k < Len(es), es[k + 1].op = "wide",
         NEW a, a = first + k - 1, NEW b, b = first + k + 1
  PROVE  Nexts(mem, a, b)
<1>1. first \in Nat /\ 1 <= first /\ Len(es) \in Nat
  BY DEF Lies
<1>2. k + 1 \in 1..Len(es) /\ first + (k + 1) - 1 = a + 1 /\ a + 2 = b
  BY <1>1
<1>3. a + 1 \in DOMAIN mem /\ mem[a + 1] = es[k + 1]
  BY <1>2 DEF Lies
<1> QED BY <1>2, <1>3 DEF Behind32, Nexts

\* Cell m of the instruction begins a literal, and it is the one that cell a reads.
Holds32(c, es, m, v) ==
  /\ m \in 1..Len(es) /\ es[m] = Op("word", v)
  /\ c.thumb => m + 1 \in 1..Len(es) /\ es[m + 1] = Op("high", v)

Points(c, first, a, n, m) == LiteralAt(c, a - 1, n) + 1 = first + m - 1

LEMMA ReadsIt ==
  ASSUME NEW c, NEW mem, NEW first, NEW last, NEW es, Lies(c, mem, first, last, es),
         NEW m, NEW v, Holds32(c, es, m, v), NEW a, NEW n, Points(c, first, a, n, m)
  PROVE  Reads(c, mem, a, n, v)
<1>1. first \in Nat /\ 1 <= first /\ Len(es) \in Nat
  BY DEF Lies
<1>2. PICK at : at = LiteralAt(c, a - 1, n) + 1
  OBVIOUS
<1>3. m \in 1..Len(es) /\ at = first + m - 1
  BY <1>2 DEF Holds32, Points
<1>4. at \in DOMAIN mem /\ mem[at] = es[m]
  BY <1>3 DEF Lies
<1>5. c.thumb => at + 1 \in DOMAIN mem /\ mem[at + 1] = Op("high", v)
  <2>1. ASSUME c.thumb PROVE at + 1 \in DOMAIN mem /\ mem[at + 1] = Op("high", v)
    <3>1. m + 1 \in 1..Len(es) /\ es[m + 1] = Op("high", v)
      BY <2>1 DEF Holds32
    <3>2. at + 1 = first + (m + 1) - 1
      BY <1>1, <1>3
    <3> QED BY <3>1, <3>2 DEF Lies
  <2> QED BY <2>1
<1>6. mem[at].op = "word" /\ mem[at].arg = v
  BY <1>4 DEF Holds32, Op
<1>7. Readable(c, mem, at)
  BY <1>4, <1>5, <1>6 DEF Readable
<1> QED BY <1>2, <1>6, <1>7 DEF Reads

\* Runs of two, three, four and six states, the last of which stays.
Placed(c, i, mem, first, last) ==
  /\ mem = Trampoline(c) /\ first = At(c)[i] + 1 /\ last = At(c)[i + 1] + 1
  /\ first \in Nat /\ last \in Nat

LEMMA Ends2 ==
  ASSUME NEW c, NEW i, NEW mem, NEW first, NEW last, NEW taken, Placed(c, i, mem, first, last),
         NEW s1, NEW s2, s1 = EnterAt(first), StepsTo(c, mem, first, last, taken, s1, s2),
         StepsTo(c, mem, first, last, taken, s2, s2), first <= last
  PROVE  OutOfPlace(c, i, taken) = EndOf(s2)
<1>1. PICK path : path = <<s1, s2>>
  OBVIOUS
<1>2. path[1] = s1 /\ path[2] = s2 /\ 1 + 1 = 2
  BY <1>1
<1>3. \A k \in 1..2 - 1 : k = 1
  OBVIOUS
<1>4. Path(c, mem, first, last, taken, path, 2)
  BY <1>2, <1>3 DEF Path, StepsTo, Placed
<1>5. OutOfPlace(c, i, taken) = EndOf(path[2])
  BY <1>4, RunEnds DEF Placed
<1> QED BY <1>2, <1>5

LEMMA Ends3 ==
  ASSUME NEW c, NEW i, NEW mem, NEW first, NEW last, NEW taken, Placed(c, i, mem, first, last),
         NEW s1, NEW s2, NEW s3, s1 = EnterAt(first),
         StepsTo(c, mem, first, last, taken, s1, s2),
         StepsTo(c, mem, first, last, taken, s2, s3),
         StepsTo(c, mem, first, last, taken, s3, s3), first + 1 <= last
  PROVE  OutOfPlace(c, i, taken) = EndOf(s3)
<1>1. PICK path : path = <<s1, s2, s3>>
  OBVIOUS
<1>2. path[1] = s1 /\ path[2] = s2 /\ path[3] = s3 /\ 1 + 1 = 2 /\ 2 + 1 = 3
  BY <1>1
<1>3. \A k \in 1..3 - 1 : k = 1 \/ k = 2
  OBVIOUS
<1>4. Path(c, mem, first, last, taken, path, 3)
  BY <1>2, <1>3 DEF Path, StepsTo, Placed
<1>5. OutOfPlace(c, i, taken) = EndOf(path[3])
  BY <1>4, RunEnds DEF Placed
<1> QED BY <1>2, <1>5

LEMMA Ends4 ==
  ASSUME NEW c, NEW i, NEW mem, NEW first, NEW last, NEW taken, Placed(c, i, mem, first, last),
         NEW s1, NEW s2, NEW s3, NEW s4, s1 = EnterAt(first),
         StepsTo(c, mem, first, last, taken, s1, s2),
         StepsTo(c, mem, first, last, taken, s2, s3),
         StepsTo(c, mem, first, last, taken, s3, s4),
         StepsTo(c, mem, first, last, taken, s4, s4), first + 2 <= last
  PROVE  OutOfPlace(c, i, taken) = EndOf(s4)
<1>1. PICK path : path = <<s1, s2, s3, s4>>
  OBVIOUS
<1>2. /\ path[1] = s1 /\ path[2] = s2 /\ path[3] = s3 /\ path[4] = s4
      /\ 1 + 1 = 2 /\ 2 + 1 = 3 /\ 3 + 1 = 4
  BY <1>1
<1>3. \A k \in 1..4 - 1 : k = 1 \/ k = 2 \/ k = 3
  OBVIOUS
<1>4. Path(c, mem, first, last, taken, path, 4)
  BY <1>2, <1>3 DEF Path, StepsTo, Placed
<1>5. OutOfPlace(c, i, taken) = EndOf(path[4])
  BY <1>4, RunEnds DEF Placed
<1> QED BY <1>2, <1>5

LEMMA Ends6 ==
  ASSUME NEW c, NEW i, NEW mem, NEW first, NEW last, NEW taken, Placed(c, i, mem, first, last),
         NEW s1, NEW s2, NEW s3, NEW s4, NEW s5, NEW s6, s1 = EnterAt(first),
         StepsTo(c, mem, first, last, taken, s1, s2),
         StepsTo(c, mem, first, last, taken, s2, s3),
         StepsTo(c, mem, first, last, taken, s3, s4),
         StepsTo(c, mem, first, last, taken, s4, s5),
         StepsTo(c, mem, first, last, taken, s5, s6),
         StepsTo(c, mem, first, last, taken, s6, s6), first + 4 <= last
  PROVE  OutOfPlace(c, i, taken) = EndOf(s6)
<1>1. PICK path : path = <<s1, s2, s3, s4, s5, s6>>
  OBVIOUS
<1>2. /\ path[1] = s1 /\ path[2] = s2 /\ path[3] = s3 /\ path[4] = s4 /\ path[5] = s5
      /\ path[6] = s6 /\ 1 + 1 = 2 /\ 2 + 1 = 3 /\ 3 + 1 = 4 /\ 4 + 1 = 5 /\ 5 + 1 = 6
  BY <1>1
<1>3. \A k \in 1..6 - 1 : k = 1 \/ k = 2 \/ k = 3 \/ k = 4 \/ k = 5
  OBVIOUS
<1>4. Path(c, mem, first, last, taken, path, 6)
  BY <1>2, <1>3 DEF Path, StepsTo, Placed
<1>5. OutOfPlace(c, i, taken) = EndOf(path[6])
  BY <1>4, RunEnds DEF Placed
<1> QED BY <1>2, <1>5

\* A conditional branch that is taken, and one that is not.
LEMMA RunsTaken ==
  ASSUME NEW c, c.thumb, NEW i, NEW mem, NEW first, NEW last, NEW taken, taken = TRUE, NEW v,
         Placed(c, i, mem, first, last), Lies(c, mem, first, last, CondJump(v))
  PROVE  OutOfPlace(c, i, taken) = Result(IF Overwritten(c, v) THEN Lost ELSE v, Kept, Kept)
<1>1. PICK es : es = CondJump(v)
  OBVIOUS
<1>2. /\ Len(es) = 6 /\ es[1] = Op("cond", 0) /\ es[2] = Op("skip", 3) /\ es[3] = Op("ldr_pc", 0)
      /\ es[4] = Op("wide", 0) /\ es[5] = Op("word", v) /\ es[6] = Op("high", v)
  BY <1>1 DEF CondJump
<1>3. Lies(c, mem, first, last, es)
  BY <1>1
<1>4. first \in Nat /\ last \in Nat /\ last = first + 6 /\ (first - 1) % 2 = 0
  <2>1. first \in Nat /\ last = first + Len(es) /\ (first - 1) % 2 = 0
    BY <1>3 DEF Lies
  <2> QED BY <1>2, <2>1
<1>5. PICK a1, a3 :
           /\ a1 = first /\ a3 = first + 2
  OBVIOUS
<1>6. PICK s1, s2, s3 :
           /\ InState(s1, a1, Next1, Kept, Kept, Kept, FALSE)
           /\ InState(s2, a3, Next1, Kept, Kept, Kept, FALSE)
           /\ InState(s3, 0, IF Overwritten(c, v) THEN Lost ELSE v, Kept, Kept, Kept, FALSE)
  BY DEF InState
<1>7. s1 = EnterAt(first)
  BY <1>5, <1>6 DEF EnterAt, InState, State
<1>8. StepsTo(c, mem, first, last, taken, s1, s2)
  <2>1. IsAt(mem, first, last, a1, Op("cond", 0))
    <3>1. 1 \in 1..Len(es) /\ a1 = first + 1 - 1 /\ Op("cond", 0) = es[1]
      BY <1>2, <1>4, <1>5
    <3> QED BY <1>3, <3>1, RunsAt
  <2>2. a3 = a1 + 2
    BY <1>4, <1>5
  <2> QED BY <1>6, <2>1, <2>2, StepTaken
<1>9. StepsTo(c, mem, first, last, taken, s2, s3)
  <2>1. IsAt(mem, first, last, a3, Op("ldr_pc", 0))
    <3>1. 3 \in 1..Len(es) /\ a3 = first + 3 - 1 /\ Op("ldr_pc", 0) = es[3]
      BY <1>2, <1>4, <1>5
    <3> QED BY <1>3, <3>1, RunsAt
  <2>2. Reads(c, mem, a3, 0, v)
    <3>1. Points(c, first, a3, 0, 5)
      BY <1>4, <1>5 DEF Points, LiteralAt, AlignPc
    <3>2. Holds32(c, es, 5, v)
      BY <1>2 DEF Holds32
    <3> QED BY <1>3, <3>1, <3>2, ReadsIt
  <2> QED BY <1>6, <2>1, <2>2, StepJump
<1>10. StepsTo(c, mem, first, last, taken, s3, s3)
  BY <1>6, StepStops
<1>11. OutOfPlace(c, i, taken) = EndOf(s3)
  <2>1. first + 1 <= last
    BY <1>4
  <2>2. Placed(c, i, mem, first, last)
    OBVIOUS
  <2> QED BY ONLY <1>7, <1>8, <1>9, <1>10, <2>1, <2>2, Ends3
<1> QED BY <1>6, <1>11 DEF EndOf, InState, State, Result

LEMMA RunsNotTaken ==
  ASSUME NEW c, c.thumb, NEW i, NEW mem, NEW first, NEW last, NEW taken, taken = FALSE, NEW v,
         Placed(c, i, mem, first, last), Lies(c, mem, first, last, CondJump(v))
  PROVE  OutOfPlace(c, i, taken) = Result(Next1, Kept, Kept)
<1>1. PICK es : es = CondJump(v)
  OBVIOUS
<1>2. /\ Len(es) = 6 /\ es[1] = Op("cond", 0) /\ es[2] = Op("skip", 3) /\ es[3] = Op("ldr_pc", 0)
      /\ es[4] = Op("wide", 0) /\ es[5] = Op("word", v) /\ es[6] = Op("high", v)
  BY <1>1 DEF CondJump
<1>3. Lies(c, mem, first, last, es)
  BY <1>1
<1>4. first \in Nat /\ last \in Nat /\ last = first + 6 /\ (first - 1) % 2 = 0
  <2>1. first \in Nat /\ last = first + Len(es) /\ (first - 1) % 2 = 0
    BY <1>3 DEF Lies
  <2> QED BY <1>2, <2>1
<1>5. PICK a1, a2, a7 :
           /\ a1 = first /\ a2 = first + 1 /\ a7 = first + 6
  OBVIOUS
<1>6. PICK s1, s2, s3 :
           /\ InState(s1, a1, Next1, Kept, Kept, Kept, FALSE)
           /\ InState(s2, a2, Next1, Kept, Kept, Kept, FALSE)
           /\ InState(s3, a7, Next1, Kept, Kept, Kept, FALSE)
  BY DEF InState
<1>7. s1 = EnterAt(first)
  BY <1>5, <1>6 DEF EnterAt, InState, State
<1>8. StepsTo(c, mem, first, last, taken, s1, s2)
  <2>1. IsAt(mem, first, last, a1, Op("cond", 0))
    <3>1. 1 \in 1..Len(es) /\ a1 = first + 1 - 1 /\ Op("cond", 0) = es[1]
      BY <1>2, <1>4, <1>5
    <3> QED BY <1>3, <3>1, RunsAt
  <2>2. a2 = a1 + 1
    BY <1>4, <1>5
  <2> QED BY <1>6, <2>1, <2>2, StepNotTaken
<1>9. StepsTo(c, mem, first, last, taken, s2, s3)
  <2>1. IsAt(mem, first, last, a2, Op("skip", 3))
    <3>1. 2 \in 1..Len(es) /\ a2 = first + 2 - 1 /\ Op("skip", 3) = es[2]
      BY <1>2, <1>4, <1>5
    <3> QED BY <1>3, <3>1, RunsAt
  <2>2. a7 = a2 + 2 + 3
    BY <1>4, <1>5
  <2> QED BY <1>6, <2>1, <2>2, StepSkip
<1>10. StepsTo(c, mem, first, last, taken, s3, s3)
  <2>1. a7 = last
    BY <1>4, <1>5
  <2> QED BY <1>6, <2>1, StepStops
<1>11. OutOfPlace(c, i, taken) = EndOf(s3)
  <2>1. first + 1 <= last
    BY <1>4
  <2>2. Placed(c, i, mem, first, last)
    OBVIOUS
  <2> QED BY ONLY <1>7, <1>8, <1>9, <1>10, <2>1, <2>2, Ends3
<1> QED BY <1>6, <1>11 DEF EndOf, InState, State, Result

\* Other branches and calls of Thumb code.
LEMMA RunsThumbJump ==
  ASSUME NEW c, c.thumb, NEW i, NEW mem, NEW first, NEW last, NEW taken, NEW v,
         Placed(c, i, mem, first, last), Lies(c, mem, first, last, ThumbJump(v))
  PROVE  OutOfPlace(c, i, taken) = Result(IF Overwritten(c, v) THEN Lost ELSE v, Kept, Kept)
<1>1. PICK es : es = ThumbJump(v)
  OBVIOUS
<1>2. /\ Len(es) = 4 /\ es[1] = Op("ldr_pc", 0) /\ es[2] = Op("wide", 0) /\ es[3] = Op("word", v)
      /\ es[4] = Op("high", v)
  BY <1>1 DEF ThumbJump
<1>3. Lies(c, mem, first, last, es)
  BY <1>1
<1>4. first \in Nat /\ last \in Nat /\ last = first + 4 /\ (first - 1) % 2 = 0
  <2>1. first \in Nat /\ last = first + Len(es) /\ (first - 1) % 2 = 0
    BY <1>3 DEF Lies
  <2> QED BY <1>2, <2>1
<1>5. PICK a1 :
           /\ a1 = first
  OBVIOUS
<1>6. PICK s1, s2 :
           /\ InState(s1, a1, Next1, Kept, Kept, Kept, FALSE)
           /\ InState(s2, 0, IF Overwritten(c, v) THEN Lost ELSE v, Kept, Kept, Kept, FALSE)
  BY DEF InState
<1>7. s1 = EnterAt(first)
  BY <1>5, <1>6 DEF EnterAt, InState, State
<1>8. StepsTo(c, mem, first, last, taken, s1, s2)
  <2>1. IsAt(mem, first, last, a1, Op("ldr_pc", 0))
    <3>1. 1 \in 1..Len(es) /\ a1 = first + 1 - 1 /\ Op("ldr_pc", 0) = es[1]
      BY <1>2, <1>4, <1>5
    <3> QED BY <1>3, <3>1, RunsAt
  <2>2. Reads(c, mem, a1, 0, v)
    <3>1. Points(c, first, a1, 0, 3)
      BY <1>4, <1>5 DEF Points, LiteralAt, AlignPc
    <3>2. Holds32(c, es, 3, v)
      BY <1>2 DEF Holds32
    <3> QED BY <1>3, <3>1, <3>2, ReadsIt
  <2> QED BY <1>6, <2>1, <2>2, StepJump
<1>9. StepsTo(c, mem, first, last, taken, s2, s2)
  BY <1>6, StepStops
<1>10. OutOfPlace(c, i, taken) = EndOf(s2)
  <2>1. first <= last
    BY <1>4
  <2> QED BY <1>7, <1>8, <1>9, <2>1, Ends2
<1> QED BY <1>6, <1>10 DEF EndOf, InState, State, Result

LEMMA RunsLinkThumb ==
  ASSUME NEW c, c.thumb, NEW i, NEW mem, NEW first, NEW last, NEW taken, NEW v,
         Placed(c, i, mem, first, last), Lies(c, mem, first, last, LinkThumb(v))
  PROVE  OutOfPlace(c, i, taken) = Result(IF Overwritten(c, v) THEN Lost ELSE v, Next1, Kept)
<1>1. PICK es : es = LinkThumb(v)
  OBVIOUS
<1>2. /\ Len(es) = 6 /\ es[1] = Op("set_lr", 4) /\ es[2] = Op("wide", 0)
      /\ es[3] = Op("ldr_pc", 0) /\ es[4] = Op("wide", 0) /\ es[5] = Op("word", v)
      /\ es[6] = Op("high", v)
  BY <1>1 DEF LinkThumb
<1>3. Lies(c, mem, first, last, es)
  BY <1>1
<1>4. first \in Nat /\ last \in Nat /\ last = first + 6 /\ (first - 1) % 2 = 0
  <2>1. first \in Nat /\ last = first + Len(es) /\ (first - 1) % 2 = 0
    BY <1>3 DEF Lies
  <2> QED BY <1>2, <2>1
<1>5. PICK a1, a3 :
           /\ a1 = first /\ a3 = first + 2
  OBVIOUS
<1>6. PICK s1, s2, s3 :
           /\ InState(s1, a1, Next1, Kept, Kept, Kept, FALSE)
           /\ InState(s2, a3, Next1, Next1, Kept, Kept, FALSE)
           /\ InState(s3, 0, IF Overwritten(c, v) THEN Lost ELSE v, Next1, Kept, Kept, FALSE)
  BY DEF InState
<1>7. s1 = EnterAt(first)
  BY <1>5, <1>6 DEF EnterAt, InState, State
<1>8. StepsTo(c, mem, first, last, taken, s1, s2)
  <2>1. IsAt(mem, first, last, a1, Op("set_lr", 4))
    <3>1. 1 \in 1..Len(es) /\ a1 = first + 1 - 1 /\ Op("set_lr", 4) = es[1]
      BY <1>2, <1>4, <1>5
    <3> QED BY <1>3, <3>1, RunsAt
  <2>2. Nexts(mem, a1, a3)
    <3>1. 1 \in Nat /\ 1 <= 1 /\ 1 < Len(es) /\ es[1 + 1].op = "wide"
      BY <1>2 DEF Op
    <3>2. a1 = first + 1 - 1 /\ a3 = first + 1 + 1
      BY <1>4, <1>5
    <3> QED BY <1>3, <3>1, <3>2, NextTwo
  <2>3. Links32(c, a1, 4, last)
    BY <1>4, <1>5 DEF Links32, LiteralAt, AlignPc
  <2> QED BY <1>6, <2>1, <2>2, <2>3, StepSetLr
<1>9. StepsTo(c, mem, first, last, taken, s2, s3)
  <2>1. IsAt(mem, first, last, a3, Op("ldr_pc", 0))
    <3>1. 3 \in 1..Len(es) /\ a3 = first + 3 - 1 /\ Op("ldr_pc", 0) = es[3]
      BY <1>2, <1>4, <1>5
    <3> QED BY <1>3, <3>1, RunsAt
  <2>2. Reads(c, mem, a3, 0, v)
    <3>1. Points(c, first, a3, 0, 5)
      BY <1>4, <1>5 DEF Points, LiteralAt, AlignPc
    <3>2. Holds32(c, es, 5, v)
      BY <1>2 DEF Holds32
    <3> QED BY <1>3, <3>1, <3>2, ReadsIt
  <2> QED BY <1>6, <2>1, <2>2, StepJump
<1>10. StepsTo(c, mem, first, last, taken, s3, s3)
  BY <1>6, StepStops
<1>11. OutOfPlace(c, i, taken) = EndOf(s3)
  <2>1. first + 1 <= last
    BY <1>4
  <2> QED BY <1>7, <1>8, <1>9, <1>10, <2>1, Ends3
<1> QED BY <1>6, <1>11 DEF EndOf, InState, State, Result

\* Loads, sums with PC and copies of Thumb code.
LEMMA RunsLoadThumb ==
  ASSUME NEW c, c.thumb, NEW i, NEW mem, NEW first, NEW last, NEW taken, NEW v,
         Placed(c, i, mem, first, last), Lies(c, mem, first, last, LoadThumb(v))
  PROVE  OutOfPlace(c, i, taken) = Result(Next1, Kept, <<"value", v>>)
<1>1. PICK es : es = LoadThumb(v)
  OBVIOUS
<1>2. /\ Len(es) = 4 /\ es[1] = Op("ldr", 0) /\ es[2] = Op("skip", 1) /\ es[3] = Op("word", v)
      /\ es[4] = Op("high", v)
  BY <1>1 DEF LoadThumb
<1>3. Lies(c, mem, first, last, es)
  BY <1>1
<1>4. first \in Nat /\ last \in Nat /\ last = first + 4 /\ (first - 1) % 2 = 0
  <2>1. first \in Nat /\ last = first + Len(es) /\ (first - 1) % 2 = 0
    BY <1>3 DEF Lies
  <2> QED BY <1>2, <2>1
<1>5. PICK a1, a2, a5 :
           /\ a1 = first /\ a2 = first + 1 /\ a5 = first + 4
  OBVIOUS
<1>6. PICK s1, s2, s3 :
           /\ InState(s1, a1, Next1, Kept, Kept, Kept, FALSE)
           /\ InState(s2, a2, Next1, Kept, <<"value", v>>, Kept, FALSE)
           /\ InState(s3, a5, Next1, Kept, <<"value", v>>, Kept, FALSE)
  BY DEF InState
<1>7. s1 = EnterAt(first)
  BY <1>5, <1>6 DEF EnterAt, InState, State
<1>8. StepsTo(c, mem, first, last, taken, s1, s2)
  <2>1. IsAt(mem, first, last, a1, Op("ldr", 0))
    <3>1. 1 \in 1..Len(es) /\ a1 = first + 1 - 1 /\ Op("ldr", 0) = es[1]
      BY <1>2, <1>4, <1>5
    <3> QED BY <1>3, <3>1, RunsAt
  <2>2. Nexts(mem, a1, a2)
    <3>1. 1 \in 1..Len(es) /\ (1 < Len(es) => es[1 + 1].op # "wide")
      BY <1>2 DEF Op
    <3>2. a1 = first + 1 - 1 /\ a2 = first + 1
      BY <1>4, <1>5
    <3> QED BY <1>3, <3>1, <3>2, NextOne
  <2>3. Reads(c, mem, a1, 0, v)
    <3>1. Points(c, first, a1, 0, 3)
      BY <1>4, <1>5 DEF Points, LiteralAt, AlignPc
    <3>2. Holds32(c, es, 3, v)
      BY <1>2 DEF Holds32
    <3> QED BY <1>3, <3>1, <3>2, ReadsIt
  <2> QED BY <1>6, <2>1, <2>2, <2>3, StepLoad
<1>9. StepsTo(c, mem, first, last, taken, s2, s3)
  <2>1. IsAt(mem, first, last, a2, Op("skip", 1))
    <3>1. 2 \in 1..Len(es) /\ a2 = first + 2 - 1 /\ Op("skip", 1) = es[2]
      BY <1>2, <1>4, <1>5
    <3> QED BY <1>3, <3>1, RunsAt
  <2>2. a5 = a2 + 2 + 1
    BY <1>4, <1>5
  <2> QED BY <1>6, <2>1, <2>2, StepSkip
<1>10. StepsTo(c, mem, first, last, taken, s3, s3)
  <2>1. a5 = last
    BY <1>4, <1>5
  <2> QED BY <1>6, <2>1, StepStops
<1>11. OutOfPlace(c, i, taken) = EndOf(s3)
  <2>1. first + 1 <= last
    BY <1>4
  <2> QED BY <1>7, <1>8, <1>9, <1>10, <2>1, Ends3
<1> QED BY <1>6, <1>11 DEF EndOf, InState, State, Result

LEMMA RunsLoadWide ==
  ASSUME NEW c, c.thumb, NEW i, NEW mem, NEW first, NEW last, NEW taken, NEW v,
         Placed(c, i, mem, first, last), Lies(c, mem, first, last, LoadWide(v))
  PROVE  OutOfPlace(c, i, taken) = Result(Next1, Kept, <<"value", v>>)
<1>1. PICK es : es = LoadWide(v)
  OBVIOUS
<1>2. /\ Len(es) = 6 /\ es[1] = Op("ldr", 2) /\ es[2] = Op("wide", 0) /\ es[3] = Op("nop", 0)
      /\ es[4] = Op("skip", 1) /\ es[5] = Op("word", v) /\ es[6] = Op("high", v)
  BY <1>1 DEF LoadWide
<1>3. Lies(c, mem, first, last, es)
  BY <1>1
<1>4. first \in Nat /\ last \in Nat /\ last = first + 6 /\ (first - 1) % 2 = 0
  <2>1. first \in Nat /\ last = first + Len(es) /\ (first - 1) % 2 = 0
    BY <1>3 DEF Lies
  <2> QED BY <1>2, <2>1
<1>5. PICK a1, a3, a4, a7 :
           /\ a1 = first /\ a3 = first + 2 /\ a4 = first + 3 /\ a7 = first + 6
  OBVIOUS
<1>6. PICK s1, s2, s3, s4 :
           /\ InState(s1, a1, Next1, Kept, Kept, Kept, FALSE)
           /\ InState(s2, a3, Next1, Kept, <<"value", v>>, Kept, FALSE)
           /\ InState(s3, a4, Next1, Kept, <<"value", v>>, Kept, FALSE)
           /\ InState(s4, a7, Next1, Kept, <<"value", v>>, Kept, FALSE)
  BY DEF InState
<1>7. s1 = EnterAt(first)
  BY <1>5, <1>6 DEF EnterAt, InState, State
<1>8. StepsTo(c, mem, first, last, taken, s1, s2)
  <2>1. IsAt(mem, first, last, a1, Op("ldr", 2))
    <3>1. 1 \in 1..Len(es) /\ a1 = first + 1 - 1 /\ Op("ldr", 2) = es[1]
      BY <1>2, <1>4, <1>5
    <3> QED BY <1>3, <3>1, RunsAt
  <2>2. Nexts(mem, a1, a3)
    <3>1. 1 \in Nat /\ 1 <= 1 /\ 1 < Len(es) /\ es[1 + 1].op = "wide"
      BY <1>2 DEF Op
    <3>2. a1 = first + 1 - 1 /\ a3 = first + 1 + 1
      BY <1>4, <1>5
    <3> QED BY <1>3, <3>1, <3>2, NextTwo
  <2>3. Reads(c, mem, a1, 2, v)
    <3>1. Points(c, first, a1, 2, 5)
      BY <1>4, <1>5 DEF Points, LiteralAt, AlignPc
    <3>2. Holds32(c, es, 5, v)
      BY <1>2 DEF Holds32
    <3> QED BY <1>3, <3>1, <3>2, ReadsIt
  <2> QED BY <1>6, <2>1, <2>2, <2>3, StepLoad
<1>9. StepsTo(c, mem, first, last, taken, s2, s3)
  <2>1. IsAt(mem, first, last, a3, Op("nop", 0))
    <3>1. 3 \in 1..Len(es) /\ a3 = first + 3 - 1 /\ Op("nop", 0) = es[3]
      BY <1>2, <1>4, <1>5
    <3> QED BY <1>3, <3>1, RunsAt
  <2>2. a4 = a3 + 1
    BY <1>4, <1>5
  <2> QED BY <1>6, <2>1, <2>2, StepNop
<1>10. StepsTo(c, mem, first, last, taken, s3, s4)
  <2>1. IsAt(mem, first, last, a4, Op("skip", 1))
    <3>1. 4 \in 1..Len(es) /\ a4 = first + 4 - 1 /\ Op("skip", 1) = es[4]
      BY <1>2, <1>4, <1>5
    <3> QED BY <1>3, <3>1, RunsAt
  <2>2. a7 = a4 + 2 + 1
    BY <1>4, <1>5
  <2> QED BY <1>6, <2>1, <2>2, StepSkip
<1>11. StepsTo(c, mem, first, last, taken, s4, s4)
  <2>1. a7 = last
    BY <1>4, <1>5
  <2> QED BY <1>6, <2>1, StepStops
<1>12. OutOfPlace(c, i, taken) = EndOf(s4)
  <2>1. first + 2 <= last
    BY <1>4
  <2> QED BY <1>7, <1>8, <1>9, <1>10, <1>11, <2>1, Ends4
<1> QED BY <1>6, <1>12 DEF EndOf, InState, State, Result

LEMMA RunsAddThumb ==
  ASSUME NEW c, c.thumb, NEW i, NEW mem, NEW first, NEW last, NEW taken, taken = TRUE, NEW v,
         Placed(c, i, mem, first, last), Lies(c, mem, first, last, AddThumb(v))
  PROVE  OutOfPlace(c, i, taken) = Result(Next1, Kept, <<"plus", v>>)
<1>1. PICK es : es = AddThumb(v)
  OBVIOUS
<1>2. /\ Len(es) = 8 /\ es[1] = Op("push", 0) /\ es[2] = Op("ldr", 4) /\ es[3] = Op("copy", 0)
      /\ es[4] = Op("pop", 0) /\ es[5] = Op("skip", 2) /\ es[6] = Op("nop", 0)
      /\ es[7] = Op("word", v) /\ es[8] = Op("high", v)
  BY <1>1 DEF AddThumb
<1>3. Lies(c, mem, first, last, es)
  BY <1>1
<1>4. first \in Nat /\ last \in Nat /\ last = first + 8 /\ (first - 1) % 2 = 0
  <2>1. first \in Nat /\ last = first + Len(es) /\ (first - 1) % 2 = 0
    BY <1>3 DEF Lies
  <2> QED BY <1>2, <2>1
<1>5. PICK a1, a2, a3, a4, a5, a9 :
           /\ a1 = first /\ a2 = first + 1 /\ a3 = first + 2 /\ a4 = first + 3 /\ a5 = first + 4
           /\ a9 = first + 8
  OBVIOUS
<1>6. PICK s1, s2, s3, s4, s5, s6 :
           /\ InState(s1, a1, Next1, Kept, Kept, Kept, FALSE)
           /\ InState(s2, a2, Next1, Kept, Kept, Kept, TRUE)
           /\ InState(s3, a3, Next1, Kept, Kept, <<v>>, TRUE)
           /\ InState(s4, a4, Next1, Kept, <<"plus", v>>, <<v>>, TRUE)
           /\ InState(s5, a5, Next1, Kept, <<"plus", v>>, Kept, FALSE)
           /\ InState(s6, a9, Next1, Kept, <<"plus", v>>, Kept, FALSE)
  BY DEF InState
<1>7. s1 = EnterAt(first)
  BY <1>5, <1>6 DEF EnterAt, InState, State
<1>8. StepsTo(c, mem, first, last, taken, s1, s2)
  <2>1. IsAt(mem, first, last, a1, Op("push", 0))
    <3>1. 1 \in 1..Len(es) /\ a1 = first + 1 - 1 /\ Op("push", 0) = es[1]
      BY <1>2, <1>4, <1>5
    <3> QED BY <1>3, <3>1, RunsAt
  <2>2. a2 = a1 + 1
    BY <1>4, <1>5
  <2> QED BY <1>6, <2>1, <2>2, StepPush
<1>9. StepsTo(c, mem, first, last, taken, s2, s3)
  <2>1. IsAt(mem, first, last, a2, Op("ldr", 4))
    <3>1. 2 \in 1..Len(es) /\ a2 = first + 2 - 1 /\ Op("ldr", 4) = es[2]
      BY <1>2, <1>4, <1>5
    <3> QED BY <1>3, <3>1, RunsAt
  <2>2. Nexts(mem, a2, a3)
    <3>1. 2 \in 1..Len(es) /\ (2 < Len(es) => es[2 + 1].op # "wide")
      BY <1>2 DEF Op
    <3>2. a2 = first + 2 - 1 /\ a3 = first + 2
      BY <1>4, <1>5
    <3> QED BY <1>3, <3>1, <3>2, NextOne
  <2>3. Reads(c, mem, a2, 4, v)
    <3>1. Points(c, first, a2, 4, 7)
      BY <1>4, <1>5 DEF Points, LiteralAt, AlignPc
    <3>2. Holds32(c, es, 7, v)
      BY <1>2 DEF Holds32
    <3> QED BY <1>3, <3>1, <3>2, ReadsIt
  <2> QED BY <1>6, <2>1, <2>2, <2>3, StepScratch
<1>10. StepsTo(c, mem, first, last, taken, s3, s4)
  <2>1. IsAt(mem, first, last, a3, Op("copy", 0))
    <3>1. 3 \in 1..Len(es) /\ a3 = first + 3 - 1 /\ Op("copy", 0) = es[3]
      BY <1>2, <1>4, <1>5
    <3> QED BY <1>3, <3>1, RunsAt
  <2>2. Nexts(mem, a3, a4)
    <3>1. 3 \in 1..Len(es) /\ (3 < Len(es) => es[3 + 1].op # "wide")
      BY <1>2 DEF Op
    <3>2. a3 = first + 3 - 1 /\ a4 = first + 3
      BY <1>4, <1>5
    <3> QED BY <1>3, <3>1, <3>2, NextOne
  <2>3. Copied(<<v>>) = <<"plus", v>>
    BY DEF Copied, Kept
  <2> QED BY <1>6, <2>1, <2>2, <2>3, StepCopy
<1>11. StepsTo(c, mem, first, last, taken, s4, s5)
  <2>1. IsAt(mem, first, last, a4, Op("pop", 0))
    <3>1. 4 \in 1..Len(es) /\ a4 = first + 4 - 1 /\ Op("pop", 0) = es[4]
      BY <1>2, <1>4, <1>5
    <3> QED BY <1>3, <3>1, RunsAt
  <2>2. a5 = a4 + 1
    BY <1>4, <1>5
  <2> QED BY <1>6, <2>1, <2>2, StepPop
<1>12. StepsTo(c, mem, first, last, taken, s5, s6)
  <2>1. IsAt(mem, first, last, a5, Op("skip", 2))
    <3>1. 5 \in 1..Len(es) /\ a5 = first + 5 - 1 /\ Op("skip", 2) = es[5]
      BY <1>2, <1>4, <1>5
    <3> QED BY <1>3, <3>1, RunsAt
  <2>2. a9 = a5 + 2 + 2
    BY <1>4, <1>5
  <2> QED BY <1>6, <2>1, <2>2, StepSkip
<1>13. StepsTo(c, mem, first, last, taken, s6, s6)
  <2>1. a9 = last
    BY <1>4, <1>5
  <2> QED BY <1>6, <2>1, StepStops
<1>14. OutOfPlace(c, i, taken) = EndOf(s6)
  <2>1. first + 4 <= last
    BY <1>4
  <2>2. Placed(c, i, mem, first, last)
    OBVIOUS
  <2> QED BY ONLY <1>7, <1>8, <1>9, <1>10, <1>11, <1>12, <1>13, <2>1, <2>2, Ends6
<1> QED BY <1>6, <1>14 DEF EndOf, InState, State, Result

LEMMA RunsCopyThumb ==
  ASSUME NEW c, c.thumb, NEW i, NEW mem, NEW first, NEW last, NEW taken, taken = TRUE,
         Placed(c, i, mem, first, last), Lies(c, mem, first, last, CopyThumb)
  PROVE  OutOfPlace(c, i, taken) = Result(Next1, Kept, <<"done">>)
<1>1. PICK es : es = CopyThumb
  OBVIOUS
<1>2. /\ Len(es) = 2 /\ es[1] = Op("copy", 0) /\ es[2] = Op("nop", 0)
  BY <1>1 DEF CopyThumb
<1>3. Lies(c, mem, first, last, es)
  BY <1>1
<1>4. first \in Nat /\ last \in Nat /\ last = first + 2 /\ (first - 1) % 2 = 0
  <2>1. first \in Nat /\ last = first + Len(es) /\ (first - 1) % 2 = 0
    BY <1>3 DEF Lies
  <2> QED BY <1>2, <2>1
<1>5. PICK a1, a2, a3 :
           /\ a1 = first /\ a2 = first + 1 /\ a3 = first + 2
  OBVIOUS
<1>6. PICK s1, s2, s3 :
           /\ InState(s1, a1, Next1, Kept, Kept, Kept, FALSE)
           /\ InState(s2, a2, Next1, Kept, <<"done">>, Kept, FALSE)
           /\ InState(s3, a3, Next1, Kept, <<"done">>, Kept, FALSE)
  BY DEF InState
<1>7. s1 = EnterAt(first)
  BY <1>5, <1>6 DEF EnterAt, InState, State
<1>8. StepsTo(c, mem, first, last, taken, s1, s2)
  <2>1. IsAt(mem, first, last, a1, Op("copy", 0))
    <3>1. 1 \in 1..Len(es) /\ a1 = first + 1 - 1 /\ Op("copy", 0) = es[1]
      BY <1>2, <1>4, <1>5
    <3> QED BY <1>3, <3>1, RunsAt
  <2>2. Nexts(mem, a1, a2)
    <3>1. 1 \in 1..Len(es) /\ (1 < Len(es) => es[1 + 1].op # "wide")
      BY <1>2 DEF Op
    <3>2. a1 = first + 1 - 1 /\ a2 = first + 1
      BY <1>4, <1>5
    <3> QED BY <1>3, <3>1, <3>2, NextOne
  <2>3. Copied(Kept) = <<"done">>
    BY DEF Copied, Kept
  <2> QED BY <1>6, <2>1, <2>2, <2>3, StepCopy
<1>9. StepsTo(c, mem, first, last, taken, s2, s3)
  <2>1. IsAt(mem, first, last, a2, Op("nop", 0))
    <3>1. 2 \in 1..Len(es) /\ a2 = first + 2 - 1 /\ Op("nop", 0) = es[2]
      BY <1>2, <1>4, <1>5
    <3> QED BY <1>3, <3>1, RunsAt
  <2>2. a3 = a2 + 1
    BY <1>4, <1>5
  <2> QED BY <1>6, <2>1, <2>2, StepNop
<1>10. StepsTo(c, mem, first, last, taken, s3, s3)
  <2>1. a3 = last
    BY <1>4, <1>5
  <2> QED BY <1>6, <2>1, StepStops
<1>11. OutOfPlace(c, i, taken) = EndOf(s3)
  <2>1. first + 1 <= last
    BY <1>4
  <2>2. Placed(c, i, mem, first, last)
    OBVIOUS
  <2> QED BY ONLY <1>7, <1>8, <1>9, <1>10, <2>1, <2>2, Ends3
<1> QED BY <1>6, <1>11 DEF EndOf, InState, State, Result

LEMMA RunsCopyWide ==
  ASSUME NEW c, c.thumb, NEW i, NEW mem, NEW first, NEW last, NEW taken, taken = TRUE,
         Placed(c, i, mem, first, last), Lies(c, mem, first, last, CopyWide)
  PROVE  OutOfPlace(c, i, taken) = Result(Next1, Kept, <<"done">>)
<1>1. PICK es : es = CopyWide
  OBVIOUS
<1>2. /\ Len(es) = 2 /\ es[1] = Op("copy", 0) /\ es[2] = Op("wide", 0)
  BY <1>1 DEF CopyWide
<1>3. Lies(c, mem, first, last, es)
  BY <1>1
<1>4. first \in Nat /\ last \in Nat /\ last = first + 2 /\ (first - 1) % 2 = 0
  <2>1. first \in Nat /\ last = first + Len(es) /\ (first - 1) % 2 = 0
    BY <1>3 DEF Lies
  <2> QED BY <1>2, <2>1
<1>5. PICK a1, a3 :
           /\ a1 = first /\ a3 = first + 2
  OBVIOUS
<1>6. PICK s1, s2 :
           /\ InState(s1, a1, Next1, Kept, Kept, Kept, FALSE)
           /\ InState(s2, a3, Next1, Kept, <<"done">>, Kept, FALSE)
  BY DEF InState
<1>7. s1 = EnterAt(first)
  BY <1>5, <1>6 DEF EnterAt, InState, State
<1>8. StepsTo(c, mem, first, last, taken, s1, s2)
  <2>1. IsAt(mem, first, last, a1, Op("copy", 0))
    <3>1. 1 \in 1..Len(es) /\ a1 = first + 1 - 1 /\ Op("copy", 0) = es[1]
      BY <1>2, <1>4, <1>5
    <3> QED BY <1>3, <3>1, RunsAt
  <2>2. Nexts(mem, a1, a3)
    <3>1. 1 \in Nat /\ 1 <= 1 /\ 1 < Len(es) /\ es[1 + 1].op = "wide"
      BY <1>2 DEF Op
    <3>2. a1 = first + 1 - 1 /\ a3 = first + 1 + 1
      BY <1>4, <1>5
    <3> QED BY <1>3, <3>1, <3>2, NextTwo
  <2>3. Copied(Kept) = <<"done">>
    BY DEF Copied, Kept
  <2> QED BY <1>6, <2>1, <2>2, <2>3, StepCopy
<1>9. StepsTo(c, mem, first, last, taken, s2, s2)
  <2>1. a3 = last
    BY <1>4, <1>5
  <2> QED BY <1>6, <2>1, StepStops
<1>10. OutOfPlace(c, i, taken) = EndOf(s2)
  <2>1. first <= last
    BY <1>4
  <2>2. Placed(c, i, mem, first, last)
    OBVIOUS
  <2> QED BY ONLY <1>7, <1>8, <1>9, <2>1, <2>2, Ends2
<1> QED BY <1>6, <1>10 DEF EndOf, InState, State, Result

\* ARM code.
LEMMA RunsArmJump ==
  ASSUME NEW c, ~c.thumb, NEW i, NEW mem, NEW first, NEW last, NEW taken, NEW v,
         Placed(c, i, mem, first, last), Lies(c, mem, first, last, ArmJump(v))
  PROVE  OutOfPlace(c, i, taken) = Result(IF Overwritten(c, v) THEN Lost ELSE v, Kept, Kept)
<1>1. PICK es : es = ArmJump(v)
  OBVIOUS
<1>2. /\ Len(es) = 2 /\ es[1] = Op("ldr_pc", -1) /\ es[2] = Op("word", v)
  BY <1>1 DEF ArmJump
<1>3. Lies(c, mem, first, last, es)
  BY <1>1
<1>4. first \in Nat /\ last \in Nat /\ last = first + 2
  <2>1. first \in Nat /\ last = first + Len(es)
    BY <1>3 DEF Lies
  <2> QED BY <1>2, <2>1
<1>5. PICK a1 :
           /\ a1 = first
  OBVIOUS
<1>6. PICK s1, s2 :
           /\ InState(s1, a1, Next1, Kept, Kept, Kept, FALSE)
           /\ InState(s2, 0, IF Overwritten(c, v) THEN Lost ELSE v, Kept, Kept, Kept, FALSE)
  BY DEF InState
<1>7. s1 = EnterAt(first)
  BY <1>5, <1>6 DEF EnterAt, InState, State
<1>8. StepsTo(c, mem, first, last, taken, s1, s2)
  <2>1. IsAt(mem, first, last, a1, Op("ldr_pc", -1))
    <3>1. 1 \in 1..Len(es) /\ a1 = first + 1 - 1 /\ Op("ldr_pc", -1) = es[1]
      BY <1>2, <1>4, <1>5
    <3> QED BY <1>3, <3>1, RunsAt
  <2>2. Reads(c, mem, a1, -1, v)
    <3>1. Points(c, first, a1, -1, 2)
      BY <1>4, <1>5 DEF Points, LiteralAt
    <3>2. Holds32(c, es, 2, v)
      BY <1>2 DEF Holds32
    <3> QED BY <1>3, <3>1, <3>2, ReadsIt
  <2> QED BY <1>6, <2>1, <2>2, StepJump
<1>9. StepsTo(c, mem, first, last, taken, s2, s2)
  BY <1>6, StepStops
<1>10. OutOfPlace(c, i, taken) = EndOf(s2)
  <2>1. first <= last
    BY <1>4
  <2> QED BY <1>7, <1>8, <1>9, <2>1, Ends2
<1> QED BY <1>6, <1>10 DEF EndOf, InState, State, Result

LEMMA RunsLinkArm ==
  ASSUME NEW c, ~c.thumb, NEW i, NEW mem, NEW first, NEW last, NEW taken, NEW v,
         Placed(c, i, mem, first, last), Lies(c, mem, first, last, LinkArm(v))
  PROVE  OutOfPlace(c, i, taken) = Result(IF Overwritten(c, v) THEN Lost ELSE v, Next1, Kept)
<1>1. PICK es : es = LinkArm(v)
  OBVIOUS
<1>2. /\ Len(es) = 3 /\ es[1] = Op("set_lr", 1) /\ es[2] = Op("ldr_pc", -1)
      /\ es[3] = Op("word", v)
  BY <1>1 DEF LinkArm
<1>3. Lies(c, mem, first, last, es)
  BY <1>1
<1>4. first \in Nat /\ last \in Nat /\ last = first + 3
  <2>1. first \in Nat /\ last = first + Len(es)
    BY <1>3 DEF Lies
  <2> QED BY <1>2, <2>1
<1>5. PICK a1, a2 :
           /\ a1 = first /\ a2 = first + 1
  OBVIOUS
<1>6. PICK s1, s2, s3 :
           /\ InState(s1, a1, Next1, Kept, Kept, Kept, FALSE)
           /\ InState(s2, a2, Next1, Next1, Kept, Kept, FALSE)
           /\ InState(s3, 0, IF Overwritten(c, v) THEN Lost ELSE v, Next1, Kept, Kept, FALSE)
  BY DEF InState
<1>7. s1 = EnterAt(first)
  BY <1>5, <1>6 DEF EnterAt, InState, State
<1>8. StepsTo(c, mem, first, last, taken, s1, s2)
  <2>1. IsAt(mem, first, last, a1, Op("set_lr", 1))
    <3>1. 1 \in 1..Len(es) /\ a1 = first + 1 - 1 /\ Op("set_lr", 1) = es[1]
      BY <1>2, <1>4, <1>5
    <3> QED BY <1>3, <3>1, RunsAt
  <2>2. Nexts(mem, a1, a2)
    <3>1. 1 \in 1..Len(es) /\ (1 < Len(es) => es[1 + 1].op # "wide")
      BY <1>2 DEF Op
    <3>2. a1 = first + 1 - 1 /\ a2 = first + 1
      BY <1>4, <1>5
    <3> QED BY <1>3, <3>1, <3>2, NextOne
  <2>3. Links32(c, a1, 1, last)
    BY <1>4, <1>5 DEF Links32, LiteralAt
  <2> QED BY <1>6, <2>1, <2>2, <2>3, StepSetLr
<1>9. StepsTo(c, mem, first, last, taken, s2, s3)
  <2>1. IsAt(mem, first, last, a2, Op("ldr_pc", -1))
    <3>1. 2 \in 1..Len(es) /\ a2 = first + 2 - 1 /\ Op("ldr_pc", -1) = es[2]
      BY <1>2, <1>4, <1>5
    <3> QED BY <1>3, <3>1, RunsAt
  <2>2. Reads(c, mem, a2, -1, v)
    <3>1. Points(c, first, a2, -1, 3)
      BY <1>4, <1>5 DEF Points, LiteralAt
    <3>2. Holds32(c, es, 3, v)
      BY <1>2 DEF Holds32
    <3> QED BY <1>3, <3>1, <3>2, ReadsIt
  <2> QED BY <1>6, <2>1, <2>2, StepJump
<1>10. StepsTo(c, mem, first, last, taken, s3, s3)
  BY <1>6, StepStops
<1>11. OutOfPlace(c, i, taken) = EndOf(s3)
  <2>1. first + 1 <= last
    BY <1>4
  <2> QED BY <1>7, <1>8, <1>9, <1>10, <2>1, Ends3
<1> QED BY <1>6, <1>11 DEF EndOf, InState, State, Result

LEMMA RunsLoadArm ==
  ASSUME NEW c, ~c.thumb, NEW i, NEW mem, NEW first, NEW last, NEW taken, NEW v,
         Placed(c, i, mem, first, last), Lies(c, mem, first, last, LoadArm(v))
  PROVE  OutOfPlace(c, i, taken) = Result(Next1, Kept, <<"value", v>>)
<1>1. PICK es : es = LoadArm(v)
  OBVIOUS
<1>2. /\ Len(es) = 3 /\ es[1] = Op("ldr", 0) /\ es[2] = Op("skip", 0) /\ es[3] = Op("word", v)
  BY <1>1 DEF LoadArm
<1>3. Lies(c, mem, first, last, es)
  BY <1>1
<1>4. first \in Nat /\ last \in Nat /\ last = first + 3
  <2>1. first \in Nat /\ last = first + Len(es)
    BY <1>3 DEF Lies
  <2> QED BY <1>2, <2>1
<1>5. PICK a1, a2, a4 :
           /\ a1 = first /\ a2 = first + 1 /\ a4 = first + 3
  OBVIOUS
<1>6. PICK s1, s2, s3 :
           /\ InState(s1, a1, Next1, Kept, Kept, Kept, FALSE)
           /\ InState(s2, a2, Next1, Kept, <<"value", v>>, Kept, FALSE)
           /\ InState(s3, a4, Next1, Kept, <<"value", v>>, Kept, FALSE)
  BY DEF InState
<1>7. s1 = EnterAt(first)
  BY <1>5, <1>6 DEF EnterAt, InState, State
<1>8. StepsTo(c, mem, first, last, taken, s1, s2)
  <2>1. IsAt(mem, first, last, a1, Op("ldr", 0))
    <3>1. 1 \in 1..Len(es) /\ a1 = first + 1 - 1 /\ Op("ldr", 0) = es[1]
      BY <1>2, <1>4, <1>5
    <3> QED BY <1>3, <3>1, RunsAt
  <2>2. Nexts(mem, a1, a2)
    <3>1. 1 \in 1..Len(es) /\ (1 < Len(es) => es[1 + 1].op # "wide")
      BY <1>2 DEF Op
    <3>2. a1 = first + 1 - 1 /\ a2 = first + 1
      BY <1>4, <1>5
    <3> QED BY <1>3, <3>1, <3>2, NextOne
  <2>3. Reads(c, mem, a1, 0, v)
    <3>1. Points(c, first, a1, 0, 3)
      BY <1>4, <1>5 DEF Points, LiteralAt
    <3>2. Holds32(c, es, 3, v)
      BY <1>2 DEF Holds32
    <3> QED BY <1>3, <3>1, <3>2, ReadsIt
  <2> QED BY <1>6, <2>1, <2>2, <2>3, StepLoad
<1>9. StepsTo(c, mem, first, last, taken, s2, s3)
  <2>1. IsAt(mem, first, last, a2, Op("skip", 0))
    <3>1. 2 \in 1..Len(es) /\ a2 = first + 2 - 1 /\ Op("skip", 0) = es[2]
      BY <1>2, <1>4, <1>5
    <3> QED BY <1>3, <3>1, RunsAt
  <2>2. a4 = a2 + 2 + 0
    BY <1>4, <1>5
  <2> QED BY <1>6, <2>1, <2>2, StepSkip
<1>10. StepsTo(c, mem, first, last, taken, s3, s3)
  <2>1. a4 = last
    BY <1>4, <1>5
  <2> QED BY <1>6, <2>1, StepStops
<1>11. OutOfPlace(c, i, taken) = EndOf(s3)
  <2>1. first + 1 <= last
    BY <1>4
  <2> QED BY <1>7, <1>8, <1>9, <1>10, <2>1, Ends3
<1> QED BY <1>6, <1>11 DEF EndOf, InState, State, Result

LEMMA RunsAddArm ==
  ASSUME NEW c, ~c.thumb, NEW i, NEW mem, NEW first, NEW last, NEW taken, taken = TRUE, NEW v,
         Placed(c, i, mem, first, last), Lies(c, mem, first, last, AddArm(v))
  PROVE  OutOfPlace(c, i, taken) = Result(Next1, Kept, <<"plus", v>>)
<1>1. PICK es : es = AddArm(v)
  OBVIOUS
<1>2. /\ Len(es) = 6 /\ es[1] = Op("push", 0) /\ es[2] = Op("ldr", 2) /\ es[3] = Op("copy", 0)
      /\ es[4] = Op("pop", 0) /\ es[5] = Op("skip", 0) /\ es[6] = Op("word", v)
  BY <1>1 DEF AddArm
<1>3. Lies(c, mem, first, last, es)
  BY <1>1
<1>4. first \in Nat /\ last \in Nat /\ last = first + 6
  <2>1. first \in Nat /\ last = first + Len(es)
    BY <1>3 DEF Lies
  <2> QED BY <1>2, <2>1
<1>5. PICK a1, a2, a3, a4, a5, a7 :
           /\ a1 = first /\ a2 = first + 1 /\ a3 = first + 2 /\ a4 = first + 3 /\ a5 = first + 4
           /\ a7 = first + 6
  OBVIOUS
<1>6. PICK s1, s2, s3, s4, s5, s6 :
           /\ InState(s1, a1, Next1, Kept, Kept, Kept, FALSE)
           /\ InState(s2, a2, Next1, Kept, Kept, Kept, TRUE)
           /\ InState(s3, a3, Next1, Kept, Kept, <<v>>, TRUE)
           /\ InState(s4, a4, Next1, Kept, <<"plus", v>>, <<v>>, TRUE)
           /\ InState(s5, a5, Next1, Kept, <<"plus", v>>, Kept, FALSE)
           /\ InState(s6, a7, Next1, Kept, <<"plus", v>>, Kept, FALSE)
  BY DEF InState
<1>7. s1 = EnterAt(first)
  BY <1>5, <1>6 DEF EnterAt, InState, State
<1>8. StepsTo(c, mem, first, last, taken, s1, s2)
  <2>1. IsAt(mem, first, last, a1, Op("push", 0))
    <3>1. 1 \in 1..Len(es) /\ a1 = first + 1 - 1 /\ Op("push", 0) = es[1]
      BY <1>2, <1>4, <1>5
    <3> QED BY <1>3, <3>1, RunsAt
  <2>2. a2 = a1 + 1
    BY <1>4, <1>5
  <2> QED BY <1>6, <2>1, <2>2, StepPush
<1>9. StepsTo(c, mem, first, last, taken, s2, s3)
  <2>1. IsAt(mem, first, last, a2, Op("ldr", 2))
    <3>1. 2 \in 1..Len(es) /\ a2 = first + 2 - 1 /\ Op("ldr", 2) = es[2]
      BY <1>2, <1>4, <1>5
    <3> QED BY <1>3, <3>1, RunsAt
  <2>2. Nexts(mem, a2, a3)
    <3>1. 2 \in 1..Len(es) /\ (2 < Len(es) => es[2 + 1].op # "wide")
      BY <1>2 DEF Op
    <3>2. a2 = first + 2 - 1 /\ a3 = first + 2
      BY <1>4, <1>5
    <3> QED BY <1>3, <3>1, <3>2, NextOne
  <2>3. Reads(c, mem, a2, 2, v)
    <3>1. Points(c, first, a2, 2, 6)
      BY <1>4, <1>5 DEF Points, LiteralAt
    <3>2. Holds32(c, es, 6, v)
      BY <1>2 DEF Holds32
    <3> QED BY <1>3, <3>1, <3>2, ReadsIt
  <2> QED BY <1>6, <2>1, <2>2, <2>3, StepScratch
<1>10. StepsTo(c, mem, first, last, taken, s3, s4)
  <2>1. IsAt(mem, first, last, a3, Op("copy", 0))
    <3>1. 3 \in 1..Len(es) /\ a3 = first + 3 - 1 /\ Op("copy", 0) = es[3]
      BY <1>2, <1>4, <1>5
    <3> QED BY <1>3, <3>1, RunsAt
  <2>2. Nexts(mem, a3, a4)
    <3>1. 3 \in 1..Len(es) /\ (3 < Len(es) => es[3 + 1].op # "wide")
      BY <1>2 DEF Op
    <3>2. a3 = first + 3 - 1 /\ a4 = first + 3
      BY <1>4, <1>5
    <3> QED BY <1>3, <3>1, <3>2, NextOne
  <2>3. Copied(<<v>>) = <<"plus", v>>
    BY DEF Copied, Kept
  <2> QED BY <1>6, <2>1, <2>2, <2>3, StepCopy
<1>11. StepsTo(c, mem, first, last, taken, s4, s5)
  <2>1. IsAt(mem, first, last, a4, Op("pop", 0))
    <3>1. 4 \in 1..Len(es) /\ a4 = first + 4 - 1 /\ Op("pop", 0) = es[4]
      BY <1>2, <1>4, <1>5
    <3> QED BY <1>3, <3>1, RunsAt
  <2>2. a5 = a4 + 1
    BY <1>4, <1>5
  <2> QED BY <1>6, <2>1, <2>2, StepPop
<1>12. StepsTo(c, mem, first, last, taken, s5, s6)
  <2>1. IsAt(mem, first, last, a5, Op("skip", 0))
    <3>1. 5 \in 1..Len(es) /\ a5 = first + 5 - 1 /\ Op("skip", 0) = es[5]
      BY <1>2, <1>4, <1>5
    <3> QED BY <1>3, <3>1, RunsAt
  <2>2. a7 = a5 + 2 + 0
    BY <1>4, <1>5
  <2> QED BY <1>6, <2>1, <2>2, StepSkip
<1>13. StepsTo(c, mem, first, last, taken, s6, s6)
  <2>1. a7 = last
    BY <1>4, <1>5
  <2> QED BY <1>6, <2>1, StepStops
<1>14. OutOfPlace(c, i, taken) = EndOf(s6)
  <2>1. first + 4 <= last
    BY <1>4
  <2>2. Placed(c, i, mem, first, last)
    OBVIOUS
  <2> QED BY ONLY <1>7, <1>8, <1>9, <1>10, <1>11, <1>12, <1>13, <2>1, <2>2, Ends6
<1> QED BY <1>6, <1>14 DEF EndOf, InState, State, Result

LEMMA RunsNoAddArm ==
  ASSUME NEW c, ~c.thumb, NEW i, NEW mem, NEW first, NEW last, NEW taken, taken = FALSE, NEW v,
         Placed(c, i, mem, first, last), Lies(c, mem, first, last, AddArm(v))
  PROVE  OutOfPlace(c, i, taken) = Result(Next1, Kept, Kept)
<1>1. PICK es : es = AddArm(v)
  OBVIOUS
<1>2. /\ Len(es) = 6 /\ es[1] = Op("push", 0) /\ es[2] = Op("ldr", 2) /\ es[3] = Op("copy", 0)
      /\ es[4] = Op("pop", 0) /\ es[5] = Op("skip", 0) /\ es[6] = Op("word", v)
  BY <1>1 DEF AddArm
<1>3. Lies(c, mem, first, last, es)
  BY <1>1
<1>4. first \in Nat /\ last \in Nat /\ last = first + 6
  <2>1. first \in Nat /\ last = first + Len(es)
    BY <1>3 DEF Lies
  <2> QED BY <1>2, <2>1
<1>5. PICK a1, a2, a3, a4, a5, a7 :
           /\ a1 = first /\ a2 = first + 1 /\ a3 = first + 2 /\ a4 = first + 3 /\ a5 = first + 4
           /\ a7 = first + 6
  OBVIOUS
<1>6. PICK s1, s2, s3, s4, s5, s6 :
           /\ InState(s1, a1, Next1, Kept, Kept, Kept, FALSE)
           /\ InState(s2, a2, Next1, Kept, Kept, Kept, TRUE)
           /\ InState(s3, a3, Next1, Kept, Kept, <<v>>, TRUE)
           /\ InState(s4, a4, Next1, Kept, Kept, <<v>>, TRUE)
           /\ InState(s5, a5, Next1, Kept, Kept, Kept, FALSE)
           /\ InState(s6, a7, Next1, Kept, Kept, Kept, FALSE)
  BY DEF InState
<1>7. s1 = EnterAt(first)
  BY <1>5, <1>6 DEF EnterAt, InState, State
<1>8. StepsTo(c, mem, first, last, taken, s1, s2)
  <2>1. IsAt(mem, first, last, a1, Op("push", 0))
    <3>1. 1 \in 1..Len(es) /\ a1 = first + 1 - 1 /\ Op("push", 0) = es[1]
      BY <1>2, <1>4, <1>5
    <3> QED BY <1>3, <3>1, RunsAt
  <2>2. a2 = a1 + 1
    BY <1>4, <1>5
  <2> QED BY <1>6, <2>1, <2>2, StepPush
<1>9. StepsTo(c, mem, first, last, taken, s2, s3)
  <2>1. IsAt(mem, first, last, a2, Op("ldr", 2))
    <3>1. 2 \in 1..Len(es) /\ a2 = first + 2 - 1 /\ Op("ldr", 2) = es[2]
      BY <1>2, <1>4, <1>5
    <3> QED BY <1>3, <3>1, RunsAt
  <2>2. Nexts(mem, a2, a3)
    <3>1. 2 \in 1..Len(es) /\ (2 < Len(es) => es[2 + 1].op # "wide")
      BY <1>2 DEF Op
    <3>2. a2 = first + 2 - 1 /\ a3 = first + 2
      BY <1>4, <1>5
    <3> QED BY <1>3, <3>1, <3>2, NextOne
  <2>3. Reads(c, mem, a2, 2, v)
    <3>1. Points(c, first, a2, 2, 6)
      BY <1>4, <1>5 DEF Points, LiteralAt
    <3>2. Holds32(c, es, 6, v)
      BY <1>2 DEF Holds32
    <3> QED BY <1>3, <3>1, <3>2, ReadsIt
  <2> QED BY <1>6, <2>1, <2>2, <2>3, StepScratch
<1>10. StepsTo(c, mem, first, last, taken, s3, s4)
  <2>1. IsAt(mem, first, last, a3, Op("copy", 0))
    <3>1. 3 \in 1..Len(es) /\ a3 = first + 3 - 1 /\ Op("copy", 0) = es[3]
      BY <1>2, <1>4, <1>5
    <3> QED BY <1>3, <3>1, RunsAt
  <2>2. Nexts(mem, a3, a4)
    <3>1. 3 \in 1..Len(es) /\ (3 < Len(es) => es[3 + 1].op # "wide")
      BY <1>2 DEF Op
    <3>2. a3 = first + 3 - 1 /\ a4 = first + 3
      BY <1>4, <1>5
    <3> QED BY <1>3, <3>1, <3>2, NextOne
  <2> QED BY <1>6, <2>1, <2>2, StepNoCopy
<1>11. StepsTo(c, mem, first, last, taken, s4, s5)
  <2>1. IsAt(mem, first, last, a4, Op("pop", 0))
    <3>1. 4 \in 1..Len(es) /\ a4 = first + 4 - 1 /\ Op("pop", 0) = es[4]
      BY <1>2, <1>4, <1>5
    <3> QED BY <1>3, <3>1, RunsAt
  <2>2. a5 = a4 + 1
    BY <1>4, <1>5
  <2> QED BY <1>6, <2>1, <2>2, StepPop
<1>12. StepsTo(c, mem, first, last, taken, s5, s6)
  <2>1. IsAt(mem, first, last, a5, Op("skip", 0))
    <3>1. 5 \in 1..Len(es) /\ a5 = first + 5 - 1 /\ Op("skip", 0) = es[5]
      BY <1>2, <1>4, <1>5
    <3> QED BY <1>3, <3>1, RunsAt
  <2>2. a7 = a5 + 2 + 0
    BY <1>4, <1>5
  <2> QED BY <1>6, <2>1, <2>2, StepSkip
<1>13. StepsTo(c, mem, first, last, taken, s6, s6)
  <2>1. a7 = last
    BY <1>4, <1>5
  <2> QED BY <1>6, <2>1, StepStops
<1>14. OutOfPlace(c, i, taken) = EndOf(s6)
  <2>1. first + 4 <= last
    BY <1>4
  <2>2. Placed(c, i, mem, first, last)
    OBVIOUS
  <2> QED BY ONLY <1>7, <1>8, <1>9, <1>10, <1>11, <1>12, <1>13, <2>1, <2>2, Ends6
<1> QED BY <1>6, <1>14 DEF EndOf, InState, State, Result

LEMMA RunsCopyArm ==
  ASSUME NEW c, ~c.thumb, NEW i, NEW mem, NEW first, NEW last, NEW taken, taken = TRUE,
         Placed(c, i, mem, first, last), Lies(c, mem, first, last, CopyArm)
  PROVE  OutOfPlace(c, i, taken) = Result(Next1, Kept, <<"done">>)
<1>1. PICK es : es = CopyArm
  OBVIOUS
<1>2. /\ Len(es) = 1 /\ es[1] = Op("copy", 0)
  BY <1>1 DEF CopyArm
<1>3. Lies(c, mem, first, last, es)
  BY <1>1
<1>4. first \in Nat /\ last \in Nat /\ last = first + 1
  <2>1. first \in Nat /\ last = first + Len(es)
    BY <1>3 DEF Lies
  <2> QED BY <1>2, <2>1
<1>5. PICK a1, a2 :
           /\ a1 = first /\ a2 = first + 1
  OBVIOUS
<1>6. PICK s1, s2 :
           /\ InState(s1, a1, Next1, Kept, Kept, Kept, FALSE)
           /\ InState(s2, a2, Next1, Kept, <<"done">>, Kept, FALSE)
  BY DEF InState
<1>7. s1 = EnterAt(first)
  BY <1>5, <1>6 DEF EnterAt, InState, State
<1>8. StepsTo(c, mem, first, last, taken, s1, s2)
  <2>1. IsAt(mem, first, last, a1, Op("copy", 0))
    <3>1. 1 \in 1..Len(es) /\ a1 = first + 1 - 1 /\ Op("copy", 0) = es[1]
      BY <1>2, <1>4, <1>5
    <3> QED BY <1>3, <3>1, RunsAt
  <2>2. Nexts(mem, a1, a2)
    <3>1. 1 \in 1..Len(es) /\ (1 < Len(es) => es[1 + 1].op # "wide")
      BY <1>2 DEF Op
    <3>2. a1 = first + 1 - 1 /\ a2 = first + 1
      BY <1>4, <1>5
    <3> QED BY <1>3, <3>1, <3>2, NextOne
  <2>3. Copied(Kept) = <<"done">>
    BY DEF Copied, Kept
  <2> QED BY <1>6, <2>1, <2>2, <2>3, StepCopy
<1>9. StepsTo(c, mem, first, last, taken, s2, s2)
  <2>1. a2 = last
    BY <1>4, <1>5
  <2> QED BY <1>6, <2>1, StepStops
<1>10. OutOfPlace(c, i, taken) = EndOf(s2)
  <2>1. first <= last
    BY <1>4
  <2>2. Placed(c, i, mem, first, last)
    OBVIOUS
  <2> QED BY ONLY <1>7, <1>8, <1>9, <2>1, <2>2, Ends2
<1> QED BY <1>6, <1>10 DEF EndOf, InState, State, Result

LEMMA RunsNoCopyArm ==
  ASSUME NEW c, ~c.thumb, NEW i, NEW mem, NEW first, NEW last, NEW taken, taken = FALSE,
         Placed(c, i, mem, first, last), Lies(c, mem, first, last, CopyArm)
  PROVE  OutOfPlace(c, i, taken) = Result(Next1, Kept, Kept)
<1>1. PICK es : es = CopyArm
  OBVIOUS
<1>2. /\ Len(es) = 1 /\ es[1] = Op("copy", 0)
  BY <1>1 DEF CopyArm
<1>3. Lies(c, mem, first, last, es)
  BY <1>1
<1>4. first \in Nat /\ last \in Nat /\ last = first + 1
  <2>1. first \in Nat /\ last = first + Len(es)
    BY <1>3 DEF Lies
  <2> QED BY <1>2, <2>1
<1>5. PICK a1, a2 :
           /\ a1 = first /\ a2 = first + 1
  OBVIOUS
<1>6. PICK s1, s2 :
           /\ InState(s1, a1, Next1, Kept, Kept, Kept, FALSE)
           /\ InState(s2, a2, Next1, Kept, Kept, Kept, FALSE)
  BY DEF InState
<1>7. s1 = EnterAt(first)
  BY <1>5, <1>6 DEF EnterAt, InState, State
<1>8. StepsTo(c, mem, first, last, taken, s1, s2)
  <2>1. IsAt(mem, first, last, a1, Op("copy", 0))
    <3>1. 1 \in 1..Len(es) /\ a1 = first + 1 - 1 /\ Op("copy", 0) = es[1]
      BY <1>2, <1>4, <1>5
    <3> QED BY <1>3, <3>1, RunsAt
  <2>2. Nexts(mem, a1, a2)
    <3>1. 1 \in 1..Len(es) /\ (1 < Len(es) => es[1 + 1].op # "wide")
      BY <1>2 DEF Op
    <3>2. a1 = first + 1 - 1 /\ a2 = first + 1
      BY <1>4, <1>5
    <3> QED BY <1>3, <3>1, <3>2, NextOne
  <2> QED BY <1>6, <2>1, <2>2, StepNoCopy
<1>9. StepsTo(c, mem, first, last, taken, s2, s2)
  <2>1. a2 = last
    BY <1>4, <1>5
  <2> QED BY <1>6, <2>1, StepStops
<1>10. OutOfPlace(c, i, taken) = EndOf(s2)
  <2>1. first <= last
    BY <1>4
  <2>2. Placed(c, i, mem, first, last)
    OBVIOUS
  <2> QED BY ONLY <1>7, <1>8, <1>9, <2>1, <2>2, Ends2
<1> QED BY <1>6, <1>10 DEF EndOf, InState, State, Result

\* What each kind of instruction means in the function. x is instruction i, pc its PC
\* operand, and es what it becomes.
Relocates(c, i, x, pc, es) ==
  /\ Window32(c) /\ i \in 1..Relocated(c)
  /\ x = c.instrs[i] /\ pc = c.base + Start(c)[i] + 2 /\ es = Emitted(c, i)

LEMMA RelocatesOne ==
  ASSUME NEW c, NEW i, NEW x, NEW pc, NEW es, Relocates(c, i, x, pc, es)
  PROVE  /\ pc \in Int /\ c.base \in Int /\ Start(c)[i] \in Int /\ c.thumb \in BOOLEAN
         /\ x.kind \in Kinds(c.thumb) /\ x.label \in Int /\ x.cond \in Conds(x.kind)
         /\ es = Emit(x, pc)
         /\ \E mem, first, last : Placed(c, i, mem, first, last) /\ Lies(c, mem, first, last, es)
<1> USE DEF Relocates
<1>1. PICK n : n = Len(c.instrs)
  OBVIOUS
<1>2. i \in 1..n
  BY <1>1, RelocatedAre
<1>3. c.base \in Int /\ c.thumb \in BOOLEAN
  BY DEF Window32
<1>4. Start(c)[i] \in Nat
  <2>1. n \in Nat /\ Rising(Start(c), n)
    BY <1>1, StartsGiven
  <2>2. i \in 1..n + 1
    BY <1>2, <2>1
  <2> QED BY <2>1, <2>2 DEF Rising
<1>5. Start(c)[i] \in Int /\ pc \in Int
  BY <1>3, <1>4
<1>6. x.kind \in Kinds(c.thumb) /\ x.label \in Int /\ x.cond \in Conds(x.kind)
  BY <1>1, <1>2, InstrsOf
<1>7. es = Emit(x, pc)
  BY DEF Emitted
<1>8. PICK mem, first, last :
        mem = Trampoline(c) /\ first = At(c)[i] + 1 /\ last = At(c)[i + 1] + 1
  OBVIOUS
<1>9. Lies(c, mem, first, last, es)
  BY <1>8, EmittedLie
<1>10. first \in Nat /\ last \in Nat
  BY <1>9 DEF Lies
<1>11. Placed(c, i, mem, first, last)
  BY <1>8, <1>10 DEF Placed
<1> QED BY <1>3, <1>5, <1>6, <1>7, <1>9, <1>11

LEMMA NotTaken ==
  ASSUME NEW c, NEW i
  PROVE  InPlace(c, i, FALSE) = Result(Next1, Kept, Kept)
BY DEF InPlace

Thumb16Meant(x, pc, m) ==
  /\ x.kind = "B1_THUMB16" => m = Result(Place(pc + x.label, TRUE), Kept, Kept)
  /\ x.kind = "CB_THUMB16" => m = Result(Place(pc + x.label, TRUE), Kept, Kept)
  /\ x.kind = "B2_THUMB16" => m = Result(Place(pc + x.label, TRUE), Kept, Kept)
  /\ x.kind = "ADD_THUMB16" => m = Result(Next1, Kept, <<"plus", pc>>)
  /\ x.kind = "MOV_THUMB16" => m = Result(Next1, Kept, <<"value", pc>>)
  /\ x.kind = "LDR_THUMB16" => m = Result(Next1, Kept, <<"value", AlignPc(pc) + x.label>>)
  /\ x.kind = "OTHER_THUMB16" => m = Result(Next1, Kept, <<"done">>)

LEMMA Thumb16Means ==
  ASSUME NEW c, c.thumb = TRUE, NEW i, NEW x, x = c.instrs[i],
         NEW pc, pc = c.base + Start(c)[i] + 2
  PROVE  Thumb16Meant(x, pc, InPlace(c, i, TRUE))
<1> DEFINE m == InPlace(c, i, TRUE)
<1>1. ASSUME x.kind = "B1_THUMB16" PROVE m = Result(Place(pc + x.label, TRUE), Kept, Kept)
  <2>1. (c.thumb # (x.kind \in Switches)) = TRUE
    BY <1>1 DEF Switches
  <2> QED BY <1>1, <2>1 DEF InPlace, Branches, Links
<1>2. ASSUME x.kind = "CB_THUMB16" PROVE m = Result(Place(pc + x.label, TRUE), Kept, Kept)
  <2>1. (c.thumb # (x.kind \in Switches)) = TRUE
    BY <1>2 DEF Switches
  <2> QED BY <1>2, <2>1 DEF InPlace, Branches, Links
<1>3. ASSUME x.kind = "B2_THUMB16" PROVE m = Result(Place(pc + x.label, TRUE), Kept, Kept)
  <2>1. (c.thumb # (x.kind \in Switches)) = TRUE
    BY <1>3 DEF Switches
  <2> QED BY <1>3, <2>1 DEF InPlace, Branches, Links
<1>4. ASSUME x.kind = "ADD_THUMB16" PROVE m = Result(Next1, Kept, <<"plus", pc>>)
  BY <1>4 DEF InPlace, Branches
<1>5. ASSUME x.kind = "MOV_THUMB16" PROVE m = Result(Next1, Kept, <<"value", pc>>)
  BY <1>5 DEF InPlace, Branches
<1>6. ASSUME x.kind = "LDR_THUMB16"
      PROVE  m = Result(Next1, Kept, <<"value", AlignPc(pc) + x.label>>)
  BY <1>6 DEF InPlace, Branches
<1>7. ASSUME x.kind = "OTHER_THUMB16" PROVE m = Result(Next1, Kept, <<"done">>)
  BY <1>7 DEF InPlace, Branches
<1> QED BY <1>1, <1>2, <1>3, <1>4, <1>5, <1>6, <1>7 DEF Thumb16Meant

Thumb32Meant(x, pc, m) ==
  /\ x.kind = "BLX_THUMB32" => m = Result(Place(AlignPc(pc) + x.label, FALSE), Next1, Kept)
  /\ x.kind = "BL_THUMB32" => m = Result(Place(pc + x.label, TRUE), Next1, Kept)
  /\ x.kind = "B1_THUMB32" => m = Result(Place(pc + x.label, TRUE), Kept, Kept)
  /\ x.kind = "B2_THUMB32" => m = Result(Place(pc + x.label, TRUE), Kept, Kept)
  /\ x.kind = "LDR_THUMB32" => m = Result(Next1, Kept, <<"value", AlignPc(pc) + x.label>>)
  /\ x.kind = "OTHER_THUMB32" => m = Result(Next1, Kept, <<"done">>)

LEMMA Thumb32Means ==
  ASSUME NEW c, c.thumb = TRUE, NEW i, NEW x, x = c.instrs[i],
         NEW pc, pc = c.base + Start(c)[i] + 2
  PROVE  Thumb32Meant(x, pc, InPlace(c, i, TRUE))
<1> DEFINE m == InPlace(c, i, TRUE)
<1>1. ASSUME x.kind = "BLX_THUMB32"
      PROVE  m = Result(Place(AlignPc(pc) + x.label, FALSE), Next1, Kept)
  <2>1. (c.thumb # (x.kind \in Switches)) = FALSE
    BY <1>1 DEF Switches
  <2> QED BY <1>1, <2>1 DEF InPlace, Branches, Links
<1>2. ASSUME x.kind = "BL_THUMB32"
      PROVE  m = Result(Place(pc + x.label, TRUE), Next1, Kept)
  <2>1. (c.thumb # (x.kind \in Switches)) = TRUE
    BY <1>2 DEF Switches
  <2> QED BY <1>2, <2>1 DEF InPlace, Branches, Links
<1>3. ASSUME x.kind = "B1_THUMB32" PROVE m = Result(Place(pc + x.label, TRUE), Kept, Kept)
  <2>1. (c.thumb # (x.kind \in Switches)) = TRUE
    BY <1>3 DEF Switches
  <2> QED BY <1>3, <2>1 DEF InPlace, Branches, Links
<1>4. ASSUME x.kind = "B2_THUMB32" PROVE m = Result(Place(pc + x.label, TRUE), Kept, Kept)
  <2>1. (c.thumb # (x.kind \in Switches)) = TRUE
    BY <1>4 DEF Switches
  <2> QED BY <1>4, <2>1 DEF InPlace, Branches, Links
<1>5. ASSUME x.kind = "LDR_THUMB32"
      PROVE  m = Result(Next1, Kept, <<"value", AlignPc(pc) + x.label>>)
  BY <1>5 DEF InPlace, Branches
<1>6. ASSUME x.kind = "OTHER_THUMB32" PROVE m = Result(Next1, Kept, <<"done">>)
  BY <1>6 DEF InPlace, Branches
<1> QED BY <1>1, <1>2, <1>3, <1>4, <1>5, <1>6 DEF Thumb32Meant

ArmMeant(x, pc, m) ==
  /\ x.kind = "BLX_ARM" => m = Result(Place(pc + x.label, TRUE), Next1, Kept)
  /\ x.kind = "BL_ARM" => m = Result(Place(pc + x.label, FALSE), Next1, Kept)
  /\ x.kind = "B_ARM" => m = Result(Place(pc + x.label, FALSE), Kept, Kept)
  /\ x.kind = "BX_ARM" => m = Result(Place(pc, FALSE), Kept, Kept)
  /\ x.kind = "ADD_ARM" => m = Result(Next1, Kept, <<"plus", pc>>)
  /\ x.kind = "ADR_ARM" => m = Result(Next1, Kept, <<"value", 4 * pc + Expanded(x.label)>>)
  /\ x.kind = "MOV_ARM" => m = Result(Next1, Kept, <<"value", pc>>)
  /\ x.kind = "LDR_ARM" => m = Result(Next1, Kept, <<"value", pc + x.label>>)
  /\ x.kind = "OTHER_ARM" => m = Result(Next1, Kept, <<"done">>)

LEMMA ArmMeans ==
  ASSUME NEW c, c.thumb = FALSE, NEW i, NEW x, x = c.instrs[i],
         NEW pc, pc = c.base + Start(c)[i] + 2
  PROVE  ArmMeant(x, pc, InPlace(c, i, TRUE))
<1> DEFINE m == InPlace(c, i, TRUE)
<1>1. ASSUME x.kind = "BLX_ARM"
      PROVE  m = Result(Place(pc + x.label, TRUE), Next1, Kept)
  <2>1. (c.thumb # (x.kind \in Switches)) = TRUE
    BY <1>1 DEF Switches
  <2> QED BY <1>1, <2>1 DEF InPlace, Branches, Links
<1>2. ASSUME x.kind = "BL_ARM"
      PROVE  m = Result(Place(pc + x.label, FALSE), Next1, Kept)
  <2>1. (c.thumb # (x.kind \in Switches)) = FALSE
    <3>1. (x.kind \in Switches) = FALSE
      BY <1>2 DEF Switches
    <3> QED BY <3>1
  <2> QED BY <1>2, <2>1 DEF InPlace, Branches, Links
<1>3. ASSUME x.kind = "B_ARM"
      PROVE  m = Result(Place(pc + x.label, FALSE), Kept, Kept)
  <2>1. (c.thumb # (x.kind \in Switches)) = FALSE
    <3>1. (x.kind \in Switches) = FALSE
      BY <1>3 DEF Switches
    <3> QED BY <3>1
  <2> QED BY <1>3, <2>1 DEF InPlace, Branches, Links
<1>4. ASSUME x.kind = "BX_ARM" PROVE m = Result(Place(pc, FALSE), Kept, Kept)
  <2>1. (c.thumb # (x.kind \in Switches)) = FALSE
    <3>1. (x.kind \in Switches) = FALSE
      BY <1>4 DEF Switches
    <3> QED BY <3>1
  <2> QED BY <1>4, <2>1 DEF InPlace, Branches, Links
<1>5. ASSUME x.kind = "ADD_ARM" PROVE m = Result(Next1, Kept, <<"plus", pc>>)
  BY <1>5 DEF InPlace, Branches
<1>6. ASSUME x.kind = "ADR_ARM"
      PROVE  m = Result(Next1, Kept, <<"value", 4 * pc + Expanded(x.label)>>)
  BY <1>6 DEF InPlace, Branches
<1>7. ASSUME x.kind = "MOV_ARM" PROVE m = Result(Next1, Kept, <<"value", pc>>)
  BY <1>7 DEF InPlace, Branches
<1>8. ASSUME x.kind = "LDR_ARM"
      PROVE  m = Result(Next1, Kept, <<"value", pc + x.label>>)
  BY <1>8 DEF InPlace, Branches
<1>9. ASSUME x.kind = "OTHER_ARM" PROVE m = Result(Next1, Kept, <<"done">>)
  BY <1>9 DEF InPlace, Branches
<1> QED BY <1>1, <1>2, <1>3, <1>4, <1>5, <1>6, <1>7, <1>8, <1>9 DEF ArmMeant

\* An instruction that relocation is not known to change does the same out of place.
Changed32(c, i) ==
  LET ins == c.instrs[i]
  IN \/ ins.kind \in {"BX_THUMB16", "ADR_THUMB16"}
     \/ /\ ins.kind \in {"BL_THUMB32", "B1_THUMB32", "B2_THUMB32"}
        /\ (c.base + Start(c)[i]) % 2 = 1
     \/ ins.kind = "ADR_ARM" /\ Abs(ins.label) >= 256
     \/ ins.kind \in Arm \ {"ADD_ARM", "OTHER_ARM"} /\ ins.cond
     \/ Overwritten(c, InPlace(c, i, TRUE).to)

LEMMA AlwaysTaken ==
  ASSUME NEW x, x.cond = FALSE, NEW taken, taken \in Taken(x)
  PROVE  taken = TRUE
BY DEF Taken

LEMMA MayBeTaken ==
  ASSUME NEW x, NEW taken, taken \in Taken(x)
  PROVE  taken = TRUE \/ taken = FALSE
BY DEF Taken

LEMMA NotConditional ==
  ASSUME NEW x, x.kind \notin MayBeConditional, x.cond \in Conds(x.kind),
         NEW taken, taken \in Taken(x)
  PROVE  taken = TRUE
<1>1. x.cond = FALSE
  BY DEF Conds
<1> QED BY <1>1, AlwaysTaken

LEMMA InPlaceTaken ==
  ASSUME NEW c, NEW i, NEW taken, taken = TRUE
  PROVE  InPlace(c, i, taken) = InPlace(c, i, TRUE)
BY Zenon

\* Either way of a conditional branch.
LEMMA BranchKept ==
  ASSUME NEW c, c.thumb = TRUE, NEW i, NEW mem, NEW first, NEW last, Placed(c, i, mem, first, last),
         NEW es, Lies(c, mem, first, last, es), NEW v, es = CondJump(v),
         InPlace(c, i, TRUE) = Result(v, Kept, Kept), ~Overwritten(c, v),
         NEW taken, taken = TRUE \/ taken = FALSE
  PROVE  OutOfPlace(c, i, taken) = InPlace(c, i, taken)
<1>1. Lies(c, mem, first, last, CondJump(v))
  OBVIOUS
<1>2. ASSUME taken = TRUE PROVE OutOfPlace(c, i, taken) = InPlace(c, i, taken)
  <2>1. OutOfPlace(c, i, taken) = Result(IF Overwritten(c, v) THEN Lost ELSE v, Kept, Kept)
    BY <1>1, <1>2, RunsTaken
  <2>2. OutOfPlace(c, i, taken) = Result(v, Kept, Kept)
    BY <2>1
  <2>3. InPlace(c, i, taken) = Result(v, Kept, Kept)
    BY <1>2, InPlaceTaken
  <2> QED BY ONLY <2>2, <2>3
<1>3. ASSUME taken = FALSE PROVE OutOfPlace(c, i, taken) = InPlace(c, i, taken)
  <2>1. OutOfPlace(c, i, taken) = Result(Next1, Kept, Kept)
    BY <1>1, <1>3, RunsNotTaken
  <2>2. InPlace(c, i, taken) = Result(Next1, Kept, Kept)
    BY <1>3, NotTaken
  <2> QED BY ONLY <2>1, <2>2
<1> QED BY <1>2, <1>3

LEMMA Thumb16Kept ==
  ASSUME NEW c, NEW i, NEW x, NEW pc, NEW es, Relocates(c, i, x, pc, es), c.thumb = TRUE,
         x.kind \in Thumb16, ~Changed32(c, i), NEW taken, taken \in Taken(x)
  PROVE  OutOfPlace(c, i, taken) = InPlace(c, i, taken)
<1> DEFINE Goal == OutOfPlace(c, i, taken) = InPlace(c, i, taken)
<1>1. PICK mem, first, last : Placed(c, i, mem, first, last) /\ Lies(c, mem, first, last, es)
  BY RelocatesOne
<1>2. /\ pc \in Int /\ c.base \in Int /\ Start(c)[i] \in Int /\ x.cond \in Conds(x.kind)
      /\ es = Emit(x, pc) /\ x = c.instrs[i] /\ pc = c.base + Start(c)[i] + 2
  BY RelocatesOne DEF Relocates
<1>3. Thumb16As(x, pc, es)
  <2>1. es = EmitThumb16(x, pc)
    BY <1>2 DEF Emit, Thumb16, Thumb32, Arm
  <2> QED BY <2>1, Thumb16Emits
<1>4. PICK m : m = InPlace(c, i, TRUE)
  OBVIOUS
<1>5. Thumb16Meant(x, pc, m)
  BY <1>2, <1>4, Thumb16Means
<1>6. ~Overwritten(c, m.to)
  BY <1>4 DEF Changed32
<1>7. ASSUME x.kind = "B1_THUMB16" PROVE Goal
  <2>1. PICK v : v = Place(pc + x.label, TRUE)
    OBVIOUS
  <2>2. es = CondJump(v) /\ m = Result(v, Kept, Kept)
    BY <1>3, <1>5, <1>7, <2>1 DEF Thumb16As, Thumb16Meant
  <2>3. ~Overwritten(c, v)
    BY <1>6, <2>2 DEF Result
  <2>4. taken = TRUE \/ taken = FALSE
    BY MayBeTaken
  <2> QED BY <1>1, <1>4, <2>2, <2>3, <2>4, BranchKept
<1>8. ASSUME x.kind = "CB_THUMB16" PROVE Goal
  <2>1. PICK v : v = Place(pc + x.label, TRUE)
    OBVIOUS
  <2>2. es = CondJump(v) /\ m = Result(v, Kept, Kept)
    BY <1>3, <1>5, <1>8, <2>1 DEF Thumb16As, Thumb16Meant
  <2>3. ~Overwritten(c, v)
    BY <1>6, <2>2 DEF Result
  <2>4. taken = TRUE \/ taken = FALSE
    BY MayBeTaken
  <2> QED BY <1>1, <1>4, <2>2, <2>3, <2>4, BranchKept
<1>9. ASSUME x.kind = "B2_THUMB16" PROVE Goal
  <2>1. PICK v : v = Place(pc + x.label, TRUE)
    OBVIOUS
  <2>2. es = ThumbJump(v) /\ m = Result(v, Kept, Kept)
    BY <1>3, <1>5, <1>9, <2>1 DEF Thumb16As, Thumb16Meant
  <2>3. Lies(c, mem, first, last, ThumbJump(v))
    BY <1>1, <2>2
  <2>4. taken = TRUE
    BY <1>2, <1>9, NotConditional DEF MayBeConditional, Arm
  <2>5. ~Overwritten(c, v)
    BY <1>6, <2>2 DEF Result
  <2>6. OutOfPlace(c, i, taken) = Result(IF Overwritten(c, v) THEN Lost ELSE v, Kept, Kept)
    BY <1>1, <2>3, RunsThumbJump
  <2>7. OutOfPlace(c, i, taken) = Result(v, Kept, Kept)
    BY <2>5, <2>6
  <2>8. InPlace(c, i, taken) = m
    BY <1>4, <2>4, InPlaceTaken
  <2> QED BY ONLY <2>2, <2>7, <2>8
<1>10. ASSUME x.kind = "ADD_THUMB16" PROVE Goal
  <2>1. PICK v : v = pc
    OBVIOUS
  <2>2. es = AddThumb(v) /\ m = Result(Next1, Kept, <<"plus", v>>)
    BY <1>3, <1>5, <1>10, <2>1 DEF Thumb16As, Thumb16Meant
  <2>3. Lies(c, mem, first, last, AddThumb(v))
    BY <1>1, <2>2
  <2>4. taken = TRUE
    BY <1>2, <1>10, NotConditional DEF MayBeConditional, Arm
  <2>7. OutOfPlace(c, i, taken) = Result(Next1, Kept, <<"plus", v>>)
    BY <1>1, <2>3, <2>4, RunsAddThumb
  <2>8. InPlace(c, i, taken) = m
    BY <1>4, <2>4, InPlaceTaken
  <2> QED BY ONLY <2>2, <2>7, <2>8
<1>11. ASSUME x.kind = "MOV_THUMB16" PROVE Goal
  <2>1. PICK v : v = pc
    OBVIOUS
  <2>2. es = LoadThumb(v) /\ m = Result(Next1, Kept, <<"value", v>>)
    BY <1>3, <1>5, <1>11, <2>1 DEF Thumb16As, Thumb16Meant
  <2>3. Lies(c, mem, first, last, LoadThumb(v))
    BY <1>1, <2>2
  <2>4. taken = TRUE
    BY <1>2, <1>11, NotConditional DEF MayBeConditional, Arm
  <2>7. OutOfPlace(c, i, taken) = Result(Next1, Kept, <<"value", v>>)
    BY <1>1, <2>3, <2>4, RunsLoadThumb
  <2>8. InPlace(c, i, taken) = m
    BY <1>4, <2>4, InPlaceTaken
  <2> QED BY ONLY <2>2, <2>7, <2>8
<1>12. ASSUME x.kind = "LDR_THUMB16" PROVE Goal
  <2>1. PICK v : v = AlignPc(pc) + x.label
    OBVIOUS
  <2>2. es = LoadThumb(v) /\ m = Result(Next1, Kept, <<"value", v>>)
    BY <1>3, <1>5, <1>12, <2>1 DEF Thumb16As, Thumb16Meant
  <2>3. Lies(c, mem, first, last, LoadThumb(v))
    BY <1>1, <2>2
  <2>4. taken = TRUE
    BY <1>2, <1>12, NotConditional DEF MayBeConditional, Arm
  <2>7. OutOfPlace(c, i, taken) = Result(Next1, Kept, <<"value", v>>)
    BY <1>1, <2>3, <2>4, RunsLoadThumb
  <2>8. InPlace(c, i, taken) = m
    BY <1>4, <2>4, InPlaceTaken
  <2> QED BY ONLY <2>2, <2>7, <2>8
<1>13. ASSUME x.kind = "OTHER_THUMB16" PROVE Goal
  <2>2. es = CopyThumb /\ m = Result(Next1, Kept, <<"done">>)
    BY <1>3, <1>5, <1>13 DEF Thumb16As, Thumb16Meant
  <2>3. Lies(c, mem, first, last, CopyThumb)
    BY <1>1, <2>2
  <2>4. taken = TRUE
    BY <1>2, <1>13, NotConditional DEF MayBeConditional, Arm
  <2>7. OutOfPlace(c, i, taken) = Result(Next1, Kept, <<"done">>)
    BY <1>1, <2>3, <2>4, RunsCopyThumb
  <2>8. InPlace(c, i, taken) = m
    BY <1>4, <2>4, InPlaceTaken
  <2> QED BY ONLY <2>2, <2>7, <2>8
<1>14. x.kind \notin {"BX_THUMB16", "ADR_THUMB16"}
  BY <1>2 DEF Changed32
<1> QED BY <1>7, <1>8, <1>9, <1>10, <1>11, <1>12, <1>13, <1>14 DEF Thumb16

LEMMA Thumb32Kept ==
  ASSUME NEW c, NEW i, NEW x, NEW pc, NEW es, Relocates(c, i, x, pc, es), c.thumb = TRUE,
         x.kind \in Thumb32, ~Changed32(c, i), NEW taken, taken \in Taken(x)
  PROVE  OutOfPlace(c, i, taken) = InPlace(c, i, taken)
<1> DEFINE Goal == OutOfPlace(c, i, taken) = InPlace(c, i, taken)
<1>1. PICK mem, first, last : Placed(c, i, mem, first, last) /\ Lies(c, mem, first, last, es)
  BY RelocatesOne
<1>2. /\ pc \in Int /\ c.base \in Int /\ Start(c)[i] \in Int /\ x.cond \in Conds(x.kind)
      /\ es = Emit(x, pc) /\ x = c.instrs[i] /\ pc = c.base + Start(c)[i] + 2
  BY RelocatesOne DEF Relocates
<1>3. Thumb32As(x, pc, es)
  <2>1. es = EmitThumb32(x, pc)
    BY <1>2 DEF Emit, Thumb16, Thumb32, Arm
  <2> QED BY <2>1, Thumb32Emits
<1>4. PICK m : m = InPlace(c, i, TRUE)
  OBVIOUS
<1>5. Thumb32Meant(x, pc, m)
  BY <1>2, <1>4, Thumb32Means
<1>6. ~Overwritten(c, m.to)
  BY <1>4 DEF Changed32
<1>7. x.kind \in {"BL_THUMB32", "B1_THUMB32", "B2_THUMB32"} => AlignPc(pc) = pc
  <2>1. x.kind \in {"BL_THUMB32", "B1_THUMB32", "B2_THUMB32"} => (c.base + Start(c)[i]) % 2 # 1
    BY <1>2 DEF Changed32
  <2>2. PICK a : a = c.base + Start(c)[i]
    OBVIOUS
  <2>3. a \in Int /\ pc = a + 2
    BY <1>2, <2>2
  <2>4. a % 2 # 1 => pc % 2 = 0
    BY <2>3
  <2> QED BY <1>2, <2>1, <2>2, <2>4 DEF AlignPc
<1>8. ASSUME x.kind = "BLX_THUMB32" PROVE Goal
  <2>1. PICK v : v = Place(AlignPc(pc) + x.label, FALSE)
    OBVIOUS
  <2>2. es = LinkThumb(v) /\ m = Result(v, Next1, Kept)
    BY <1>3, <1>5, <1>8, <2>1 DEF Thumb32As, Thumb32Meant
  <2>3. Lies(c, mem, first, last, LinkThumb(v))
    BY <1>1, <2>2
  <2>4. taken = TRUE
    BY <1>2, <1>8, NotConditional DEF MayBeConditional, Arm
  <2>5. ~Overwritten(c, v)
    BY <1>6, <2>2 DEF Result
  <2>6. OutOfPlace(c, i, taken) = Result(IF Overwritten(c, v) THEN Lost ELSE v, Next1, Kept)
    BY <1>1, <2>3, RunsLinkThumb
  <2>7. OutOfPlace(c, i, taken) = Result(v, Next1, Kept)
    BY <2>5, <2>6
  <2>8. InPlace(c, i, taken) = m
    BY <1>4, <2>4, InPlaceTaken
  <2> QED BY ONLY <2>2, <2>7, <2>8
<1>9. ASSUME x.kind = "BL_THUMB32" PROVE Goal
  <2>1. PICK v : v = Place(pc + x.label, TRUE)
    OBVIOUS
  <2>2. es = LinkThumb(v) /\ m = Result(v, Next1, Kept)
    BY <1>3, <1>5, <1>7, <1>9, <2>1 DEF Thumb32As, Thumb32Meant
  <2>3. Lies(c, mem, first, last, LinkThumb(v))
    BY <1>1, <2>2
  <2>4. taken = TRUE
    BY <1>2, <1>9, NotConditional DEF MayBeConditional, Arm
  <2>5. ~Overwritten(c, v)
    BY <1>6, <2>2 DEF Result
  <2>6. OutOfPlace(c, i, taken) = Result(IF Overwritten(c, v) THEN Lost ELSE v, Next1, Kept)
    BY <1>1, <2>3, RunsLinkThumb
  <2>7. OutOfPlace(c, i, taken) = Result(v, Next1, Kept)
    BY <2>5, <2>6
  <2>8. InPlace(c, i, taken) = m
    BY <1>4, <2>4, InPlaceTaken
  <2> QED BY ONLY <2>2, <2>7, <2>8
<1>10. ASSUME x.kind = "B1_THUMB32" PROVE Goal
  <2>1. PICK v : v = Place(pc + x.label, TRUE)
    OBVIOUS
  <2>2. es = CondJump(v) /\ m = Result(v, Kept, Kept)
    BY <1>3, <1>5, <1>7, <1>10, <2>1 DEF Thumb32As, Thumb32Meant
  <2>3. ~Overwritten(c, v)
    BY <1>6, <2>2 DEF Result
  <2>4. taken = TRUE \/ taken = FALSE
    BY MayBeTaken
  <2> QED BY <1>1, <1>4, <2>2, <2>3, <2>4, BranchKept
<1>11. ASSUME x.kind = "B2_THUMB32" PROVE Goal
  <2>1. PICK v : v = Place(pc + x.label, TRUE)
    OBVIOUS
  <2>2. es = ThumbJump(v) /\ m = Result(v, Kept, Kept)
    BY <1>3, <1>5, <1>7, <1>11, <2>1 DEF Thumb32As, Thumb32Meant
  <2>3. Lies(c, mem, first, last, ThumbJump(v))
    BY <1>1, <2>2
  <2>4. taken = TRUE
    BY <1>2, <1>11, NotConditional DEF MayBeConditional, Arm
  <2>5. ~Overwritten(c, v)
    BY <1>6, <2>2 DEF Result
  <2>6. OutOfPlace(c, i, taken) = Result(IF Overwritten(c, v) THEN Lost ELSE v, Kept, Kept)
    BY <1>1, <2>3, RunsThumbJump
  <2>7. OutOfPlace(c, i, taken) = Result(v, Kept, Kept)
    BY <2>5, <2>6
  <2>8. InPlace(c, i, taken) = m
    BY <1>4, <2>4, InPlaceTaken
  <2> QED BY ONLY <2>2, <2>7, <2>8
<1>12. ASSUME x.kind = "LDR_THUMB32" PROVE Goal
  <2>1. PICK v : v = AlignPc(pc) + x.label
    OBVIOUS
  <2>2. es = LoadWide(v) /\ m = Result(Next1, Kept, <<"value", v>>)
    BY <1>3, <1>5, <1>12, <2>1 DEF Thumb32As, Thumb32Meant
  <2>3. Lies(c, mem, first, last, LoadWide(v))
    BY <1>1, <2>2
  <2>4. taken = TRUE
    BY <1>2, <1>12, NotConditional DEF MayBeConditional, Arm
  <2>7. OutOfPlace(c, i, taken) = Result(Next1, Kept, <<"value", v>>)
    BY <1>1, <2>3, <2>4, RunsLoadWide
  <2>8. InPlace(c, i, taken) = m
    BY <1>4, <2>4, InPlaceTaken
  <2> QED BY ONLY <2>2, <2>7, <2>8
<1>13. ASSUME x.kind = "OTHER_THUMB32" PROVE Goal
  <2>2. es = CopyWide /\ m = Result(Next1, Kept, <<"done">>)
    BY <1>3, <1>5, <1>13 DEF Thumb32As, Thumb32Meant
  <2>3. Lies(c, mem, first, last, CopyWide)
    BY <1>1, <2>2
  <2>4. taken = TRUE
    BY <1>2, <1>13, NotConditional DEF MayBeConditional, Arm
  <2>7. OutOfPlace(c, i, taken) = Result(Next1, Kept, <<"done">>)
    BY <1>1, <2>3, <2>4, RunsCopyWide
  <2>8. InPlace(c, i, taken) = m
    BY <1>4, <2>4, InPlaceTaken
  <2> QED BY ONLY <2>2, <2>7, <2>8
<1> QED BY <1>8, <1>9, <1>10, <1>11, <1>12, <1>13 DEF Thumb32

\* An immediate that fits in 8 bits stands for itself.
LEMMA NotTurned ==
  ASSUME NEW label \in Int, ~(Abs(label) >= 256)
  PROVE  Expanded(label) = label
<1>1. \A n \in 0..255 : Rotated(n) = n
  BY DEF Rotated
<1>2. CASE label < 0
  <2>1. -label \in 0..255
    BY <1>2 DEF Abs
  <2>2. Rotated(-label) = -label
    BY <1>1, <2>1
  <2> QED BY <1>2, <2>2 DEF Expanded
<1>3. CASE ~(label < 0)
  <2>1. label \in 0..255
    BY <1>3 DEF Abs
  <2>2. Rotated(label) = label
    BY <1>1, <2>1
  <2> QED BY <1>3, <2>2 DEF Expanded
<1> QED BY <1>2, <1>3

LEMMA ArmKept ==
  ASSUME NEW c, NEW i, NEW x, NEW pc, NEW es, Relocates(c, i, x, pc, es), c.thumb = FALSE,
         x.kind \in Arm, ~Changed32(c, i), NEW taken, taken \in Taken(x)
  PROVE  OutOfPlace(c, i, taken) = InPlace(c, i, taken)
<1> DEFINE Goal == OutOfPlace(c, i, taken) = InPlace(c, i, taken)
<1>1. PICK mem, first, last : Placed(c, i, mem, first, last) /\ Lies(c, mem, first, last, es)
  BY RelocatesOne
<1>2. /\ pc \in Int /\ c.base \in Int /\ Start(c)[i] \in Int /\ x.cond \in Conds(x.kind)
      /\ es = Emit(x, pc) /\ x = c.instrs[i] /\ pc = c.base + Start(c)[i] + 2
  BY RelocatesOne DEF Relocates
<1>3. ArmAs(x, pc, es)
  <2>1. es = EmitArm(x, pc)
    BY <1>2 DEF Emit, Thumb16, Thumb32, Arm
  <2> QED BY <2>1, ArmEmits
<1>4. PICK m : m = InPlace(c, i, TRUE)
  OBVIOUS
<1>5. ArmMeant(x, pc, m)
  BY <1>2, <1>4, ArmMeans
<1>6. ~Overwritten(c, m.to)
  BY <1>4 DEF Changed32
<1>7. ASSUME x.kind = "BLX_ARM" PROVE Goal
  <2>1. PICK v : v = Place(pc + x.label, TRUE)
    OBVIOUS
  <2>2. es = LinkArm(v) /\ m = Result(v, Next1, Kept)
    BY <1>3, <1>5, <1>7, <2>1 DEF ArmAs, ArmMeant
  <2>3. Lies(c, mem, first, last, LinkArm(v))
    BY <1>1, <2>2
  <2>4. taken = TRUE
    BY <1>2, <1>7, NotConditional DEF MayBeConditional, Arm
  <2>5. ~Overwritten(c, v)
    BY <1>6, <2>2 DEF Result
  <2>6. OutOfPlace(c, i, taken) = Result(IF Overwritten(c, v) THEN Lost ELSE v, Next1, Kept)
    BY <1>1, <2>3, RunsLinkArm
  <2>7. OutOfPlace(c, i, taken) = Result(v, Next1, Kept)
    BY <2>5, <2>6
  <2>8. InPlace(c, i, taken) = m
    BY <1>4, <2>4, InPlaceTaken
  <2> QED BY ONLY <2>2, <2>7, <2>8
<1>8. ASSUME x.kind = "BL_ARM" PROVE Goal
  <2>1. PICK v : v = Place(pc + x.label, FALSE)
    OBVIOUS
  <2>2. es = LinkArm(v) /\ m = Result(v, Next1, Kept)
    BY <1>3, <1>5, <1>8, <2>1 DEF ArmAs, ArmMeant
  <2>3. Lies(c, mem, first, last, LinkArm(v))
    BY <1>1, <2>2
  <2>4. taken = TRUE
    <3>1. ~x.cond
      BY <1>2, <1>8 DEF Changed32, Arm
    <3>2. taken \in {TRUE}
      BY <3>1 DEF Taken
    <3> QED BY <3>2
  <2>5. ~Overwritten(c, v)
    BY <1>6, <2>2 DEF Result
  <2>6. OutOfPlace(c, i, taken) = Result(IF Overwritten(c, v) THEN Lost ELSE v, Next1, Kept)
    BY <1>1, <2>3, RunsLinkArm
  <2>7. OutOfPlace(c, i, taken) = Result(v, Next1, Kept)
    BY <2>5, <2>6
  <2>8. InPlace(c, i, taken) = m
    BY <1>4, <2>4, InPlaceTaken
  <2> QED BY ONLY <2>2, <2>7, <2>8
<1>9. ASSUME x.kind = "B_ARM" PROVE Goal
  <2>1. PICK v : v = Place(pc + x.label, FALSE)
    OBVIOUS
  <2>2. es = ArmJump(v) /\ m = Result(v, Kept, Kept)
    BY <1>3, <1>5, <1>9, <2>1 DEF ArmAs, ArmMeant
  <2>3. Lies(c, mem, first, last, ArmJump(v))
    BY <1>1, <2>2
  <2>4. taken = TRUE
    <3>1. ~x.cond
      BY <1>2, <1>9 DEF Changed32, Arm
    <3>2. taken \in {TRUE}
      BY <3>1 DEF Taken
    <3> QED BY <3>2
  <2>5. ~Overwritten(c, v)
    BY <1>6, <2>2 DEF Result
  <2>6. OutOfPlace(c, i, taken) = Result(IF Overwritten(c, v) THEN Lost ELSE v, Kept, Kept)
    BY <1>1, <2>3, RunsArmJump
  <2>7. OutOfPlace(c, i, taken) = Result(v, Kept, Kept)
    BY <2>5, <2>6
  <2>8. InPlace(c, i, taken) = m
    BY <1>4, <2>4, InPlaceTaken
  <2> QED BY ONLY <2>2, <2>7, <2>8
<1>10. ASSUME x.kind = "BX_ARM" PROVE Goal
  <2>1. PICK v : v = Place(pc, FALSE)
    OBVIOUS
  <2>2. es = ArmJump(v) /\ m = Result(v, Kept, Kept)
    BY <1>3, <1>5, <1>10, <2>1 DEF ArmAs, ArmMeant
  <2>3. Lies(c, mem, first, last, ArmJump(v))
    BY <1>1, <2>2
  <2>4. taken = TRUE
    <3>1. ~x.cond
      BY <1>2, <1>10 DEF Changed32, Arm
    <3>2. taken \in {TRUE}
      BY <3>1 DEF Taken
    <3> QED BY <3>2
  <2>5. ~Overwritten(c, v)
    BY <1>6, <2>2 DEF Result
  <2>6. OutOfPlace(c, i, taken) = Result(IF Overwritten(c, v) THEN Lost ELSE v, Kept, Kept)
    BY <1>1, <2>3, RunsArmJump
  <2>7. OutOfPlace(c, i, taken) = Result(v, Kept, Kept)
    BY <2>5, <2>6
  <2>8. InPlace(c, i, taken) = m
    BY <1>4, <2>4, InPlaceTaken
  <2> QED BY ONLY <2>2, <2>7, <2>8
<1>11. ASSUME x.kind = "ADD_ARM" PROVE Goal
  <2>1. PICK v : v = pc
    OBVIOUS
  <2>2. es = AddArm(v) /\ m = Result(Next1, Kept, <<"plus", v>>)
    BY <1>3, <1>5, <1>11, <2>1 DEF ArmAs, ArmMeant
  <2>3. Lies(c, mem, first, last, AddArm(v))
    BY <1>1, <2>2
  <2>4. ASSUME taken = TRUE PROVE Goal
    <3>1. OutOfPlace(c, i, taken) = Result(Next1, Kept, <<"plus", v>>)
      BY <1>1, <2>3, <2>4, RunsAddArm
    <3>2. InPlace(c, i, taken) = m
      BY <1>4, <2>4, InPlaceTaken
    <3> QED BY ONLY <2>2, <3>1, <3>2
  <2>5. ASSUME taken = FALSE PROVE Goal
    <3>1. OutOfPlace(c, i, taken) = Result(Next1, Kept, Kept)
      BY <1>1, <2>3, <2>5, RunsNoAddArm
    <3>2. InPlace(c, i, taken) = Result(Next1, Kept, Kept)
      BY <2>5, NotTaken
    <3> QED BY ONLY <3>1, <3>2
  <2> QED BY <2>4, <2>5, MayBeTaken
<1>12. ASSUME x.kind = "ADR_ARM" PROVE Goal
  <2>1. PICK v : v = 4 * pc + x.label
    OBVIOUS
  <2>2. es = LoadArm(v) /\ m = Result(Next1, Kept, <<"value", v>>)
    <3>0. x.label \in Int
      BY RelocatesOne
    <3>1. ~(Abs(x.label) >= 256)
      BY <1>2, <1>12, Zenon DEF Changed32
    <3>2. Expanded(x.label) = x.label
      BY <3>0, <3>1, NotTurned
    <3> QED BY <1>3, <1>5, <1>12, <2>1, <3>2 DEF ArmAs, ArmMeant
  <2>3. Lies(c, mem, first, last, LoadArm(v))
    BY <1>1, <2>2
  <2>4. taken = TRUE
    <3>1. ~x.cond
      BY <1>2, <1>12 DEF Changed32, Arm
    <3>2. taken \in {TRUE}
      BY <3>1 DEF Taken
    <3> QED BY <3>2
  <2>7. OutOfPlace(c, i, taken) = Result(Next1, Kept, <<"value", v>>)
    BY <1>1, <2>3, <2>4, RunsLoadArm
  <2>8. InPlace(c, i, taken) = m
    BY <1>4, <2>4, InPlaceTaken
  <2> QED BY ONLY <2>2, <2>7, <2>8
<1>13. ASSUME x.kind = "MOV_ARM" PROVE Goal
  <2>1. PICK v : v = pc
    OBVIOUS
  <2>2. es = LoadArm(v) /\ m = Result(Next1, Kept, <<"value", v>>)
    BY <1>3, <1>5, <1>13, <2>1 DEF ArmAs, ArmMeant
  <2>3. Lies(c, mem, first, last, LoadArm(v))
    BY <1>1, <2>2
  <2>4. taken = TRUE
    <3>1. ~x.cond
      BY <1>2, <1>13 DEF Changed32, Arm
    <3>2. taken \in {TRUE}
      BY <3>1 DEF Taken
    <3> QED BY <3>2
  <2>7. OutOfPlace(c, i, taken) = Result(Next1, Kept, <<"value", v>>)
    BY <1>1, <2>3, <2>4, RunsLoadArm
  <2>8. InPlace(c, i, taken) = m
    BY <1>4, <2>4, InPlaceTaken
  <2> QED BY ONLY <2>2, <2>7, <2>8
<1>14. ASSUME x.kind = "LDR_ARM" PROVE Goal
  <2>1. PICK v : v = pc + x.label
    OBVIOUS
  <2>2. es = LoadArm(v) /\ m = Result(Next1, Kept, <<"value", v>>)
    BY <1>3, <1>5, <1>14, <2>1 DEF ArmAs, ArmMeant
  <2>3. Lies(c, mem, first, last, LoadArm(v))
    BY <1>1, <2>2
  <2>4. taken = TRUE
    <3>1. ~x.cond
      BY <1>2, <1>14 DEF Changed32, Arm
    <3>2. taken \in {TRUE}
      BY <3>1 DEF Taken
    <3> QED BY <3>2
  <2>7. OutOfPlace(c, i, taken) = Result(Next1, Kept, <<"value", v>>)
    BY <1>1, <2>3, <2>4, RunsLoadArm
  <2>8. InPlace(c, i, taken) = m
    BY <1>4, <2>4, InPlaceTaken
  <2> QED BY ONLY <2>2, <2>7, <2>8
<1>15. ASSUME x.kind = "OTHER_ARM" PROVE Goal
  <2>2. es = CopyArm /\ m = Result(Next1, Kept, <<"done">>)
    BY <1>3, <1>5, <1>15 DEF ArmAs, ArmMeant
  <2>3. Lies(c, mem, first, last, CopyArm)
    BY <1>1, <2>2
  <2>4. ASSUME taken = TRUE PROVE Goal
    <3>1. OutOfPlace(c, i, taken) = Result(Next1, Kept, <<"done">>)
      BY <1>1, <2>3, <2>4, RunsCopyArm
    <3>2. InPlace(c, i, taken) = m
      BY <1>4, <2>4, InPlaceTaken
    <3> QED BY ONLY <2>2, <3>1, <3>2
  <2>5. ASSUME taken = FALSE PROVE Goal
    <3>1. OutOfPlace(c, i, taken) = Result(Next1, Kept, Kept)
      BY <1>1, <2>3, <2>5, RunsNoCopyArm
    <3>2. InPlace(c, i, taken) = Result(Next1, Kept, Kept)
      BY <2>5, NotTaken
    <3> QED BY ONLY <3>1, <3>2
  <2> QED BY <2>4, <2>5, MayBeTaken
<1> QED BY <1>7, <1>8, <1>9, <1>10, <1>11, <1>12, <1>13, <1>14, <1>15 DEF Arm

LEMMA InstructionKept ==
  ASSUME NEW c, Window32(c), NEW i, i \in 1..Relocated(c), ~Changed32(c, i),
         NEW taken, taken \in Taken(c.instrs[i])
  PROVE  OutOfPlace(c, i, taken) = InPlace(c, i, taken)
<1>1. PICK x, pc, es : x = c.instrs[i] /\ pc = c.base + Start(c)[i] + 2 /\ es = Emitted(c, i)
  OBVIOUS
<1>2. Relocates(c, i, x, pc, es) /\ taken \in Taken(x)
  BY <1>1 DEF Relocates
<1>3. c.thumb \in BOOLEAN /\ x.kind \in Kinds(c.thumb)
  BY <1>2, RelocatesOne
<1>4. CASE c.thumb = TRUE
  <2>1. x.kind \in Thumb16 \/ x.kind \in Thumb32
    BY <1>3, <1>4 DEF Kinds
  <2>2. ASSUME x.kind \in Thumb16 PROVE OutOfPlace(c, i, taken) = InPlace(c, i, taken)
    BY <1>2, <1>4, <2>2, Thumb16Kept
  <2>3. ASSUME x.kind \in Thumb32 PROVE OutOfPlace(c, i, taken) = InPlace(c, i, taken)
    BY <1>2, <1>4, <2>3, Thumb32Kept
  <2> QED BY <2>1, <2>2, <2>3
<1>5. CASE c.thumb = FALSE
  <2>1. x.kind \in Arm
    BY <1>3, <1>5 DEF Kinds
  <2> QED BY <1>2, <1>5, <2>1, ArmKept
<1> QED BY <1>3, <1>4, <1>5

\* The jump written over the function ends where the trampoline jumps back, or before it.
LEMMA JumpBackBehind ==
  ASSUME NEW c, Window32(c), Start(c)[Len(c.instrs) + 1] >= Length(c)
  PROVE  PatchLength(c) <= Back(c)
<1>1. PICK n, r, st : n = Len(c.instrs) /\ r = Relocated(c) /\ st = Start(c)
  OBVIOUS
<1>2. /\ n \in Nat /\ Rising(st, n)
      /\ \A i \in 1..n : st[i + 1] = st[i] + Width(c.instrs[i].kind)
  BY <1>1, StartsGiven
<1>3. r \in Nat /\ r <= n /\ \A i \in 1..n : i <= r <=> st[i + 1] <= Length(c)
  BY <1>1, RelocatedAre
<1>4. Back(c) = st[r + 1] /\ st[n + 1] >= Length(c)
  BY <1>1 DEF Back
<1>5. /\ c.thumb => Length(c) = 6 /\ PatchLength(c) \in Nat /\ PatchLength(c) <= 5
      /\ ~c.thumb => Length(c) = 2 /\ PatchLength(c) = 2
  BY DEF Length, PatchLength
<1>6. CASE r = n
  <2>1. n + 1 \in 1..n + 1
    BY <1>2
  <2>2. st[n + 1] \in Nat
    BY <1>2, <2>1 DEF Rising
  <2> QED BY <1>4, <1>5, <1>6, <2>2
<1>7. CASE r # n
  <2>1. PICK i : i = r + 1
    OBVIOUS
  <2>2. i \in 1..n /\ i \in 1..n + 1 /\ i + 1 \in 1..n + 1 /\ ~(i <= r)
    BY <1>2, <1>3, <1>7, <2>1
  <2>3. PICK w : w = Width(c.instrs[i].kind)
    OBVIOUS
  <2>4. w \in Nat /\ 1 <= w /\ w <= 2 /\ (~c.thumb => w = 1)
    BY <1>1, <2>2, <2>3, InstrsOf
  <2>5. st[i] \in Nat /\ st[i + 1] \in Nat /\ st[i + 1] = st[i] + w
    BY <1>2, <2>2, <2>3 DEF Rising
  <2>6. ~(st[i + 1] <= Length(c))
    BY <1>3, <2>2
  <2>7. Back(c) = st[i]
    BY <1>4, <2>1
  <2>8. CASE c.thumb
    <3>1. Length(c) = 6 /\ PatchLength(c) \in Nat /\ PatchLength(c) <= 5
      BY <1>5, <2>8
    <3> QED BY <2>4, <2>5, <2>6, <2>7, <3>1
  <2>9. CASE ~c.thumb
    <3>1. Length(c) = 2 /\ PatchLength(c) = 2 /\ w = 1
      BY <1>5, <2>4, <2>9
    <3> QED BY <2>5, <2>6, <2>7, <3>1
  <2> QED BY <2>8, <2>9
<1> QED BY <1>6, <1>7

LEMMA JumpAligned ==
  ASSUME NEW c, Window32(c), c.thumb
  PROVE  AlignPc(c.base + JumpAt(c) + 2) = c.base + JumpAt(c) + 2
<1>1. c.base \in Int
  BY DEF Window32
<1>2. CASE c.base % 2 = 1
  <2>1. JumpAt(c) = 1
    BY <1>2 DEF JumpAt
  <2> QED BY <1>1, <1>2, <2>1 DEF AlignPc
<1>3. CASE c.base % 2 # 1
  <2>1. JumpAt(c) = 0
    BY <1>3 DEF JumpAt
  <2> QED BY <1>1, <1>3, <2>1 DEF AlignPc
<1> QED BY <1>2, <1>3

\* A relocated ARM or Thumb instruction that relocation is not known to change does in
\* the trampoline what it does in the function, whatever the window: as many instructions
\* of any kind with any labels, at any address. The trampoline jumps back behind the jump
\* over the function, which finds its address (relocateInstructionInThumb16, -Thumb32,
\* -Arm, doInlineHook).
THEOREM Relocation32 == Spec => []RelocationKeeps
<1>1. Init => Window32Inv
  BY Window32Init
<1>2. Window32Inv /\ [Next]_vars => Window32Inv'
  BY Window32Step
<1>3. Window32Inv => RelocationKeeps
  <2> SUFFICES ASSUME Window32Inv, input.tag = "none", Full
               PROVE  /\ \A i \in 1..Relocated(code) :
                           ~Changed(i) => \A taken \in Taken(code.instrs[i]) :
                             OutOfPlace(code, i, taken) = InPlace(code, i, taken)
                      /\ PatchLength(code) <= Back(code)
                      /\ code.thumb => LET at == code.base + JumpAt(code)
                                       IN AlignPc(at + 2) = at + 2
    BY DEF RelocationKeeps
  <2>1. Window32(code)
    BY DEF Window32Inv
  <2>2. ASSUME NEW i \in 1..Relocated(code), ~Changed(i), NEW taken \in Taken(code.instrs[i])
        PROVE  OutOfPlace(code, i, taken) = InPlace(code, i, taken)
    <3>1. ~Changed32(code, i)
      BY <2>2 DEF Changed, Changed32
    <3> QED BY <2>1, <2>2, <3>1, InstructionKept
  <2>3. PatchLength(code) <= Back(code)
    BY <2>1, JumpBackBehind DEF Full
  <2>4. code.thumb => AlignPc(code.base + JumpAt(code) + 2) = code.base + JumpAt(code) + 2
    BY <2>1, JumpAligned
  <2> QED BY <2>2, <2>3, <2>4
<1> QED BY <1>1, <1>2, <1>3, PTL DEF Spec

-----------------------------------------------------------------------------
(* Packed relocations *)

\* The function behind a power of two.
Doubles(f, k) == f = [i \in 0..k |-> IF i = 0 THEN 1 ELSE 2 * f[i - 1]]
Doubled(f, k) == f[0] = 1 /\ \A i \in 0..k : f[i] \in Nat /\ (i # 0 => f[i] = 2 * f[i - 1])

LEMMA DoublesGiven ==
  ASSUME NEW k, k \in Nat, NEW c, c = CHOOSE f : Doubles(f, k)
  PROVE  Doubled(c, k)
<1>1. PICK g : g = [i \in 0 + 1..k |-> [x \in Nat |-> 2 * x]]
  OBVIOUS
<1>2. g \in [0 + 1..k -> [Nat -> Nat]] /\ \A i \in 0 + 1..k : \A x \in Nat : g[i][x] = 2 * x
  BY <1>1
<1>3. AreSteps(0, k, Nat, 1, g)
  BY <1>2 DEF AreSteps
<1>4. PICK f : Iterates(f, 0, k, Nat, 1, g)
  BY <1>3, Iterated
<1>5. Doubles(f, k)
  <2>1. ASSUME NEW i \in 0..k, i # 0 PROVE f[i] = 2 * f[i - 1]
    <3>1. i \in 0 + 1..k /\ i - 1 \in 0..k
      BY <2>1
    <3> QED BY <1>2, <1>4, <3>1 DEF Iterates
  <2>2. f = [i \in 0..k |-> f[i]] /\ f[0] = 1
    BY <1>4 DEF Iterates
  <2> QED BY <2>1, <2>2, Zenon DEF Doubles
<1>6. Doubles(c, k)
  BY <1>5
<1>7. c = [i \in 0..k |-> c[i]] /\ \A i \in 0..k : c[i] = IF i = 0 THEN 1 ELSE 2 * c[i - 1]
  <2>1. \A i \in 0..k : c[i] = IF i = 0 THEN 1 ELSE 2 * c[i - 1]
    BY <1>6, Zenon DEF Doubles
  <2> QED BY <1>6, <2>1, Zenon DEF Doubles
<1>8. Follows(c, 0, k, Nat, 1, g)
  <2>1. c[0] = 1
    <3>1. 0 \in 0..k
      OBVIOUS
    <3> QED BY <1>7, <3>1
  <2>2. ASSUME NEW i \in 0 + 1..k, c[i - 1] \in Nat PROVE c[i] = g[i][c[i - 1]]
    <3>1. i \in 0..k /\ i # 0
      OBVIOUS
    <3>2. c[i] = 2 * c[i - 1]
      BY <1>7, <3>1
    <3> QED BY <1>2, <2>2, <3>2
  <2> QED BY <1>7, <2>1, <2>2 DEF Follows
<1>9. \A i \in 0..k : c[i] \in Nat
  BY <1>3, <1>8, OneIteration DEF Iterates
<1>10. c[0] = 1
  BY <1>8 DEF Follows
<1> QED BY <1>7, <1>9, <1>10 DEF Doubled

LEMMA PowerOf ==
  ASSUME NEW k, k \in Nat
  PROVE  \E f : Doubled(f, k) /\ Power(k) = f[k]
<1>1. PICK c : c = CHOOSE f : Doubles(f, k)
  OBVIOUS
<1>2. Doubled(c, k)
  BY <1>1, DoublesGiven
<1>3. Power(k) = c[k]
  BY <1>1, Zenon DEF Power, Doubles
<1> QED BY <1>2, <1>3

LEMMA PowerSteps ==
  ASSUME NEW k, k \in Nat
  PROVE  /\ Power(0) = 1 /\ Power(k) \in Nat \ {0}
         /\ Power(k + 1) = 2 * Power(k)
<1>1. PICK f : Doubled(f, k + 1) /\ Power(k + 1) = f[k + 1]
  BY PowerOf
<1>2. PICK h : Doubled(h, k) /\ Power(k) = h[k]
  BY PowerOf
<1> DEFINE S == {i \in 0..k : f[i] = h[i] /\ f[i] \in Nat \ {0}}
<1>3. 0 \in S
  BY <1>1, <1>2 DEF Doubled
<1>4. ASSUME NEW i \in 0..k, i \in S, i < k PROVE i + 1 \in S
  <2>1. i + 1 \in 0..k + 1 /\ i + 1 \in 0..k /\ i + 1 # 0 /\ (i + 1) - 1 = i
    BY <1>4
  <2>2. f[i + 1] = 2 * f[i] /\ h[i + 1] = 2 * h[i]
    BY <1>1, <1>2, <2>1 DEF Doubled
  <2> QED BY <1>4, <2>1, <2>2
<1>5. 0..k \subseteq S
  <2> HIDE DEF S
  <2>1. Climbs(S, 0, k)
    BY <1>3, <1>4 DEF Climbs
  <2> QED BY <2>1, UpTo
<1>6. f[k] = h[k] /\ f[k] \in Nat \ {0}
  <2>1. k \in 0..k
    OBVIOUS
  <2> QED BY <1>5, <2>1
<1>7. f[k + 1] = 2 * f[k]
  <2>1. k + 1 \in 0..k + 1 /\ k + 1 # 0 /\ (k + 1) - 1 = k
    OBVIOUS
  <2> QED BY <1>1, <2>1 DEF Doubled
<1>8. Power(0) = 1
  <2>1. PICK z : Doubled(z, 0) /\ Power(0) = z[0]
    BY PowerOf
  <2> QED BY <2>1 DEF Doubled
<1> QED BY <1>1, <1>2, <1>6, <1>7, <1>8

LEMMA PowerSum ==
  ASSUME NEW a, NEW b, a \in Nat, b \in Nat
  PROVE  Power(a + b) = Power(a) * Power(b)
<1> DEFINE S == {i \in 0..b : Power(a + i) = Power(a) * Power(i)}
<1>1. 0 \in S
  <2>1. Power(0) = 1 /\ Power(a) \in Nat /\ a + 0 = a
    BY PowerSteps
  <2>2. Power(a + 0) = Power(a) * Power(0)
    BY <2>1
  <2> QED BY <2>2
<1>2. ASSUME NEW i \in 0..b, i \in S, i < b PROVE i + 1 \in S
  <2>1. PICK p, q, r : p = Power(a) /\ q = Power(i) /\ r = Power(a + i)
    OBVIOUS
  <2>2. p \in Nat /\ q \in Nat /\ r \in Nat /\ i \in Nat /\ a + i \in Nat /\ r = p * q
    BY <1>2, <2>1, PowerSteps
  <2>3. Power(i + 1) = 2 * q /\ Power((a + i) + 1) = 2 * r
    BY <2>1, <2>2, PowerSteps
  <2>4. 2 * (p * q) = p * (2 * q)
    BY ONLY <2>2
  <2>5. Power(a + (i + 1)) = Power(a) * Power(i + 1)
    <3>1. a + (i + 1) = (a + i) + 1
      BY <2>2
    <3> QED BY <2>1, <2>2, <2>3, <2>4, <3>1
  <2> QED BY <1>2, <2>5
<1>3. 0..b \subseteq S
  <2> HIDE DEF S
  <2>1. Climbs(S, 0, b)
    BY <1>1, <1>2 DEF Climbs
  <2> QED BY <2>1, UpTo
<1> QED BY <1>3

\* Remainders: equal up to a multiple of m, equal by m.
LEMMA SameWord ==
  ASSUME NEW a, NEW b, NEW q, NEW m, a \in Int, b \in Int, q \in Int, m \in Nat \ {0},
         a = b + q * m
  PROVE  a % m = b % m /\ a % m \in 0..m - 1
<1>1. PICK x, y, r, s : x = a \div m /\ y = b \div m /\ r = a % m /\ s = b % m
  OBVIOUS
<1>2. x \in Int /\ y \in Int /\ r \in 0..m - 1 /\ s \in 0..m - 1
  BY <1>1
<1>3. a = x * m + r /\ b = y * m + s
  BY <1>1
<1>4. PICK d : d = (y + q) - x
  OBVIOUS
<1>5. d \in Int
  BY <1>2, <1>4
<1>6. d * m = r - s
  BY <1>2, <1>3, <1>4
<1>7. d = 0
  <2>1. CASE d >= 1
    <3>1. d * m >= m
      BY <1>5, <2>1
    <3> QED BY <1>2, <1>6, <3>1
  <2>2. CASE d <= -1
    <3>1. d * m <= -m
      BY <1>5, <2>2
    <3> QED BY <1>2, <1>6, <3>1
  <2> QED BY <1>5, <2>1, <2>2
<1>8. 0 * m = 0
  OBVIOUS
<1> QED BY <1>1, <1>2, <1>6, <1>7, <1>8

\* Seven bits more.
LEMMA SevenMore ==
  ASSUME NEW k, k \in Nat
  PROVE  Power(7 * k) \in Nat \ {0} /\ Power(7 * (k + 1)) = 128 * Power(7 * k)
<1>1. Power(1) = 2 /\ Power(2) = 4 /\ Power(3) = 8
  <2>1. Power(0) = 1 /\ Power(0 + 1) = 2 * Power(0) /\ Power(1 + 1) = 2 * Power(1)
        /\ Power(2 + 1) = 2 * Power(2)
    BY PowerSteps
  <2>2. 0 + 1 = 1 /\ 1 + 1 = 2 /\ 2 + 1 = 3
    OBVIOUS
  <2> QED BY <2>1, <2>2
<1>2. Power(7) = 128
  <2>1. Power(3 + 1) = 2 * Power(3) /\ Power(4 + 1) = 2 * Power(4)
        /\ Power(5 + 1) = 2 * Power(5) /\ Power(6 + 1) = 2 * Power(6)
    BY PowerSteps
  <2>2. 3 + 1 = 4 /\ 4 + 1 = 5 /\ 5 + 1 = 6 /\ 6 + 1 = 7
    OBVIOUS
  <2> QED BY <1>1, <2>1, <2>2
<1>3. 7 * k \in Nat /\ 7 * (k + 1) = 7 + 7 * k
  OBVIOUS
<1>4. Power(7 + 7 * k) = Power(7) * Power(7 * k)
  BY <1>3, PowerSum
<1> QED BY <1>2, <1>3, <1>4, PowerSteps

\* What is left of a number behind each of its bytes.
Rests(f, n) == f = [k \in 0..Abs(n) |-> IF k = 0 THEN n ELSE f[k - 1] \div 128]
Rested(f, n) == f[0] = n /\ \A k \in 0..Abs(n) : f[k] \in Int /\ (k # 0 => f[k] = f[k - 1] \div 128)

LEMMA RestsGiven ==
  ASSUME NEW n, n \in Int, NEW c, c = CHOOSE f : Rests(f, n)
  PROVE  Rested(c, n)
<1>0. PICK m : m = Abs(n)
  OBVIOUS
<1>a. m \in Nat
  BY <1>0 DEF Abs
<1>1. PICK g : g = [i \in 0 + 1..m |-> [x \in Int |-> x \div 128]]
  OBVIOUS
<1>2. g \in [0 + 1..m -> [Int -> Int]] /\ \A i \in 0 + 1..m : \A x \in Int : g[i][x] = x \div 128
  BY <1>1
<1>3. AreSteps(0, m, Int, n, g)
  BY <1>a, <1>2 DEF AreSteps
<1>4. PICK f : Iterates(f, 0, m, Int, n, g)
  BY <1>3, Iterated
<1>5. Rests(f, n)
  <2>1. ASSUME NEW i \in 0..m, i # 0 PROVE f[i] = f[i - 1] \div 128
    <3>1. i \in 0 + 1..m /\ i - 1 \in 0..m
      BY <1>a, <2>1
    <3>2. f[i] = g[i][f[i - 1]] /\ f[i - 1] \in Int
      BY ONLY <1>4, <3>1 DEF Iterates
    <3>3. \A x \in Int : g[i][x] = x \div 128
      BY ONLY <1>2, <3>1
    <3> QED BY ONLY <3>2, <3>3
  <2>2. f = [i \in 0..m |-> f[i]] /\ f[0] = n
    BY <1>4 DEF Iterates
  <2> QED BY <1>0, <2>1, <2>2, Zenon DEF Rests
<1>6. Rests(c, n)
  BY <1>5
<1>7. c = [i \in 0..m |-> c[i]] /\ \A i \in 0..m : c[i] = IF i = 0 THEN n ELSE c[i - 1] \div 128
  <2>1. \A i \in 0..m : c[i] = IF i = 0 THEN n ELSE c[i - 1] \div 128
    BY <1>0, <1>6, Zenon DEF Rests
  <2> QED BY <1>0, <1>6, <2>1, Zenon DEF Rests
<1>8. Follows(c, 0, m, Int, n, g)
  <2>1. c[0] = n
    <3>1. 0 \in 0..m
      BY <1>a
    <3> QED BY <1>7, <3>1
  <2>2. ASSUME NEW i \in 0 + 1..m, c[i - 1] \in Int PROVE c[i] = g[i][c[i - 1]]
    <3>1. i \in 0..m /\ i # 0
      OBVIOUS
    <3>2. c[i] = c[i - 1] \div 128
      BY <1>7, <3>1
    <3> QED BY <1>2, <2>2, <3>2
  <2> QED BY <1>7, <2>1, <2>2 DEF Follows
<1>9. \A i \in 0..m : c[i] \in Int
  <2>1. Iterates(c, 0, m, Int, n, g)
    BY <1>3, <1>8, OneIteration
  <2> QED BY <2>1 DEF Iterates
<1>10. c[0] = n
  BY <1>8 DEF Follows
<1> QED BY <1>0, <1>7, <1>9, <1>10 DEF Rested

\* Something small is left at last, and a first time.
LEMMA SmallAtLast ==
  ASSUME NEW n, n \in Int, NEW f, Rested(f, n)
  PROVE  \E k \in 0..Abs(n) : f[k] \in -64..63 /\ (k = 0 \/ f[k - 1] \notin -64..63)
<1>0. PICK m : m = Abs(n)
  OBVIOUS
<1>1. m \in Nat /\ f[0] = n /\ n <= m /\ -m <= n
      /\ \A k \in 0..m : f[k] \in Int /\ (k # 0 => f[k] = f[k - 1] \div 128)
  BY <1>0 DEF Abs, Rested
<1> DEFINE S == {k \in 0..m : \/ \E j \in 0..k : f[j] \in -64..63
                              \/ -(m - k) <= f[k] /\ f[k] <= m - k}
<1>2. 0 \in S
  BY <1>1
<1>3. ASSUME NEW k \in 0..m, k \in S, k < m PROVE k + 1 \in S
  <2>1. k + 1 \in 0..m /\ k + 1 # 0 /\ (k + 1) - 1 = k
    BY <1>1, <1>3
  <2>2. CASE \E j \in 0..k : f[j] \in -64..63
    <3>1. \E j \in 0..k + 1 : f[j] \in -64..63
      BY <2>2
    <3> QED BY <2>1, <3>1
  <2>3. CASE ~\E j \in 0..k : f[j] \in -64..63
    <3>1. PICK x : x = f[k]
      OBVIOUS
    <3>2. x \in Int /\ x \notin -64..63 /\ -(m - k) <= x /\ x <= m - k
      BY <1>1, <1>3, <2>3, <3>1
    <3>3. f[k + 1] = x \div 128
      BY <1>1, <2>1, <3>1
    <3>4. -(m - (k + 1)) <= x \div 128 /\ x \div 128 <= m - (k + 1)
      BY <1>1, <3>2
    <3> QED BY <2>1, <3>3, <3>4
  <2> QED BY <2>2, <2>3
<1>4. 0..m \subseteq S
  <2> HIDE DEF S
  <2>1. Climbs(S, 0, m)
    BY <1>1, <1>2, <1>3 DEF Climbs
  <2> QED BY <2>1, UpTo
<1>5. \E j \in 0..m : f[j] \in -64..63
  <2>1. m \in S
    BY <1>1, <1>4
  <2>2. f[m] \in Int /\ m - m = 0
    BY <1>1
  <2> QED BY <1>1, <2>1, <2>2
<1> DEFINE T == {k \in 0..m : f[k] \in -64..63}
<1>6. PICK k \in T : \A j \in T : k <= j
  <2>1. T # {} /\ T \subseteq Nat
    BY <1>5
  <2> HIDE DEF T
  <2> QED BY <2>1, Least
<1>7. k = 0 \/ f[k - 1] \notin -64..63
  <2>1. CASE k # 0
    <3>1. k - 1 \in 0..m /\ ~(k <= k - 1)
      BY <1>1, <1>6, <2>1
    <3> QED BY <1>6, <3>1
  <2> QED BY <2>1
<1> QED BY <1>0, <1>6, <1>7

\* The bytes of a number: f is what is left, z the place of the last byte from 0 on.
Bytes == 0..255
EncodedBy(e, f, z, n) ==
  /\ z \in Nat /\ f[0] = n /\ f[z] \in -64..63
  /\ \A k \in 0..z : f[k] \in Int /\ (k # 0 => f[k] = f[k - 1] \div 128)
  /\ e \in Seq(Bytes) /\ Len(e) = z + 1
  /\ \A k \in 1..z + 1 : e[k] = (f[k - 1] % 128) + (IF k = z + 1 THEN 0 ELSE 128)

LEMMA EncodedIs ==
  ASSUME NEW n, n \in Int
  PROVE  \E f, z : EncodedBy(Encoded(n), f, z, n)
<1> DEFINE f == CHOOSE g : Rests(g, n)
           z == CHOOSE k \in 0..Abs(n) : /\ f[k] \in -64..63
                                         /\ k = 0 \/ f[k - 1] \notin -64..63
           e == [k \in 1..z + 1 |-> (f[k - 1] % 128) + (IF k = z + 1 THEN 0 ELSE 128)]
<1>1. Encoded(n) = e
  BY Zenon DEF Encoded, Rests
<1>2. Rested(f, n)
  <2>1. PICK c : c = f
    BY Zenon
  <2> QED BY <2>1, RestsGiven
<1> HIDE DEF f
<1>4. z \in 0..Abs(n) /\ f[z] \in -64..63
  BY <1>2, SmallAtLast, Zenon
<1> HIDE DEF z
<1>5. Abs(n) \in Nat
  BY DEF Abs
<1>6. e = [k \in 1..z + 1 |-> (f[k - 1] % 128) + (IF k = z + 1 THEN 0 ELSE 128)]
  OBVIOUS
<1> HIDE DEF e
<1>8. \A k \in 0..z : k \in 0..Abs(n)
  BY <1>4, <1>5
<1>9. \A k \in 0..z : f[k] \in Int /\ (k # 0 => f[k] = f[k - 1] \div 128)
  BY <1>2, <1>8 DEF Rested
<1>10. ASSUME NEW k \in 1..z + 1
       PROVE  (f[k - 1] % 128) + (IF k = z + 1 THEN 0 ELSE 128) \in Bytes
  <2>1. k - 1 \in 0..z
    BY <1>4, <1>5
  <2>2. f[k - 1] \in Int
    BY <1>9, <2>1
  <2> QED BY <2>2 DEF Bytes
<1>11. z \in Nat
  BY <1>4, <1>5
<1>12. e \in Seq(Bytes) /\ Len(e) = z + 1
  <2>1. e \in [1..z + 1 -> Bytes] /\ z + 1 \in Nat
    BY <1>6, <1>10, <1>11
  <2> QED BY <2>1
<1>13. \A k \in 1..z + 1 : e[k] = (f[k - 1] % 128) + (IF k = z + 1 THEN 0 ELSE 128)
  BY <1>6
<1>14. f[0] = n
  BY <1>2 DEF Rested
<1>15. EncodedBy(e, f, z, n)
  BY <1>4, <1>9, <1>11, <1>12, <1>13, <1>14 DEF EncodedBy
<1> QED BY <1>1, <1>15

\* The sum of a decoder over bytes.
Sums(f, e) == f = [k \in 0..Len(e) |->
                     IF k = 0 THEN 0 ELSE f[k - 1] + (e[k] % 128) * Power(7 * (k - 1))]
Summed(f, e) == /\ f[0] = 0
                /\ \A k \in 0..Len(e) : f[k] \in Int
                /\ \A k \in 1..Len(e) : f[k] = f[k - 1] + (e[k] % 128) * Power(7 * (k - 1))

LEMMA SumsGiven ==
  ASSUME NEW e, e \in Seq(Bytes), NEW c, c = CHOOSE f : Sums(f, e)
  PROVE  Summed(c, e)
<1>0. PICK m : m = Len(e)
  OBVIOUS
<1>a. m \in Nat
  BY <1>0
<1>b. PICK h : h = [i \in 1..m |-> (e[i] % 128) * Power(7 * (i - 1))]
  OBVIOUS
<1>c. \A i \in 1..m : h[i] = (e[i] % 128) * Power(7 * (i - 1)) /\ h[i] \in Int
  <2>1. ASSUME NEW i \in 1..m PROVE (e[i] % 128) * Power(7 * (i - 1)) \in Int
    <3>1. e[i] \in Int
      <4>1. i \in 1..Len(e)
        BY <1>0
      <4>2. e[i] \in Bytes
        BY <4>1, ElementOfSeq
      <4>3. \A x \in Bytes : x \in Int
        BY DEF Bytes
      <4> QED BY <4>2, <4>3, Zenon
    <3>2. Power(7 * (i - 1)) \in Int
      <4>1. PICK j : j = i - 1
        OBVIOUS
      <4>2. j \in Nat
        BY <1>a, <4>1
      <4>3. Power(7 * j) \in Nat
        BY <4>2, SevenMore
      <4> QED BY <4>1, <4>3
    <3>3. e[i] % 128 \in Int
      BY <3>1
    <3> QED BY <3>2, <3>3
  <2> QED BY <1>b, <2>1
<1>1. PICK g : g = [i \in 0 + 1..m |-> [x \in Int |-> x + h[i]]]
  OBVIOUS
<1>2. g \in [0 + 1..m -> [Int -> Int]] /\ \A i \in 0 + 1..m : \A x \in Int : g[i][x] = x + h[i]
  BY <1>1, <1>c
<1>3. AreSteps(0, m, Int, 0, g)
  BY <1>a, <1>2 DEF AreSteps
<1>4. PICK f : Iterates(f, 0, m, Int, 0, g)
  BY <1>3, Iterated
<1>5. Sums(f, e)
  <2>1. ASSUME NEW i \in 0..m, i # 0 PROVE f[i] = f[i - 1] + (e[i] % 128) * Power(7 * (i - 1))
    <3>1. i \in 0 + 1..m /\ i - 1 \in 0..m /\ i \in 1..m
      BY <1>a, <2>1
    <3>2. f[i] = f[i - 1] + h[i]
      BY <1>2, <1>4, <3>1 DEF Iterates
    <3> QED BY <1>c, <3>1, <3>2, Zenon
  <2>2. f = [i \in 0..m |-> f[i]] /\ f[0] = 0
    BY <1>4 DEF Iterates
  <2> QED BY <1>0, <2>1, <2>2, Zenon DEF Sums
<1>6. Sums(c, e)
  BY <1>5
<1>7. /\ c = [i \in 0..m |-> c[i]]
      /\ \A i \in 0..m : c[i] = IF i = 0 THEN 0
                                ELSE c[i - 1] + (e[i] % 128) * Power(7 * (i - 1))
  <2>1. \A i \in 0..m : c[i] = IF i = 0 THEN 0
                               ELSE c[i - 1] + (e[i] % 128) * Power(7 * (i - 1))
    BY <1>0, <1>6, Zenon DEF Sums
  <2> QED BY <1>0, <1>6, <2>1, Zenon DEF Sums
<1>8. \A i \in 1..m : c[i] = c[i - 1] + (e[i] % 128) * Power(7 * (i - 1))
  <2>1. \A i \in 1..m : i \in 0..m /\ i # 0
    BY <1>a
  <2> QED BY <1>7, <2>1, Zenon
<1>9. Follows(c, 0, m, Int, 0, g)
  <2>1. c[0] = 0
    <3>1. 0 \in 0..m
      BY <1>a
    <3> QED BY <1>7, <3>1, Zenon
  <2>2. ASSUME NEW i \in 0 + 1..m, c[i - 1] \in Int PROVE c[i] = g[i][c[i - 1]]
    <3>1. i \in 1..m
      OBVIOUS
    <3>2. c[i] = c[i - 1] + h[i]
      BY <1>8, <1>c, <3>1, Zenon
    <3> QED BY <1>2, <2>2, <3>2
  <2> QED BY <1>7, <2>1, <2>2 DEF Follows
<1>10. \A i \in 0..m : c[i] \in Int
  <2>1. Iterates(c, 0, m, Int, 0, g)
    BY <1>3, <1>9, OneIteration
  <2> QED BY <2>1 DEF Iterates
<1>11. c[0] = 0
  BY <1>9 DEF Follows
<1> QED BY <1>0, <1>8, <1>10, <1>11 DEF Summed

\* What the decoder makes of the bytes of a number, whatever its size: the word of it.
LEMMA Partial ==
  ASSUME NEW n, n \in Int, NEW e, NEW f, NEW z, EncodedBy(e, f, z, n), NEW c, Summed(c, e)
  PROVE  /\ c[z + 1] = c[z] + (f[z] % 128) * Power(7 * z)
         /\ n = c[z] + f[z] * Power(7 * z) /\ c[z] \in Int
<1>1. /\ z \in Nat /\ f[0] = n /\ Len(e) = z + 1 /\ c[0] = 0
      /\ \A k \in 0..z : f[k] \in Int /\ (k # 0 => f[k] = f[k - 1] \div 128)
      /\ \A k \in 1..z + 1 : e[k] = (f[k - 1] % 128) + (IF k = z + 1 THEN 0 ELSE 128)
      /\ \A k \in 0..z + 1 : c[k] \in Int
      /\ \A k \in 1..z + 1 : c[k] = c[k - 1] + (e[k] % 128) * Power(7 * (k - 1))
  BY DEF EncodedBy, Summed
<1>2. ASSUME NEW k \in 0..z PROVE c[k + 1] = c[k] + (f[k] % 128) * Power(7 * k)
  <2>1. k + 1 \in 1..z + 1 /\ (k + 1) - 1 = k
    BY <1>1
  <2>2. c[k + 1] = c[k] + (e[k + 1] % 128) * Power(7 * k)
    BY <1>1, <2>1
  <2>3. e[k + 1] = (f[k] % 128) + (IF k + 1 = z + 1 THEN 0 ELSE 128)
    BY <1>1, <2>1
  <2>4. e[k + 1] % 128 = f[k] % 128
    <3>1. f[k] \in Int
      BY <1>1
    <3> QED BY <2>3, <3>1
  <2> QED BY <2>2, <2>4
<1> DEFINE S == {k \in 0..z : n = c[k] + f[k] * Power(7 * k)}
<1>3. 0 \in S
  <2>1. Power(7 * 0) = 1
    <3>1. 7 * 0 = 0
      OBVIOUS
    <3> QED BY <3>1, PowerSteps
  <2>2. n = c[0] + f[0] * Power(7 * 0)
    BY <1>1, <2>1
  <2> QED BY <1>1, <2>2
<1>4. ASSUME NEW k \in 0..z, k \in S, k < z PROVE k + 1 \in S
  <2>1. k + 1 \in 0..z /\ k + 1 # 0 /\ (k + 1) - 1 = k /\ k \in Nat
    BY <1>1, <1>4
  <2>2. PICK p, x, y, a : p = Power(7 * k) /\ x = f[k] /\ y = f[k + 1] /\ a = c[k]
    OBVIOUS
  <2>3. p \in Nat /\ x \in Int /\ y = x \div 128 /\ a \in Int /\ n = a + x * p
    <3>1. p \in Nat
      BY <2>1, <2>2, SevenMore
    <3>2. k \in 0..z + 1
      BY <1>1
    <3> QED BY <1>1, <1>4, <2>1, <2>2, <3>1, <3>2
  <2>4. c[k + 1] = a + (x % 128) * p /\ Power(7 * (k + 1)) = 128 * p
    BY <1>2, <2>1, <2>2, SevenMore
  <2>5. PICK r : r = x % 128
    OBVIOUS
  <2>6. r \in Int /\ y \in Int /\ x = 128 * y + r
    BY ONLY <2>3, <2>5
  <2>7. n = (a + r * p) + y * (128 * p)
    <3>1. n = a + (128 * y + r) * p
      BY <2>3, <2>6
    <3>2. (128 * y + r) * p = r * p + y * (128 * p)
      BY ONLY <2>3, <2>6
    <3>3. r * p \in Int /\ y * (128 * p) \in Int
      BY ONLY <2>3, <2>6
    <3>4. PICK u, v : u = r * p /\ v = y * (128 * p)
      OBVIOUS
    <3> QED BY <2>3, <3>1, <3>2, <3>3, <3>4
  <2>8. n = c[k + 1] + f[k + 1] * Power(7 * (k + 1))
    BY <2>2, <2>4, <2>5, <2>7
  <2> QED BY <2>1, <2>8
<1>5. 0..z \subseteq S
  <2> HIDE DEF S
  <2>1. Climbs(S, 0, z)
    BY <1>1, <1>3, <1>4 DEF Climbs
  <2> QED BY <2>1, UpTo
<1>6. z \in 0..z /\ z \in 0..z + 1
  BY <1>1
<1> QED BY <1>1, <1>2, <1>5, <1>6

LEMMA WordIs ==
  ASSUME NEW n, n \in Int
  PROVE  Word(n) \in 0..Power(W) - 1 /\ Word(n) \in Nat
<1>1. PICK m : m = Power(W)
  OBVIOUS
<1>2. m \in Nat \ {0}
  BY <1>1, ElfDecodeAssumption, PowerSteps
<1>3. n % m \in 0..m - 1
  BY <1>2
<1> QED BY <1>1, <1>2, <1>3 DEF Word

LEMMA WordSame ==
  ASSUME NEW a, NEW b, NEW q, a \in Int, b \in Int, q \in Int, a = b + q * Power(W)
  PROVE  Word(a) = Word(b)
<1>1. Power(W) \in Nat \ {0}
  BY ElfDecodeAssumption, PowerSteps
<1> QED BY <1>1, SameWord DEF Word

LEMMA Decoded ==
  ASSUME NEW n, n \in Int
  PROVE  SlebValue(Encoded(n)) = Word(n)
<1>1. PICK e : e = Encoded(n)
  OBVIOUS
<1>2. PICK f, z : EncodedBy(e, f, z, n)
  BY <1>1, EncodedIs
<1>3. PICK c : c = CHOOSE g : Sums(g, e)
  OBVIOUS
<1>4. e \in Seq(Bytes) /\ Len(e) = z + 1 /\ z \in Nat
  BY <1>2 DEF EncodedBy
<1>5. Summed(c, e)
  BY <1>3, <1>4, SumsGiven
<1>6. SlebValue(e) = Word(c[Len(e)] + SignOf(e))
  <2>1. c = CHOOSE g : g = [k \in 0..Len(e) |->
                             IF k = 0 THEN 0 ELSE g[k - 1] + (e[k] % 128) * Power(7 * (k - 1))]
    BY <1>3, Zenon DEF Sums
  <2> QED BY <2>1, Zenon DEF SlebValue
<1>7. PICK v, p, s : v = f[z] /\ p = Power(7 * z) /\ s = c[z + 1]
  OBVIOUS
<1>8. v \in -64..63 /\ p \in Nat /\ s \in Int
  <2>1. v \in -64..63
    BY <1>2, <1>7 DEF EncodedBy
  <2>2. p \in Nat
    BY <1>4, <1>7, SevenMore
  <2>3. z + 1 \in 0..Len(e)
    BY <1>4
  <2> QED BY <1>5, <1>7, <2>1, <2>2, <2>3 DEF Summed
<1>9. c[z] \in Int /\ s = c[z] + (v % 128) * p /\ n = c[z] + v * p
  <2>1. /\ c[z + 1] = c[z] + (f[z] % 128) * Power(7 * z)
        /\ n = c[z] + f[z] * Power(7 * z) /\ c[z] \in Int
    BY <1>2, <1>5, Partial
  <2> QED BY <1>7, <2>1, Zenon
<1>10. Last(e) = v % 128
  <2>1. z + 1 \in 1..z + 1 /\ (z + 1) - 1 = z
    BY <1>4
  <2>2. e[z + 1] = (f[z] % 128) + 0
    BY <1>2, <2>1 DEF EncodedBy
  <2>3. Last(e) = e[z + 1]
    BY <1>4 DEF Last
  <2> QED BY <1>7, <1>8, <2>2, <2>3
<1>11. PICK shift, m : shift = 7 * (z + 1) /\ m = Power(W)
  OBVIOUS
<1>12. m \in Nat \ {0} /\ shift \in Nat /\ W \in Nat
  BY <1>4, <1>11, ElfDecodeAssumption, PowerSteps
<1>13. Power(shift) = 128 * p
  BY <1>4, <1>7, <1>11, SevenMore
<1>14. SignOf(e) = IF shift < W /\ ((v % 128) \div 64) % 2 = 1 THEN m - Power(shift) ELSE 0
  BY <1>4, <1>10, <1>11 DEF SignOf
<1>15. CASE v >= 0
  <2>1. v % 128 = v /\ ((v % 128) \div 64) % 2 = 0
    BY <1>8, <1>15
  <2>2. SignOf(e) = 0 /\ s = n
    BY <1>9, <1>14, <2>1
  <2>3. s + 0 = n
    BY <1>8, <2>2
  <2> QED BY <1>1, <1>4, <1>6, <1>7, <2>2, <2>3
<1>16. CASE v < 0
  <2>1. v % 128 = v + 128 /\ ((v % 128) \div 64) % 2 = 1
    BY <1>8, <1>16
  <2>2. s = n + 128 * p
    <3>1. (v + 128) * p = v * p + 128 * p
      BY ONLY <1>8
    <3>2. v * p \in Int /\ 128 * p \in Int
      BY ONLY <1>8
    <3>3. PICK x, y : x = v * p /\ y = 128 * p
      OBVIOUS
    <3> QED BY <1>9, <2>1, <3>1, <3>2, <3>3
  <2>3. Word(s + SignOf(e)) = Word(n)
    <3>1. CASE shift < W
      <4>1. SignOf(e) = m - 128 * p
        BY <1>13, <1>14, <2>1, <3>1
      <4>2. s + SignOf(e) = n + 1 * m
        <5>1. PICK y : y = 128 * p
          OBVIOUS
        <5>2. y \in Int
          BY <1>8, <5>1
        <5>3. (n + y) + (m - y) = n + 1 * m
          BY ONLY <1>12, <5>2, n \in Int
        <5> QED BY <2>2, <4>1, <5>1, <5>3
      <4>3. s + SignOf(e) \in Int
        BY <1>8, <1>12, <4>1
      <4>4. Word(s + SignOf(e)) = Word(n)
        BY <1>11, <4>2, <4>3, WordSame
      <4> QED BY <4>4
    <3>2. CASE ~(shift < W)
      <4>1. SignOf(e) = 0
        BY <1>14, <3>2
      <4>2. PICK q : q = Power(shift - W)
        OBVIOUS
      <4>3. shift - W \in Nat /\ W + (shift - W) = shift
        BY <1>12, <3>2
      <4>4. q \in Nat /\ Power(shift) = m * q
        <5>1. q \in Nat
          BY <4>2, <4>3, PowerSteps
        <5>2. Power(W + (shift - W)) = Power(W) * Power(shift - W)
          BY <1>12, <4>3, PowerSum
        <5> QED BY <1>11, <4>2, <4>3, <5>1, <5>2
      <4>5. m * q = q * m
        BY ONLY <1>12, <4>4
      <4>6. s + SignOf(e) = n + q * m
        <5>1. s + 0 = s
          BY <1>8
        <5> QED BY <1>13, <2>2, <4>1, <4>4, <4>5, <5>1
      <4>7. s + SignOf(e) \in Int
        BY <1>8, <4>1
      <4> QED BY <1>11, <4>4, <4>6, <4>7, WordSame
    <3> QED BY <3>1, <3>2
  <2> QED BY <1>1, <1>4, <1>6, <1>7, <2>3
<1> QED BY <1>8, <1>15, <1>16

\* The bytes of a number: all but the last say that more follow.
LEMMA EncodedShape ==
  ASSUME NEW n, n \in Int, NEW e, e = Encoded(n)
  PROVE  /\ e \in Seq(Bytes) /\ Len(e) \in Nat \ {0} /\ e[Len(e)] < 128
         /\ \A k \in 1..Len(e) : k < Len(e) => e[k] >= 128
<1>1. PICK f, z : EncodedBy(e, f, z, n)
  BY EncodedIs
<1>2. /\ z \in Nat /\ e \in Seq(Bytes) /\ Len(e) = z + 1
      /\ \A k \in 0..z : f[k] \in Int
      /\ \A k \in 1..z + 1 : e[k] = (f[k - 1] % 128) + (IF k = z + 1 THEN 0 ELSE 128)
  BY <1>1 DEF EncodedBy
<1>3. ASSUME NEW k \in 1..z + 1
      PROVE  /\ k = z + 1 => e[k] < 128
             /\ k # z + 1 => e[k] >= 128
  <2>1. k - 1 \in 0..z
    BY <1>2
  <2>2. PICK v : v = f[k - 1]
    OBVIOUS
  <2>3. v \in Int /\ e[k] = (v % 128) + (IF k = z + 1 THEN 0 ELSE 128)
    BY <1>2, <2>1, <2>2
  <2> QED BY <2>3
<1>4. z + 1 \in 1..z + 1 /\ z + 1 \in Nat \ {0}
  BY <1>2
<1> QED BY <1>2, <1>3, <1>4

\* As far as there are bytes, those of e begin at a.
Starts(bytes, a, e) ==
  /\ bytes \in Seq(Bytes) /\ a \in Nat \ {0}
  /\ \A k \in 1..Len(e) : (a + k) - 1 <= Len(bytes) => bytes[(a + k) - 1] = e[k]

Composed(c, s, t) == s \in Seq(Bytes) /\ t \in Seq(Bytes) /\ c = s \o t

LEMMA StartsBoth ==
  ASSUME NEW bytes, NEW a, NEW c, NEW s, NEW t, Composed(c, s, t), Starts(bytes, a, c)
  PROVE  /\ Starts(bytes, a, s) /\ Starts(bytes, a + Len(s), t)
         /\ c \in Seq(Bytes) /\ Len(c) = Len(s) + Len(t)
<1>2. c \in Seq(Bytes) /\ Joined(c, s, t)
  BY Joining DEF Composed
<1>3. /\ Len(c) = Len(s) + Len(t) /\ Len(s) \in Nat /\ Len(t) \in Nat
      /\ \A k \in 1..Len(s) : c[k] = s[k]
      /\ \A k \in 1..Len(t) : c[Len(s) + k] = t[k]
  BY <1>2 DEF Joined
<1>4. /\ bytes \in Seq(Bytes) /\ a \in Nat \ {0}
      /\ \A k \in 1..Len(c) : (a + k) - 1 <= Len(bytes) => bytes[(a + k) - 1] = c[k]
  BY DEF Starts
<1>5. ASSUME NEW k \in 1..Len(s), (a + k) - 1 <= Len(bytes)
      PROVE  bytes[(a + k) - 1] = s[k]
  <2>1. k \in 1..Len(c)
    BY <1>3
  <2> QED BY <1>3, <1>4, <1>5, <2>1
<1>6. ASSUME NEW k \in 1..Len(t), ((a + Len(s)) + k) - 1 <= Len(bytes)
      PROVE  bytes[((a + Len(s)) + k) - 1] = t[k]
  <2>1. Len(s) + k \in 1..Len(c)
    BY <1>3
  <2>2. (a + (Len(s) + k)) - 1 = ((a + Len(s)) + k) - 1
    BY <1>3, <1>4
  <2>3. bytes[(a + (Len(s) + k)) - 1] = c[Len(s) + k]
    BY <1>4, <1>6, <2>1, <2>2
  <2> QED BY <1>3, <2>2, <2>3
<1>7. a + Len(s) \in Nat \ {0}
  BY <1>3, <1>4
<1> QED BY <1>2, <1>3, <1>4, <1>5, <1>6, <1>7 DEF Starts, Composed

\* The decoder where the bytes of a number begin: the word of the number, or the end.
LEMMA SlebRead ==
  ASSUME NEW n, n \in Int, NEW bytes, NEW a, NEW e, e = Encoded(n), Starts(bytes, a, e)
  PROVE  SlebNext(bytes, a) = IF (a + Len(e)) - 1 <= Len(bytes)
                              THEN [at |-> a + Len(e), value |-> Word(n)]
                              ELSE [at |-> 0, value |-> 0]
<1> DEFINE ends == {k \in 1..Len(bytes) : a # 0 /\ k >= a /\ bytes[k] < 128}
           last == CHOOSE k \in ends : \A j \in ends : k <= j
<1>1. SlebNext(bytes, a) = IF ends = {} THEN [at |-> 0, value |-> 0]
                           ELSE [at |-> last + 1, value |-> SlebValue(SubSeq(bytes, a, last))]
  BY DEF SlebNext
<1>2. PICK m, b : m = Len(e) /\ b = Len(bytes)
  OBVIOUS
<1>3. /\ e \in Seq(Bytes) /\ m \in Nat \ {0} /\ e[m] < 128
      /\ \A k \in 1..m : k < m => e[k] >= 128
  BY <1>2, EncodedShape
<1>4. /\ bytes \in Seq(Bytes) /\ b \in Nat /\ a \in Nat \ {0}
      /\ \A k \in 1..m : (a + k) - 1 <= b => bytes[(a + k) - 1] = e[k]
  BY <1>2 DEF Starts
<1>5. \A k \in 1..b : bytes[k] \in Int
  <2>1. \A k \in 1..b : bytes[k] \in Bytes
    BY <1>2, <1>4, ElementOfSeq
  <2> QED BY <2>1 DEF Bytes
<1>6. ASSUME NEW k \in ends PROVE (a + m) - 1 <= k
  <2>1. CASE k < (a + m) - 1
    <3>1. PICK j : j = (k - a) + 1
      OBVIOUS
    <3>2. k \in 1..b /\ k >= a /\ bytes[k] < 128
      BY <1>2
    <3>3. j \in 1..m /\ j < m /\ (a + j) - 1 = k
      BY <1>3, <1>4, <2>1, <3>1, <3>2
    <3>4. bytes[k] = e[j] /\ e[j] >= 128
      BY <1>3, <1>4, <3>2, <3>3
    <3> QED BY <1>5, <3>2, <3>4
  <2> QED BY <1>2, <1>3, <1>4, <2>1
<1>7. CASE (a + m) - 1 <= b
  <2>1. (a + m) - 1 \in ends
    <3>1. m \in 1..m
      BY <1>3
    <3>2. bytes[(a + m) - 1] = e[m]
      BY <1>4, <1>7, <3>1
    <3> QED BY <1>2, <1>3, <1>4, <1>7, <3>2
  <2>2. \A k \in ends : k \in Int
    BY <1>2
  <2> HIDE DEF ends
  <2>3. last \in ends /\ \A j \in ends : last <= j
    <3>1. \E k \in ends : \A j \in ends : k <= j
      BY <1>6, <2>1
    <3> QED BY <3>1
  <2> HIDE DEF last
  <2>4. last = (a + m) - 1
    BY <1>3, <1>4, <1>6, <2>1, <2>2, <2>3
  <2>5. SubSeq(bytes, a, (a + m) - 1) = e
    <3>1. PICK s : s = SubSeq(bytes, a, (a + m) - 1)
      OBVIOUS
    <3>2. s \in Seq(Bytes) /\ Len(s) = m
      <4>1. (a + m) - 1 \in 1..b /\ a \in 1..b
        BY <1>3, <1>4, <1>7
      <4> QED BY <1>2, <1>3, <1>4, <3>1, <4>1, SubSeqProperties
    <3>3. ASSUME NEW k \in 1..m PROVE s[k] = e[k]
      <4>1. (a + k) - 1 <= b
        BY <1>3, <1>4, <1>7
      <4>2. s[k] = bytes[(a + k) - 1]
        <5>1. s[k] = bytes[a + k - 1]
          BY <1>2, <1>3, <1>4, <1>7, <3>1, SubSeqProperties
        <5>2. a + k - 1 = (a + k) - 1
          BY <1>4
        <5> QED BY <5>1, <5>2
      <4> QED BY <1>4, <4>1, <4>2
    <3>4. s = e
      BY <1>2, <1>3, <3>2, <3>3, Same
    <3> QED BY <3>1, <3>4
  <2>6. last + 1 = a + m
    BY <1>3, <1>4, <2>4
  <2>7. SlebValue(SubSeq(bytes, a, last)) = Word(n)
    BY <2>4, <2>5, Decoded
  <2>8. SlebNext(bytes, a) = [at |-> a + m, value |-> Word(n)]
    BY <1>1, <2>1, <2>6, <2>7
  <2> QED BY <1>2, <1>7, <2>8
<1>8. CASE ~((a + m) - 1 <= b)
  <2>1. ends = {}
    <3>1. \A k \in ends : k <= b /\ k \in Int
      BY <1>2
    <3> HIDE DEF ends
    <3> QED BY <1>3, <1>4, <1>6, <1>8, <3>1
  <2> QED BY <1>1, <1>2, <1>8, <2>1
<1> QED BY <1>7, <1>8

LEMMA SlebEnded ==
  ASSUME NEW bytes
  PROVE  SlebNext(bytes, 0) = [at |-> 0, value |-> 0]
BY DEF SlebNext

-----------------------------------------------------------------------------
(* The iterator: reading a field *)


\* The iterator.
ReadNames == {"count", "size", "flags", "delta", "offset", "info", "addend"}
Iter == [at : Nat, count : Nat, index : Nat, size : Nat, inGroup : Nat, flags : SUBSET Flags,
         delta : Nat, offset : Nat, info : Nat, addend : Nat]

\* The iterator x is m but for a field that was read and where it is.
HasPut(x, m, field, v, a) ==
  /\ x \in Iter /\ x.at = a /\ x.index = m.index /\ x.inGroup = m.inGroup
  /\ x.count = (IF field = "count" THEN v ELSE m.count)
  /\ x.size = (IF field = "size" THEN v ELSE m.size)
  /\ x.flags = (IF field = "flags" THEN FlagsOf(v) ELSE m.flags)
  /\ x.delta = (IF field = "delta" THEN v ELSE m.delta)
  /\ x.offset = (IF field = "offset" THEN Word(m.offset + v) ELSE m.offset)
  /\ x.info = (IF field = "info" THEN v ELSE m.info)
  /\ x.addend = (IF field = "addend" THEN Word(m.addend + v) ELSE m.addend)

LEMMA Putting ==
  ASSUME NEW m, m \in Iter, NEW field, field \in ReadNames, NEW v, v \in Nat, NEW a, a \in Nat,
         NEW x, x = [Put(m, field, v) EXCEPT !.at = a]
  PROVE  HasPut(x, m, field, v, a)
<1>1. FlagsOf(v) \in SUBSET Flags
  BY DEF FlagsOf, Flags
<1>2. Word(m.offset + v) \in Nat /\ Word(m.addend + v) \in Nat
  <2>1. m.offset + v \in Int /\ m.addend + v \in Int
    BY DEF Iter
  <2> QED BY <2>1, WordIs
<1>3. PICK fs, o, d : fs = FlagsOf(v) /\ o = Word(m.offset + v) /\ d = Word(m.addend + v)
  OBVIOUS
<1>4. CASE field = "count"
  <2>1. Put(m, field, v) = [m EXCEPT !["count"] = v]
    BY <1>3, <1>4 DEF Put
  <2>2. x = [[m EXCEPT !.count = v] EXCEPT !.at = a]
    BY <2>1
  <2> QED BY <1>1, <1>2, <1>3, <1>4, <2>2 DEF HasPut, Iter
<1>5. CASE field = "size"
  <2>1. Put(m, field, v) = [m EXCEPT !["size"] = v]
    BY <1>3, <1>5 DEF Put
  <2>2. x = [[m EXCEPT !.size = v] EXCEPT !.at = a]
    BY <2>1
  <2> QED BY <1>1, <1>2, <1>3, <1>5, <2>2 DEF HasPut, Iter
<1>6. CASE field = "flags"
  <2>1. Put(m, field, v) = [m EXCEPT !["flags"] = fs]
    BY <1>3, <1>6 DEF Put
  <2>2. x = [[m EXCEPT !.flags = fs] EXCEPT !.at = a]
    BY <2>1
  <2> QED BY <1>1, <1>2, <1>3, <1>6, <2>2 DEF HasPut, Iter
<1>7. CASE field = "delta"
  <2>1. Put(m, field, v) = [m EXCEPT !["delta"] = v]
    BY <1>3, <1>7 DEF Put
  <2>2. x = [[m EXCEPT !.delta = v] EXCEPT !.at = a]
    BY <2>1
  <2> QED BY <1>1, <1>2, <1>3, <1>7, <2>2 DEF HasPut, Iter
<1>8. CASE field = "offset"
  <2>1. Put(m, field, v) = [m EXCEPT !["offset"] = o]
    BY <1>3, <1>8 DEF Put
  <2>2. x = [[m EXCEPT !.offset = o] EXCEPT !.at = a]
    BY <2>1
  <2> QED BY <1>1, <1>2, <1>3, <1>8, <2>2 DEF HasPut, Iter
<1>9. CASE field = "info"
  <2>1. Put(m, field, v) = [m EXCEPT !["info"] = v]
    BY <1>3, <1>9 DEF Put
  <2>2. x = [[m EXCEPT !.info = v] EXCEPT !.at = a]
    BY <2>1
  <2> QED BY <1>1, <1>2, <1>3, <1>9, <2>2 DEF HasPut, Iter
<1>10. CASE field = "addend"
  <2>1. Put(m, field, v) = [m EXCEPT !["addend"] = d]
    BY <1>3, <1>10 DEF Put
  <2>2. x = [[m EXCEPT !.addend = d] EXCEPT !.at = a]
    BY <2>1
  <2> QED BY <1>1, <1>2, <1>3, <1>10, <2>2 DEF HasPut, Iter
<1> QED BY <1>4, <1>5, <1>6, <1>7, <1>8, <1>9, <1>10 DEF ReadNames

\* What a read means when the stream goes on, and what it makes of one that ends.
Ideal(m, field, n) == [Put(m, field, Word(n)) EXCEPT !.at = m.at + Len(Encoded(n))]

Meant(x, m, bytes) == /\ x \in Iter /\ m \in Iter /\ m.at # 0 /\ bytes \in Seq(Bytes)
                      /\ IF m.at - 1 <= Len(bytes) THEN x = m ELSE x.at = 0

LEMMA IdealPut ==
  ASSUME NEW m, m \in Iter, NEW field, field \in ReadNames, NEW n, n \in Int
  PROVE  HasPut(Ideal(m, field, n), m, field, Word(n), m.at + Len(Encoded(n)))
<1>1. Len(Encoded(n)) \in Nat /\ Word(n) \in Nat /\ m.at \in Nat
  BY EncodedShape, WordIs DEF Iter
<1>2. m.at + Len(Encoded(n)) \in Nat
  BY <1>1
<1> QED BY <1>1, <1>2, Putting DEF Ideal

LEMMA ReadMeant ==
  ASSUME NEW x, NEW m, NEW bytes, Meant(x, m, bytes), NEW field, field \in ReadNames,
         NEW n, n \in Int, Starts(bytes, m.at, Encoded(n))
  PROVE  /\ Meant(Read(bytes, x, field), Ideal(m, field, n), bytes)
         /\ Ideal(m, field, n).at = m.at + Len(Encoded(n))
<1>1. PICK l, w, y : l = Len(Encoded(n)) /\ w = Word(n) /\ y = Ideal(m, field, n)
  OBVIOUS
<1>2. l \in Nat \ {0} /\ w \in Nat
  BY <1>1, EncodedShape, WordIs
<1>3. /\ x \in Iter /\ m \in Iter /\ m.at \in Nat \ {0} /\ x.at \in Nat
      /\ bytes \in Seq(Bytes) /\ Len(bytes) \in Nat
      /\ IF m.at - 1 <= Len(bytes) THEN x = m ELSE x.at = 0
  <2>1. /\ x \in Iter /\ m \in Iter /\ m.at # 0 /\ bytes \in Seq(Bytes)
        /\ IF m.at - 1 <= Len(bytes) THEN x = m ELSE x.at = 0
    BY DEF Meant
  <2>2. m.at \in Nat /\ x.at \in Nat
    BY <2>1 DEF Iter
  <2>3. Len(bytes) \in Nat
    BY <2>1
  <2> QED BY <2>1, <2>2, <2>3
<1>4. y \in Iter /\ y.at = m.at + l
  <2>1. HasPut(y, m, field, w, m.at + l)
    BY <1>1, <1>3, IdealPut
  <2> QED BY <2>1 DEF HasPut
<1>5. PICK v : v = SlebNext(bytes, x.at)
  OBVIOUS
<1>6. Read(bytes, x, field) = [Put(x, field, v.value) EXCEPT !.at = v.at]
  BY <1>5 DEF Read
<1>7. CASE (m.at + l) - 1 <= Len(bytes)
  <2>1. x = m
    BY <1>2, <1>3, <1>7
  <2>2. v = [at |-> m.at + l, value |-> w]
    BY <1>1, <1>5, <1>7, <2>1, SlebRead
  <2>3. Read(bytes, x, field) = y
    BY <1>1, <1>6, <2>1, <2>2 DEF Ideal
  <2> QED BY <1>1, <1>2, <1>3, <1>4, <1>7, <2>3 DEF Meant
<1>8. CASE ~((m.at + l) - 1 <= Len(bytes))
  <2>1. v = [at |-> 0, value |-> 0]
    <3>1. CASE m.at - 1 <= Len(bytes)
      <4>1. x = m
        BY <1>3, <3>1
      <4> QED BY <1>1, <1>5, <1>8, <4>1, SlebRead
    <3>2. CASE ~(m.at - 1 <= Len(bytes))
      BY <1>3, <1>5, <3>2, SlebEnded
    <3> QED BY <3>1, <3>2
  <2>2. HasPut(Read(bytes, x, field), x, field, 0, 0)
    <3>1. Read(bytes, x, field) = [Put(x, field, 0) EXCEPT !.at = 0]
      BY <1>6, <2>1
    <3>2. 0 \in Nat
      OBVIOUS
    <3> QED BY <1>3, <3>1, <3>2, Putting
  <2>3. Read(bytes, x, field) \in Iter /\ Read(bytes, x, field).at = 0
    BY <2>2 DEF HasPut
  <2> QED BY <1>1, <1>2, <1>3, <1>4, <1>8, <2>3 DEF Meant
<1> QED BY <1>1, <1>4, <1>7, <1>8

\* A field that is read if it comes: x is the iterator, m what it means, n the number
\* whose bytes are next if it does; y and z are x and m behind it.
ReadsIf(x, m, bytes, field, n, group, rela, comes) ==
  /\ Meant(x, m, bytes) /\ field \in ReadNames /\ n \in Int /\ comes \in BOOLEAN
  /\ comes <=> Comes(field, m.flags, group, rela)
  /\ Starts(bytes, m.at, EncodedIf(comes, n))

HasRead(y, z, m, bytes, field, n, comes) ==
  /\ Meant(y, z, bytes) /\ z.at = m.at + Len(EncodedIf(comes, n))
  /\ IF comes THEN HasPut(z, m, field, Word(n), z.at) ELSE z = m

LEMMA ReadIfMeant ==
  ASSUME NEW x, NEW m, NEW bytes, NEW field, NEW n, NEW group, NEW rela, NEW comes,
         ReadsIf(x, m, bytes, field, n, group, rela, comes)
  PROVE  \E z : HasRead(ReadIf(bytes, x, field, group, rela), z, m, bytes, field, n, comes)
<1>0. /\ Meant(x, m, bytes) /\ field \in ReadNames /\ n \in Int /\ comes \in BOOLEAN
      /\ comes <=> Comes(field, m.flags, group, rela)
      /\ Starts(bytes, m.at, EncodedIf(comes, n))
  BY DEF ReadsIf
<1>a. m \in Iter
  BY <1>0 DEF Meant
<1>1. CASE comes
  <2>1. /\ Meant(Read(bytes, x, field), Ideal(m, field, n), bytes)
        /\ Ideal(m, field, n).at = m.at + Len(Encoded(n))
    BY <1>0, <1>1, ReadMeant DEF EncodedIf
  <2>a. HasPut(Ideal(m, field, n), m, field, Word(n), m.at + Len(Encoded(n)))
    BY <1>0, <1>a, IdealPut
  <2>2. CASE m.at - 1 <= Len(bytes)
    <3>1. x = m
      BY <1>0, <2>2 DEF Meant
    <3>2. ReadIf(bytes, x, field, group, rela) = Read(bytes, x, field)
      BY <1>0, <1>1, <3>1 DEF ReadIf
    <3> QED BY <1>1, <2>1, <2>a, <3>2 DEF HasRead, EncodedIf
  <2>3. CASE ~(m.at - 1 <= Len(bytes))
    <3>1. x \in Iter /\ x.at = 0
      BY <1>0, <2>3 DEF Meant
    <3>2. PICK y : y = Ideal(m, field, n)
      OBVIOUS
    <3>3. y \in Iter /\ y.at # 0 /\ bytes \in Seq(Bytes) /\ ~(y.at - 1 <= Len(bytes))
      <4>1. Len(Encoded(n)) \in Nat /\ m.at \in Nat
        BY <1>0, <1>a, EncodedShape DEF Iter
      <4>2. Len(bytes) \in Nat
        BY <1>0 DEF Meant
      <4>3. y.at = m.at + Len(Encoded(n))
        BY <2>1, <3>2
      <4> QED BY <2>1, <2>3, <3>2, <4>1, <4>2, <4>3 DEF Meant
    <3>4. Meant(x, y, bytes)
      BY <3>1, <3>3 DEF Meant
    <3>5. \/ ReadIf(bytes, x, field, group, rela) = x
          \/ ReadIf(bytes, x, field, group, rela) = Read(bytes, x, field)
      BY DEF ReadIf
    <3> QED BY <1>1, <2>1, <2>a, <3>2, <3>4, <3>5 DEF HasRead, EncodedIf
  <2> QED BY <2>2, <2>3
<1>2. CASE ~comes
  <2>1. m.at = m.at + Len(EncodedIf(comes, n))
    BY <1>2, <1>a DEF EncodedIf, Iter
  <2>2. Meant(ReadIf(bytes, x, field, group, rela), m, bytes)
          => HasRead(ReadIf(bytes, x, field, group, rela), m, m, bytes, field, n, comes)
    BY <1>2, <2>1 DEF HasRead
  <2>3. CASE m.at - 1 <= Len(bytes)
    <3>1. x = m
      BY <1>0, <2>3 DEF Meant
    <3>2. ReadIf(bytes, x, field, group, rela) = x
      BY <1>0, <1>2, <3>1 DEF ReadIf
    <3> QED BY <1>0, <2>2, <3>2
  <2>4. CASE ~(m.at - 1 <= Len(bytes))
    <3>1. x \in Iter /\ x.at = 0
      BY <1>0, <2>4 DEF Meant
    <3>2. PICK y : y = ReadIf(bytes, x, field, group, rela)
      OBVIOUS
    <3>3. y \in Iter /\ y.at = 0
      <4>1. CASE y = x
        BY <3>1, <4>1
      <4>2. CASE y = Read(bytes, x, field)
        <5>1. y = [Put(x, field, 0) EXCEPT !.at = 0]
          BY <3>1, <4>2, SlebEnded DEF Read
        <5>2. HasPut(y, x, field, 0, 0)
          <6>1. 0 \in Nat
            OBVIOUS
          <6> QED BY <1>0, <3>1, <5>1, <6>1, Putting
        <5> QED BY <5>2 DEF HasPut
      <4> QED BY <3>2, <4>1, <4>2 DEF ReadIf
    <3>4. Meant(y, m, bytes)
      BY <1>0, <2>4, <3>3 DEF Meant
    <3> QED BY <2>2, <3>2, <3>4
  <2> QED BY <2>3, <2>4
<1> QED BY <1>1, <1>2

\* The flags of a group are read as they were written: a word has room for them.
LEMMA FlagsRead ==
  ASSUME NEW fs, fs \in SUBSET Flags
  PROVE  FlagNumber(fs) \in Nat /\ FlagsOf(Word(FlagNumber(fs))) = fs
<1>1. PICK i, d, a, h : /\ i = (IF "info" \in fs THEN 1 ELSE 0)
                        /\ d = (IF "delta" \in fs THEN 2 ELSE 0)
                        /\ a = (IF "addend" \in fs THEN 4 ELSE 0)
                        /\ h = (IF "hasAddend" \in fs THEN 8 ELSE 0)
  OBVIOUS
<1>2. PICK n : n = FlagNumber(fs)
  OBVIOUS
<1>3. n = i + d + a + h
  BY <1>1, <1>2 DEF FlagNumber
<1>4. i \in {0, 1} /\ d \in {0, 2} /\ a \in {0, 4} /\ h \in {0, 8}
  BY <1>1
<1>5. n \in 0..15
  BY ONLY <1>3, <1>4
<1>6. Power(W) \in Nat /\ Power(W) >= 16
  <2>1. Power(4) = 16
    <3>1. Power(0) = 1 /\ Power(0 + 1) = 2 * Power(0) /\ Power(1 + 1) = 2 * Power(1)
          /\ Power(2 + 1) = 2 * Power(2) /\ Power(3 + 1) = 2 * Power(3)
      BY PowerSteps
    <3>2. 0 + 1 = 1 /\ 1 + 1 = 2 /\ 2 + 1 = 3 /\ 3 + 1 = 4
      OBVIOUS
    <3> QED BY <3>1, <3>2
  <2>2. PICK k, q : k = W - 4 /\ q = Power(k)
    OBVIOUS
  <2>3. k \in Nat /\ 4 + k = W
    BY <2>2, ElfDecodeAssumption
  <2>4. q \in Nat \ {0} /\ Power(4 + k) = Power(4) * q
    BY <2>2, <2>3, PowerSteps, PowerSum
  <2> QED BY <2>1, <2>3, <2>4
<1>7. Word(n) = n
  <2>1. PICK m : m = Power(W)
    OBVIOUS
  <2>2. m \in Nat /\ m >= 16
    BY <1>6, <2>1
  <2>3. n % m = n
    BY ONLY <1>5, <2>2
  <2> QED BY <2>1, <2>3 DEF Word
<1>8. /\ "info" \in FlagsOf(n) <=> (n \div 1) % 2 = 1
      /\ "delta" \in FlagsOf(n) <=> (n \div 2) % 2 = 1
      /\ "addend" \in FlagsOf(n) <=> (n \div 4) % 2 = 1
      /\ "hasAddend" \in FlagsOf(n) <=> (n \div 8) % 2 = 1
  BY DEF FlagsOf
<1>9. /\ i = 1 <=> (n \div 1) % 2 = 1
      /\ d = 2 <=> (n \div 2) % 2 = 1
      /\ a = 4 <=> (n \div 4) % 2 = 1
      /\ h = 8 <=> (n \div 8) % 2 = 1
  BY ONLY <1>3, <1>4
<1>10. \A f \in Flags : f \in FlagsOf(n) <=> f \in fs
  BY <1>1, <1>8, <1>9 DEF Flags
<1>11. FlagsOf(n) \in SUBSET Flags
  BY DEF FlagsOf, Flags
<1>12. FlagsOf(n) = fs
  BY <1>10, <1>11
<1> QED BY <1>2, <1>5, <1>7, <1>12

LEMMA EncodedIfShape ==
  ASSUME NEW c, c \in BOOLEAN, NEW n, n \in Int
  PROVE  EncodedIf(c, n) \in Seq(Bytes)
<1>1. Encoded(n) \in Seq(Bytes) /\ <<>> \in Seq(Bytes)
  BY EncodedShape
<1> QED BY <1>1 DEF EncodedIf

\* A group that was read: its size, its flags and what its relocations share.
GroupRead(y, m, size, fs, d, o, a) ==
  /\ y \in Iter /\ y.inGroup = 0 /\ y.count = m.count /\ y.index = m.index
  /\ y.offset = m.offset /\ y.size = Word(size) /\ y.flags = fs
  /\ "delta" \in fs => y.delta = Word(d)
  /\ y.info = IF "info" \in fs THEN Word(o) ELSE m.info
  /\ y.addend = IF "hasAddend" \notin fs THEN 0
                ELSE IF "addend" \in fs THEN Word(m.addend + Word(a)) ELSE m.addend

Group(size, fs, d, o, a) ==
  Encoded(size) \o Encoded(FlagNumber(fs))
  \o EncodedIf("delta" \in fs, d) \o EncodedIf("info" \in fs, o)
  \o EncodedIf({"addend", "hasAddend"} \subseteq fs, a)

\* The flags and the values of a relocation.
AreValues(fs, d, o, a, rela) ==
  /\ fs \in SUBSET Flags /\ d \in Int /\ o \in Int /\ a \in Int
  /\ rela \in BOOLEAN /\ ("hasAddend" \in fs => rela)

\* They are the next ones of a group of that size.
GroupIsNext(m, bytes, size, fs, d, o, a, rela) ==
  /\ Meant(m, m, bytes) /\ size \in Int /\ AreValues(fs, d, o, a, rela)
  /\ Starts(bytes, m.at, Group(size, fs, d, o, a))

LEMMA GroupMeant ==
  ASSUME NEW m, NEW bytes, NEW size, NEW fs, NEW d, NEW o, NEW a, NEW rela,
         GroupIsNext(m, bytes, size, fs, d, o, a, rela)
  PROVE  \E y : /\ Meant(ReadGroup(bytes, m, rela), y, bytes)
                /\ GroupRead(y, m, size, fs, d, o, a)
                /\ y.at = m.at + Len(Group(size, fs, d, o, a))
<1>g. /\ fs \in SUBSET Flags /\ d \in Int /\ o \in Int /\ a \in Int
      /\ rela \in BOOLEAN /\ ("hasAddend" \in fs => rela)
      /\ Meant(m, m, bytes) /\ size \in Int
      /\ Starts(bytes, m.at, Group(size, fs, d, o, a))
  BY DEF AreValues, GroupIsNext
<1> USE <1>g
<1>0. m \in Iter
  BY DEF Meant
<1>1. PICK c3, c4, c5 : /\ c3 \in BOOLEAN /\ c4 \in BOOLEAN /\ c5 \in BOOLEAN
                        /\ c3 <=> "delta" \in fs
                        /\ c4 <=> "info" \in fs
                        /\ c5 <=> {"addend", "hasAddend"} \subseteq fs
  OBVIOUS
<1>2. PICK n, e1, e2, e3, e4, e5 :
        /\ n = FlagNumber(fs) /\ e1 = Encoded(size) /\ e2 = Encoded(n)
        /\ e3 = EncodedIf(c3, d) /\ e4 = EncodedIf(c4, o) /\ e5 = EncodedIf(c5, a)
  OBVIOUS
<1>3. n \in Int /\ FlagsOf(Word(n)) = fs
  BY <1>2, FlagsRead
<1>4. /\ e1 \in Seq(Bytes) /\ e2 \in Seq(Bytes) /\ e3 \in Seq(Bytes)
      /\ e4 \in Seq(Bytes) /\ e5 \in Seq(Bytes)
  <2>1. e1 \in Seq(Bytes)
    BY <1>2, EncodedShape
  <2>2. e2 \in Seq(Bytes)
    BY <1>2, <1>3, EncodedShape
  <2>3. e3 \in Seq(Bytes)
    BY <1>1, <1>2, EncodedIfShape
  <2>4. e4 \in Seq(Bytes)
    BY <1>1, <1>2, EncodedIfShape
  <2>5. e5 \in Seq(Bytes)
    BY <1>1, <1>2, EncodedIfShape
  <2> QED BY <2>1, <2>2, <2>3, <2>4, <2>5
<1>5. PICK h2, h, h4, g : h2 = e1 \o e2 /\ h = h2 \o e3 /\ h4 = h \o e4 /\ g = h4 \o e5
  OBVIOUS
<1>6. g = Group(size, fs, d, o, a)
  <2>1. e3 = EncodedIf("delta" \in fs, d)
    BY <1>1, <1>2 DEF EncodedIf
  <2>2. e4 = EncodedIf("info" \in fs, o)
    BY <1>1, <1>2 DEF EncodedIf
  <2>3. e5 = EncodedIf({"addend", "hasAddend"} \subseteq fs, a)
    BY <1>1, <1>2 DEF EncodedIf
  <2> QED BY <1>2, <1>5, <2>1, <2>2, <2>3, Zenon DEF Group
<1>7. Composed(h2, e1, e2) /\ Composed(h, h2, e3) /\ Composed(h4, h, e4) /\ Composed(g, h4, e5)
  BY <1>4, <1>5 DEF Composed
<1>8. PICK b : b = m.at
  OBVIOUS
<1>9. Starts(bytes, b, g)
  BY <1>6, <1>8
<1>10. /\ Starts(bytes, b, e1) /\ Starts(bytes, b + Len(e1), e2)
       /\ Starts(bytes, b + Len(h2), e3) /\ Starts(bytes, b + Len(h), e4)
       /\ Starts(bytes, b + Len(h4), e5)
       /\ Len(h2) = Len(e1) + Len(e2) /\ Len(h) = Len(h2) + Len(e3)
       /\ Len(h4) = Len(h) + Len(e4) /\ Len(g) = Len(h4) + Len(e5)
  <2>1. /\ Starts(bytes, b, h4) /\ Starts(bytes, b + Len(h4), e5)
        /\ Len(g) = Len(h4) + Len(e5)
    <3>1. Composed(g, h4, e5) /\ Starts(bytes, b, g)
      BY <1>7, <1>9
    <3> QED BY ONLY <3>1, StartsBoth
  <2>2. /\ Starts(bytes, b, h) /\ Starts(bytes, b + Len(h), e4)
        /\ Len(h4) = Len(h) + Len(e4)
    <3>1. Composed(h4, h, e4) /\ Starts(bytes, b, h4)
      BY <1>7, <2>1
    <3> QED BY ONLY <3>1, StartsBoth
  <2>3. /\ Starts(bytes, b, h2) /\ Starts(bytes, b + Len(h2), e3)
        /\ Len(h) = Len(h2) + Len(e3)
    <3>1. Composed(h, h2, e3) /\ Starts(bytes, b, h)
      BY <1>7, <2>2
    <3> QED BY ONLY <3>1, StartsBoth
  <2>4. /\ Starts(bytes, b, e1) /\ Starts(bytes, b + Len(e1), e2)
        /\ Len(h2) = Len(e1) + Len(e2)
    <3>1. Composed(h2, e1, e2) /\ Starts(bytes, b, h2)
      BY <1>7, <2>3
    <3> QED BY ONLY <3>1, StartsBoth
  <2> QED BY <2>1, <2>2, <2>3, <2>4
<1>11. /\ b + Len(h2) = (b + Len(e1)) + Len(e2) /\ b + Len(h) = (b + Len(h2)) + Len(e3)
       /\ b + Len(h4) = (b + Len(h)) + Len(e4) /\ b + Len(g) = (b + Len(h4)) + Len(e5)
  <2>1. PICK l1, l2, l3, l4, l5 : /\ l1 = Len(e1) /\ l2 = Len(e2) /\ l3 = Len(e3)
                                  /\ l4 = Len(e4) /\ l5 = Len(e5)
    OBVIOUS
  <2>2. l1 \in Nat /\ l2 \in Nat /\ l3 \in Nat /\ l4 \in Nat /\ l5 \in Nat
    BY <1>4, <2>1
  <2>3. b \in Nat
    BY <1>0, <1>8 DEF Iter
  <2> QED BY <1>10, <2>1, <2>2, <2>3
<1> DEFINE x1 == ReadIf(bytes, m, "size", TRUE, rela)
           x2 == ReadIf(bytes, x1, "flags", TRUE, rela)
           x3 == ReadIf(bytes, x2, "delta", TRUE, rela)
           x4 == ReadIf(bytes, x3, "info", TRUE, rela)
           x5 == ReadIf(bytes, x4, "addend", TRUE, rela)
<1>13. GroupFields(bytes, m, rela) = [x5 EXCEPT !.inGroup = 0]
  BY DEF GroupFields
<1>a. /\ "size" \in ReadNames /\ "flags" \in ReadNames /\ "delta" \in ReadNames
      /\ "info" \in ReadNames /\ "addend" \in ReadNames
  BY DEF ReadNames
<1>14. PICK m1 : HasRead(x1, m1, m, bytes, "size", size, TRUE)
  <2>1. TRUE <=> Comes("size", m.flags, TRUE, rela)
    BY DEF Comes
  <2>2. EncodedIf(TRUE, size) = e1
    BY <1>2 DEF EncodedIf
  <2>3. ReadsIf(m, m, bytes, "size", size, TRUE, rela, TRUE)
    BY <1>a, <1>8, <1>10, <2>1, <2>2 DEF ReadsIf
  <2> QED BY <2>3, ReadIfMeant
<1> HIDE DEF x1
<1>b. m1.at = b + Len(e1) /\ HasPut(m1, m, "size", Word(size), m1.at) /\ Meant(x1, m1, bytes)
  BY <1>2, <1>8, <1>14 DEF HasRead, EncodedIf
<1>15. PICK m2 : HasRead(x2, m2, m1, bytes, "flags", n, TRUE)
  <2>1. TRUE <=> Comes("flags", m1.flags, TRUE, rela)
    BY DEF Comes
  <2>2. EncodedIf(TRUE, n) = e2
    BY <1>2 DEF EncodedIf
  <2>3. ReadsIf(x1, m1, bytes, "flags", n, TRUE, rela, TRUE)
    BY <1>a, <1>b, <1>3, <1>10, <2>1, <2>2 DEF ReadsIf
  <2> QED BY <2>3, ReadIfMeant
<1> HIDE DEF x2
<1>c. /\ m2.at = b + Len(h2) /\ HasPut(m2, m1, "flags", Word(n), m2.at)
      /\ Meant(x2, m2, bytes)
  BY <1>2, <1>b, <1>11, <1>15 DEF HasRead, EncodedIf
<1>16. m2.flags = fs
  BY <1>3, <1>c DEF HasPut
<1>17. PICK m3 : HasRead(x3, m3, m2, bytes, "delta", d, c3)
  <2>1. c3 <=> Comes("delta", m2.flags, TRUE, rela)
    BY <1>1, <1>16 DEF Comes
  <2>3. ReadsIf(x2, m2, bytes, "delta", d, TRUE, rela, c3)
    BY <1>1, <1>2, <1>a, <1>c, <1>10, <2>1 DEF ReadsIf
  <2> QED BY <2>3, ReadIfMeant
<1> HIDE DEF x3
<1>d. /\ m3.at = b + Len(h)
      /\ IF c3 THEN HasPut(m3, m2, "delta", Word(d), m3.at) ELSE m3 = m2
      /\ Meant(x3, m3, bytes)
  BY <1>2, <1>c, <1>11, <1>17 DEF HasRead
<1>18. m3.flags = fs
  BY <1>16, <1>d DEF HasPut
<1>19. PICK m4 : HasRead(x4, m4, m3, bytes, "info", o, c4)
  <2>1. c4 <=> Comes("info", m3.flags, TRUE, rela)
    BY <1>1, <1>18 DEF Comes
  <2>3. ReadsIf(x3, m3, bytes, "info", o, TRUE, rela, c4)
    BY <1>1, <1>2, <1>a, <1>d, <1>10, <2>1 DEF ReadsIf
  <2> QED BY <2>3, ReadIfMeant
<1> HIDE DEF x4
<1>e. /\ m4.at = b + Len(h4)
      /\ IF c4 THEN HasPut(m4, m3, "info", Word(o), m4.at) ELSE m4 = m3
      /\ Meant(x4, m4, bytes)
  BY <1>2, <1>d, <1>11, <1>19 DEF HasRead
<1>20. m4.flags = fs
  BY <1>18, <1>e DEF HasPut
<1>21. PICK m5 : HasRead(x5, m5, m4, bytes, "addend", a, c5)
  <2>1. c5 <=> Comes("addend", m4.flags, TRUE, rela)
    BY <1>1, <1>20 DEF Comes
  <2>3. ReadsIf(x4, m4, bytes, "addend", a, TRUE, rela, c5)
    BY <1>1, <1>2, <1>a, <1>e, <1>10, <2>1 DEF ReadsIf
  <2> QED BY <2>3, ReadIfMeant
<1> HIDE DEF x5
<1>f. /\ m5.at = b + Len(g)
      /\ IF c5 THEN HasPut(m5, m4, "addend", Word(a), m5.at) ELSE m5 = m4
      /\ Meant(x5, m5, bytes)
  BY <1>2, <1>e, <1>11, <1>21 DEF HasRead
<1>22. m5.flags = fs
  BY <1>20, <1>f DEF HasPut
<1> DEFINE r == [x5 EXCEPT !.inGroup = 0]
           y == IF "hasAddend" \notin fs
                THEN [[m5 EXCEPT !.inGroup = 0] EXCEPT !.addend = 0]
                ELSE [m5 EXCEPT !.inGroup = 0]
<1>23. m5 \in Iter /\ x5 \in Iter /\ m5.at # 0 /\ bytes \in Seq(Bytes)
       /\ IF m5.at - 1 <= Len(bytes) THEN x5 = m5 ELSE x5.at = 0
  BY <1>f DEF Meant
<1>24. y \in Iter /\ y.at = b + Len(g)
  <2>1. CASE "hasAddend" \notin fs
    BY <1>f, <1>23, <2>1 DEF Iter
  <2>2. CASE "hasAddend" \in fs
    BY <1>f, <1>23, <2>2 DEF Iter
  <2> QED BY <2>1, <2>2
<1>25. ReadGroup(bytes, m, rela) = IF "hasAddend" \notin r.flags THEN [r EXCEPT !.addend = 0]
                                   ELSE IF "addend" \in r.flags /\ ~rela THEN [r EXCEPT !.at = 0]
                                   ELSE r
  BY <1>13 DEF ReadGroup, GroupAddend
<1>26. Meant(ReadGroup(bytes, m, rela), y, bytes)
  <2>1. CASE m5.at - 1 <= Len(bytes)
    <3>1. x5 = m5
      BY <1>23, <2>1
    <3>2. r.flags = fs
      BY <1>22, <1>23, <3>1 DEF Iter
    <3>3. ReadGroup(bytes, m, rela) = y
      <4>1. CASE "hasAddend" \notin fs
        BY <1>25, <3>1, <3>2, <4>1
      <4>2. CASE "hasAddend" \in fs
        BY <1>25, <3>1, <3>2, <4>2
      <4> QED BY <4>1, <4>2
    <3> HIDE DEF y
    <3> QED BY <1>f, <1>23, <1>24, <2>1, <3>3 DEF Meant
  <2>2. CASE ~(m5.at - 1 <= Len(bytes))
    <3>1. x5.at = 0
      BY <1>23, <2>2
    <3>2. r \in Iter /\ r.at = 0
      BY <1>23, <3>1 DEF Iter
    <3> HIDE DEF r, y
    <3>3. [r EXCEPT !.addend = 0] \in Iter /\ [r EXCEPT !.addend = 0].at = 0
      BY <3>2 DEF Iter
    <3>4. [r EXCEPT !.at = 0] \in Iter /\ [r EXCEPT !.at = 0].at = 0
      BY <3>2 DEF Iter
    <3>5. ReadGroup(bytes, m, rela) \in Iter /\ ReadGroup(bytes, m, rela).at = 0
      BY <1>25, <3>2, <3>3, <3>4
    <3> QED BY <1>f, <1>23, <1>24, <2>2, <3>5 DEF Meant
  <2> QED BY <2>1, <2>2
<1>27. /\ m5.count = m.count /\ m5.index = m.index /\ m5.offset = m.offset
       /\ m5.size = Word(size)
       /\ "delta" \in fs => m5.delta = Word(d)
       /\ m5.info = IF "info" \in fs THEN Word(o) ELSE m.info
       /\ m5.addend = IF {"addend", "hasAddend"} \subseteq fs THEN Word(m.addend + Word(a))
                      ELSE m.addend
  <2>1. /\ m2.count = m.count /\ m2.index = m.index /\ m2.offset = m.offset
        /\ m2.size = Word(size) /\ m2.info = m.info /\ m2.addend = m.addend
    BY <1>b, <1>c DEF HasPut
  <2>2. /\ m3.count = m2.count /\ m3.index = m2.index /\ m3.offset = m2.offset
        /\ m3.size = m2.size /\ m3.info = m2.info /\ m3.addend = m2.addend
        /\ c3 => m3.delta = Word(d)
    BY <1>d DEF HasPut
  <2>3. /\ m4.count = m3.count /\ m4.index = m3.index /\ m4.offset = m3.offset
        /\ m4.size = m3.size /\ m4.delta = m3.delta /\ m4.addend = m3.addend
        /\ c4 => m4.info = Word(o)
        /\ ~c4 => m4.info = m3.info
    BY <1>e DEF HasPut
  <2>4. /\ m5.count = m4.count /\ m5.index = m4.index /\ m5.offset = m4.offset
        /\ m5.size = m4.size /\ m5.delta = m4.delta /\ m5.info = m4.info
        /\ c5 => m5.addend = Word(m4.addend + Word(a))
        /\ ~c5 => m5.addend = m4.addend
    BY <1>f DEF HasPut
  <2> QED BY <1>1, <2>1, <2>2, <2>3, <2>4
<1>28. GroupRead(y, m, size, fs, d, o, a)
  <2>1. CASE "hasAddend" \notin fs
    <3>1. y = [[m5 EXCEPT !.inGroup = 0] EXCEPT !.addend = 0]
      BY <2>1
    <3>2. /\ y.inGroup = 0 /\ y.addend = 0 /\ y.count = m5.count /\ y.index = m5.index
          /\ y.offset = m5.offset /\ y.size = m5.size /\ y.flags = m5.flags
          /\ y.delta = m5.delta /\ y.info = m5.info
      BY <1>23, <3>1 DEF Iter
    <3> HIDE DEF y
    <3> QED BY <1>22, <1>24, <1>27, <2>1, <3>2 DEF GroupRead
  <2>2. CASE "hasAddend" \in fs
    <3>1. y = [m5 EXCEPT !.inGroup = 0]
      BY <2>2
    <3>2. /\ y.inGroup = 0 /\ y.addend = m5.addend /\ y.count = m5.count /\ y.index = m5.index
          /\ y.offset = m5.offset /\ y.size = m5.size /\ y.flags = m5.flags
          /\ y.delta = m5.delta /\ y.info = m5.info
      BY <1>23, <3>1 DEF Iter
    <3> HIDE DEF y
    <3> QED BY <1>22, <1>24, <1>27, <2>2, <3>2 DEF GroupRead
  <2> QED BY <2>1, <2>2
<1> HIDE DEF y
<1> QED BY <1>6, <1>8, <1>24, <1>26, <1>28

-----------------------------------------------------------------------------
(* The iterator: one relocation *)


\* A relocation: it moves on by the delta of the group, and reads what is its own.
LEMMA Moving ==
  ASSUME NEW x, x \in Iter
  PROVE  /\ Moved(x) \in Iter /\ Moved(x).at = x.at /\ Moved(x).flags = x.flags
         /\ Moved(x).count = x.count /\ Moved(x).index = x.index /\ Moved(x).size = x.size
         /\ Moved(x).inGroup = x.inGroup /\ Moved(x).delta = x.delta
         /\ Moved(x).info = x.info /\ Moved(x).addend = x.addend
         /\ Moved(x).offset = IF "delta" \in x.flags THEN Word(x.offset + x.delta) ELSE x.offset
<1>1. CASE "delta" \in x.flags
  <2>1. PICK v : v = Word(x.offset + x.delta)
    OBVIOUS
  <2>2. v \in Nat
    <3>1. x.offset + x.delta \in Int
      BY DEF Iter
    <3> QED BY <2>1, <3>1, WordIs
  <2>3. Moved(x) = [x EXCEPT !["offset"] = v]
    BY <1>1, <2>1 DEF Moved, Put
  <2> QED BY <1>1, <2>1, <2>2, <2>3 DEF Iter
<1>2. CASE "delta" \notin x.flags
  BY <1>2 DEF Moved
<1> QED BY <1>1, <1>2

Counted(v) == [[v EXCEPT !.index = v.index + 1] EXCEPT !.inGroup = v.inGroup + 1]

LEMMA Counting ==
  ASSUME NEW v, v \in Iter, NEW w, w = Counted(v)
  PROVE  /\ w \in Iter /\ w.at = v.at /\ w.index = v.index + 1
         /\ w.inGroup = v.inGroup + 1 /\ w.count = v.count
         /\ w.size = v.size /\ w.flags = v.flags /\ w.delta = v.delta
         /\ w.offset = v.offset /\ w.info = v.info /\ w.addend = v.addend
<1>1. PICK j, k, u : j = v.index + 1 /\ k = v.inGroup + 1 /\ u = [v EXCEPT !.index = j]
  OBVIOUS
<1>2. j \in Nat /\ k \in Nat
  BY <1>1 DEF Iter
<1>3. /\ u \in Iter /\ u.at = v.at /\ u.index = j /\ u.count = v.count
      /\ u.size = v.size /\ u.flags = v.flags /\ u.delta = v.delta
      /\ u.offset = v.offset /\ u.info = v.info /\ u.addend = v.addend
  BY <1>1, <1>2 DEF Iter
<1>4. w = [u EXCEPT !.inGroup = k]
  BY <1>1 DEF Counted
<1> QED BY <1>1, <1>2, <1>3, <1>4 DEF Iter

Owned(bytes, x, rela) == Counted(OwnFields(bytes, Moved(x), rela))

Own(fs, d, o, a) ==
  EncodedIf("delta" \notin fs, d) \o EncodedIf("info" \notin fs, o)
  \o EncodedIf("hasAddend" \in fs /\ "addend" \notin fs, a)

OwnRead(y, z, fs, d, o, a) ==
  /\ y \in Iter /\ y.inGroup = z.inGroup + 1 /\ y.count = z.count /\ y.index = z.index + 1
  /\ y.size = z.size /\ y.flags = fs /\ y.delta = z.delta
  /\ y.offset = IF "delta" \in fs THEN Word(z.offset + z.delta) ELSE Word(z.offset + Word(d))
  /\ y.info = IF "info" \in fs THEN z.info ELSE Word(o)
  /\ y.addend = IF "hasAddend" \in fs /\ "addend" \notin fs THEN Word(z.addend + Word(a))
                ELSE z.addend

LEMMA OwnMeant ==
  ASSUME NEW x, NEW z, NEW bytes, Meant(x, z, bytes), NEW fs, NEW d, NEW o, NEW a,
         NEW rela, AreValues(fs, d, o, a, rela), z.flags = fs,
         Starts(bytes, z.at, Own(fs, d, o, a))
  PROVE  \E y : /\ Meant(Owned(bytes, x, rela), y, bytes)
                /\ OwnRead(y, z, fs, d, o, a)
                /\ y.at = z.at + Len(Own(fs, d, o, a))
<1>g. /\ fs \in SUBSET Flags /\ d \in Int /\ o \in Int /\ a \in Int
      /\ rela \in BOOLEAN /\ ("hasAddend" \in fs => rela)
  BY DEF AreValues
<1> USE <1>g
<1>0. PICK x0, m, b : x0 = Moved(x) /\ m = Moved(z) /\ b = z.at
  OBVIOUS
<1>1. /\ x \in Iter /\ z \in Iter /\ z.at # 0 /\ bytes \in Seq(Bytes)
      /\ IF z.at - 1 <= Len(bytes) THEN x = z ELSE x.at = 0
  BY DEF Meant
<1>2. x0 \in Iter /\ x0.at = x.at /\ m \in Iter /\ m.at = b /\ m.flags = fs
  BY <1>0, <1>1, Moving
<1>3. Meant(x0, m, bytes)
  BY <1>0, <1>1, <1>2 DEF Meant
<1>4. PICK c3, c4, c5 : /\ c3 \in BOOLEAN /\ c4 \in BOOLEAN /\ c5 \in BOOLEAN
                        /\ c3 <=> "delta" \notin fs
                        /\ c4 <=> "info" \notin fs
                        /\ c5 <=> ("hasAddend" \in fs /\ "addend" \notin fs)
  OBVIOUS
<1>5. PICK e3, e4, e5, h, g : /\ e3 = EncodedIf(c3, d) /\ e4 = EncodedIf(c4, o)
                              /\ e5 = EncodedIf(c5, a) /\ h = e3 \o e4 /\ g = h \o e5
  OBVIOUS
<1>6. g = Own(fs, d, o, a)
  <2>1. e3 = EncodedIf("delta" \notin fs, d)
    BY <1>4, <1>5 DEF EncodedIf
  <2>2. e4 = EncodedIf("info" \notin fs, o)
    BY <1>4, <1>5 DEF EncodedIf
  <2>3. e5 = EncodedIf("hasAddend" \in fs /\ "addend" \notin fs, a)
    BY <1>4, <1>5 DEF EncodedIf
  <2> QED BY <1>5, <2>1, <2>2, <2>3, Zenon DEF Own
<1>7. e3 \in Seq(Bytes) /\ e4 \in Seq(Bytes) /\ e5 \in Seq(Bytes)
  <2>1. e3 \in Seq(Bytes)
    BY <1>4, <1>5, EncodedIfShape
  <2>2. e4 \in Seq(Bytes)
    BY <1>4, <1>5, EncodedIfShape
  <2>3. e5 \in Seq(Bytes)
    BY <1>4, <1>5, EncodedIfShape
  <2> QED BY <2>1, <2>2, <2>3
<1>8. Composed(h, e3, e4) /\ Composed(g, h, e5)
  BY <1>5, <1>7 DEF Composed
<1>9. Starts(bytes, b, g)
  BY <1>0, <1>6
<1>10. /\ Starts(bytes, b, e3) /\ Starts(bytes, b + Len(e3), e4)
       /\ Starts(bytes, b + Len(h), e5)
       /\ Len(h) = Len(e3) + Len(e4) /\ Len(g) = Len(h) + Len(e5)
  <2>1. Starts(bytes, b, h) /\ Starts(bytes, b + Len(h), e5) /\ Len(g) = Len(h) + Len(e5)
    <3>1. Composed(g, h, e5) /\ Starts(bytes, b, g)
      BY <1>8, <1>9
    <3> QED BY ONLY <3>1, StartsBoth
  <2>2. Starts(bytes, b, e3) /\ Starts(bytes, b + Len(e3), e4) /\ Len(h) = Len(e3) + Len(e4)
    <3>1. Composed(h, e3, e4) /\ Starts(bytes, b, h)
      BY <1>8, <2>1
    <3> QED BY ONLY <3>1, StartsBoth
  <2> QED BY <2>1, <2>2
<1>11. b + Len(h) = (b + Len(e3)) + Len(e4) /\ b + Len(g) = (b + Len(h)) + Len(e5)
  <2>1. PICK l3, l4, l5 : l3 = Len(e3) /\ l4 = Len(e4) /\ l5 = Len(e5)
    OBVIOUS
  <2>2. l3 \in Nat /\ l4 \in Nat /\ l5 \in Nat
    BY <1>7, <2>1
  <2>3. b \in Nat
    BY <1>0, <1>1 DEF Iter
  <2> QED BY <1>10, <2>1, <2>2, <2>3
<1> DEFINE x3 == ReadIf(bytes, x0, "offset", FALSE, rela)
           x4 == ReadIf(bytes, x3, "info", FALSE, rela)
           x5 == ReadIf(bytes, x4, "addend", FALSE, rela)
<1>12. OwnFields(bytes, x0, rela) = x5
  BY DEF OwnFields
<1>13. "offset" \in ReadNames /\ "info" \in ReadNames /\ "addend" \in ReadNames
  BY DEF ReadNames
<1>14. PICK m3 : HasRead(x3, m3, m, bytes, "offset", d, c3)
  <2>1. c3 <=> Comes("offset", m.flags, FALSE, rela)
    BY <1>2, <1>4 DEF Comes
  <2>2. ReadsIf(x0, m, bytes, "offset", d, FALSE, rela, c3)
    BY <1>2, <1>3, <1>4, <1>5, <1>10, <1>13, <2>1 DEF ReadsIf
  <2> QED BY <2>2, ReadIfMeant
<1> HIDE DEF x3
<1>15. /\ m3.at = b + Len(e3) /\ Meant(x3, m3, bytes)
       /\ IF c3 THEN HasPut(m3, m, "offset", Word(d), m3.at) ELSE m3 = m
  BY <1>2, <1>5, <1>14 DEF HasRead
<1>16. m3.flags = fs
  BY <1>2, <1>15 DEF HasPut
<1>17. PICK m4 : HasRead(x4, m4, m3, bytes, "info", o, c4)
  <2>1. c4 <=> Comes("info", m3.flags, FALSE, rela)
    BY <1>4, <1>16 DEF Comes
  <2>2. ReadsIf(x3, m3, bytes, "info", o, FALSE, rela, c4)
    BY <1>4, <1>5, <1>10, <1>13, <1>15, <2>1 DEF ReadsIf
  <2> QED BY <2>2, ReadIfMeant
<1> HIDE DEF x4
<1>18. /\ m4.at = b + Len(h) /\ Meant(x4, m4, bytes)
       /\ IF c4 THEN HasPut(m4, m3, "info", Word(o), m4.at) ELSE m4 = m3
  BY <1>5, <1>11, <1>15, <1>17 DEF HasRead
<1>19. m4.flags = fs
  BY <1>16, <1>18 DEF HasPut
<1>20. PICK m5 : HasRead(x5, m5, m4, bytes, "addend", a, c5)
  <2>1. c5 <=> Comes("addend", m4.flags, FALSE, rela)
    BY <1>4, <1>19 DEF Comes
  <2>2. ReadsIf(x4, m4, bytes, "addend", a, FALSE, rela, c5)
    BY <1>4, <1>5, <1>10, <1>13, <1>18, <2>1 DEF ReadsIf
  <2> QED BY <2>2, ReadIfMeant
<1> HIDE DEF x5
<1>21. /\ m5.at = b + Len(g) /\ Meant(x5, m5, bytes)
       /\ IF c5 THEN HasPut(m5, m4, "addend", Word(a), m5.at) ELSE m5 = m4
  BY <1>5, <1>11, <1>18, <1>20 DEF HasRead
<1>22. /\ m5.flags = fs /\ m5.count = z.count /\ m5.index = z.index /\ m5.inGroup = z.inGroup
       /\ m5.size = z.size /\ m5.delta = z.delta
       /\ m5.offset = (IF "delta" \in fs THEN Word(z.offset + z.delta)
                       ELSE Word(z.offset + Word(d)))
       /\ m5.info = (IF "info" \in fs THEN z.info ELSE Word(o))
       /\ m5.addend = (IF "hasAddend" \in fs /\ "addend" \notin fs THEN Word(z.addend + Word(a))
                       ELSE z.addend)
  <2>1. /\ m.count = z.count /\ m.index = z.index /\ m.inGroup = z.inGroup /\ m.size = z.size
        /\ m.delta = z.delta /\ m.info = z.info /\ m.addend = z.addend
        /\ m.offset = IF "delta" \in fs THEN Word(z.offset + z.delta) ELSE z.offset
    BY <1>0, <1>1, Moving
  <2>2. /\ m3.count = m.count /\ m3.index = m.index /\ m3.inGroup = m.inGroup
        /\ m3.size = m.size /\ m3.delta = m.delta /\ m3.info = m.info /\ m3.addend = m.addend
        /\ c3 => m3.offset = Word(m.offset + Word(d))
        /\ ~c3 => m3.offset = m.offset
    BY <1>15 DEF HasPut
  <2>3. /\ m4.count = m3.count /\ m4.index = m3.index /\ m4.inGroup = m3.inGroup
        /\ m4.size = m3.size /\ m4.delta = m3.delta /\ m4.offset = m3.offset
        /\ m4.addend = m3.addend
        /\ c4 => m4.info = Word(o)
        /\ ~c4 => m4.info = m3.info
    BY <1>18 DEF HasPut
  <2>4. /\ m5.count = m4.count /\ m5.index = m4.index /\ m5.inGroup = m4.inGroup
        /\ m5.size = m4.size /\ m5.delta = m4.delta /\ m5.offset = m4.offset
        /\ m5.info = m4.info
        /\ c5 => m5.addend = Word(m4.addend + Word(a))
        /\ ~c5 => m5.addend = m4.addend
    BY <1>21 DEF HasPut
  <2>5. m5.flags = fs
    BY <1>19, <1>21 DEF HasPut
  <2> QED BY <1>4, <2>1, <2>2, <2>3, <2>4, <2>5
<1>23. /\ m5 \in Iter /\ x5 \in Iter /\ m5.at # 0 /\ bytes \in Seq(Bytes)
       /\ IF m5.at - 1 <= Len(bytes) THEN x5 = m5 ELSE x5.at = 0
  BY <1>21 DEF Meant
<1>24. Owned(bytes, x, rela) = Counted(x5)
  BY <1>0, <1>12 DEF Owned
<1>25. PICK y : y = Counted(m5)
  OBVIOUS
<1>26. /\ y \in Iter /\ y.at = m5.at /\ y.index = m5.index + 1
       /\ y.inGroup = m5.inGroup + 1 /\ y.count = m5.count
       /\ y.size = m5.size /\ y.flags = m5.flags /\ y.delta = m5.delta
       /\ y.offset = m5.offset /\ y.info = m5.info /\ y.addend = m5.addend
  BY <1>23, <1>25, Counting
<1>27. Owned(bytes, x, rela) \in Iter /\ Owned(bytes, x, rela).at = x5.at
  BY <1>23, <1>24, Counting
<1>28. x5 = m5 => Owned(bytes, x, rela) = y
  BY <1>24, <1>25
<1>29. OwnRead(y, z, fs, d, o, a)
  BY <1>22, <1>26 DEF OwnRead
<1>30. Meant(Owned(bytes, x, rela), y, bytes)
  BY <1>23, <1>26, <1>27, <1>28 DEF Meant
<1> QED BY <1>0, <1>6, <1>21, <1>26, <1>29, <1>30

\* Words: small numbers are their own, and a word can stand for its number in a sum.
LEMMA WordSmall ==
  ASSUME NEW n, n \in 0..Power(W) - 1
  PROVE  Word(n) = n
<1>1. PICK m : m = Power(W)
  OBVIOUS
<1>2. m \in Nat \ {0} /\ n \in 0..m - 1
  BY <1>1, ElfDecodeAssumption, PowerSteps
<1>3. n % m = n
  BY ONLY <1>2
<1> QED BY <1>1, <1>3 DEF Word

LEMMA WordAdds ==
  ASSUME NEW a, a \in Int, NEW b, b \in Int
  PROVE  Word(a + Word(b)) = Word(a + b)
<1>1. PICK m, q, r : m = Power(W) /\ q = b \div m /\ r = b % m
  OBVIOUS
<1>2. m \in Nat \ {0}
  BY <1>1, ElfDecodeAssumption, PowerSteps
<1>3. q \in Int /\ r \in Int /\ b = q * m + r
  <2>1. q = b \div m /\ r = b % m
    BY <1>1
  <2>2. q \in Int /\ r \in 0..m - 1
    BY ONLY <1>2, <2>1, b \in Int
  <2>3. b = q * m + r
    BY ONLY <1>2, <2>1, b \in Int
  <2> QED BY <1>2, <2>2, <2>3
<1>4. a + b = (a + r) + q * m /\ a + b \in Int /\ a + r \in Int
  <2>1. PICK k : k = q * m
    OBVIOUS
  <2>2. k \in Int
    BY ONLY <1>2, <1>3, <2>1
  <2>3. a + b = (a + r) + k
    BY ONLY <1>3, <2>1, <2>2, a \in Int
  <2> QED BY <1>3, <2>1, <2>3
<1>5. Word(a + b) = Word(a + r)
  BY <1>1, <1>3, <1>4, WordSame
<1> QED BY <1>1, <1>5 DEF Word

\* What is given of all of it.
LEMMA PackingNumbers ==
  ASSUME NEW p, IsPacking(p)
  PROVE  /\ p.count \in Nat \ {0} /\ p.count \in 0..Power(W) - 1
         /\ 0 \in 0..p.count /\ p.count \in 0..p.count
         /\ p.offset \in Int
         /\ p.deltas \in [1..p.count -> Int] /\ p.addends \in [1..p.count -> Int]
<1>1. PICK m, c, h : m = Power(W) /\ c = p.count /\ h = Power(W - 1)
  OBVIOUS
<1>2. m \in Nat \ {0} /\ h \in Nat
  <2>1. W \in Nat /\ W - 1 \in Nat
    BY ElfDecodeAssumption
  <2> QED BY <1>1, <2>1, PowerSteps
<1>3. c \in 1..(m - 1) /\ p.offset \in Held /\ p.deltas \in [1..c -> Held]
      /\ p.addends \in [1..c -> Held]
  BY <1>1 DEF IsPacking
<1>4. Held \subseteq Int
  BY <1>1, <1>2 DEF Held
<1>5. c \in Nat \ {0} /\ c \in 0..m - 1 /\ 0 \in 0..c /\ c \in 0..c
  BY <1>2, <1>3
<1> QED BY <1>1, <1>3, <1>4, <1>5

\* What is given of relocation i.
LEMMA PackingGiven ==
  ASSUME NEW p, IsPacking(p), NEW i, i \in 1..p.count
  PROVE  /\ p.count \in Nat \ {0} /\ p.count \in 0..Power(W) - 1 /\ i \in Nat
         /\ p.first[i] \in 1..i /\ p.last[i] \in i..p.count
         /\ (p.last[i] - p.first[i]) + 1 \in 0..Power(W) - 1
         /\ p.flags[i] \in SUBSET Flags /\ p.rela \in BOOLEAN
         /\ "hasAddend" \in p.flags[i] => p.rela
         /\ p.deltas[i] \in Int /\ p.addends[i] \in Int
         /\ p.infos[i] \in 0..Power(W) - 1 /\ p.infos[i] \in Int /\ p.offset \in Int
<1>1. PICK m, c : m = Power(W) /\ c = p.count
  OBVIOUS
<1>2. m \in Nat \ {0}
  BY <1>1, ElfDecodeAssumption, PowerSteps
<1>3. /\ c \in 1..(m - 1) /\ p.first \in [1..c -> 1..c] /\ p.last \in [1..c -> 1..c]
      /\ \A k \in 1..c : p.first[k] <= k /\ k <= p.last[k]
      /\ p.rela \in BOOLEAN /\ p.flags \in [1..c -> SUBSET Flags]
      /\ \A k \in 1..c : p.flags[k] = p.flags[p.first[k]] /\ ("hasAddend" \in p.flags[k] => p.rela)
      /\ p.infos \in [1..c -> 0..(m - 1)]
  BY <1>1 DEF IsPacking
<1>8. p.offset \in Int /\ p.deltas \in [1..c -> Int] /\ p.addends \in [1..c -> Int]
  BY <1>1, PackingNumbers
<1>4. i \in 1..c /\ c \in Nat \ {0} /\ c \in 0..m - 1
  BY <1>1, <1>2, <1>3
<1>5. p.first[i] \in 1..c /\ p.last[i] \in 1..c /\ p.first[i] <= i /\ i <= p.last[i]
  BY <1>3, <1>4
<1>6. /\ p.first[i] \in 1..i /\ p.last[i] \in i..c
      /\ (p.last[i] - p.first[i]) + 1 \in 0..m - 1
  BY <1>2, <1>4, <1>5
<1>7. p.infos[i] \in 0..m - 1 /\ p.infos[i] \in Int
  <2>1. PICK S : S = 0..m - 1
    OBVIOUS
  <2>2. p.infos \in [1..c -> S]
    BY <1>3, <2>1
  <2>3. p.infos[i] \in S
    BY <1>4, <2>2
  <2> QED BY <1>2, <2>1, <2>3
<1>9. p.flags[i] \in SUBSET Flags /\ p.rela \in BOOLEAN
  BY <1>3, <1>4
<1>10. "hasAddend" \in p.flags[i] => p.rela
  BY <1>3, <1>4
<1>11. p.deltas[i] \in Int /\ p.addends[i] \in Int
  BY <1>4, <1>8
<1>12. i \in Nat
  BY <1>4
<1>13. p.offset \in Int
  BY <1>8
<1> QED BY ONLY <1>1, <1>4, <1>6, <1>7, <1>9, <1>10, <1>11, <1>12, <1>13

\* The relocation behind i - 1 begins a group or goes on with one.
LEMMA GroupOf ==
  ASSUME NEW p, IsPacking(p), NEW i, i \in 1..p.count
  PROVE  IF i = 1 \/ i - 1 = p.last[i - 1] THEN p.first[i] = i
         ELSE /\ i - 1 \in 1..p.count /\ p.first[i] = p.first[i - 1] /\ p.last[i] = p.last[i - 1]
              /\ p.first[i] # i /\ p.flags[i] = p.flags[i - 1]
<1>1. p.count \in Nat /\ i \in Nat
  BY PackingGiven
<1>2. CASE i = 1
  BY <1>2 DEF IsPacking
<1>3. CASE i # 1
  <2>1. PICK j : j = i - 1
    OBVIOUS
  <2>2. j \in 1..p.count /\ j # p.count /\ j + 1 = i
    BY <1>1, <1>3, <2>1
  <2>3. IF j = p.last[j] THEN p.first[j + 1] = j + 1
        ELSE p.first[j + 1] = p.first[j] /\ p.last[j + 1] = p.last[j]
    BY <2>2 DEF IsPacking
  <2>4. CASE j = p.last[j]
    BY <2>1, <2>2, <2>3, <2>4
  <2>5. CASE j # p.last[j]
    <3>1. p.first[i] = p.first[j] /\ p.last[i] = p.last[j]
      BY <2>2, <2>3, <2>5
    <3>2. p.first[j] \in 1..j
      BY <2>2, PackingGiven
    <3>3. p.flags[i] = p.flags[p.first[i]] /\ p.flags[j] = p.flags[p.first[j]]
      BY <2>2 DEF IsPacking
    <3>4. p.first[i] # i
      BY <1>1, <2>1, <3>1, <3>2
    <3> QED BY <1>3, <2>1, <2>2, <2>5, <3>1, <3>3, <3>4
  <2> QED BY <2>4, <2>5
<1> QED BY <1>2, <1>3

\* The iterator m stands behind relocation i, which is r.
Stands(p, r, i, m) ==
  /\ m \in Iter /\ m.offset = r.offset /\ m.info = r.info /\ m.addend = r.addend
  /\ i = 0 => m.size = 0 /\ m.inGroup = 0
  /\ i # 0 => /\ m.size = (p.last[i] - p.first[i]) + 1 /\ m.inGroup = (i - p.first[i]) + 1
              /\ m.flags = p.flags[i]
              /\ "delta" \in p.flags[i] => m.delta = Word(p.deltas[p.first[i]])
              /\ "info" \in p.flags[i] => m.info = p.infos[p.first[i]]
              /\ "hasAddend" \notin p.flags[i] => m.addend = 0

\* The iterator in front of what is relocation i's own.
Before(p, r, i, z) ==
  /\ z \in Iter /\ z.offset = r.offset
  /\ z.size = (p.last[i] - p.first[i]) + 1 /\ z.inGroup = i - p.first[i]
  /\ z.flags = p.flags[i]
  /\ "delta" \in p.flags[i] => z.delta = Word(p.deltas[p.first[i]])
  /\ "info" \in p.flags[i] => z.info = p.infos[p.first[i]]
  /\ z.addend = IF "hasAddend" \notin p.flags[i] THEN 0
                ELSE IF "addend" \in p.flags[i] /\ i = p.first[i]
                     THEN Word(r.addend + p.addends[i]) ELSE r.addend

LEMMA FirstOne ==
  ASSUME NEW p, IsPacking(p), NEW i, i \in 1..p.count, NEW r, NEW m, Stands(p, r, i - 1, m)
  PROVE  /\ m.inGroup = m.size <=> p.first[i] = i
         /\ p.first[i] # i => Before(p, r, i, m)
<1>0. i \in Nat
  BY PackingGiven
<1>1. CASE i = 1
  <2>1. p.first[i] = i
    BY <1>1, GroupOf
  <2>2. i - 1 = 0
    BY <1>1
  <2> QED BY <2>1, <2>2 DEF Stands
<1>2. CASE i # 1 /\ i - 1 = p.last[i - 1]
  <2>1. p.first[i] = i
    BY <1>2, GroupOf
  <2>2. i - 1 # 0
    BY <1>0, <1>2
  <2>3. m.size = (p.last[i - 1] - p.first[i - 1]) + 1
        /\ m.inGroup = ((i - 1) - p.first[i - 1]) + 1
    BY <2>2 DEF Stands
  <2> QED BY <1>2, <2>1, <2>3
<1>3. CASE i # 1 /\ i - 1 # p.last[i - 1]
  <2>1. PICK j : j = i - 1
    OBVIOUS
  <2>2. /\ j \in 1..p.count /\ p.first[i] = p.first[j] /\ p.last[i] = p.last[j]
        /\ p.first[i] # i /\ p.flags[i] = p.flags[j]
    BY <1>3, <2>1, GroupOf
  <2>3. j # 0 /\ i = j + 1 /\ j \in Nat
    BY <1>0, <1>3, <2>1, <2>2
  <2>4. /\ m \in Iter /\ m.offset = r.offset /\ m.info = r.info /\ m.addend = r.addend
        /\ m.size = (p.last[j] - p.first[j]) + 1 /\ m.inGroup = (j - p.first[j]) + 1
        /\ m.flags = p.flags[j]
        /\ "delta" \in p.flags[j] => m.delta = Word(p.deltas[p.first[j]])
        /\ "info" \in p.flags[j] => m.info = p.infos[p.first[j]]
        /\ "hasAddend" \notin p.flags[j] => m.addend = 0
    BY <2>1, <2>3 DEF Stands
  <2>5. p.first[j] \in Nat /\ p.last[j] \in Nat
    <3>1. p.first[j] \in 1..j /\ p.last[j] \in j..p.count /\ p.count \in Nat
      BY <2>2, PackingGiven
    <3> QED BY <2>3, <3>1
  <2>6. m.inGroup = i - p.first[i]
    BY <2>2, <2>3, <2>4, <2>5
  <2>7. m.inGroup # m.size
    BY <1>3, <2>1, <2>3, <2>4, <2>5
  <2> QED BY <2>2, <2>4, <2>6, <2>7 DEF Before
<1> QED BY <1>1, <1>2, <1>3

\* What the packer writes for a relocation, in two parts.
GroupPart(p, i) == IF p.first[i] = i
                   THEN Group((p.last[i] - i) + 1, p.flags[i], p.deltas[i], p.infos[i], p.addends[i])
                   ELSE <<>>
OwnPart(p, i) == Own(p.flags[i], p.deltas[i], p.infos[i], p.addends[i])

LEMMA GroupShape ==
  ASSUME NEW size, size \in Int, NEW fs, fs \in SUBSET Flags, NEW d, d \in Int, NEW o, o \in Int,
         NEW a, a \in Int
  PROVE  Group(size, fs, d, o, a) \in Seq(Bytes)
<1>1. PICK e1, e2, e3, e4, e5 :
        /\ e1 = Encoded(size) /\ e2 = Encoded(FlagNumber(fs)) /\ e3 = EncodedIf("delta" \in fs, d)
        /\ e4 = EncodedIf("info" \in fs, o)
        /\ e5 = EncodedIf({"addend", "hasAddend"} \subseteq fs, a)
  OBVIOUS
<1>2. e1 \in Seq(Bytes) /\ e2 \in Seq(Bytes)
  <2>1. FlagNumber(fs) \in Int
    BY FlagsRead
  <2> QED BY <1>1, <2>1, EncodedShape
<1>3. e3 \in Seq(Bytes) /\ e4 \in Seq(Bytes) /\ e5 \in Seq(Bytes)
  <2>1. e3 = Encoded(d) \/ e3 = <<>>
    BY <1>1 DEF EncodedIf
  <2>2. e4 = Encoded(o) \/ e4 = <<>>
    BY <1>1 DEF EncodedIf
  <2>3. e5 = Encoded(a) \/ e5 = <<>>
    BY <1>1 DEF EncodedIf
  <2>4. Encoded(d) \in Seq(Bytes) /\ Encoded(o) \in Seq(Bytes) /\ Encoded(a) \in Seq(Bytes)
    BY EncodedShape
  <2>5. <<>> \in Seq(Bytes)
    OBVIOUS
  <2> QED BY <2>1, <2>2, <2>3, <2>4, <2>5
<1>4. e1 \o e2 \o e3 \o e4 \o e5 \in Seq(Bytes)
  <2>1. PICK e12 : e12 = e1 \o e2
    OBVIOUS
  <2>2. e12 \in Seq(Bytes)
    BY ONLY <1>2, <2>1
  <2>3. PICK e123 : e123 = e12 \o e3
    OBVIOUS
  <2>4. e123 \in Seq(Bytes)
    BY ONLY <1>3, <2>2, <2>3
  <2>5. (e123 \o e4) \o e5 \in Seq(Bytes)
    BY ONLY <1>3, <2>4
  <2> QED BY ONLY <2>1, <2>3, <2>5
<1> QED BY <1>1, <1>4 DEF Group

LEMMA RelocationParts ==
  ASSUME NEW p, IsPacking(p), NEW i, i \in 1..p.count
  PROVE  Composed(RelocationBytes(p, i), GroupPart(p, i), OwnPart(p, i))
<1>0. /\ p.flags[i] \in SUBSET Flags /\ p.deltas[i] \in Int /\ p.addends[i] \in Int
      /\ p.infos[i] \in Int /\ (p.last[i] - i) + 1 \in Int
  <2>1. p.last[i] \in i..p.count /\ i \in Nat /\ p.count \in Nat
    BY PackingGiven
  <2>2. (p.last[i] - i) + 1 \in Int
    BY <2>1
  <2> QED BY <2>2, PackingGiven
<1>1. PICK fs : fs = p.flags[i]
  OBVIOUS
<1>2. PICK g, e3, e4, e5 :
        /\ g = GroupPart(p, i) /\ e3 = EncodedIf("delta" \notin fs, p.deltas[i])
        /\ e4 = EncodedIf("info" \notin fs, p.infos[i])
        /\ e5 = EncodedIf("hasAddend" \in fs /\ "addend" \notin fs, p.addends[i])
  OBVIOUS
<1>3. e3 \in Seq(Bytes) /\ e4 \in Seq(Bytes) /\ e5 \in Seq(Bytes)
  <2>1. e3 = Encoded(p.deltas[i]) \/ e3 = <<>>
    BY <1>2 DEF EncodedIf
  <2>2. e4 = Encoded(p.infos[i]) \/ e4 = <<>>
    BY <1>2 DEF EncodedIf
  <2>3. e5 = Encoded(p.addends[i]) \/ e5 = <<>>
    BY <1>2 DEF EncodedIf
  <2>4. /\ Encoded(p.deltas[i]) \in Seq(Bytes) /\ Encoded(p.infos[i]) \in Seq(Bytes)
        /\ Encoded(p.addends[i]) \in Seq(Bytes)
    BY <1>0, EncodedShape
  <2>5. <<>> \in Seq(Bytes)
    OBVIOUS
  <2> QED BY <2>1, <2>2, <2>3, <2>4, <2>5
<1>4. g \in Seq(Bytes)
  <2>1. CASE p.first[i] = i
    BY <1>0, <1>2, <2>1, GroupShape DEF GroupPart
  <2>2. CASE p.first[i] # i
    <3>1. g = <<>>
      BY <1>2, <2>2 DEF GroupPart
    <3> QED BY <3>1
  <2> QED BY <2>1, <2>2
<1>5. g = IF p.first[i] = i THEN GroupBytes(p, i) ELSE <<>>
  BY <1>2, Zenon DEF GroupPart, Group, GroupBytes
<1>6. RelocationBytes(p, i) = g \o e3 \o e4 \o e5
  BY <1>1, <1>2, <1>5, Zenon DEF RelocationBytes
<1>7. OwnPart(p, i) = e3 \o e4 \o e5
  BY <1>1, <1>2, Zenon DEF OwnPart, Own
<1>8. g \o e3 \o e4 \o e5 = g \o (e3 \o e4 \o e5)
  <2>1. PICK u : u = e3 \o e4
    OBVIOUS
  <2>2. u \in Seq(Bytes)
    BY <1>3, <2>1
  <2>3. (g \o e3) \o e4 = g \o u
    BY ONLY <1>3, <1>4, <2>1, ConcatAssociative
  <2>4. (g \o u) \o e5 = g \o (u \o e5)
    <3>1. g \in Seq(Bytes) /\ u \in Seq(Bytes) /\ e5 \in Seq(Bytes)
      BY <1>3, <1>4, <2>2
    <3> QED BY ONLY <3>1, ConcatAssociative
  <2> QED BY <2>1, <2>3, <2>4
<1>9. OwnPart(p, i) \in Seq(Bytes)
  BY <1>3, <1>7
<1> QED BY <1>2, <1>4, <1>6, <1>7, <1>8, <1>9 DEF Composed

\* One relocation: the iterator moves from behind i - 1 to behind i.
LEMMA StepMeant ==
  ASSUME NEW p, IsPacking(p), NEW i, i \in 1..p.count, NEW r, NEW m, Stands(p, r, i - 1, m),
         NEW bytes, Meant(m, m, bytes), Starts(bytes, m.at, RelocationBytes(p, i)),
         r.offset \in Int, r.addend \in Int
  PROVE  \E y : /\ Meant(PackedNext(bytes, m, p.rela), y, bytes)
                /\ y.at = m.at + Len(RelocationBytes(p, i)) /\ y.count = m.count
                /\ Stands(p, NextPlain(p, r, i), i, y)
<1>0. /\ i \in Nat /\ p.first[i] \in 1..i /\ p.last[i] \in i..p.count /\ p.count \in Nat
      /\ (p.last[i] - p.first[i]) + 1 \in 0..Power(W) - 1
      /\ p.rela \in BOOLEAN
  BY PackingGiven
<1>1. PICK fs, d, o, a, f : /\ fs = p.flags[i] /\ d = p.deltas[i] /\ o = p.infos[i]
                            /\ a = p.addends[i] /\ f = p.first[i]
  OBVIOUS
<1>2. /\ fs \in SUBSET Flags /\ d \in Int /\ o \in Int /\ a \in Int
      /\ o \in 0..Power(W) - 1
      /\ "hasAddend" \in fs => p.rela
  BY <1>1, PackingGiven
<1>b. AreValues(fs, d, o, a, p.rela)
  BY <1>0, <1>2 DEF AreValues
<1>3. PICK size, g, w : /\ size = (p.last[i] - i) + 1 /\ g = GroupPart(p, i) /\ w = OwnPart(p, i)
  OBVIOUS
<1>4. size \in Int
  BY <1>0, <1>3
<1>5. /\ Starts(bytes, m.at, g) /\ Starts(bytes, m.at + Len(g), w)
      /\ Len(RelocationBytes(p, i)) = Len(g) + Len(w)
  <2>1. Composed(RelocationBytes(p, i), g, w)
    BY <1>3, RelocationParts
  <2>2. Starts(bytes, m.at, RelocationBytes(p, i))
    OBVIOUS
  <2> QED BY ONLY <2>1, <2>2, StartsBoth
<1>6. m \in Iter
  BY DEF Meant
<1>7. PICK x : x = IF m.inGroup = m.size THEN ReadGroup(bytes, m, p.rela) ELSE m
  OBVIOUS
<1>8. PICK z : Meant(x, z, bytes) /\ z.at = m.at + Len(g) /\ z.count = m.count /\ Before(p, r, i, z)
  <2>1. CASE p.first[i] = i
    <3>1. x = ReadGroup(bytes, m, p.rela) /\ g = Group(size, fs, d, o, a)
      BY <1>1, <1>3, <1>7, <2>1, FirstOne DEF GroupPart
    <3>2. PICK y : /\ Meant(ReadGroup(bytes, m, p.rela), y, bytes)
                   /\ GroupRead(y, m, size, fs, d, o, a)
                   /\ y.at = m.at + Len(Group(size, fs, d, o, a))
      <4>1. Starts(bytes, m.at, Group(size, fs, d, o, a))
        BY <1>5, <3>1
      <4>2. GroupIsNext(m, bytes, size, fs, d, o, a, p.rela)
        BY <1>b, <1>4, <4>1 DEF GroupIsNext
      <4> QED BY ONLY <4>2, GroupMeant
    <3>3. Word(size) = (p.last[i] - p.first[i]) + 1
      BY <1>0, <1>3, <2>1, WordSmall
    <3>4. Word(o) = o
      BY <1>2, WordSmall
    <3>5. Word(m.addend + Word(a)) = Word(r.addend + a)
      <4>1. m.addend = r.addend
        BY DEF Stands
      <4> QED BY <1>2, <4>1, WordAdds
    <3>6. m.offset = r.offset /\ m.addend = r.addend
      BY DEF Stands
    <3>7. y.inGroup = i - p.first[i]
      BY <1>0, <2>1, <3>2 DEF GroupRead
    <3>8. Before(p, r, i, y)
      BY <1>1, <2>1, <3>2, <3>3, <3>4, <3>5, <3>6, <3>7 DEF Before, GroupRead
    <3> QED BY <3>1, <3>2, <3>8 DEF GroupRead
  <2>2. CASE p.first[i] # i
    <3>1. x = m /\ g = <<>> /\ Before(p, r, i, m)
      BY <1>3, <1>7, <2>2, FirstOne DEF GroupPart
    <3>2. m.at = m.at + Len(g)
      BY <1>6, <3>1 DEF Iter
    <3> QED BY <3>1, <3>2
  <2> QED BY <2>1, <2>2
<1>9. PackedNext(bytes, m, p.rela) = Owned(bytes, x, p.rela)
  <2>1. PICK v : v = OwnFields(bytes, Moved(x), p.rela)
    OBVIOUS
  <2>2. PackedNext(bytes, m, p.rela) = [v EXCEPT !.index = @ + 1, !.inGroup = @ + 1]
    BY <1>7, <2>1 DEF PackedNext
  <2>3. [v EXCEPT !.index = @ + 1, !.inGroup = @ + 1] = Counted(v)
    BY DEF Counted
  <2> QED BY <2>1, <2>2, <2>3 DEF Owned
<1>10. PICK y : /\ Meant(Owned(bytes, x, p.rela), y, bytes)
                /\ OwnRead(y, z, fs, d, o, a)
                /\ y.at = z.at + Len(Own(fs, d, o, a))
  <2>1. z.flags = fs
    BY <1>1, <1>8 DEF Before
  <2>2. Starts(bytes, z.at, Own(fs, d, o, a))
    BY <1>1, <1>3, <1>5, <1>8 DEF OwnPart
  <2> QED BY <1>b, <1>8, <2>1, <2>2, OwnMeant
<1>11. y.at = m.at + Len(RelocationBytes(p, i))
  <2>1. Len(g) \in Nat /\ Len(w) \in Nat /\ m.at \in Nat
    <3>1. Composed(RelocationBytes(p, i), g, w)
      BY <1>3, RelocationParts
    <3> QED BY <1>6, <3>1 DEF Composed, Iter
  <2>2. y.at = (m.at + Len(g)) + Len(w)
    BY <1>1, <1>3, <1>8, <1>10 DEF OwnPart
  <2> QED BY <1>5, <2>1, <2>2
<1>12. PICK t : t = NextPlain(p, r, i)
  OBVIOUS
<1>13. y.offset = t.offset
  <2>1. CASE "delta" \in fs
    <3>1. p.deltas[f] \in Int
      <4>1. f \in 1..p.count
        BY <1>0, <1>1
      <4> QED BY <4>1, PackingGiven
    <3>2. y.offset = Word(r.offset + Word(p.deltas[f]))
      BY <1>1, <1>8, <1>10, <2>1 DEF Before, OwnRead
    <3>3. t.offset = Word(r.offset + p.deltas[f])
      BY <1>1, <1>12, <2>1 DEF NextPlain
    <3> QED BY <3>1, <3>2, <3>3, WordAdds
  <2>2. CASE "delta" \notin fs
    <3>1. y.offset = Word(r.offset + Word(d))
      BY <1>1, <1>8, <1>10, <2>2 DEF Before, OwnRead
    <3>2. t.offset = Word(r.offset + d)
      BY <1>1, <1>12, <2>2 DEF NextPlain
    <3> QED BY <1>2, <3>1, <3>2, WordAdds
  <2> QED BY <2>1, <2>2
<1>14. y.info = t.info /\ ("info" \in fs => y.info = p.infos[f])
  <2>1. CASE "info" \in fs
    <3>1. y.info = p.infos[f]
      BY <1>1, <1>8, <1>10, <2>1 DEF Before, OwnRead
    <3>2. t.info = p.infos[f]
      BY <1>1, <1>12, <2>1 DEF NextPlain
    <3> QED BY <3>1, <3>2
  <2>2. CASE "info" \notin fs
    <3>1. y.info = Word(o) /\ Word(o) = o
      BY <1>2, <1>10, <2>2, WordSmall DEF OwnRead
    <3>2. t.info = o
      BY <1>1, <1>12, <2>2 DEF NextPlain
    <3> QED BY <2>2, <3>1, <3>2
  <2> QED BY <2>1, <2>2
<1>15. y.addend = t.addend /\ ("hasAddend" \notin fs => y.addend = 0)
  <2>1. t.addend = IF "hasAddend" \notin fs THEN 0
                   ELSE IF "addend" \in fs /\ i # f THEN r.addend ELSE Word(r.addend + a)
    BY <1>1, <1>12 DEF NextPlain
  <2>2. z.addend = IF "hasAddend" \notin fs THEN 0
                   ELSE IF "addend" \in fs /\ i = f THEN Word(r.addend + a) ELSE r.addend
    BY <1>1, <1>8 DEF Before
  <2>3. y.addend = IF "hasAddend" \in fs /\ "addend" \notin fs THEN Word(z.addend + Word(a))
                   ELSE z.addend
    BY <1>10 DEF OwnRead
  <2>4. Word(r.addend + Word(a)) = Word(r.addend + a)
    BY <1>2, WordAdds
  <2> QED BY <2>1, <2>2, <2>3, <2>4
<1>16. Stands(p, t, i, y)
  <2>1. y \in Iter /\ i # 0 /\ y.size = z.size /\ y.flags = fs /\ y.inGroup = z.inGroup + 1
        /\ y.delta = z.delta
    BY <1>0, <1>10 DEF OwnRead
  <2>2. /\ z.size = (p.last[i] - p.first[i]) + 1 /\ z.inGroup = i - p.first[i]
        /\ "delta" \in fs => z.delta = Word(p.deltas[f])
    BY <1>1, <1>8 DEF Before
  <2> QED BY <1>1, <1>13, <1>14, <1>15, <2>1, <2>2 DEF Stands
<1>17. y.count = m.count
  BY <1>8, <1>10 DEF OwnRead
<1> QED BY <1>9, <1>10, <1>11, <1>12, <1>16, <1>17

-----------------------------------------------------------------------------
(* The stream *)


\* The numbers in front of the relocations.
Prologue(p) == Encoded(p.count) \o Encoded(p.offset)

\* What the packer has written up to each relocation.
Collects(f, n, p) ==
  f = [i \in 0..n |-> IF i = 0 THEN Prologue(p) ELSE f[i - 1] \o RelocationBytes(p, i)]
Collected(f, n, p) == /\ f[0] = Prologue(p)
                    /\ \A i \in 1..n : f[i] = f[i - 1] \o RelocationBytes(p, i)

LEMMA CollectGiven ==
  ASSUME NEW n, n \in Nat, NEW p, NEW c, c = CHOOSE f : Collects(f, n, p)
  PROVE  Collected(c, n, p)
<1> DEFINE S == {m \in 0..n : \E f : Collects(f, m, p)}
<1>1. 0 \in S
  <2> DEFINE f == [i \in 0..0 |-> Prologue(p)]
  <2>1. \A i \in 0..0 : i = 0
    OBVIOUS
  <2>2. f = [i \in 0..0 |-> IF i = 0 THEN Prologue(p) ELSE f[i - 1] \o RelocationBytes(p, i)]
    <3>1. \A i \in 0..0 : Prologue(p) = IF i = 0 THEN Prologue(p) ELSE f[i - 1] \o RelocationBytes(p, i)
      BY <2>1, Zenon
    <3> QED BY <3>1, Zenon
  <2> HIDE DEF f
  <2>3. Collects(f, 0, p)
    BY <2>2, Zenon DEF Collects
  <2>4. 0 \in 0..n
    OBVIOUS
  <2> QED BY <2>3, <2>4
<1>2. ASSUME NEW m \in 0..n, m \in S, m < n PROVE m + 1 \in S
  <2>1. PICK f : Collects(f, m, p)
    BY <1>2
  <2> DEFINE h == [i \in 0..m + 1 |-> IF i = m + 1 THEN f[m] \o RelocationBytes(p, (m + 1)) ELSE f[i]]
  <2>2. /\ m \in Nat /\ 0 \in 0..m + 1 /\ 0 # m + 1 /\ (m + 1) - 1 = m /\ m + 1 # 0
        /\ m \in 0..m + 1 /\ m # m + 1 /\ 0 \in 0..m
    BY <1>2
  <2>3. \A i \in 0..m : f[i] = IF i = 0 THEN Prologue(p) ELSE f[i - 1] \o RelocationBytes(p, i)
    BY <2>1, Zenon DEF Collects
  <2>4. ASSUME NEW i \in 0..m + 1
        PROVE  (IF i = m + 1 THEN f[m] \o RelocationBytes(p, (m + 1)) ELSE f[i])
                 = IF i = 0 THEN Prologue(p) ELSE h[i - 1] \o RelocationBytes(p, i)
    <3>1. CASE i = 0
      BY <2>2, <2>3, <3>1, Zenon
    <3>2. CASE i = m + 1
      <4>1. h[i - 1] = f[m]
        BY <2>2, <3>2, Zenon
      <4> HIDE DEF h
      <4> QED BY <2>2, <3>2, <4>1, Zenon
    <3>3. CASE i # 0 /\ i # m + 1
      <4>1. i \in 0..m /\ i - 1 \in 0..m + 1 /\ i - 1 # m + 1
        BY <2>2, <3>3
      <4>2. h[i - 1] = f[i - 1]
        BY <4>1, Zenon
      <4> HIDE DEF h
      <4> QED BY <2>3, <3>3, <4>1, <4>2, Zenon
    <3> QED BY <3>1, <3>2, <3>3
  <2>5. h = [i \in 0..m + 1 |-> IF i = 0 THEN Prologue(p) ELSE h[i - 1] \o RelocationBytes(p, i)]
    BY <2>4, Zenon
  <2>6. m + 1 \in 0..n
    BY <1>2
  <2> HIDE DEF h
  <2>7. Collects(h, m + 1, p)
    BY <2>5, Zenon DEF Collects
  <2> QED BY <2>6, <2>7
<1>3. 0..n \subseteq S
  <2> HIDE DEF S
  <2>1. Climbs(S, 0, n)
    BY <1>1, <1>2 DEF Climbs
  <2> QED BY <2>1, UpTo
<1>4. Collects(c, n, p)
  <2>1. n \in 0..n
    OBVIOUS
  <2>2. \E f : Collects(f, n, p)
    BY <1>3, <2>1
  <2> QED BY <2>2, Zenon
<1>5. \A i \in 0..n : c[i] = IF i = 0 THEN Prologue(p) ELSE c[i - 1] \o RelocationBytes(p, i)
  BY <1>4, Zenon DEF Collects
<1>6. \A i \in 1..n : i \in 0..n /\ i # 0
  OBVIOUS
<1>7. 0 \in 0..n
  OBVIOUS
<1> QED BY <1>5, <1>6, <1>7, Zenon DEF Collected

\* Each relocation as it was packed, from what the first one adds to.
Origin(p) == [offset |-> Word(p.offset), info |-> 0, addend |-> 0]

Charts(f, n, p) ==
  f = [i \in 0..n |-> IF i = 0 THEN Origin(p) ELSE NextPlain(p, f[i - 1], i)]
Charted(f, n, p) == /\ f[0] = Origin(p)
                  /\ \A i \in 1..n : f[i] = NextPlain(p, f[i - 1], i)

LEMMA ChartGiven ==
  ASSUME NEW n, n \in Nat, NEW p, NEW c, c = CHOOSE f : Charts(f, n, p)
  PROVE  Charted(c, n, p)
<1> DEFINE S == {m \in 0..n : \E f : Charts(f, m, p)}
<1>1. 0 \in S
  <2> DEFINE f == [i \in 0..0 |-> Origin(p)]
  <2>1. \A i \in 0..0 : i = 0
    OBVIOUS
  <2>2. f = [i \in 0..0 |-> IF i = 0 THEN Origin(p) ELSE NextPlain(p, f[i - 1], i)]
    <3>1. \A i \in 0..0 : Origin(p) = IF i = 0 THEN Origin(p) ELSE NextPlain(p, f[i - 1], i)
      BY <2>1, Zenon
    <3> QED BY <3>1, Zenon
  <2> HIDE DEF f
  <2>3. Charts(f, 0, p)
    BY <2>2, Zenon DEF Charts
  <2>4. 0 \in 0..n
    OBVIOUS
  <2> QED BY <2>3, <2>4
<1>2. ASSUME NEW m \in 0..n, m \in S, m < n PROVE m + 1 \in S
  <2>1. PICK f : Charts(f, m, p)
    BY <1>2
  <2> DEFINE h == [i \in 0..m + 1 |-> IF i = m + 1 THEN NextPlain(p, f[m], (m + 1)) ELSE f[i]]
  <2>2. /\ m \in Nat /\ 0 \in 0..m + 1 /\ 0 # m + 1 /\ (m + 1) - 1 = m /\ m + 1 # 0
        /\ m \in 0..m + 1 /\ m # m + 1 /\ 0 \in 0..m
    BY <1>2
  <2>3. \A i \in 0..m : f[i] = IF i = 0 THEN Origin(p) ELSE NextPlain(p, f[i - 1], i)
    BY <2>1, Zenon DEF Charts
  <2>4. ASSUME NEW i \in 0..m + 1
        PROVE  (IF i = m + 1 THEN NextPlain(p, f[m], (m + 1)) ELSE f[i])
                 = IF i = 0 THEN Origin(p) ELSE NextPlain(p, h[i - 1], i)
    <3>1. CASE i = 0
      BY <2>2, <2>3, <3>1, Zenon
    <3>2. CASE i = m + 1
      <4>1. h[i - 1] = f[m]
        BY <2>2, <3>2, Zenon
      <4> HIDE DEF h
      <4> QED BY <2>2, <3>2, <4>1, Zenon
    <3>3. CASE i # 0 /\ i # m + 1
      <4>1. i \in 0..m /\ i - 1 \in 0..m + 1 /\ i - 1 # m + 1
        BY <2>2, <3>3
      <4>2. h[i - 1] = f[i - 1]
        BY <4>1, Zenon
      <4> HIDE DEF h
      <4> QED BY <2>3, <3>3, <4>1, <4>2, Zenon
    <3> QED BY <3>1, <3>2, <3>3
  <2>5. h = [i \in 0..m + 1 |-> IF i = 0 THEN Origin(p) ELSE NextPlain(p, h[i - 1], i)]
    BY <2>4, Zenon
  <2>6. m + 1 \in 0..n
    BY <1>2
  <2> HIDE DEF h
  <2>7. Charts(h, m + 1, p)
    BY <2>5, Zenon DEF Charts
  <2> QED BY <2>6, <2>7
<1>3. 0..n \subseteq S
  <2> HIDE DEF S
  <2>1. Climbs(S, 0, n)
    BY <1>1, <1>2 DEF Climbs
  <2> QED BY <2>1, UpTo
<1>4. Charts(c, n, p)
  <2>1. n \in 0..n
    OBVIOUS
  <2>2. \E f : Charts(f, n, p)
    BY <1>3, <2>1
  <2> QED BY <2>2, Zenon
<1>5. \A i \in 0..n : c[i] = IF i = 0 THEN Origin(p) ELSE NextPlain(p, c[i - 1], i)
  BY <1>4, Zenon DEF Charts
<1>6. \A i \in 1..n : i \in 0..n /\ i # 0
  OBVIOUS
<1>7. 0 \in 0..n
  OBVIOUS
<1> QED BY <1>5, <1>6, <1>7, Zenon DEF Charted

\* What has been handed out up to each relocation.
Unfolds(f, n, b, bytes, rela) ==
  f = [i \in 0..n |-> IF i = 0 THEN [it |-> b, out |-> <<>>] ELSE UnpackStep(f[i - 1], bytes, rela)]
Unfolded(f, n, b, bytes, rela) == /\ f[0] = [it |-> b, out |-> <<>>]
                                /\ \A i \in 1..n : f[i] = UnpackStep(f[i - 1], bytes, rela)

LEMMA UnfoldGiven ==
  ASSUME NEW n, n \in Nat, NEW b, NEW bytes, NEW rela, NEW c,
         c = CHOOSE f : Unfolds(f, n, b, bytes, rela)
  PROVE  Unfolded(c, n, b, bytes, rela)
<1> DEFINE S == {m \in 0..n : \E f : Unfolds(f, m, b, bytes, rela)}
<1>1. 0 \in S
  <2> DEFINE f == [i \in 0..0 |-> [it |-> b, out |-> <<>>]]
  <2>1. \A i \in 0..0 : i = 0
    OBVIOUS
  <2>2. f = [i \in 0..0 |-> IF i = 0 THEN [it |-> b, out |-> <<>>] ELSE UnpackStep(f[i - 1], bytes, rela)]
    <3>1. \A i \in 0..0 : [it |-> b, out |-> <<>>]
                            = IF i = 0 THEN [it |-> b, out |-> <<>>] ELSE UnpackStep(f[i - 1], bytes, rela)
      BY <2>1, Zenon
    <3> QED BY <3>1, Zenon
  <2> HIDE DEF f
  <2>3. Unfolds(f, 0, b, bytes, rela)
    BY <2>2, Zenon DEF Unfolds
  <2>4. 0 \in 0..n
    OBVIOUS
  <2> QED BY <2>3, <2>4
<1>2. ASSUME NEW m \in 0..n, m \in S, m < n PROVE m + 1 \in S
  <2>1. PICK f : Unfolds(f, m, b, bytes, rela)
    BY <1>2
  <2> DEFINE h == [i \in 0..m + 1 |-> IF i = m + 1 THEN UnpackStep(f[m], bytes, rela) ELSE f[i]]
  <2>2. /\ m \in Nat /\ 0 \in 0..m + 1 /\ 0 # m + 1 /\ (m + 1) - 1 = m /\ m + 1 # 0
        /\ m \in 0..m + 1 /\ m # m + 1 /\ 0 \in 0..m
    BY <1>2
  <2>3. \A i \in 0..m : f[i] = IF i = 0 THEN [it |-> b, out |-> <<>>] ELSE UnpackStep(f[i - 1], bytes, rela)
    BY <2>1, Zenon DEF Unfolds
  <2>4. ASSUME NEW i \in 0..m + 1
        PROVE  (IF i = m + 1 THEN UnpackStep(f[m], bytes, rela) ELSE f[i])
                 = IF i = 0 THEN [it |-> b, out |-> <<>>] ELSE UnpackStep(h[i - 1], bytes, rela)
    <3>1. CASE i = 0
      BY <2>2, <2>3, <3>1, Zenon
    <3>2. CASE i = m + 1
      <4>1. h[i - 1] = f[m]
        BY <2>2, <3>2, Zenon
      <4> HIDE DEF h
      <4> QED BY <2>2, <3>2, <4>1, Zenon
    <3>3. CASE i # 0 /\ i # m + 1
      <4>1. i \in 0..m /\ i - 1 \in 0..m + 1 /\ i - 1 # m + 1
        BY <2>2, <3>3
      <4>2. h[i - 1] = f[i - 1]
        BY <4>1, Zenon
      <4> HIDE DEF h
      <4> QED BY <2>3, <3>3, <4>1, <4>2, Zenon
    <3> QED BY <3>1, <3>2, <3>3
  <2>5. h = [i \in 0..m + 1 |-> IF i = 0 THEN [it |-> b, out |-> <<>>] ELSE UnpackStep(h[i - 1], bytes, rela)]
    BY <2>4, Zenon
  <2>6. m + 1 \in 0..n
    BY <1>2
  <2> HIDE DEF h
  <2>7. Unfolds(h, m + 1, b, bytes, rela)
    BY <2>5, Zenon DEF Unfolds
  <2> QED BY <2>6, <2>7
<1>3. 0..n \subseteq S
  <2> HIDE DEF S
  <2>1. Climbs(S, 0, n)
    BY <1>1, <1>2 DEF Climbs
  <2> QED BY <2>1, UpTo
<1>4. Unfolds(c, n, b, bytes, rela)
  <2>1. n \in 0..n
    OBVIOUS
  <2>2. \E f : Unfolds(f, n, b, bytes, rela)
    BY <1>3, <2>1
  <2> QED BY <2>2, Zenon
<1>5. \A i \in 0..n : c[i] = IF i = 0 THEN [it |-> b, out |-> <<>>] ELSE UnpackStep(c[i - 1], bytes, rela)
  BY <1>4, Zenon DEF Unfolds
<1>6. \A i \in 1..n : i \in 0..n /\ i # 0
  OBVIOUS
<1>7. 0 \in 0..n
  OBVIOUS
<1> QED BY <1>5, <1>6, <1>7, Zenon DEF Unfolded

\* What has been written so far is never changed, and of it what is read is a front.
IsFront(s, t) == /\ s \in Seq(Bytes) /\ t \in Seq(Bytes) /\ Len(s) <= Len(t)
                 /\ \A k \in 1..Len(s) : t[k] = s[k]

LEMMA FrontOfBoth ==
  ASSUME NEW c, NEW s, NEW t, Composed(c, s, t)
  PROVE  IsFront(s, c)
<1>1. c \in Seq(Bytes) /\ Joined(c, s, t)
  BY Joining DEF Composed
<1>2. Len(s) <= Len(c) /\ \A k \in 1..Len(s) : c[k] = s[k]
  BY <1>1 DEF Joined
<1> QED BY <1>1, <1>2 DEF IsFront, Composed

LEMMA FrontOfFront ==
  ASSUME NEW s, NEW t, NEW u, IsFront(s, t), IsFront(t, u)
  PROVE  IsFront(s, u)
<1>1. /\ s \in Seq(Bytes) /\ t \in Seq(Bytes) /\ u \in Seq(Bytes)
      /\ Len(s) <= Len(t) /\ Len(t) <= Len(u)
      /\ \A k \in 1..Len(s) : t[k] = s[k]
      /\ \A k \in 1..Len(t) : u[k] = t[k]
  BY DEF IsFront
<1>2. Len(s) \in Nat /\ Len(t) \in Nat /\ Len(u) \in Nat
  BY <1>1
<1>3. \A k \in 1..Len(s) : k \in 1..Len(t)
  BY <1>1, <1>2
<1> QED BY <1>1, <1>2, <1>3 DEF IsFront

\* The first bytes of the whole begin with those of any front of it, as far as there are any.
LEMMA StartsInFront ==
  ASSUME NEW s, NEW u, NEW bytes, IsFront(s, u), IsFront(bytes, u)
  PROVE  Starts(bytes, 1, s)
<1>1. /\ s \in Seq(Bytes) /\ bytes \in Seq(Bytes)
      /\ \A k \in 1..Len(s) : u[k] = s[k]
      /\ \A k \in 1..Len(bytes) : u[k] = bytes[k]
  BY DEF IsFront
<1>2. Len(s) \in Nat /\ Len(bytes) \in Nat
  BY <1>1
<1>3. ASSUME NEW k \in 1..Len(s), (1 + k) - 1 <= Len(bytes)
      PROVE  bytes[(1 + k) - 1] = s[k]
  <2>1. (1 + k) - 1 = k /\ k \in 1..Len(bytes)
    BY <1>2, <1>3
  <2> QED BY <1>1, <2>1
<1>4. 1 \in Nat \ {0}
  OBVIOUS
<1> QED BY <1>1, <1>3, <1>4 DEF Starts

\* What the packer has written up to each relocation.
IsWritten(c, p) ==
  /\ IsPacking(p)
  /\ Composed(c[0], Encoded(p.count), Encoded(p.offset))
  /\ \A i \in 1..p.count : Composed(c[i], c[i - 1], RelocationBytes(p, i))
  /\ \A i \in 0..p.count : c[i] \in Seq(Bytes)

LEMMA Writing ==
  ASSUME NEW p, IsPacking(p), NEW c, Collected(c, p.count, p)
  PROVE  IsWritten(c, p)
<1>0. p.count \in Nat \ {0} /\ p.count \in Int /\ p.offset \in Int
  BY PackingNumbers
<1>1. /\ c[0] = Encoded(p.count) \o Encoded(p.offset)
      /\ \A i \in 1..p.count : c[i] = c[i - 1] \o RelocationBytes(p, i)
  BY DEF Collected, Prologue
<1>2. Composed(c[0], Encoded(p.count), Encoded(p.offset)) /\ c[0] \in Seq(Bytes)
  <2>1. Encoded(p.count) \in Seq(Bytes) /\ Encoded(p.offset) \in Seq(Bytes)
    BY <1>0, EncodedShape
  <2>2. Encoded(p.count) \o Encoded(p.offset) \in Seq(Bytes)
    BY <2>1
  <2> QED BY <1>1, <2>1, <2>2 DEF Composed
<1>3. ASSUME NEW i \in 1..p.count, c[i - 1] \in Seq(Bytes)
      PROVE  Composed(c[i], c[i - 1], RelocationBytes(p, i)) /\ c[i] \in Seq(Bytes)
  <2>1. RelocationBytes(p, i) \in Seq(Bytes)
    <3>1. Composed(RelocationBytes(p, i), GroupPart(p, i), OwnPart(p, i))
      BY RelocationParts
    <3> QED BY <3>1 DEF Composed
  <2>2. PICK s, t : s = c[i - 1] /\ t = RelocationBytes(p, i)
    OBVIOUS
  <2>3. c[i] = s \o t
    BY <1>1, <2>2
  <2>4. s \in Seq(Bytes) /\ t \in Seq(Bytes)
    BY <1>3, <2>1, <2>2
  <2>5. s \o t \in Seq(Bytes)
    BY ONLY <2>4
  <2> QED BY <2>2, <2>3, <2>4, <2>5 DEF Composed
<1>4. \A i \in 0..p.count : c[i] \in Seq(Bytes)
  <2> DEFINE S == {i \in 0..p.count : c[i] \in Seq(Bytes)}
  <2>1. 0 \in S
    BY <1>0, <1>2
  <2>2. ASSUME NEW k \in 0..p.count, k \in S /\ k < p.count PROVE k + 1 \in S
    <3>1. k + 1 \in 1..p.count /\ (k + 1) - 1 = k /\ k + 1 \in 0..p.count
      BY <1>0, <2>2
    <3>2. c[k] \in Seq(Bytes)
      BY <2>2
    <3>3. c[k + 1] \in Seq(Bytes)
      BY <1>3, <3>1, <3>2
    <3> QED BY <3>1, <3>3
  <2>3. Climbs(S, 0, p.count)
    BY <1>0, <2>1, <2>2 DEF Climbs
  <2> HIDE DEF S
  <2>4. 0..p.count \subseteq S
    BY <2>3, UpTo
  <2> QED BY <2>4 DEF S
<1>5. \A i \in 1..p.count : i - 1 \in 0..p.count
  BY <1>0
<1> QED BY <1>2, <1>3, <1>4, <1>5 DEF IsWritten

LEMMA WrittenFront ==
  ASSUME NEW p, NEW c, IsWritten(c, p), NEW i, i \in 0..p.count
  PROVE  IsFront(c[i], c[p.count])
<1>0. p.count \in Nat /\ i \in Nat
  BY PackingNumbers DEF IsWritten
<1> DEFINE S == {j \in i..p.count : IsFront(c[i], c[j])}
<1>1. i \in S
  <2>1. c[i] \in Seq(Bytes)
    BY DEF IsWritten
  <2>2. Len(c[i]) \in Nat
    BY <2>1
  <2>3. IsFront(c[i], c[i])
    BY <2>1, <2>2 DEF IsFront
  <2>4. i \in i..p.count
    BY <1>0
  <2> QED BY <2>3, <2>4
<1>2. ASSUME NEW k \in i..p.count, k \in S /\ k < p.count PROVE k + 1 \in S
  <2>1. k + 1 \in 1..p.count /\ (k + 1) - 1 = k /\ k + 1 \in i..p.count
    BY <1>0, <1>2
  <2>2. Composed(c[k + 1], c[k], RelocationBytes(p, k + 1))
    BY <2>1 DEF IsWritten
  <2>3. IsFront(c[i], c[k]) /\ IsFront(c[k], c[k + 1])
    BY <1>2, <2>2, FrontOfBoth
  <2>4. IsFront(c[i], c[k + 1])
    BY <2>3, FrontOfFront
  <2> QED BY <2>1, <2>4
<1>3. Climbs(S, i, p.count)
  BY <1>0, <1>1, <1>2 DEF Climbs
<1> HIDE DEF S
<1>4. i..p.count \subseteq S
  BY <1>3, UpTo
<1>5. p.count \in i..p.count
  BY <1>0
<1> QED BY <1>4, <1>5 DEF S

\* The parts of the stream, or of as much as there is of it.
LEMMA StreamParts ==
  ASSUME NEW p, NEW c, IsWritten(c, p), NEW bytes, IsFront(bytes, c[p.count]),
         NEW i, i \in 1..p.count
  PROVE  /\ Starts(bytes, Len(c[i - 1]) + 1, RelocationBytes(p, i))
         /\ Len(c[i]) = Len(c[i - 1]) + Len(RelocationBytes(p, i))
         /\ Len(c[i - 1]) \in Nat /\ Len(RelocationBytes(p, i)) \in Nat
<1>0. p.count \in Nat /\ i \in 0..p.count /\ i - 1 \in 0..p.count
  <2>1. p.count \in Nat
    BY PackingGiven DEF IsWritten
  <2> QED BY <2>1
<1>1. Starts(bytes, 1, c[i])
  BY <1>0, WrittenFront, StartsInFront
<1>2. Composed(c[i], c[i - 1], RelocationBytes(p, i))
  BY DEF IsWritten
<1>3. /\ Starts(bytes, 1 + Len(c[i - 1]), RelocationBytes(p, i))
      /\ Len(c[i]) = Len(c[i - 1]) + Len(RelocationBytes(p, i))
  <2>1. PICK a, s, t, u : a = 1 /\ s = c[i - 1] /\ t = RelocationBytes(p, i) /\ u = c[i]
    OBVIOUS
  <2>2. Starts(bytes, a, u) /\ Composed(u, s, t)
    BY <1>1, <1>2, <2>1
  <2>3. Starts(bytes, a + Len(s), t) /\ Len(u) = Len(s) + Len(t)
    BY ONLY <2>2, StartsBoth
  <2> QED BY <2>1, <2>3
<1>4. Len(c[i - 1]) \in Nat /\ Len(RelocationBytes(p, i)) \in Nat
  BY <1>2 DEF Composed
<1>5. 1 + Len(c[i - 1]) = Len(c[i - 1]) + 1
  BY <1>4
<1> QED BY <1>3, <1>4, <1>5

LEMMA StreamBegins ==
  ASSUME NEW p, NEW c, IsWritten(c, p), NEW bytes, IsFront(bytes, c[p.count])
  PROVE  /\ Starts(bytes, 1, Encoded(p.count))
         /\ Starts(bytes, 1 + Len(Encoded(p.count)), Encoded(p.offset))
         /\ Len(c[0]) = Len(Encoded(p.count)) + Len(Encoded(p.offset))
<1>0. 0 \in 0..p.count
  BY PackingNumbers DEF IsWritten
<1>1. Starts(bytes, 1, c[0])
  BY <1>0, WrittenFront, StartsInFront
<1>2. Composed(c[0], Encoded(p.count), Encoded(p.offset))
  BY DEF IsWritten
<1>3. PICK a, s, t, u : a = 1 /\ s = Encoded(p.count) /\ t = Encoded(p.offset) /\ u = c[0]
  OBVIOUS
<1>4. Starts(bytes, a, u) /\ Composed(u, s, t)
  BY <1>1, <1>2, <1>3
<1>5. Starts(bytes, a + Len(s), t) /\ Len(u) = Len(s) + Len(t)
  BY ONLY <1>4, StartsBoth
<1>6. Starts(bytes, 1, Encoded(p.count))
  <2>1. Starts(bytes, a, s)
    BY ONLY <1>4, StartsBoth
  <2> QED BY <1>3, <2>1
<1> QED BY <1>3, <1>5, <1>6

\* The relocations that were packed.
Plains == [offset : Nat, info : Nat, addend : Nat]

LEMMA Charting ==
  ASSUME NEW p, IsPacking(p), NEW f, Charted(f, p.count, p), NEW i, i \in 0..p.count
  PROVE  f[i] \in Plains
<1>0. p.count \in Nat /\ p.offset \in Int
  BY PackingNumbers
<1>1. f[0] \in Plains
  <2>1. f[0] = [offset |-> Word(p.offset), info |-> 0, addend |-> 0]
    BY DEF Charted, Origin
  <2>2. Word(p.offset) \in Nat
    BY <1>0, WordIs
  <2> QED BY <2>1, <2>2 DEF Plains
<1>2. ASSUME NEW k \in 1..p.count, f[k - 1] \in Plains PROVE f[k] \in Plains
  <2>1. PICK r, j : r = f[k - 1] /\ j = p.first[k]
    OBVIOUS
  <2>2. r \in Plains /\ f[k] = NextPlain(p, r, k)
    BY <1>2, <2>1 DEF Charted
  <2>3. j \in 1..p.count
    <3>1. p.first[k] \in 1..k /\ k \in Nat
      BY PackingGiven
    <3> QED BY <1>0, <2>1, <3>1
  <2>4. /\ p.deltas[k] \in Int /\ p.deltas[j] \in Int /\ p.addends[k] \in Int
        /\ p.infos[k] \in 0..Power(W) - 1 /\ p.infos[j] \in 0..Power(W) - 1
    BY <2>3, PackingGiven
  <2>5. p.infos[k] \in Nat /\ p.infos[j] \in Nat
    <3>1. PICK m : m = Power(W)
      OBVIOUS
    <3>2. m \in Nat
      BY <3>1, ElfDecodeAssumption, PowerSteps
    <3> QED BY <2>4, <3>1, <3>2
  <2>6. r.offset \in Nat /\ r.addend \in Nat
    BY <2>2 DEF Plains
  <2>7. /\ Word(r.offset + p.deltas[k]) \in Nat /\ Word(r.offset + p.deltas[j]) \in Nat
        /\ Word(r.addend + p.addends[k]) \in Nat
    <3>1. r.offset + p.deltas[k] \in Int /\ r.offset + p.deltas[j] \in Int
          /\ r.addend + p.addends[k] \in Int
      BY <2>4, <2>6
    <3> QED BY <3>1, WordIs
  <2>8. PICK t : t = NextPlain(p, r, k)
    OBVIOUS
  <2>9. t.offset \in Nat /\ t.info \in Nat /\ t.addend \in Nat
    BY <2>1, <2>5, <2>6, <2>7, <2>8 DEF NextPlain
  <2>10. t = [offset |-> t.offset, info |-> t.info, addend |-> t.addend]
    BY <2>8 DEF NextPlain
  <2> QED BY <2>2, <2>8, <2>9, <2>10 DEF Plains
<1> DEFINE S == {k \in 0..p.count : f[k] \in Plains}
<1>3. 0 \in S
  BY <1>0, <1>1
<1>4. ASSUME NEW k \in 0..p.count, k \in S /\ k < p.count PROVE k + 1 \in S
  <2>1. k + 1 \in 1..p.count /\ (k + 1) - 1 = k /\ k + 1 \in 0..p.count
    BY <1>0, <1>4
  <2>2. f[k] \in Plains
    BY <1>4
  <2>3. f[k + 1] \in Plains
    BY <1>2, <2>1, <2>2
  <2> QED BY <2>1, <2>3
<1>5. Climbs(S, 0, p.count)
  BY <1>0, <1>3, <1>4 DEF Climbs
<1> HIDE DEF S
<1>6. 0..p.count \subseteq S
  BY <1>5, UpTo
<1> QED BY <1>6 DEF S

LEMMA PlainlyGiven ==
  ASSUME NEW p, IsPacking(p)
  PROVE  \E f : Charted(f, p.count, p) /\ Plainly(p) = [i \in 1..p.count |-> f[i]]
<1>0. p.count \in Nat
  BY PackingNumbers
<1> DEFINE f == CHOOSE g : Charts(g, p.count, p)
<1>1. Plainly(p) = [i \in 1..p.count |-> f[i]]
  BY Zenon DEF Plainly, Charts, Origin
<1>2. PICK h : h = f
  OBVIOUS
<1>3. Charted(h, p.count, p)
  BY <1>0, <1>2, ChartGiven
<1> HIDE DEF f
<1> QED BY <1>1, <1>2, <1>3

LEMMA PackedGiven ==
  ASSUME NEW p, IsPacking(p)
  PROVE  \E c : IsWritten(c, p) /\ Packed(p) = c[p.count]
<1>0. p.count \in Nat
  BY PackingNumbers
<1>1. PICK c : c = CHOOSE g : Collects(g, p.count, p)
  OBVIOUS
<1>2. IsWritten(c, p)
  BY <1>0, <1>1, CollectGiven, Writing
<1>3. Packed(p) = c[p.count]
  BY <1>1, Zenon DEF Packed, Collects, Prologue
<1> QED BY <1>2, <1>3

LEMMA UnpackGiven ==
  ASSUME NEW bytes, NEW rela, PackedInit(bytes).count \in Nat
  PROVE  \E s : /\ Unfolded(s, PackedInit(bytes).count, PackedInit(bytes), bytes, rela)
                /\ Unpack(bytes, rela) = s[PackedInit(bytes).count].out
<1>1. PICK b : b = PackedInit(bytes)
  OBVIOUS
<1>2. PICK s : s = CHOOSE g : Unfolds(g, b.count, b, bytes, rela)
  OBVIOUS
<1>3. Unfolded(s, b.count, b, bytes, rela)
  BY <1>1, <1>2, UnfoldGiven
<1>4. Unpack(bytes, rela) = s[b.count].out
  BY <1>1, <1>2, Zenon DEF Unpack, Unfolds
<1> QED BY <1>1, <1>3, <1>4

\* What a read does to the iterator, whether or not the stream goes on.
LEMMA ReadHas ==
  ASSUME NEW x, NEW m, NEW bytes, Meant(x, m, bytes), NEW field, field \in ReadNames,
         NEW n, n \in Int, Starts(bytes, m.at, Encoded(n))
  PROVE  \E v \in {0, Word(n)}, a \in Nat : HasPut(Read(bytes, x, field), x, field, v, a)
<1>1. PICK l, w, v : l = Len(Encoded(n)) /\ w = Word(n) /\ v = SlebNext(bytes, x.at)
  OBVIOUS
<1>2. l \in Nat \ {0} /\ w \in Nat
  BY <1>1, EncodedShape, WordIs
<1>3. x \in Iter /\ m \in Iter /\ (x = m \/ x.at = 0)
  BY DEF Meant
<1>4. m.at \in Nat
  BY <1>3 DEF Iter
<1>5. v.value \in {0, w} /\ v.at \in Nat
  <2>1. CASE x = m
    <3>1. v = [at |-> m.at + l, value |-> w] \/ v = [at |-> 0, value |-> 0]
      BY <1>1, <2>1, SlebRead
    <3>2. m.at + l \in Nat
      BY <1>2, <1>4
    <3> QED BY <3>1, <3>2
  <2>2. CASE x.at = 0
    BY <1>1, <2>2, SlebEnded
  <2> QED BY <1>3, <2>1, <2>2
<1>6. Read(bytes, x, field) = [Put(x, field, v.value) EXCEPT !.at = v.at]
  BY <1>1 DEF Read
<1>7. HasPut(Read(bytes, x, field), x, field, v.value, v.at)
  <2>1. v.value \in Nat
    BY <1>2, <1>5
  <2> QED BY <1>3, <1>5, <1>6, <2>1, Putting
<1> QED BY <1>1, <1>5, <1>7

\* The iterator begins: it knows how many relocations there are, or that there is nothing.
LEMMA BeginMeant ==
  ASSUME NEW p, NEW c, IsWritten(c, p), NEW bytes, IsFront(bytes, c[p.count]),
         NEW f, Charted(f, p.count, p)
  PROVE  /\ PackedInit(bytes).count \in {0, p.count}
         /\ \E m : /\ Meant(PackedInit(bytes), m, bytes) /\ m.at = Len(c[0]) + 1
                   /\ m.count = p.count /\ Stands(p, f[0], 0, m)
<1>0. p.count \in Nat /\ p.count \in 0..Power(W) - 1 /\ p.offset \in Int
  BY PackingNumbers DEF IsWritten
<1>1. PICK l, k, b :
        /\ l = Len(Encoded(p.count)) /\ k = Len(Encoded(p.offset))
        /\ b = [at |-> 1, count |-> 0, index |-> 0, size |-> 0, inGroup |-> 0, flags |-> {},
                delta |-> 0, offset |-> 0, info |-> 0, addend |-> 0]
  OBVIOUS
<1>2. PICK x, y : x = Read(bytes, b, "count") /\ y = Read(bytes, x, "offset")
  OBVIOUS
<1>3. PackedInit(bytes) = y
  BY <1>1, <1>2 DEF PackedInit
<1>4. /\ b \in Iter /\ b.at = 1 /\ b.count = 0 /\ b.size = 0 /\ b.inGroup = 0 /\ b.offset = 0
      /\ b.info = 0 /\ b.addend = 0
  BY <1>1 DEF Iter
<1>5. bytes \in Seq(Bytes) /\ Len(bytes) \in Nat
  <2>1. bytes \in Seq(Bytes)
    BY DEF IsFront
  <2> QED BY <2>1
<1>6. Meant(b, b, bytes)
  <2>1. b.at # 0 /\ b.at - 1 <= Len(bytes)
    BY <1>4, <1>5
  <2> QED BY <1>4, <1>5, <2>1 DEF Meant
<1>7. l \in Nat /\ k \in Nat
  BY <1>0, <1>1, EncodedShape
<1>8. Starts(bytes, 1, Encoded(p.count)) /\ Starts(bytes, 1 + l, Encoded(p.offset))
      /\ Len(c[0]) = l + k
  BY <1>1, StreamBegins
<1>9. PICK n, o : n = p.count /\ o = p.offset
  OBVIOUS
<1>10. PICK u, z : u = Ideal(b, "count", n) /\ z = Ideal(u, "offset", o)
  OBVIOUS
<1>11. "count" \in ReadNames /\ "offset" \in ReadNames
  BY DEF ReadNames
<1>12. Meant(x, u, bytes) /\ u.at = 1 + l
  BY <1>0, <1>1, <1>2, <1>4, <1>6, <1>8, <1>9, <1>10, <1>11, ReadMeant
<1>13. HasPut(u, b, "count", Word(n), 1 + l)
  BY <1>0, <1>1, <1>4, <1>9, <1>10, <1>11, IdealPut
<1>14. Meant(y, z, bytes) /\ z.at = (1 + l) + k
  <2>1. Starts(bytes, u.at, Encoded(o)) /\ o \in Int
    BY <1>0, <1>8, <1>9, <1>12
  <2>2. Meant(Read(bytes, x, "offset"), Ideal(u, "offset", o), bytes)
        /\ Ideal(u, "offset", o).at = u.at + Len(Encoded(o))
    BY <1>11, <1>12, <2>1, ReadMeant
  <2> QED BY <1>1, <1>2, <1>9, <1>10, <1>12, <2>2
<1>15. HasPut(z, u, "offset", Word(o), (1 + l) + k)
  <2>1. u \in Iter
    BY <1>12 DEF Meant
  <2> QED BY <1>0, <1>1, <1>9, <1>10, <1>11, <1>12, <2>1, IdealPut
<1>16. Word(n) = n
  BY <1>0, <1>9, WordSmall
<1>17. /\ z \in Iter /\ z.at = Len(c[0]) + 1 /\ z.count = p.count
       /\ z.size = 0 /\ z.inGroup = 0 /\ z.info = 0 /\ z.addend = 0
       /\ z.offset = Word(0 + Word(o))
  <2>1. z.at = Len(c[0]) + 1
    BY <1>7, <1>8, <1>14
  <2> QED BY <1>4, <1>9, <1>13, <1>15, <1>16, <2>1 DEF HasPut
<1>18. Stands(p, f[0], 0, z)
  <2>1. Word(0 + Word(o)) = Word(0 + o) /\ 0 + o = o
    BY <1>0, <1>9, WordAdds
  <2>2. f[0] = [offset |-> Word(o), info |-> 0, addend |-> 0]
    BY <1>9 DEF Charted, Origin
  <2> QED BY <1>17, <2>1, <2>2 DEF Stands
<1>19. y.count \in {0, p.count}
  <2>1. PICK v \in {0, Word(n)}, a \in Nat : HasPut(x, b, "count", v, a)
    BY <1>0, <1>2, <1>4, <1>6, <1>8, <1>9, <1>11, ReadHas
  <2>2. PICK w \in {0, Word(o)}, d \in Nat : HasPut(y, x, "offset", w, d)
    BY <1>0, <1>2, <1>8, <1>9, <1>11, <1>12, ReadHas
  <2> QED BY <1>9, <1>16, <2>1, <2>2 DEF HasPut
<1> QED BY <1>3, <1>14, <1>17, <1>18, <1>19

\* What was handed out are the first j relocations that were packed.
HasOut(out, f, j) == /\ out \in Seq(Plains) /\ Len(out) = j
                     /\ \A k \in 1..j : out[k] = f[k]

\* Behind relocation i of a stream that may end too early.
Unrolled(p, c, f, bytes, x, i) ==
  IF Len(c[i]) <= Len(bytes)
  THEN Stands(p, f[i], i, x.it) /\ x.it.at = Len(c[i]) + 1 /\ HasOut(x.out, f, i)
  ELSE x.it.at = 0 /\ \E j \in 0..(p.count - 1) : HasOut(x.out, f, j)

IsStream(p, c, f, bytes) == /\ IsWritten(c, p) /\ Charted(f, p.count, p)
                            /\ IsFront(bytes, c[p.count])

LEMMA HandedOut ==
  ASSUME NEW out, NEW f, NEW j, j \in Nat, HasOut(out, f, j), NEW r, r = f[j + 1], r \in Plains
  PROVE  HasOut(Append(out, r), f, j + 1)
<1>1. out \in Seq(Plains) /\ Len(out) = j /\ \A k \in 1..j : out[k] = f[k]
  BY DEF HasOut
<1>2. /\ Append(out, r) \in Seq(Plains) /\ Len(Append(out, r)) = j + 1
      /\ \A k \in 1..j : Append(out, r)[k] = out[k]
      /\ Append(out, r)[j + 1] = r
  BY <1>1, AppendProperties
<1>3. \A k \in 1..j + 1 : k \in 1..j \/ k = j + 1
  OBVIOUS
<1> QED BY <1>1, <1>2, <1>3 DEF HasOut

LEMMA UnrolledOnce ==
  ASSUME NEW p, NEW c, NEW f, NEW bytes, IsStream(p, c, f, bytes), NEW i, i \in 1..p.count,
         NEW x, Unrolled(p, c, f, bytes, x, i - 1)
  PROVE  Unrolled(p, c, f, bytes, UnpackStep(x, bytes, p.rela), i)
<1>0. /\ IsPacking(p) /\ IsWritten(c, p) /\ Charted(f, p.count, p) /\ IsFront(bytes, c[p.count])
      /\ bytes \in Seq(Bytes)
  BY DEF IsStream, IsWritten, IsFront
<1>1. p.count \in Nat /\ i \in Nat /\ i - 1 \in 0..p.count - 1 /\ i - 1 \in Nat
      /\ i - 1 \in 0..p.count /\ i \in 0..p.count
  <2>1. p.count \in Nat
    BY <1>0, PackingGiven
  <2> QED BY <2>1
<1>2. PICK d, e, g, n : d = Len(c[i - 1]) /\ e = Len(c[i]) /\ g = Len(RelocationBytes(p, i))
                        /\ n = Len(bytes)
  OBVIOUS
<1>3. Starts(bytes, d + 1, RelocationBytes(p, i)) /\ e = d + g /\ d \in Nat /\ g \in Nat
  BY <1>0, <1>2, StreamParts
<1>4. n \in Nat
  BY <1>0, <1>2
<1>5. PICK r, t : r = f[i - 1] /\ t = f[i]
  OBVIOUS
<1>6. r \in Plains /\ t \in Plains /\ t = NextPlain(p, r, i)
  BY <1>0, <1>1, <1>5, Charting DEF Charted
<1>7. CASE d <= n
  <2>1. PICK m : m = x.it
    OBVIOUS
  <2>2. Stands(p, r, i - 1, m) /\ m.at = d + 1 /\ HasOut(x.out, f, i - 1)
    BY <1>2, <1>5, <1>7, <2>1 DEF Unrolled
  <2>3. Meant(m, m, bytes)
    <3>1. m \in Iter
      BY <2>2 DEF Stands
    <3>2. m.at # 0 /\ m.at - 1 <= n
      BY <1>3, <1>7, <2>2
    <3> QED BY <1>0, <1>2, <3>1, <3>2 DEF Meant
  <2>4. PICK v : v = PackedNext(bytes, m, p.rela)
    OBVIOUS
  <2>5. PICK y : /\ Meant(v, y, bytes) /\ y.at = m.at + g /\ Stands(p, t, i, y)
    <3>1. r.offset \in Int /\ r.addend \in Int
      BY <1>6 DEF Plains
    <3> QED BY <1>0, <1>2, <1>3, <1>6, <2>2, <2>3, <2>4, <3>1, StepMeant
  <2>6. UnpackStep(x, bytes, p.rela) = Hand(x, v)
    <3>1. x.it.at # 0
      BY <1>3, <2>1, <2>2
    <3> QED BY <2>1, <2>4, <3>1 DEF UnpackStep
  <2>7. y.at = e + 1
    BY <1>3, <2>2, <2>5
  <2>8. CASE e <= n
    <3>1. v = y /\ v.at # 0
      BY <1>2, <1>3, <1>4, <2>5, <2>7, <2>8 DEF Meant
    <3>2. Hand(x, v) = [it |-> v, out |-> Append(x.out, Relocation(v))]
      BY <3>1 DEF Hand
    <3>3. Relocation(v) = t
      BY <1>6, <2>5, <3>1 DEF Relocation, Stands, Plains
    <3>4. HasOut(Append(x.out, t), f, i)
      <4>1. PICK j : j = i - 1
        OBVIOUS
      <4>2. j \in Nat /\ j + 1 = i /\ HasOut(x.out, f, j) /\ t = f[j + 1]
        BY <1>1, <1>5, <2>2, <4>1
      <4> QED BY <1>6, <4>2, HandedOut
    <3> QED BY <1>2, <1>5, <2>5, <2>6, <2>7, <2>8, <3>1, <3>2, <3>3, <3>4 DEF Unrolled
  <2>9. CASE ~(e <= n)
    <3>1. v.at = 0
      BY <1>2, <1>3, <1>4, <2>5, <2>7, <2>9 DEF Meant
    <3>2. Hand(x, v) = [it |-> v, out |-> x.out]
      BY <3>1 DEF Hand
    <3> QED BY <1>1, <1>2, <2>2, <2>6, <2>9, <3>1, <3>2 DEF Unrolled
  <2> QED BY <2>8, <2>9
<1>8. CASE ~(d <= n)
  <2>1. x.it.at = 0 /\ \E j \in 0..(p.count - 1) : HasOut(x.out, f, j)
    BY <1>2, <1>8 DEF Unrolled
  <2>2. UnpackStep(x, bytes, p.rela) = x
    BY <2>1 DEF UnpackStep
  <2>3. ~(e <= n)
    BY <1>3, <1>4, <1>8
  <2> QED BY <1>2, <2>1, <2>2, <2>3 DEF Unrolled
<1> QED BY <1>7, <1>8

LEMMA UnrolledFirst ==
  ASSUME NEW p, NEW c, NEW f, NEW bytes, IsStream(p, c, f, bytes),
         NEW x, x = [it |-> PackedInit(bytes), out |-> <<>>]
  PROVE  /\ Unrolled(p, c, f, bytes, x, 0)
         /\ PackedInit(bytes).count \in {0, p.count}
         /\ Len(c[0]) <= Len(bytes) => PackedInit(bytes).count = p.count
<1>0. /\ IsPacking(p) /\ IsWritten(c, p) /\ Charted(f, p.count, p) /\ IsFront(bytes, c[p.count])
      /\ bytes \in Seq(Bytes)
  BY DEF IsStream, IsWritten, IsFront
<1>1. p.count \in Nat \ {0} /\ 0 \in 0..p.count
  BY <1>0, PackingNumbers
<1>2. PICK y : y = PackedInit(bytes)
  OBVIOUS
<1>3. PICK m : /\ Meant(y, m, bytes) /\ m.at = Len(c[0]) + 1
               /\ m.count = p.count /\ Stands(p, f[0], 0, m)
  BY <1>0, <1>2, BeginMeant
<1>4. y.count \in {0, p.count}
  BY <1>0, <1>2, BeginMeant
<1>5. x.it = y /\ HasOut(x.out, f, 0)
  BY <1>2 DEF HasOut
<1>6. PICK d, n : d = Len(c[0]) /\ n = Len(bytes)
  OBVIOUS
<1>7. d \in Nat /\ n \in Nat
  <2>1. c[0] \in Seq(Bytes)
    BY <1>0, <1>1 DEF IsWritten
  <2> QED BY <1>0, <1>6, <2>1
<1>8. CASE d <= n
  <2>1. y = m
    BY <1>3, <1>6, <1>7, <1>8 DEF Meant
  <2> QED BY <1>2, <1>3, <1>4, <1>5, <1>6, <1>8, <2>1 DEF Unrolled
<1>9. CASE ~(d <= n)
  <2>1. y.at = 0
    BY <1>3, <1>6, <1>7, <1>9 DEF Meant
  <2>2. 0 \in 0..p.count - 1
    BY <1>1
  <2> QED BY <1>2, <1>4, <1>5, <1>6, <1>9, <2>1, <2>2 DEF Unrolled
<1> QED BY <1>8, <1>9

\* Unpacking hands out the relocations that were packed: all of them, or the first
\* ones when the stream ends too early.
LEMMA UnpackIs ==
  ASSUME NEW p, NEW c, NEW f, NEW bytes, IsStream(p, c, f, bytes)
  PROVE  \E j \in 0..p.count : /\ HasOut(Unpack(bytes, p.rela), f, j)
                               /\ j = p.count <=> Len(bytes) = Len(c[p.count])
<1>0. IsPacking(p) /\ IsWritten(c, p) /\ IsFront(bytes, c[p.count])
  BY DEF IsStream, IsWritten
<1>1. p.count \in Nat \ {0} /\ 0 \in 0..p.count /\ p.count \in 0..p.count
  BY <1>0, PackingNumbers
<1>2. PICK b, n : b = PackedInit(bytes) /\ n = PackedInit(bytes).count
  OBVIOUS
<1>3. n \in {0, p.count} /\ (Len(c[0]) <= Len(bytes) => n = p.count)
  BY <1>2, UnrolledFirst
<1>4. n \in Nat /\ n \in 0..p.count
  BY <1>1, <1>3
<1>5. PICK s : Unfolded(s, n, b, bytes, p.rela) /\ Unpack(bytes, p.rela) = s[n].out
  BY <1>2, <1>4, UnpackGiven
<1> DEFINE S == {i \in 0..n : Unrolled(p, c, f, bytes, s[i], i)}
<1>6. 0 \in S
  <2>1. s[0] = [it |-> PackedInit(bytes), out |-> <<>>]
    BY <1>2, <1>5 DEF Unfolded
  <2>2. Unrolled(p, c, f, bytes, s[0], 0)
    BY <2>1, UnrolledFirst
  <2>3. 0 \in 0..n
    BY <1>4
  <2> QED BY <2>2, <2>3
<1>7. ASSUME NEW k \in 0..n, k \in S /\ k < n PROVE k + 1 \in S
  <2>1. PICK i : i = k + 1
    OBVIOUS
  <2>2. i \in 1..p.count /\ i - 1 = k /\ i \in 0..n /\ i \in 1..n
    BY <1>1, <1>4, <1>7, <2>1
  <2>3. s[i] = UnpackStep(s[i - 1], bytes, p.rela)
    BY <1>5, <2>2 DEF Unfolded
  <2>4. Unrolled(p, c, f, bytes, s[i - 1], i - 1)
    BY <1>7, <2>2
  <2>5. Unrolled(p, c, f, bytes, s[i], i)
    BY <2>2, <2>3, <2>4, UnrolledOnce
  <2> QED BY <2>1, <2>2, <2>5
<1>8. Climbs(S, 0, n)
  BY <1>4, <1>6, <1>7 DEF Climbs
<1> HIDE DEF S
<1>9. 0..n \subseteq S /\ n \in 0..n
  BY <1>4, <1>8, UpTo
<1>10. Unrolled(p, c, f, bytes, s[n], n)
  BY <1>9 DEF S
<1>11. PICK d, e, l : d = Len(c[0]) /\ e = Len(c[p.count]) /\ l = Len(bytes)
  OBVIOUS
<1>12. d \in Nat /\ e \in Nat /\ l \in Nat /\ d <= e /\ l <= e
  <2>1. IsFront(c[0], c[p.count])
    BY <1>0, <1>1, WrittenFront
  <2>2. c[0] \in Seq(Bytes) /\ c[p.count] \in Seq(Bytes) /\ bytes \in Seq(Bytes)
        /\ d <= e /\ l <= e
    BY <1>0, <1>11, <2>1 DEF IsFront
  <2> QED BY <1>11, <2>2
<1>13. CASE l = e
  <2>1. n = p.count
    BY <1>3, <1>11, <1>12, <1>13
  <2>2. HasOut(s[n].out, f, n)
    BY <1>10, <1>11, <1>12, <1>13, <2>1 DEF Unrolled
  <2> QED BY <1>1, <1>5, <1>11, <1>13, <2>1, <2>2
<1>14. CASE l # e
  <2>1. ~(e <= l)
    BY <1>12, <1>14
  <2>2. \E j \in 0..(p.count - 1) : HasOut(s[n].out, f, j)
    <3>1. CASE n = p.count
      BY <1>10, <1>11, <2>1, <3>1 DEF Unrolled
    <3>2. CASE n = 0 /\ n # p.count
      <4>1. ~(d <= l)
        BY <1>3, <1>11, <3>2
      <4> QED BY <1>10, <1>11, <3>2, <4>1 DEF Unrolled
    <3> QED BY <1>3, <3>1, <3>2
  <2>3. \A j \in 0..(p.count - 1) : j \in 0..p.count /\ j # p.count
    BY <1>1
  <2> QED BY <1>5, <1>11, <1>14, <2>2, <2>3
<1> QED BY <1>13, <1>14

\* A stream of nothing.
LEMMA UnpackNothing ==
  ASSUME NEW rela
  PROVE  Unpack(Encoded(0) \o Encoded(0), rela) = <<>>
<1>1. PICK e, bytes : e = Encoded(0) /\ bytes = e \o e
  OBVIOUS
<1>2. e \in Seq(Bytes)
  BY <1>1, EncodedShape
<1>3. Composed(bytes, e, e) /\ bytes \in Seq(Bytes) /\ Len(bytes) \in Nat
  <2>1. e \o e \in Seq(Bytes)
    BY ONLY <1>2
  <2> QED BY <1>1, <1>2, <2>1 DEF Composed
<1>4. PICK a : a = 1
  OBVIOUS
<1>5. Starts(bytes, a, bytes)
  <2>1. \A k \in 1..Len(bytes) : (1 + k) - 1 = k
    OBVIOUS
  <2> QED BY <1>3, <1>4, <2>1 DEF Starts
<1>6. Starts(bytes, a, e) /\ Starts(bytes, a + Len(e), e)
  BY ONLY <1>3, <1>5, StartsBoth
<1>7. PICK b : b = [at |-> 1, count |-> 0, index |-> 0, size |-> 0, inGroup |-> 0, flags |-> {},
                    delta |-> 0, offset |-> 0, info |-> 0, addend |-> 0]
  OBVIOUS
<1>8. PICK x, y : x = Read(bytes, b, "count") /\ y = Read(bytes, x, "offset")
  OBVIOUS
<1>9. PackedInit(bytes) = y
  BY <1>7, <1>8 DEF PackedInit
<1>10. b \in Iter /\ b.at = 1 /\ b.count = 0
  BY <1>7 DEF Iter
<1>11. Meant(b, b, bytes)
  <2>1. b.at # 0 /\ b.at - 1 <= Len(bytes)
    BY <1>3, <1>10
  <2> QED BY <1>3, <1>10, <2>1 DEF Meant
<1>12. "count" \in ReadNames /\ "offset" \in ReadNames /\ 0 \in Int
  BY DEF ReadNames
<1>13. Word(0) = 0
  <2>1. PICK m : m = Power(W)
    OBVIOUS
  <2>2. m \in Nat \ {0}
    BY <2>1, ElfDecodeAssumption, PowerSteps
  <2>3. 0 \in 0..m - 1
    BY <2>2
  <2> QED BY <2>1, <2>3, WordSmall
<1>14. PICK u : Meant(x, u, bytes) /\ u.at = a + Len(e)
  <2>1. Starts(bytes, b.at, Encoded(0))
    BY <1>1, <1>4, <1>6, <1>10
  <2>2. /\ Meant(Read(bytes, b, "count"), Ideal(b, "count", 0), bytes)
        /\ Ideal(b, "count", 0).at = b.at + Len(Encoded(0))
    BY <1>11, <1>12, <2>1, ReadMeant
  <2> QED BY <1>1, <1>4, <1>8, <1>10, <2>2
<1>15. y.count = 0
  <2>1. Starts(bytes, b.at, Encoded(0)) /\ Starts(bytes, u.at, Encoded(0))
    BY <1>1, <1>4, <1>6, <1>10, <1>14
  <2>2. PICK v \in {0, Word(0)}, d \in Nat : HasPut(x, b, "count", v, d)
    BY <1>8, <1>11, <1>12, <2>1, ReadHas
  <2>3. PICK w \in {0, Word(0)}, d1 \in Nat : HasPut(y, x, "offset", w, d1)
    BY <1>8, <1>12, <1>14, <2>1, ReadHas
  <2> QED BY <1>13, <2>2, <2>3 DEF HasPut
<1>16. PICK n : n = PackedInit(bytes).count
  OBVIOUS
<1>17. n = 0 /\ n \in Nat
  BY <1>9, <1>15, <1>16
<1>18. PICK s : Unfolded(s, n, y, bytes, rela) /\ Unpack(bytes, rela) = s[n].out
  BY <1>9, <1>16, <1>17, UnpackGiven
<1>19. s[0] = [it |-> y, out |-> <<>>]
  BY <1>18 DEF Unfolded
<1> QED BY <1>1, <1>17, <1>18, <1>19

\* The slots of a symbol among relocations that are plain in .rel.dyn or packed.
SlotsAmong(plain, i) ==
  {r \in ToSet(plain) : r.info \in {4 * i + GlobDat, 4 * i + Absolute}}

LEMMA SlotsOf ==
  ASSUME NEW plain, plain \in Seq(Plains), NEW dyn, NEW packed, NEW rela,
         ToSet(dyn) \cup ToSet(Unpack(packed, rela)) = ToSet(plain), NEW i, i \in Nat
  PROVE  SlotOffsets(<<>>, dyn, packed, rela, i) = {r.offset : r \in SlotsAmong(plain, i)}
<1>1. PICK u : u = Unpack(packed, rela)
  OBVIOUS
<1>2. PICK A, B : /\ A = {r \in ToSet(dyn) : IsSlot(r, i, FALSE)}
                  /\ B = {r \in ToSet(u) : IsSlot(r, i, FALSE)}
  OBVIOUS
<1>3. SlotOffsets(<<>>, dyn, packed, rela, i) = {r.offset : r \in A \cup B}
  <2> DEFINE inPlt == {k \in DOMAIN <<>> : IsSlot(<<>>[k], i, TRUE)}
             first == CHOOSE k \in inPlt : \A j \in inPlt : k <= j
  <2>1. SlotOffsets(<<>>, dyn, packed, rela, i)
          = {r.offset : r \in (IF inPlt = {} THEN {} ELSE {<<>>[first]}) \cup A \cup B}
    BY <1>1, <1>2, Zenon DEF SlotOffsets
  <2>2. inPlt = {}
    OBVIOUS
  <2> HIDE DEF inPlt
  <2>3. (IF inPlt = {} THEN {} ELSE {<<>>[first]}) \cup A \cup B = A \cup B
    BY <2>2
  <2> QED BY <2>1, <2>3, Zenon
<1>4. ASSUME NEW r \in ToSet(plain)
      PROVE  IsSlot(r, i, FALSE) <=> r.info \in {4 * i + GlobDat, 4 * i + Absolute}
  <2>1. r.info \in Nat
    <3>1. PICK k \in DOMAIN plain : r = plain[k]
      BY DEF ToSet
    <3>2. k \in 1..Len(plain)
      BY <3>1
    <3>3. r \in Plains
      BY <3>1, <3>2, ElementOfSeq
    <3> QED BY <3>3 DEF Plains
  <2>2. PICK n : n = r.info
    OBVIOUS
  <2>3. (n \div 4 = i /\ n % 4 \in {2, 3}) <=> n \in {4 * i + 2, 4 * i + 3}
    BY <2>1, <2>2
  <2> QED BY <2>2, <2>3 DEF IsSlot, GlobDat, Absolute
<1>5. A \cup B = SlotsAmong(plain, i)
  <2>1. A \cup B = {r \in ToSet(plain) : IsSlot(r, i, FALSE)}
    BY <1>1, <1>2
  <2> QED BY <1>4, <2>1 DEF SlotsAmong
<1> QED BY <1>3, <1>5

\* The first j of the relocations that were packed, as sequences.
LEMMA OutIs ==
  ASSUME NEW p, NEW f, IsPacking(p), Charted(f, p.count, p),
         NEW plain, plain = [i \in 1..p.count |-> f[i]], NEW out, NEW j, j \in 0..p.count,
         HasOut(out, f, j)
  PROVE  /\ plain \in Seq(Plains) /\ Len(plain) = p.count
         /\ j = p.count => out = plain
         /\ j # p.count => IsStrictPrefix(out, plain)
<1>0. p.count \in Nat
  BY PackingNumbers
<1>1. plain \in Seq(Plains) /\ Len(plain) = p.count /\ \A k \in 1..p.count : plain[k] = f[k]
  <2>1. \A k \in 1..p.count : k \in 0..p.count
    BY <1>0
  <2>2. \A k \in 1..p.count : f[k] \in Plains
    BY <2>1, Charting
  <2> QED BY <1>0, <2>2
<1>2. out \in Seq(Plains) /\ Len(out) = j /\ \A k \in 1..j : out[k] = f[k]
  BY DEF HasOut
<1>3. \A k \in 1..j : k \in 1..p.count
  BY <1>0
<1>4. CASE j = p.count
  BY <1>1, <1>2, <1>4, Same
<1>5. CASE j # p.count
  <2>1. out # plain
    BY <1>1, <1>2, <1>5
  <2>2. PICK s, t : s = SubSeq(out, 1, j) /\ t = SubSeq(plain, 1, j)
    OBVIOUS
  <2>3. j \in Nat /\ j <= p.count
    BY <1>0
  <2>4. s \in Seq(Plains) /\ Len(s) = j /\ \A k \in 1..j : s[k] = out[k]
    <3>1. \A k \in 1..j : out[k] \in Plains
      BY <1>2, ElementOfSeq
    <3>2. s \in Seq(Plains) /\ Len(s) = (IF 1 <= j THEN j - 1 + 1 ELSE 0)
          /\ \A k \in 1..j - 1 + 1 : s[k] = out[1 + k - 1]
      BY <2>2, <2>3, <3>1, SubSeqProperties
    <3>3. \A k \in 1..j : k \in 1..j - 1 + 1 /\ 1 + k - 1 = k
      BY <2>3
    <3> QED BY <2>3, <3>2, <3>3
  <2>5. t \in Seq(Plains) /\ Len(t) = j /\ \A k \in 1..j : t[k] = plain[k]
    <3>1. \A k \in 1..j : plain[k] \in Plains
      BY <1>1, <1>3, ElementOfSeq
    <3>2. t \in Seq(Plains) /\ Len(t) = (IF 1 <= j THEN j - 1 + 1 ELSE 0)
          /\ \A k \in 1..j - 1 + 1 : t[k] = plain[1 + k - 1]
      BY <2>2, <2>3, <3>1, SubSeqProperties
    <3>3. \A k \in 1..j : k \in 1..j - 1 + 1 /\ 1 + k - 1 = k
      BY <2>3
    <3>4. ASSUME NEW k \in 1..j PROVE t[k] = plain[k]
      <4>1. 1 + k - 1 = k /\ k \in 1..j - 1 + 1
        BY <3>3
      <4>2. t[k] = plain[1 + k - 1]
        BY ONLY <3>2, <4>1
      <4> QED BY ONLY <4>1, <4>2
    <3>5. Len(t) = j
      BY ONLY <2>3, <3>2
    <3> QED BY <3>2, <3>4, <3>5, Zenon
  <2>6. s = t
    BY <1>1, <1>2, <1>3, <2>4, <2>5, Same
  <2> QED BY <1>1, <1>2, <1>5, <2>1, <2>2, <2>3, <2>6 DEF IsStrictPrefix, IsPrefix
<1> QED BY <1>1, <1>4, <1>5

\* Bytes that end too early are a front of the stream.
LEMMA CutFront ==
  ASSUME NEW bytes, bytes \in Seq(Bytes), NEW cut, cut \in 0..Len(bytes)
  PROVE  IsFront(SubSeq(bytes, 1, cut), bytes) /\ Len(SubSeq(bytes, 1, cut)) = cut
<1>1. PICK s : s = SubSeq(bytes, 1, cut)
  OBVIOUS
<1>2. Len(bytes) \in Nat /\ cut \in Nat /\ cut <= Len(bytes)
  OBVIOUS
<1>3. \A k \in 1..cut : bytes[k] \in Bytes
  <2>1. \A k \in 1..cut : k \in 1..Len(bytes)
    BY <1>2
  <2> QED BY <2>1, ElementOfSeq
<1>4. s \in Seq(Bytes) /\ Len(s) = (IF 1 <= cut THEN cut - 1 + 1 ELSE 0)
      /\ \A k \in 1..cut - 1 + 1 : s[k] = bytes[1 + k - 1]
  BY <1>1, <1>2, <1>3, SubSeqProperties
<1>5. Len(s) = cut /\ \A k \in 1..cut : s[k] = bytes[k]
  BY <1>2, <1>4
<1> QED BY <1>1, <1>2, <1>4, <1>5 DEF IsFront

\* Unpacking a stream, whole or cut off, and the slots of a symbol in it.
LEMMA PackedKept ==
  ASSUME NEW p, IsPacking(p), NEW plain, plain = Plainly(p), NEW bytes, bytes = Packed(p)
  PROVE  /\ Unpack(bytes, p.rela) = plain /\ plain \in Seq(Plains) /\ bytes \in Seq(Bytes)
         /\ \A cut \in 0..(Len(bytes) - 1) :
              IsStrictPrefix(Unpack(SubSeq(bytes, 1, cut), p.rela), plain)
<1>1. PICK f : Charted(f, p.count, p) /\ plain = [i \in 1..p.count |-> f[i]]
  BY PlainlyGiven
<1>2. PICK c : IsWritten(c, p) /\ bytes = c[p.count]
  BY PackedGiven
<1>3. bytes \in Seq(Bytes) /\ Len(bytes) \in Nat
  <2>1. bytes \in Seq(Bytes)
    BY <1>2, PackingNumbers DEF IsWritten
  <2> QED BY <2>1
<1>4. Unpack(bytes, p.rela) = plain /\ plain \in Seq(Plains)
  <2>1. IsStream(p, c, f, bytes)
    BY <1>1, <1>2, <1>3 DEF IsStream, IsFront
  <2>2. PICK j \in 0..p.count : HasOut(Unpack(bytes, p.rela), f, j) /\ j = p.count
    BY <1>2, <2>1, UnpackIs
  <2> QED BY <1>1, <2>2, OutIs
<1>5. ASSUME NEW cut \in 0..(Len(bytes) - 1)
      PROVE  IsStrictPrefix(Unpack(SubSeq(bytes, 1, cut), p.rela), plain)
  <2>1. PICK s : s = SubSeq(bytes, 1, cut)
    OBVIOUS
  <2>2. cut \in 0..Len(bytes) /\ cut # Len(bytes)
    BY <1>3
  <2>3. IsFront(s, bytes) /\ Len(s) # Len(bytes)
    BY <1>3, <2>1, <2>2, CutFront
  <2>4. IsStream(p, c, f, s)
    BY <1>1, <1>2, <2>3 DEF IsStream
  <2>5. PICK j \in 0..p.count : HasOut(Unpack(s, p.rela), f, j) /\ j # p.count
    BY <1>2, <2>3, <2>4, UnpackIs
  <2> QED BY <1>1, <2>1, <2>5, OutIs
<1> QED BY <1>3, <1>4, <1>5

\* The iterator hands out the relocations that were packed, and no others: whatever the
\* groups and their flags, however many relocations, in words of any width. Of a stream
\* that ends too early, wherever that is, it hands out only first ones. The slots of a
\* symbol are the same whether its relocations are plain or packed
\* (xh_elf_sleb128_decode, xh_elf_packed_reloc_iterator, xh_elf_hook).
THEOREM PackedRelocations == Spec => []PackedAsPlain
<1>1. GivenInv => PackedAsPlain
  <2> SUFFICES ASSUME GivenInv, input.tag = "packed" PROVE PackedAsPlain
    BY DEF PackedAsPlain
  <2>1. PICK p, plain, bytes, empty :
          p = input.pack /\ plain = Plainly(p) /\ bytes = Packed(p) /\ empty = Encoded(0) \o Encoded(0)
    OBVIOUS
  <2>2. IsPacking(p)
    BY <2>1, Given, PackingAssumption DEF PackingAssumption
  <2>3. /\ Unpack(bytes, p.rela) = plain /\ plain \in Seq(Plains)
        /\ \A cut \in 0..(Len(bytes) - 1) :
             IsStrictPrefix(Unpack(SubSeq(bytes, 1, cut), p.rela), plain)
    BY <2>1, <2>2, PackedKept
  <2>4. ASSUME NEW i \in {r.info \div 4 : r \in ToSet(plain)}
        PROVE  /\ SlotOffsets(<<>>, <<>>, bytes, p.rela, i) = {r.offset : r \in SlotsAmong(plain, i)}
               /\ SlotOffsets(<<>>, plain, empty, p.rela, i) = {r.offset : r \in SlotsAmong(plain, i)}
    <3>1. i \in Nat
      <4>1. PICK r \in ToSet(plain) : i = r.info \div 4
        OBVIOUS
      <4>2. PICK k \in 1..Len(plain) : r = plain[k]
        BY <2>3, <4>1 DEF ToSet
      <4>3. r \in Plains
        BY <2>3, <4>2, ElementOfSeq
      <4>4. r.info \in Nat
        BY <4>3 DEF Plains
      <4> QED BY <4>1, <4>4
    <3>2. Unpack(empty, p.rela) = <<>>
      BY <2>1, UnpackNothing
    <3>3. ToSet(<<>>) = {}
      BY DEF ToSet
    <3>4. ToSet(<<>>) \cup ToSet(Unpack(bytes, p.rela)) = ToSet(plain)
      BY <2>3, <3>3
    <3>5. ToSet(plain) \cup ToSet(Unpack(empty, p.rela)) = ToSet(plain)
      BY <3>2, <3>3
    <3> QED BY <2>3, <3>1, <3>4, <3>5, SlotsOf
  <2> QED BY <2>1, <2>3, <2>4, Zenon DEF PackedAsPlain, SlotsAmong
<1> QED BY <1>1, GivenInit, GivenStep, PTL DEF Spec
=============================================================================
