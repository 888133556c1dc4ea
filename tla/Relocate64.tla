----------------------------- MODULE Relocate64 -----------------------------
(* Relocation of ARM64 instructions into a trampoline: __fix_instructions of *)
(* And64InlineHook.cpp. Addresses count words. A window is                   *)
(*   [base, tramp, instrs]: the function, the trampoline, and the            *)
(*   instructions that are overwritten, each [kind, label]: the word it      *)
(*   refers to.                                                              *)
EXTENDS Integers, Sequences, FiniteSetsExt

Branches64 == {"B", "BL"}
Conditional64 == {"COND", "TEST"}           \* B.c, CBZ, CBNZ and TBZ, TBNZ
\* LDR Wt or St, Xt, Xt signed, Dt, Qt.
Loads64 == {"LDR4", "LDR8", "LDRSW", "LDRD", "LDR16"}
Kinds64 == Branches64 \cup Conditional64 \cup Loads64 \cup {"PRFM", "ADR", "ADRP", "OTHER"}

Abs(n) == IF n < 0 THEN -n ELSE n

\* How far the offset of each kind reaches, in words; ADR counts bytes.
Reach(kind) == CASE kind \in Branches64 -> 2^25 - 1
                 [] kind = "COND" \/ kind \in Loads64 -> 2^18 - 1
                 [] kind = "TEST" -> 2^13 - 1
                 [] kind = "ADR" -> (2^20 - 1) \div 4

\* What is added to an offset that the code does not sign-extend: it comes from a
\* field of 19 or 14 bits, or from a 32-bit number of bytes.
Wrap(kind) == CASE kind \in Branches64 -> 0
                [] kind = "COND" -> 2^19
                [] kind = "TEST" -> 2^14
                [] OTHER -> 2^30

InRange(w, to) == w.base <= to /\ to < w.base + Len(w.instrs)
Index(w, to) == to - w.base + 1

\* The word the code takes instruction i to refer to (absolute_addr).
Absolute64(w, i) ==
  LET ins == w.instrs[i]
  IN IF ins.label < w.base + i - 1 THEN ins.label + Wrap(ins.kind) ELSE ins.label

\* What an instruction becomes: a word or a group of words, with NOPs in front. "to" is
\* an address, or idx the number of the instruction whose place in the trampoline is
\* meant.
Emit64(op, to) == [op |-> op, to |-> to, idx |-> 0, nops |-> 0]
EmitTo(op, j) == [op |-> op, to |-> 0, idx |-> j, nops |-> 0]
Behind(k, e) == [e EXCEPT !.nops = k]
Size(e) == CASE e.op = "none" -> 0 [] e.op = "far" -> 4 [] e.op = "far_link" -> 5
             [] e.op = "far_cond" -> 6 [] e.op = "data4" -> 3 [] e.op = "data8" -> 4
             [] e.op = "data16" -> 6 [] e.op = "far_adr" -> 4 [] OTHER -> 1
Words(e) == e.nops + Size(e)

\* A NOP in front unless the 64-bit constant behind "ahead" words is aligned.
Aligned(out, ahead, e) == Behind((out + ahead) % 2, e)

\* __fix_branch_imm: a branch out of reach becomes an indirect one.
FixBranch(w, i, out) ==
  LET kind == w.instrs[i].kind
      to == Absolute64(w, i)
      near == IF kind = "B" THEN "b" ELSE "bl"
  IN IF InRange(w, to) THEN EmitTo(near, Index(w, to))
     ELSE IF Abs(to - out) >= Reach(kind)
     THEN IF kind = "B" THEN Aligned(out, 2, Emit64("far", to))
          ELSE Aligned(out, 3, Emit64("far_link", to))
     ELSE Emit64(near, to)

\* Mutant: the reach is that of 19 bits for every kind.
FixConditional19(w, i, out) ==
  LET to == Absolute64(w, i)
  IN IF InRange(w, to) THEN EmitTo("cond", Index(w, to))
     ELSE IF Abs(to - out) >= Reach("COND")
     THEN Aligned(out, 4, Emit64("far_cond", to))
     ELSE Emit64("cond", to)

\* __fix_cond_comp_test_branch
FixConditional(w, i, out) ==
  LET to == Absolute64(w, i)
  IN IF InRange(w, to) THEN EmitTo("cond", Index(w, to))
     ELSE IF Abs(to - out) >= Reach(w.instrs[i].kind)
     THEN Aligned(out, 4, Emit64("far_cond", to))
     ELSE Emit64("cond", to)

\* The words of a literal, for its alignment and its copy (faligned).
LiteralWords(kind) == CASE kind = "LDR4" -> 1 [] kind \in {"LDR8", "LDRSW", "LDRD"} -> 2
                        [] kind = "LDR16" -> 4

\* __fix_loadlit: a literal out of reach, or in the window, is copied behind the load.
\* The fewest NOPs in front align it.
FixLoad(w, i, out) ==
  LET to == Absolute64(w, i)
      n == LiteralWords(w.instrs[i].kind)
      copied == InRange(w, to) \/ Abs(to - out) + n - 1 >= Reach("LDR8")
      pad == IF copied THEN Min({k \in 0..3 : (out + k + 2) % n = 0})
             ELSE Min({k \in 0..3 : (to - out - k) % n = 0})
      op == IF ~copied THEN "load"
            ELSE CASE n = 1 -> "data4" [] n = 2 -> "data8" [] n = 4 -> "data16"
  IN Behind(pad, Emit64(op, to))

\* __fix_pcreladdr
FixAddress(w, i, out) ==
  LET to == Absolute64(w, i)
  IN IF w.instrs[i].kind = "ADRP"
     THEN IF InRange(w, to) THEN Emit64("copy", i) ELSE Aligned(out, 2, Emit64("far_adr", to))
     ELSE IF InRange(w, to) THEN EmitTo("adr", Index(w, to))
     ELSE IF Abs(to - out) > Reach("ADR") THEN Aligned(out, 2, Emit64("far_adr", to))
     ELSE Emit64("adr", to)

\* One instruction, relocated to out.
Fix(w, i, out) ==
  LET kind == w.instrs[i].kind
  IN CASE kind \in Branches64 -> FixBranch(w, i, out)
       [] kind \in Conditional64 -> FixConditional(w, i, out)
       [] kind = "PRFM" -> Emit64("none", 0)
       [] kind \in Loads64 -> FixLoad(w, i, out)
       [] kind \in {"ADR", "ADRP"} -> FixAddress(w, i, out)
       [] kind = "OTHER" -> Emit64("copy", i)

\* Outs(w)[i]: the word from which on instruction i is emitted (outp); the one after
\* the last is where the jump back is.
Outs(w) ==
  LET f[i \in 1..Len(w.instrs) + 1] ==
        IF i = 1 THEN w.tramp
        ELSE LET before == f[i - 1] IN before + Words(Fix(w, i - 1, before))
  IN f

\* What instruction i becomes, and its own place, behind the NOPs (reset_current_ins).
Fixed(w, i) == Fix(w, i, Outs(w)[i])
FixedAt(w, i) == Outs(w)[i] + Fixed(w, i).nops

\* The jump back (the end of __fix_instructions).
Callback(w) == w.base + Len(w.instrs)
JumpBack(w, out) == IF Abs(Callback(w) - out) >= 2^25 - 1
                    THEN Aligned(out, 2, Emit64("far", Callback(w)))
                    ELSE Emit64("b", Callback(w))

\* Words of the whole trampoline.
TrampolineWords(w) == LET out == Outs(w)[Len(w.instrs) + 1]
                      IN out - w.tramp + Words(JumpBack(w, out))
Room == 50  \* A64_MAX_INSTRUCTIONS * 10

-----------------------------------------------------------------------------
(* Meaning: the branch target and link register, or the address a load or ADR *)
(* uses; an address in the window stands for the instruction there.           *)

Falls == [to |-> "next", link |-> FALSE, refers |-> 0]
Damaged == [to |-> "unknown", link |-> FALSE, refers |-> 0]
Goes(to, link) == [to |-> to, link |-> link, refers |-> 0]
Refers(address) == [to |-> "next", link |-> FALSE, refers |-> address]

InPlace64(w, i, taken) ==
  LET ins == w.instrs[i]
  IN CASE ins.kind \in Branches64 -> Goes(<<ins.label>>, ins.kind = "BL")
       [] ins.kind \in Conditional64 -> IF taken THEN Goes(<<ins.label>>, FALSE) ELSE Falls
       [] ins.kind \in {"OTHER", "PRFM"} -> Falls
       [] OTHER -> Refers(ins.label)

\* The record e in the trampoline.
Destination(w, e) == IF e.idx = 0 THEN e.to ELSE w.base + e.idx - 1

Runs(w, e, taken) ==
  LET to == Destination(w, e)
  IN CASE e.op \in {"b", "far"} -> Goes(<<to>>, FALSE)
       [] e.op \in {"bl", "far_link"} -> Goes(<<to>>, TRUE)
       [] e.op \in {"cond", "far_cond"} -> IF taken THEN Goes(<<to>>, FALSE) ELSE Falls
       [] e.op \in {"load", "data4", "data8", "data16", "adr", "far_adr"} -> Refers(to)
       [] OTHER -> Falls

\* A literal in front of the trampoline sets the size bits of the load that
\* finds it there, all but those of LDR Xt and LDRSW.
OutOfPlace64(w, i, taken) ==
  LET e == Fixed(w, i)
  IN IF e.op = "load" /\ e.to < FixedAt(w, i) /\ w.instrs[i].kind \notin {"LDR8", "LDRSW"}
     THEN Damaged
     ELSE Runs(w, e, taken)

\* Every offset that is emitted fits its field: of a short branch, load or ADR.
FieldReach(kind) == CASE kind \in Branches64 -> 2^25 [] kind = "TEST" -> 2^13
                      [] kind = "ADR" -> 2^18 [] OTHER -> 2^18

OffsetFits(w, i) ==
  LET e == Fixed(w, i)
      to == IF e.idx = 0 THEN e.to ELSE FixedAt(w, e.idx)
      reach == FieldReach(w.instrs[i].kind)
  IN e.op \in {"b", "bl", "cond", "load", "adr"} =>
       -reach <= to - FixedAt(w, i) /\ to - FixedAt(w, i) < reach

\* The words A64HookFunctionV relocates and writes its jump over: it loads the
\* address of the proxy from an aligned word, or branches to it.
IsFar(base, replace) == Abs(replace - base) >= Reach("B")
Overwrites(base, replace) ==
  IF IsFar(base, replace) THEN (IF base % 2 = 0 THEN 4 ELSE 5) ELSE 1
=============================================================================
