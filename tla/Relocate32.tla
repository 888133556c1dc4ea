----------------------------- MODULE Relocate32 -----------------------------
(***************************************************************************)
(* inline32/relocate.c: the first instructions of a function are rewritten *)
(* so that they do the same from a trampoline page, and the offset each    *)
(* one has in the function and in the trampoline is recorded.              *)
(*                                                                         *)
(* A cell is a halfword of Thumb code or a word of ARM code, and addresses *)
(* count cells, so the PC operand is two cells ahead in both modes.  An    *)
(* instruction is its kind, the label its immediate stands for (cells from *)
(* the PC operand) and whether it is conditional; the label of ADR in ARM  *)
(* code is the 12 bits of its immediate as they are, negative where they    *)
(* are subtracted, and gives bytes.  Register numbers and other bit         *)
(* patterns are left out, and so are ADR.W, whose immediate the code        *)
(* shifts out of the word, and the table branches TBB and TBH.              *)
(***************************************************************************)
EXTENDS Integers, Sequences, FiniteSets

Thumb16 == {"B1_THUMB16", "B2_THUMB16", "BX_THUMB16", "ADD_THUMB16", "MOV_THUMB16",
            "ADR_THUMB16", "LDR_THUMB16", "CB_THUMB16", "OTHER_THUMB16"}
Thumb32 == {"BLX_THUMB32", "BL_THUMB32", "B1_THUMB32", "B2_THUMB32",
            "LDR_THUMB32", "OTHER_THUMB32"}
Arm     == {"BLX_ARM", "BL_ARM", "B_ARM", "BX_ARM", "ADD_ARM", "ADR_ARM",
            "MOV_ARM", "LDR_ARM", "OTHER_ARM"}

Instruction == [kind : Thumb16 \cup Thumb32 \cup Arm, label : Int, cond : BOOLEAN]

\* Where execution continues: an address and the instruction set.
Place(a, thumb) == <<"place", a, thumb>>

AlignPc(pc) == pc - (pc % 2)

-----------------------------------------------------------------------------
(* What is emitted: a cell holds an instruction or one half of a literal.   *)

Op(name, n) == [op |-> name, arg |-> n]

Lone(name) == <<Op(name, 0)>>

\* LDR PC from the literal that follows it: LDR.W PC, [PC] or LDR PC, [PC, #-4].
ThumbJump(v) == <<Op("ldr_pc", 0), Op("wide", 0), Op("word", v), Op("high", v)>>
ArmJump(v)   == <<Op("ldr_pc", -1), Op("word", v)>>

Literal(v) == <<Op("word", v), Op("high", v)>>

\* Mutant: the branch ends on the literal.
ConditionalShort(jump) == Lone("cond") \o <<Op("skip", 2)>> \o jump

\* The condition jumps over a branch that jumps over the long jump.
Conditional(jump) == Lone("cond") \o <<Op("skip", 3)>> \o jump

\* relocateInstructionInThumb16; B<c> and CB{N}Z keep their condition, BX PC stays
\* in Thumb code, and ADR shifts the sum of PC and immediate, not the immediate.
EmitThumb16(i, pc) ==
  [ B1_THUMB16    |-> Conditional(ThumbJump(Place(pc + i.label, TRUE))),
    B2_THUMB16    |-> ThumbJump(Place(pc + i.label, TRUE)),
    BX_THUMB16    |-> ThumbJump(Place(pc, TRUE)),
    ADD_THUMB16   |-> Lone("push") \o <<Op("ldr", 4)>> \o Lone("copy") \o Lone("pop")
                        \o <<Op("skip", 2)>> \o Lone("nop") \o Literal(pc),
    MOV_THUMB16   |-> <<Op("ldr", 0), Op("skip", 1)>> \o Literal(pc),
    ADR_THUMB16   |-> <<Op("ldr", 0), Op("skip", 1)>> \o Literal(4 * AlignPc(pc) + i.label),
    LDR_THUMB16   |-> <<Op("ldr", 0), Op("skip", 1)>> \o Literal(AlignPc(pc) + i.label),
    CB_THUMB16    |-> Conditional(ThumbJump(Place(pc + i.label, TRUE))),
    OTHER_THUMB16 |-> Lone("copy") \o Lone("nop") ][i.kind]

\* relocateInstructionInThumb32; every label is taken from the aligned PC.
EmitThumb32(i, pc) ==
  LET label == AlignPc(pc) + i.label
      link  == <<Op("set_lr", 4), Op("wide", 0)>>
  IN [ BLX_THUMB32   |-> link \o ThumbJump(Place(label, FALSE)),
       BL_THUMB32    |-> link \o ThumbJump(Place(label, TRUE)),
       B1_THUMB32    |-> Conditional(ThumbJump(Place(label, TRUE))),
       B2_THUMB32    |-> ThumbJump(Place(label, TRUE)),
       LDR_THUMB32   |-> <<Op("ldr", 2), Op("wide", 0)>> \o Lone("nop")
                           \o <<Op("skip", 1)>> \o Literal(label),
       OTHER_THUMB32 |-> Lone("copy") \o Lone("wide") ][i.kind]

\* The branch of relocateInstructionInArm's loop; the condition of a branch is not kept,
\* and the 12 bits of an ADR are added to the PC without their rotation.
EmitArm(i, pc) ==
  LET label == pc + i.label
      link  == <<Op("set_lr", 1)>>
      load(v) == <<Op("ldr", 0), Op("skip", 0), Op("word", v)>>
  IN [ BLX_ARM   |-> link \o ArmJump(Place(label, TRUE)),
       BL_ARM    |-> link \o ArmJump(Place(label, FALSE)),
       B_ARM     |-> ArmJump(Place(label, FALSE)),
       BX_ARM    |-> ArmJump(Place(pc, FALSE)),
       ADD_ARM   |-> Lone("push") \o <<Op("ldr", 2)>> \o Lone("copy") \o Lone("pop")
                       \o <<Op("skip", 0), Op("word", pc)>>,
       ADR_ARM   |-> load(4 * pc + i.label),
       MOV_ARM   |-> load(pc),
       LDR_ARM   |-> load(label),
       OTHER_ARM |-> Lone("copy") ][i.kind]

Emit(i, pc) ==
  IF i.kind \in Thumb16 THEN EmitThumb16(i, pc)
  ELSE IF i.kind \in Thumb32 THEN EmitThumb32(i, pc) ELSE EmitArm(i, pc)

-----------------------------------------------------------------------------
(* The window: code is [thumb, base, instrs]; its first Length cells are    *)
(* relocated.                                                               *)

\* Mutant: as many bytes as an aligned jump takes.
LengthShort(code) == IF code.thumb THEN 4 ELSE 2

Length(code) == IF code.thumb THEN 6 ELSE 2

Width(kind) == IF kind \in Thumb32 THEN 2 ELSE 1

\* Start(code)[i]: the cell at which instruction i starts.
Start(code) ==
  LET f[i \in 1..Len(code.instrs) + 1] ==
        IF i = 1 THEN 0 ELSE f[i - 1] + Width(code.instrs[i - 1].kind)
  IN f

\* The instructions whose boundary is recorded, and those that are emitted: a
\* 32-bit instruction that sticks out of the window ends the loop in between.
Recorded(code) ==
  Cardinality({i \in 1..Len(code.instrs) : Start(code)[i] < Length(code)})
Relocated(code) ==
  Cardinality({i \in 1..Len(code.instrs) : Start(code)[i + 1] <= Length(code)})

Emitted(code, i) ==
  Emit(code.instrs[i], code.base + Start(code)[i] + 2)

\* At(code)[i]: the cell of the trampoline at which instruction i starts; the
\* one after the last is where the jump back starts.
At(code) ==
  LET f[i \in 1..Relocated(code) + 1] ==
        IF i = 1 THEN 0 ELSE f[i - 1] + Len(Emitted(code, i - 1))
  IN f

\* The first instruction that stays in the function: lr of the two loops.
Back(code) == Start(code)[Relocated(code) + 1]

\* The trampoline as a whole.
Trampoline(code) ==
  LET f[i \in 0..Relocated(code)] ==
        IF i = 0 THEN <<>> ELSE f[i - 1] \o Emitted(code, i)
      back == Place(code.base + Back(code), code.thumb)
  IN f[Relocated(code)] \o (IF code.thumb THEN ThumbJump(back) ELSE ArmJump(back))

\* The jump written over the function: with a leading NOP when the function is
\* not word aligned, and from which cell on it jumps.
PatchLength(code) == IF ~code.thumb THEN 2 ELSE IF code.base % 2 = 1 THEN 5 ELSE 4
JumpAt(code)      == IF code.thumb /\ code.base % 2 = 1 THEN 1 ELSE 0

-----------------------------------------------------------------------------
(* Running it.  A result says where control goes, what LR and the           *)
(* destination register hold if they were written, and whether the scratch  *)
(* register is as it was.                                                    *)

Next1 == <<"next">>
Lost  == <<"lost">>
Kept  == <<>>
Result(to, lr, reg) == [to |-> to, lr |-> lr, reg |-> reg, scratch |-> Kept]

Branches == {"B1_THUMB16", "B2_THUMB16", "BX_THUMB16", "CB_THUMB16", "BLX_THUMB32", "BL_THUMB32",
             "B1_THUMB32", "B2_THUMB32", "BLX_ARM", "BL_ARM", "B_ARM", "BX_ARM"}
Links    == {"BLX_THUMB32", "BL_THUMB32", "BLX_ARM", "BL_ARM"}

\* The kinds that exist with a condition; in Thumb code the others take theirs
\* from an IT block, which is left out.
MayBeConditional ==
  {"B1_THUMB16", "CB_THUMB16", "B1_THUMB32"} \cup (Arm \ {"BLX_ARM"})

Switches == {"BX_THUMB16", "BLX_THUMB32", "BLX_ARM"}

\* What the 12 bits of an immediate stand for in ARM code: the lower 8, rotated right in
\* a word by twice the upper 4.
Rotated(bits) ==
  LET turns == bits \div 256
      low   == bits % 256
  IN IF turns = 0 THEN low
     ELSE low \div 4 ^ turns + (low % 4 ^ turns) * 4 ^ (16 - turns)

Expanded(label) == IF label < 0 THEN -Rotated(-label) ELSE Rotated(label)

\* Whether the condition of the instruction may hold and may fail.
Taken(i) == IF i.cond THEN {TRUE, FALSE} ELSE {TRUE}

\* A reference: what the instruction does in place, by the instruction set.
\* Only literals and the branches to ARM code align the PC.
InPlace(code, i, taken) ==
  LET ins   == code.instrs[i]
      pc    == code.base + Start(code)[i] + 2
      from  == IF ins.kind \in {"BX_THUMB16", "ADR_THUMB16", "LDR_THUMB16",
                                "LDR_THUMB32", "BLX_THUMB32"}
                 THEN AlignPc(pc) ELSE pc
      label == IF ins.kind \in {"BX_THUMB16", "BX_ARM"} THEN from
               ELSE IF ins.kind = "ADR_ARM" THEN 4 * from + Expanded(ins.label)
               ELSE from + ins.label
      mode  == code.thumb # (ins.kind \in Switches)
  IN IF ~taken THEN Result(Next1, Kept, Kept)
     ELSE IF ins.kind \in Branches
       THEN Result(Place(label, mode), IF ins.kind \in Links THEN Next1 ELSE Kept, Kept)
       ELSE Result(Next1, Kept,
              IF ins.kind \in {"ADD_THUMB16", "ADD_ARM"} THEN <<"plus", pc>>
              ELSE IF ins.kind \in {"MOV_THUMB16", "MOV_ARM"} THEN <<"value", pc>>
              ELSE IF ins.kind \in {"OTHER_THUMB16", "OTHER_THUMB32", "OTHER_ARM"}
                THEN <<"done">>
              ELSE <<"value", label>>)

\* The place lies in the function behind the start of the jump written over it.
Overwritten(code, place) ==
  \E k \in 1..PatchLength(code) - 1 : place = Place(code.base + k, code.thumb)

\* The cell a PC-relative load at cell c reads.
LiteralAt(code, c, n) == (IF code.thumb THEN AlignPc(c + 2) ELSE c + 2) + n

\* Running instruction i of the trampoline, which fills the cells from first to
\* last - 1, step by step: the cell control is at, 0 when it has left, what was
\* written, and whether the scratch register is on the stack.
EnterAt(first) ==
  [c |-> first, to |-> Next1, lr |-> Kept, reg |-> Kept, scratch |-> Kept, pushed |-> FALSE]

Control(s, c) == [s EXCEPT !.c = c]
Leave(s, to) == [s EXCEPT !.c = 0, !.to = to]
Fail == Leave(EnterAt(0), Lost)

\* A literal fills two halfwords of Thumb code.
Readable(code, mem, c) ==
  /\ c \in DOMAIN mem /\ mem[c].op = "word"
  /\ code.thumb => c + 1 \in DOMAIN mem /\ mem[c + 1] = Op("high", mem[c].arg)

Behind32(mem, c) == IF c + 1 \in DOMAIN mem /\ mem[c + 1].op = "wide" THEN c + 2 ELSE c + 1

\* What a copied instruction leaves in the destination register: it reads the scratch
\* register in place of PC if that was loaded.
Copied(scratch) == IF scratch = Kept THEN <<"done">> ELSE <<"plus", scratch[1]>>

RunStep(code, mem, first, last, taken, s) ==
  LET cell == mem[s.c]
      at   == LiteralAt(code, s.c - 1, cell.arg) + 1
      next == Behind32(mem, s.c)
  IN IF s.c = last \/ s.c = 0 THEN s
     ELSE IF s.c \notin DOMAIN mem \/ s.c < first \/ s.c > last THEN Fail
     ELSE CASE cell.op = "nop"  -> Control(s, s.c + 1)
            [] cell.op = "skip" -> Control(s, s.c + 2 + cell.arg)
            [] cell.op = "cond" -> Control(s, IF taken THEN s.c + 2 ELSE s.c + 1)
            [] cell.op = "push" -> [s EXCEPT !.c = s.c + 1, !.pushed = TRUE]
            [] cell.op = "pop"  -> [s EXCEPT !.c = s.c + 1, !.pushed = FALSE, !.scratch = Kept]
            [] cell.op = "copy" ->
                 [s EXCEPT !.c = next, !.reg = IF taken THEN Copied(s.scratch) ELSE Kept]
            [] cell.op = "set_lr" -> [s EXCEPT !.c = next, !.lr = IF at = last THEN Next1 ELSE Lost]
            [] cell.op = "ldr" /\ Readable(code, mem, at) ->
                 IF s.pushed THEN [s EXCEPT !.c = next, !.scratch = <<mem[at].arg>>]
                 ELSE [s EXCEPT !.c = next, !.reg = <<"value", mem[at].arg>>]
            [] cell.op = "ldr_pc" /\ Readable(code, mem, at) ->
                 Leave(s, IF Overwritten(code, mem[at].arg) THEN Lost ELSE mem[at].arg)
            [] OTHER -> Fail

\* From instruction i of the trampoline until the next one or until it is left. The
\* trampoline is page aligned; "lost" is the execution of a literal or of half an
\* instruction, the load of something that is no literal, or a branch into the
\* overwritten part of the function. Control only moves forwards: one step for each
\* cell, and one to be lost in.
OutOfPlace(code, i, taken) ==
  LET mem   == Trampoline(code)
      first == At(code)[i] + 1
      last  == At(code)[i + 1] + 1
      run[k \in 0..last - first + 1] ==
        IF k = 0 THEN EnterAt(first) ELSE RunStep(code, mem, first, last, taken, run[k - 1])
      end   == run[last - first + 1]
  IN [to |-> end.to, lr |-> end.lr, reg |-> end.reg, scratch |-> end.scratch]
=============================================================================
