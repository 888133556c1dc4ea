--------------------------- MODULE MCInlineHook32 ---------------------------
(* Instances of InlineHook32 for TLC.                                        *)
EXTENDS InlineHook32Inv

Ins(kind) == [kind |-> kind, label |-> 6, cond |-> FALSE]

\* ARM code that calls a function.
CallFn == [thumb |-> FALSE, base |-> 0, instrs |-> <<Ins("OTHER_ARM"), Ins("BL_ARM")>>]

\* Thumb code at an address that is not word aligned: four boundaries, the last
\* instruction sticks out of the window.
ThumbFn == [thumb |-> TRUE, base |-> 1,
            instrs |-> <<Ins("OTHER_THUMB16"), Ins("LDR_THUMB32"), Ins("LDR_THUMB32"),
                         Ins("OTHER_THUMB32")>>]

CallAndThumb == [t \in {"f", "g"} |-> IF t = "f" THEN CallFn ELSE ThumbFn]

\* ARM code of two loads that grow.
LoadFn == [thumb |-> FALSE, base |-> 0, instrs |-> <<Ins("LDR_ARM"), Ins("MOV_ARM")>>]
OnlyLoads == [t \in {"f"} |-> LoadFn]

AllFaults == Faults

\* Every thread can be stopped.
AllStop == Faults \ {"fork", "attach"}
=============================================================================
