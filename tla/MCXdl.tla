------------------------------- MODULE MCXdl --------------------------------
(* xDL with one library besides the dynamic linker that may come and go: its *)
(* symbol is only in the .symtab of its .gnu_debugdata.                      *)
EXTENDS Xdl, TLC

CONSTANTS t1, t2, s0, s1, linker, lib, h1, h2, h3

SectionsOf == linker :> <<"symtab">> @@ lib :> <<"debugdata">>

\* One thread looks functions up by name, the other names return addresses.
MayDo == t1 :> {"open", "sym", "dsym", "close"} @@ t2 :> {"addr", "clean"}

AllApis == {"maps", "locked", "hidden", "listed"}
=============================================================================
