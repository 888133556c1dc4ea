---------------------------- MODULE MCXhRefresh -----------------------------
(* Instances of XhRefresh for TLC: two libraries, one of which imports a     *)
(* symbol through two slots, as .rel.plt and .rel.dyn do.                    *)
EXTENDS XhRefreshInv

MCSymbol  == [s \in {"open_plt", "open_got", "exit_plt"} |->
                IF s = "exit_plt" THEN "exit" ELSE "open"]
MCImports == [p \in {"liba", "libb"} |->
                IF p = "liba" THEN {"open_plt", "open_got"} ELSE {"open_plt", "exit_plt"}]

HookOf(s, f) == [regex |-> Paths, symbol |-> s, new |-> f]
IgnoreOf(p, s) == [regex |-> {p}, symbol |-> s]

\* One replacement for each symbol.
OneEach == {HookOf("open", "fopen"), HookOf("exit", "fexit")}

\* Two replacements for one symbol.
TwoOnOne == {HookOf("open", "fopen"), HookOf("open", "gopen")}

\* All of a library, and one symbol of it.
SomeIgnores == {IgnoreOf("libb", AllSyms), IgnoreOf("libb", "exit")}

\* Two replacements for one symbol, one for another.
AllThree == OneEach \cup TwoOnOne

\* All of a library.
LibIgnored == {IgnoreOf("libb", AllSyms)}

NoIgnores == {}
=============================================================================
