------------------------------ MODULE MCStacks ------------------------------
(* Stacks with every chain of calls on small stacks, and every damaged one. *)
EXTENDS Stacks, TLC

CONSTANTS t1, t2, p1, p2, p3, s1, s2, s3

Return4(a) == <<"r", a>>

\* The records of a chain of calls at the given places, one after the other: each
\* FP is the place of the next, the last is 0.
ChainAt(places, lr(_)) ==
  [a \in SignalStack \cup ThreadStack |->
     LET later == {k \in 1..Len(places) : k > 1 /\ places[k - 1] = a}
     IN [fp |-> IF later = {} THEN 0 ELSE places[CHOOSE k \in later : TRUE], lr |-> lr(a)]]

Up(S) == SetToSortSeq(S, <)

\* Chains through places A of the signal stack, the signal frame of which is at the
\* given one, and B of the thread's.
WholeOf(A, B, sig, context) ==
  LET lr(a) == IF a = sig THEN Sigreturn ELSE IF a = ThreadHigh - 1 THEN Null ELSE Return4(a)
      start == Up(A) \o Up(B)
      frame(a) == IF a = sig THEN Exactly(lr(a)) ELSE Before(lr(a))
      walked == IF context THEN Up(B) ELSE start
  IN [call |-> [onSignal |-> A # {}, context |-> context, fp |-> Head(walked)],
      at |-> ChainAt(start, lr), whole |-> TRUE,
      callers |-> (IF context THEN <<Exactly("pc")>> ELSE <<>>) \o [k \in 1..Len(walked) |-> frame(walked[k])]]

Whole == UNION {{WholeOf(A, B, sig, context) : sig \in A \cup {0}, context \in BOOLEAN} :
                  A \in SUBSET SignalStack, B \in SUBSET ThreadStack \ {{}}}

\* The FP in one record of a chain overwritten.
Damaged1(m) == {[m EXCEPT !.whole = FALSE, !.at[x].fp = f] :
                  x \in DOMAIN m.at, f \in 0..(ThreadHigh + 1) \cup {Odd}}

AllMemories == Whole \cup UNION {Damaged1(m) : m \in Whole}
=============================================================================
