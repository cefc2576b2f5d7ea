----------------------------- MODULE MCLogCache -----------------------------
(***************************************************************************)
(* LogCache with a heap of three levels, one tag more than it holds, and   *)
(* one text, that of tag "t1", whose level is set.                         *)
(***************************************************************************)
EXTENDS LogCache, TLC

CONSTANTS t1, t2, t3, others
Tags == {t1, t2, t3} \cup others
TextOf == [t \in Tags |-> t]
Sym == Permutations(others)
=============================================================================
