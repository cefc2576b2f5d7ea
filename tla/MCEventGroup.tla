---------------------------- MODULE MCEventGroup ----------------------------
(***************************************************************************)
(* EventGroup for TLC: any threads set, clear and wait for any bits.       *)
(***************************************************************************)
EXTENDS EventGroup, TLC

\* The threads are interchangeable and every property is an invariant.
Symmetry == Permutations(Threads)
=============================================================================
