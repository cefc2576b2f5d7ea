--------------------------- MODULE MCPipelineLink ---------------------------
(***************************************************************************)
(* PipelineLink with three elements: chains of one, two and three, and     *)
(* elements to spare; three buffer addresses, two for the longest chain    *)
(* and one for what is kept or left over.  Elements and addresses are      *)
(* interchangeable.                                                        *)
(***************************************************************************)
EXTENDS PipelineLink, TLC

Sym == Permutations(Rb) \cup Permutations(El)
=============================================================================
