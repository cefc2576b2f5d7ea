------------------------------ MODULE MCHelix -------------------------------
(***************************************************************************)
(* Helix for TLC: a few headers and kinds of granules.                     *)
(***************************************************************************)
EXTENDS Helix

Ages == 0..20

MCHeaders ==
  {[ver |-> 1, chans |-> 1, ext |-> 0], [ver |-> 1, chans |-> 2, ext |-> 2],
   [ver |-> 2, chans |-> 2, ext |-> 1], [ver |-> 3, chans |-> 1, ext |-> 0]}

\* Blocks: the kind of window, the class of scale factors, the lines that
\* pairs and quads fill, and the bits of it all.
Block(switch, type, mixed, class, pairs, quads, bits) ==
  [switch |-> switch, type |-> type, mixed |-> mixed, class |-> class,
   slen |-> <<1, 0, 0, 0>>, part23 |-> bits, pairs |-> pairs,
   pairBits |-> IF pairs = 0 THEN 0 ELSE 1, quads |-> quads]

LeftBlocks ==
  {Block(FALSE, 0, FALSE, 1, 572, 4, 40),
   Block(TRUE, 1, TRUE, 3, 44, 4, 24), Block(TRUE, 2, FALSE, 1, 4, 0, 24),
   Block(TRUE, 2, TRUE, 3, 100, 0, 20), Block(TRUE, 0, FALSE, 1, 40, 0, 24)}
RightBlocks ==
  {Block(FALSE, 0, FALSE, 4, 0, 0, 24), Block(TRUE, 2, FALSE, 5, 40, 0, 24), Block(TRUE, 2, TRUE, 6, 20, 0, 5)}
MCSideInfo == [c \in Ch |-> IF c = 0 THEN LeftBlocks ELSE RightBlocks]
MCScfsi == {{}, {1, 3}}
=============================================================================
