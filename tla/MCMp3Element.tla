---------------------------- MODULE MCMp3Element ----------------------------
(***************************************************************************)
(* Mp3Element for TLC: a window of two to three frames, and streams that   *)
(* start in reach of it or not, with a constant bitrate, a falling one, and *)
(* one that rises within what process takes a frame to need or beyond it.  *)
(***************************************************************************)
EXTENDS Mp3Element

Some(tag, ver, sizes, pads, cut) ==
  [tag |-> tag, ver |-> ver, sizes |-> sizes, pads |-> pads, cut |-> cut]

MCStreams ==
  {Some(0, 1, <<4, 4, 4, 4>>, <<0, 1, 0, 0>>, 0), Some(2, 1, <<5, 5, 5>>, <<1, 0, 1>>, 1),
   Some(5, 1, <<5, 4>>, <<0, 0>>, 0), Some(0, 2, <<6, 9, 8>>, <<0, 0, 1>>, 0),
   Some(7, 1, <<5, 5>>, <<0, 0>>, 3), Some(1, 1, <<7, 7>>, <<0, 1>>, 0),
   Some(0, 1, <<3, 6, 4>>, <<0, 0, 0>>, 0)}
=============================================================================
