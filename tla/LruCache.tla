------------------------------ MODULE LruCache ------------------------------
(***************************************************************************)
(* What the cache of log tags promises (log.c, "Log library implementation *)
(* notes"): at most Size tags, and when there is no room the tag leaves    *)
(* that was looked up longest ago.  A hit counts as use only from the time *)
(* the cache is full.                                                      *)
(***************************************************************************)
EXTENDS Naturals, Sequences, SequencesExt

CONSTANTS Tag, Size

VARIABLE recency    (* the cached tags, the one to be replaced first        *)

Init == recency = <<>>

Hit(t) ==
  /\ Contains(recency, t)
  /\ recency' = IF Len(recency) = Size THEN Append(Remove(recency, t), t) ELSE recency

Miss(t) ==
  /\ ~Contains(recency, t)
  /\ recency' = Append(IF Len(recency) = Size THEN Tail(recency) ELSE recency, t)

Clear == recency' = <<>>

Next == Clear \/ \E t \in Tag : Hit(t) \/ Miss(t)

Spec == Init /\ [][Next]_recency
=============================================================================
