----------------------------- MODULE ByteStream -----------------------------
(***************************************************************************)
(* What a ring buffer of libaudio_pipeline promises to the two elements    *)
(* it links: a bounded stream of bytes that are delivered once each, in    *)
(* the order they were written, and an end-of-stream report that comes     *)
(* only after the writer has closed the stream and fewer than Slack bytes  *)
(* are left in it.                                                         *)
(*                                                                         *)
(* A byte is represented by its position in the stream (the first byte     *)
(* written after a reset is 1): the code moves bytes without looking at    *)
(* them, and positions tell any two of them apart.                         *)
(***************************************************************************)
EXTENDS Integers

CONSTANTS
  Capacity,   (* how many bytes the stream may hold *)
  Slack       (* an end of stream leaves fewer than this many bytes unread *)

VARIABLES
  sent,       (* bytes accepted from the writer since the last reset       *)
  taken,      (* bytes handed to the reader since the last reset           *)
  received,   (* the bytes handed to the reader, in order                  *)
  closed,     (* the writer has announced that it is done                  *)
  ended       (* the reader's last call reported the end of the stream     *)

streamVars == <<sent, taken, received, closed, ended>>

Init ==
  /\ sent = 0
  /\ taken = 0
  /\ received = [i \in 1..0 |-> 0]
  /\ closed = FALSE
  /\ ended = FALSE

\* The stream accepts n more bytes.
Put(n) ==
  /\ sent + n - taken <= Capacity
  /\ sent' = sent + n
  /\ UNCHANGED <<taken, received, closed, ended>>

\* The reader gets the next n bytes.
Take(n) ==
  /\ taken + n <= sent
  /\ taken' = taken + n
  /\ received' = [i \in 1..(taken + n) |-> i]
  /\ UNCHANGED <<sent, closed, ended>>

Close ==
  /\ closed' = TRUE
  /\ UNCHANGED <<sent, taken, received, ended>>

\* The reader is told that the stream is over.
End ==
  /\ closed
  /\ sent - taken < Slack
  /\ ended' = TRUE
  /\ UNCHANGED <<sent, taken, received, closed>>

\* The reader starts another call.
Resume ==
  /\ ended' = FALSE
  /\ UNCHANGED <<sent, taken, received, closed>>

\* A new stream begins.
Clear ==
  /\ sent' = 0
  /\ taken' = 0
  /\ received' = [i \in 1..0 |-> 0]
  /\ closed' = FALSE
  /\ ended' = FALSE

Next ==
  \/ \E n \in 1..Capacity : Put(n) \/ Take(n)
  \/ Close \/ End \/ Resume \/ Clear

Spec == Init /\ [][Next]_streamVars
=============================================================================
