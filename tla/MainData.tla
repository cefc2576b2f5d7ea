------------------------------ MODULE MainData ------------------------------
(***************************************************************************)
(* The main data of MP3 frames: what MP3Decode (mp3dec.c) does before it   *)
(* decodes a granule.  A frame carries nSlots bytes of main data behind    *)
(* its header and side information; decoding may start up to MaxBegin      *)
(* bytes earlier, in the "bit reservoir" that earlier frames have left in  *)
(* mainBuf.  mainBuf has MAINBUF_SIZE bytes and no test guards the copies. *)
(***************************************************************************)
EXTENDS Integers, Sequences

CONSTANTS
  Byte,           (* what a byte of main data may be                        *)
  MaxBegin,       (* the largest main_data_begin (2^9 - 1)                  *)
  MaxSlots,       (* the largest nSlots of a frame with a bitrate           *)
  MainBufSize     (* MAINBUF_SIZE                                           *)

ASSUME MainDataAssumption ==
  /\ MaxBegin \in Nat /\ MaxSlots \in Nat /\ MainBufSize \in Nat
  /\ MaxBegin + MaxSlots <= MainBufSize

VARIABLE mainBuf  (* mainBuf[0 .. mainDataBytes - 1]                        *)

-----------------------------------------------------------------------------
Suffix(s, n) == SubSeq(s, Len(s) - n + 1, Len(s))

\* (mutant: the reservoir is taken from the start of the buffer)
RefilledFromStart(buf, begin, new) ==
  IF Len(buf) >= begin THEN SubSeq(buf, 1, begin) \o new ELSE buf \o new

\* mainBuf after MP3Decode has added a frame: its last begin bytes are moved
\* to the front and the new bytes go behind them; without so many bytes the
\* new ones are only appended, and the frame cannot be decoded.
Refilled(buf, begin, new) ==
  IF Len(buf) >= begin THEN Suffix(buf, begin) \o new ELSE buf \o new

AddFrame(begin, new) == mainBuf' = Refilled(mainBuf, begin, new)

MainInit == mainBuf = <<>>

MainNext ==
  \E begin \in 0..MaxBegin, n \in 0..MaxSlots :
    \E new \in [1..n -> Byte] : AddFrame(begin, new)

MainSpec == MainInit /\ [][MainNext]_mainBuf

-----------------------------------------------------------------------------
\* No frame overruns mainBuf (mp3dec.c:348 and :356 copy without a test): the
\* reservoir that is kept, or that was too short, has at most MaxBegin bytes.
MainBufBound == mainBuf \in Seq(Byte) /\ Len(mainBuf) <= MainBufSize
=============================================================================
