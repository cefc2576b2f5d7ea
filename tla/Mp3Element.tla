----------------------------- MODULE Mp3Element -----------------------------
(***************************************************************************)
(* The MP3 element (mp3_decode.c): it reads a stream into the element's    *)
(* buffer, looks for frames, gives them to the decoder and keeps what is   *)
(* left for the next call of process.  How much is left is a static        *)
(* variable: it outlives the stream, and the element.                      *)
(*                                                                         *)
(* A byte is a cell <<frame, index, length, size>>: index 1 is the 0xFF and *)
(* index 2 the second byte of a header, which tells the length of the      *)
(* frame and the size process computes from its bitrate; <<0, 0, 0, 0>> is *)
(* any byte outside a frame.  No frame has a sync word inside (bound).     *)
(* Sizes are scaled down.                                                  *)
(***************************************************************************)
EXTENDS Integers, Sequences, FiniteSetsExt

CONSTANTS
  BufLen,         (* bytes of the element's buffer (1024)                   *)
  Guess,          (* what a frame may need before one was decoded (512)     *)
  MinSize,        (* a frame size reported below this is not used (200)     *)
  HeadLen,        (* bytes of header and side information                   *)
  Streams,        (* [tag, ver, sizes, pads, cut]: bytes before the first   *)
                  (* frame, version, for each frame its 144 * bitrate /     *)
                  (* samprate and its padding, bytes missing at the end     *)
  ReadSizes,      (* short reads                                            *)
  MaxStreams      (* bound: streams played                                  *)

ASSUME Mp3Assumption ==
  /\ BufLen \in Nat /\ Guess \in Nat /\ MinSize \in Nat /\ HeadLen \in Nat
  /\ HeadLen > 1 /\ MinSize <= Guess /\ Guess <= BufLen

\* A frame has its header and side information, and what is cut off is a part
\* of the last one.
ASSUME StreamsAssumption ==
  \A s \in Streams :
    /\ s.tag \in Nat /\ s.ver \in {1, 2}
    /\ s.pads \in Seq({0, 1}) /\ Len(s.pads) > 0
    /\ s.sizes \in Seq(Nat) /\ Len(s.sizes) = Len(s.pads)
    /\ \A f \in DOMAIN s.sizes : s.sizes[f] \div s.ver >= HeadLen
    /\ s.cut \in 0..(s.sizes[Len(s.pads)] \div s.ver + s.pads[Len(s.pads)] - 1)

VARIABLES
  src,            (* the cells that are still to be read                    *)
  in_buffer, last_left, user_data_0,
  status,         (* of the element: "running" while it is open             *)
  pc,             (* "read", or in the loop of process: "decode", "drain"   *)
  readPtr, left, framesize,     (* locals of process; readPtr is an offset  *)
  out,            (* the frames that were put out                           *)
  played,         (* ghost: [n, first, last] of the streams played          *)
  clean,          (* ghost: nothing left over looks like a frame            *)
  fits,           (* ghost: no frame is longer than process takes it to be, *)
                  (* and the first is in reach of the window                *)
  trouble         (* ghost: what happened on the way: "timeout", "output"... *)

ghosts == <<played, clean, fits>>
locals == <<readPtr, left, framesize>>
vars == <<src, in_buffer, last_left, user_data_0, status, pc, readPtr, left, framesize, out,
          played, clean, fits, trouble>>

Junk == <<0, 0, 0, 0>>

-----------------------------------------------------------------------------
(* Streams. *)

\* A frame has the bytes of its size (half of them in MPEG-2) and a padding.
FrameLen(s, f) == s.sizes[f] \div s.ver + s.pads[f]

\* The bytes before frame f, and the frame that byte i is in.
Before(s, f) ==
  LET upTo[g \in 0..Len(s.pads)] == IF g = 0 THEN s.tag ELSE upTo[g - 1] + FrameLen(s, g)
  IN  upTo[f - 1]

FrameOf(s, i) ==
  CHOOSE f \in DOMAIN s.pads : i \in (Before(s, f) + 1)..(Before(s, f) + FrameLen(s, f))

\* The cells of a stream whose frames are numbered from first on.
Cells(s, first) ==
  [i \in 1..(Before(s, Len(s.pads) + 1) - s.cut) |->
     LET f == FrameOf(s, i)
     IN  IF i <= s.tag THEN Junk
         ELSE <<first + f - 1, i - Before(s, f), FrameLen(s, f), s.sizes[f]>>]

Longest(s) == Max({FrameLen(s, f) : f \in DOMAIN s.pads})

-----------------------------------------------------------------------------
(* The decoder. *)

\* The cell at offset i of the buffer; the byte before it is no 0xFF.
At(i) == IF i \in 0..(BufLen - 1) THEN in_buffer[i + 1] ELSE Junk

\* MP3FindSyncWord
MP3FindSyncWord(from, n) ==
  LET found == {i \in 0..(n - 2) : At(from + i)[2] = 1 /\ At(from + i + 1)[2] \in {1, 2}}
  IN  IF found = {} THEN -1 ELSE Min(found)

\* UnpackFrameHeader accepts the bytes at an offset.
HeaderAt(i) ==
  At(i)[2] = 1 /\ At(i + 1) = <<At(i)[1], 2, At(i)[3], At(i)[4]>>

\* The bytes of a frame at an offset are all of this frame.
Intact(i) == \A k \in 1..At(i)[3] : At(i + k - 1) = <<At(i)[1], k, At(i)[3], At(i)[4]>>

\* (mutant: the frame that was decoded is not passed over)
MP3DecodeKeepsPtr(ptr, n) ==
  IF ~HeaderAt(ptr) \/ At(ptr)[3] > n
  THEN {[ok |-> FALSE, readPtr |-> ptr, left |-> n, frame |-> 0, size |-> 0]}
  ELSE {[ok |-> TRUE, readPtr |-> ptr, left |-> n - At(ptr)[3], frame |-> At(ptr)[1],
         size |-> At(ptr)[4]]}

\* MP3Decode: the outcomes [ok, readPtr, left, frame, size]; size is what the
\* bitrate and the sample rate of MP3GetLastFrameInfo make.  It looks at no
\* length before it has read the header.  A frame that is not of one piece is
\* refused or decoded to something else (frame 0).
MP3Decode(ptr, n) ==
  IF ~HeaderAt(ptr) THEN {[ok |-> FALSE, readPtr |-> ptr, left |-> n, frame |-> 0, size |-> 0]}
  ELSE IF At(ptr)[3] > n
  THEN {[ok |-> FALSE, readPtr |-> ptr + HeadLen, left |-> n - HeadLen, frame |-> 0, size |-> 0]}
  ELSE [ok : {Intact(ptr), TRUE}, readPtr : {ptr + At(ptr)[3]}, left : {n - At(ptr)[3]},
        frame : {IF Intact(ptr) THEN At(ptr)[1] ELSE 0}, size : {At(ptr)[4]}]

\* What process takes a frame to need, for a given user_data_0.
FrameSize(u) == IF u > MinSize THEN u ELSE Guess

\* After each frame of a stream that is within the window, and no later frame is
\* longer: what process takes a frame to need comes from the last frame it
\* decoded before it was called, so that any earlier one may be that frame.
NoneLonger(s) ==
  \A f \in DOMAIN s.sizes :
    /\ FrameSize(s.sizes[f] + 1) <= BufLen
    /\ \A g \in (f + 1)..Len(s.sizes) : FrameLen(s, g) <= FrameSize(s.sizes[f] + 1)

-----------------------------------------------------------------------------
Init ==
  /\ src = <<>>
  /\ in_buffer = [i \in 1..BufLen |-> Junk]
  /\ last_left = 0 /\ user_data_0 = 0
  /\ status = "init" /\ pc = "read"
  /\ readPtr = 0 /\ left = 0 /\ framesize = 0
  /\ out = <<>>
  /\ played = [n |-> 0, first |-> 1, last |-> 0]
  /\ clean = TRUE /\ fits = TRUE /\ trouble = {}

\* The element is opened for a stream, in its old buffer or, after terminate
\* and run, in a new one.  (A negative last_left makes process write before
\* the buffer; what happens then is not modelled.)
Open(s, newBuffer) ==
  LET stale == IF newBuffer THEN 0 ELSE Cardinality({i \in 1..last_left : in_buffer[i][2] = 1})
      first == played.last + 1
  IN  /\ status # "running" /\ played.n < MaxStreams
      /\ last_left >= 0
      /\ status' = "running" /\ pc' = "read"
      /\ src' = Cells(s, first)
      /\ in_buffer' = IF newBuffer THEN [i \in 1..BufLen |-> Junk] ELSE in_buffer
      /\ out' = <<>>
      /\ played' = [n |-> played.n + 1, first |-> first,
                    last |-> first + Len(s.pads) - 1 - (IF s.cut > 0 THEN 1 ELSE 0)]
      /\ clean' = (stale = 0)
      /\ fits' = /\ last_left + s.tag + FrameSize(user_data_0) <= BufLen
                 /\ Longest(s) <= FrameSize(user_data_0)
                 /\ NoneLonger(s)
      /\ trouble' = {}
      /\ UNCHANGED <<last_left, user_data_0, locals>>

\* The element leaves process for good and is closed.
End(how) == status' = how /\ pc' = "read"

\* process: audio_element_input transfers n bytes behind what was left.
Read(n) ==
  /\ status = "running" /\ pc = "read"
  /\ n = Min({BufLen - last_left, Len(src)}) \/ n \in ReadSizes
  /\ n \in 1..Min({BufLen - last_left, Len(src)})
  /\ in_buffer' = [i \in 1..BufLen |-> IF i \in (last_left + 1)..(last_left + n)
                                       THEN src[i - last_left] ELSE in_buffer[i]]
  /\ src' = SubSeq(src, n + 1, Len(src))
  /\ readPtr' = 0 /\ left' = last_left + n /\ framesize' = FrameSize(user_data_0)
  /\ pc' = "decode"
  /\ UNCHANGED <<last_left, user_data_0, status, out, ghosts, trouble>>

\* It waited in vain: silence is put out, from a buffer that is wiped for it.
ReadTimeout ==
  /\ status = "running" /\ pc = "read"
  /\ last_left < BufLen /\ src # <<>>
  /\ "timeout" \notin trouble                  (* bound: once in a stream *)
  /\ in_buffer' = [i \in 1..BufLen |-> Junk]
  /\ trouble' = trouble \cup {"timeout"}
  /\ UNCHANGED <<src, last_left, user_data_0, status, pc, locals, out, ghosts>>

\* The window is full, no byte can be read and process returns 0; or there is
\* nothing to read and nothing left.
ReadNothing ==
  /\ status = "running" /\ pc = "read"
  /\ last_left = BufLen \/ (src = <<>> /\ last_left = 0)
  /\ End("finished")
  /\ UNCHANGED <<src, in_buffer, last_left, user_data_0, locals, out, ghosts, trouble>>

ReadAbort ==
  /\ status = "running" /\ pc = "read"
  /\ End("stopped")
  /\ trouble' = trouble \cup {"stop"}
  /\ UNCHANGED <<src, in_buffer, last_left, user_data_0, locals, out, ghosts>>

\* AEL_IO_DONE: what is left is decoded.
ReadDone ==
  /\ status = "running" /\ pc = "read"
  /\ src = <<>> /\ last_left \in 1..(BufLen - 1)
  /\ readPtr' = 0 /\ left' = last_left /\ pc' = "drain"
  /\ UNCHANGED <<src, in_buffer, last_left, user_data_0, status, framesize, out, ghosts, trouble>>

\* No sync word, or not enough behind it: all that is left is moved to the
\* front, with what is before the sync word.
KeepRest ==
  LET offset == MP3FindSyncWord(readPtr, left)
  IN  /\ pc = "decode"
      /\ offset < 0 \/ left - offset < framesize
      /\ in_buffer' = [i \in 1..BufLen |-> IF i <= left THEN At(readPtr + i - 1) ELSE in_buffer[i]]
      /\ last_left' = left
      /\ pc' = "read"
      /\ UNCHANGED <<src, user_data_0, status, locals, out, ghosts, trouble>>

\* A frame is decoded and put out; sent tells whether all of it was.  Without
\* that process returns and last_left is what it was before.  A frame that
\* cannot be decoded ends the stream with an error.
DecodeFrame(sent) ==
  LET offset == MP3FindSyncWord(readPtr, left)
  IN  /\ pc = "decode"
      /\ offset >= 0 /\ left - offset >= framesize
      /\ \E d \in MP3Decode(readPtr + offset, left - offset) :
           IF ~d.ok
           THEN /\ End("error")
                /\ UNCHANGED <<readPtr, left, user_data_0, out, trouble>>
           ELSE /\ readPtr' = d.readPtr /\ left' = d.left
                /\ user_data_0' = d.size + 1
                /\ out' = Append(out, d.frame)
                /\ pc' = IF sent THEN pc ELSE "read"
                /\ trouble' = IF sent THEN trouble ELSE trouble \cup {"output"}
                /\ UNCHANGED status
      /\ UNCHANGED <<src, in_buffer, last_left, framesize, ghosts>>

\* (mutant: the last bytes are not decoded)
DrainNothing(sent) ==
  /\ pc = "drain"
  /\ last_left' = 0
  /\ End("finished")
  /\ UNCHANGED <<src, in_buffer, user_data_0, locals, out, ghosts, trouble>>

\* The same at the end of the stream, with the offset -1 of a missing sync
\* word taken as it is: the decoder is called one byte before.  The first
\* frame that cannot be decoded ends the stream.
DrainFrame(sent) ==
  LET offset == MP3FindSyncWord(readPtr, left)
  IN  /\ pc = "drain"
      /\ \E d \in MP3Decode(readPtr + offset, left - offset) :
           /\ readPtr' = d.readPtr /\ left' = d.left
           /\ IF ~d.ok
              THEN /\ last_left' = d.left
                   /\ End("finished")
                   /\ UNCHANGED <<user_data_0, out, trouble>>
              ELSE /\ user_data_0' = d.size + 1
                   /\ out' = Append(out, d.frame)
                   /\ pc' = IF sent THEN pc ELSE "read"
                   /\ trouble' = IF sent THEN trouble ELSE trouble \cup {"output"}
                   /\ UNCHANGED <<last_left, status>>
      /\ UNCHANGED <<src, in_buffer, framesize, ghosts>>

\* Whether all of a frame was put out (bound: it is not once in a stream).
Sent == {TRUE} \cup {"output" \in trouble}

Next ==
  \/ \E s \in Streams, newBuffer \in BOOLEAN : Open(s, newBuffer)
  \/ \E n \in 1..BufLen : Read(n)
  \/ ReadTimeout \/ ReadNothing \/ ReadAbort \/ ReadDone \/ KeepRest
  \/ \E sent \in Sent : DecodeFrame(sent) \/ DrainFrame(sent)

Spec == Init /\ [][Next]_vars

-----------------------------------------------------------------------------
\* The frames are put out in the order of the stream and none twice, also when
\* a read timed out and the window was wiped with the beginning of a frame in
\* it; without that none is left out.  (It is not so once audio_element_output
\* took less than a frame, see the README.)
FramesInSequence ==
  (clean /\ "output" \notin trouble) =>
    /\ \A i \in 1..(Len(out) - 1) : out[i] < out[i + 1]
    /\ "timeout" \notin trouble => \A i \in DOMAIN out : out[i] = played.first + i - 1

\* A stream whose first frame is within reach of the window, and none of whose
\* frames is longer than process takes it to be, plays to its last complete
\* frame, in whatever pieces it is read: neither a full window nor a frame that
\* was cut by it ends it before, with an error or without.  (Excluded by name:
\* what was left of another stream and looks like a frame, a frame that is
\* longer than the guess, or, at a variable bitrate, than the size of an earlier
\* frame; see NoneLonger and the README.  A window that is left with a negative
\* last_left is not opened again.)
CleanStreamPlays ==
  (clean /\ fits /\ trouble = {}) =>
    /\ status # "error"
    /\ status = "finished" => Len(out) = played.last - played.first + 1
=============================================================================
