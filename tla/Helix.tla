------------------------------- MODULE Helix --------------------------------
(***************************************************************************)
(* MP3Decode (mp3dec.c) and the functions it calls for every granule, one  *)
(* action each: UnpackScaleFactors, DecodeHuffman, Dequantize, IMDCT and   *)
(* Subband.  Samples are left out.  What is kept is what one function      *)
(* leaves for another, for the other channel or for a later granule: the   *)
(* bits left, which scale factors are of this frame, up to which line the  *)
(* spectrum may be nonzero, which window the overlap of a block needs, and *)
(* which block each tap of the synthesis filter reads.  An error leaves    *)
(* all this as it is, and the next frame is decoded from there.            *)
(*                                                                         *)
(* The side information of a granule and channel is chosen where it is     *)
(* used first; nothing looks at it before.                                 *)
(***************************************************************************)
EXTENDS MainData, BitReader

CONSTANTS
  Headers,        (* [ver, chans, ext]: version, channels, modeExt          *)
  SlotSet,        (* values of nSlots                                       *)
  Begins,         (* values of main_data_begin                              *)
  SideInfo,       (* SideInfoSub records (see Sub), by channel              *)
  Scfsi,          (* sets of scale factor groups that granule 1 may copy    *)
  MaxFrames       (* bound: frames given to the decoder                     *)

\* FrameHeader: the version (MPEG 1, 2, 2.5), the channels that sMode stands for,
\* and modeExt (bit 0 intensity, bit 1 middle-side; 0 unless joint stereo).
Header == {h \in [ver : Versions, chans : 1..2, ext : 0..3] : h.chans = 1 => h.ext = 0}

\* SideInfoSub: switch, type and mixed say what kind of block it is, class and
\* slen how its scale factors are coded; part23 bits hold scale factors and
\* code words, pairs lines come from pairs of pairBits bits, quads from quads.
Sub == [switch : BOOLEAN, type : 0..3, mixed : BOOLEAN, class : 1..6,
        slen : [1..4 -> Nat], part23 : Nat, pairs : 0..576, pairBits : Nat, quads : 0..576]

ASSUME HelixAssumption ==
  /\ Headers \subseteq Header
  /\ DOMAIN SideInfo = 0..1 /\ \A c \in 0..1 : SideInfo[c] \subseteq Sub
  /\ SlotSet \subseteq 0..MaxSlots /\ Begins \subseteq 0..MaxBegin
  /\ 0..(MainBufSize - 1) \subseteq Byte          (* bytes are ages here *)

VARIABLES
  step,           (* [at, gr, ch]: the function MP3Decode calls next        *)
  fh,             (* FrameHeader                                            *)
  sis,            (* si->sis[gr][ch]                                        *)
  mainBits,       (* bits of main data behind the current position          *)
  sfis,           (* sfi->sfis[gr][ch]: where each scale factor is from     *)
  nonZeroBound,   (* hi->nonZeroBound[ch]                                   *)
  sup,            (* ghost: the lines that may be nonzero end here          *)
  bc,             (* nBlocksLong and nBlocksTotal of the last IMDCT         *)
  mi,             (* IMDCTInfo of each channel                              *)
  vbuf, vindex,   (* SubbandInfo; vbuf holds the number of a block          *)
  blocks,         (* ghost: blocks put through Subband                      *)
  since,          (* ghost: blocks of a channel's continuous run start here *)
  taps,           (* ghost: what the last two blocks read from vbuf         *)
  err,            (* what MP3Decode returned last                           *)
  frames

vars == <<step, fh, sis, mainBits, sfis, nonZeroBound, sup, bc, mi, vbuf, vindex,
          blocks, since, taps, err, frames, mainBuf>>

Gr == 0..1
Ch == 0..1
NSAMP  == 576
NBANDS == 32
Zero   == -1      (* an overlap that is zero *)

Idle == [at |-> "idle", gr |-> 0, ch |-> 0]
NoSub == [type |-> 0, mixed |-> FALSE]

-----------------------------------------------------------------------------
(* Kinds of blocks. *)

Short(s) == s.type = 2 /\ ~s.mixed
Mixed(s) == s.type = 2 /\ s.mixed
Long(s)  == s.type # 2

\* UnpackSideInfo: window switching with block type 0 "should not be allowed";
\* such a granule is taken as empty.
Unpacked(s) ==
  IF s.switch /\ s.type = 0
  THEN [s EXCEPT !.part23 = 0, !.pairs = 0, !.pairBits = 0, !.class = 1,
                 !.slen = <<0, 0, 0, 0>>]
  ELSE s

Bands == sfBandTable[fh.ver]
L(cb) == Bands.l[cb + 1]
S(cb) == Bands.s[cb + 1]

\* The long part of a mixed block has this many bands.
MixedLong(ver) == IF ver = 1 THEN 8 ELSE 6

-----------------------------------------------------------------------------
(* UnpackScaleFactors. *)

Group(b) == IF b < 6 THEN 1 ELSE IF b < 11 THEN 2 ELSE IF b < 16 THEN 3 ELSE 4

\* The bands UnpackSFMPEG1 reads: long and short ones.
ReadMPEG1(s, gr, scfsi) ==
  [l |-> IF Short(s) THEN {} ELSE IF Mixed(s) THEN 0..7
         ELSE {b \in 0..20 : gr = 0 \/ Group(b) \notin scfsi},
   s |-> IF Long(s) THEN {} ELSE (IF s.mixed THEN 3 ELSE 0)..11]

BitsMPEG1(s, read) ==
  s.slen[1] * (Cardinality({b \in read.l : b < 11}) + 3 * Cardinality({b \in read.s : b < 6}))
  + s.slen[2] * (Cardinality({b \in read.l : b >= 11}) + 3 * Cardinality({b \in read.s : b >= 6}))

\* (mutant: a mixed block reads the long part as the standard's table has it)
ReadMPEG2AsInSpec(s) ==
  LET nr == NRTab[s.class][IF Long(s) THEN 1 ELSE IF Short(s) THEN 2 ELSE 3]
  IN  [l |-> IF Short(s) THEN {} ELSE IF Mixed(s) THEN 0..5
             ELSE 0..(nr[1] + nr[2] + nr[3] + nr[4] - 1),
       s |-> IF Long(s) THEN {}
             ELSE IF Mixed(s) THEN 3..(3 + nr[3] + nr[4] - 1)
             ELSE 0..(nr[1] + nr[2] + nr[3] + nr[4] - 1)]

\* The bands UnpackSFMPEG2 reads: NRTab says how many.
ReadMPEG2(s) ==
  LET nr == NRTab[s.class][IF Long(s) THEN 1 ELSE IF Short(s) THEN 2 ELSE 3]
  IN  [l |-> IF Short(s) THEN {} ELSE IF Mixed(s) THEN 0..5
             ELSE 0..(nr[1] + nr[2] + nr[3] + nr[4] - 1),
       s |-> IF Long(s) THEN {}
             ELSE IF Mixed(s) THEN 3..(3 + nr[2] + nr[3] + nr[4] - 1)
             ELSE 0..(nr[1] + nr[2] + nr[3] + nr[4] - 1)]

\* Class 3 of a mixed block has its lengths moved up, as NRTab has its bands.
BitsMPEG2(s) ==
  LET nr   == NRTab[s.class][IF Long(s) THEN 1 ELSE IF Short(s) THEN 2 ELSE 3]
      slen == IF s.class = 3 /\ s.mixed THEN <<s.slen[1], s.slen[1], s.slen[2], 0>>
              ELSE s.slen
      part(i) == nr[i] * slen[i] * (IF Short(s) \/ (Mixed(s) /\ i > 1) THEN 3 ELSE 1)
  IN  part(1) + part(2) + part(3) + part(4)

\* The scale factors afterwards: read, copied from granule 0, set to zero or
\* what they were.  MPEG-1 returns from the first granule of long blocks
\* before it sets the last two bands; nothing else ever sets them.
Factors(s, read, copied, gr, own, gr0) ==
  [l |-> [b \in 0..22 |->
            IF b \in read.l THEN "new"
            ELSE IF b \in copied THEN gr0.l[b]
            ELSE IF b >= 21 /\ Long(s) /\ ~(fh.ver = 1 /\ gr = 0) THEN "zero"
            ELSE own.l[b]],
   s |-> [b \in 0..12 |->
            IF b \in read.s THEN "new"
            ELSE IF b = 12 /\ ~Long(s) THEN "zero"
            ELSE own.s[b]]]

-----------------------------------------------------------------------------
(* Dequantize. *)

\* The first of the line numbers in ends that is not below n, or the last.
FirstFrom(n, ends) == Min({e \in ends : e >= n} \cup {Max(ends)})

\* (mutant: reordering keeps the bound)
DequantChannelKeepsBound(s, n) == n

\* DequantChannel stops at the band that holds the last nonzero line.  Short
\* blocks are reordered within a band, so the bound moves to its end; they go
\* on where the long part of a mixed block stopped.
DequantChannel(s, n) ==
  LET long  == IF Short(s) THEN 0
               ELSE FirstFrom(n, {L(cb) : cb \in 1..(IF Mixed(s) THEN MixedLong(fh.ver) ELSE 22)})
      start == IF Mixed(s) THEN 3 ELSE 0
  IN  IF Long(s) THEN n
      ELSE FirstFrom(n, {long + 3 * (S(cb) - S(start)) : cb \in (start + 1)..13})

\* The lines that really may be nonzero after reordering.
Reordered(s, n) ==
  IF Long(s) \/ n <= (IF Mixed(s) THEN 3 * S(3) ELSE 0) THEN n
  ELSE Min({3 * S(cb) : cb \in {c \in 1..13 : 3 * S(c) >= n}})

\* MidSideProc mixes both channels; the intensity functions write the right
\* one from the left; then both bounds become the larger one.
MidSideProc(x) == IF fh.ext >= 2 THEN [c \in Ch |-> Max({x[0], x[1]})] ELSE x

IntensityProc(x) == IF fh.ext % 2 = 1 THEN [x EXCEPT ![1] = Max({x[0], x[1]})] ELSE x

JointBound(x) ==
  IF fh.ext = 0 THEN x ELSE [c \in Ch |-> Max({x[0], x[1]})]

-----------------------------------------------------------------------------
(* IMDCT. *)

BlockCutoff == L(MixedLong(fh.ver)) \div 18

BlocksLong(s, n) ==
  IF Long(s) THEN Min({(n + 7) \div 18 + 1, NBANDS})
  ELSE IF Mixed(s) THEN BlockCutoff ELSE 0

Butterflies(s, n) == IF Short(s) THEN 0 ELSE BlocksLong(s, n) - 1

\* AntiAlias: the bound covers the eight lines behind the last butterfly.
AliasedBound(s, n) == Max({n, 18 * Butterflies(s, n) + 8})

\* The lines that may be nonzero when a butterfly is done at every boundary
\* that has a nonzero line among the eight before it.
Aliased(s, n) ==
  LET at == {b \in 1..(IF Short(s) THEN 0 ELSE IF Mixed(s) THEN BlockCutoff - 1
                       ELSE NBANDS - 1) : 18 * b - 8 < n}
  IN  Max({n} \cup {18 * b + 8 : b \in at})

BlocksTotal(n) == (n + 17) \div 18

\* What the overlap that IMDCT36 and IMDCT12x3 leave is to be windowed with.
IMDCT36(s, i) == IF s.mixed /\ i < BlockCutoff THEN 0 ELSE s.type
IMDCT12x3 == 2

\* What it is windowed with in the next granule.
WinPrevious(m, i) == IF i < m.prevWinSwitch THEN 0 ELSE m.prevType

Overlap(s, i, long) == IF i < long THEN IMDCT36(s, i) ELSE IMDCT12x3

\* (mutant: the overlap of the blocks behind the last one is put out, not cleared)
TransformedNotCleared(m, s, long, total) ==
  {[over |-> [i \in 0..(NBANDS - 1) |->
                IF i < Max({long, total}) THEN Overlap(s, i, long) ELSE m.over[i]],
    numPrevIMDCT |-> total, prevType |-> s.type,
    prevWinSwitch |-> IF s.mixed THEN BlockCutoff ELSE 0]}

\* HybridTransform.  Each block up to nBlocksTotal leaves an overlap; where
\* only the previous granule reached, its overlap is put out and cleared.  It
\* returns the last block of these that was not all zero, if there is one
\* (bound: it is the first or the last of them).
Transformed(m, s, long, total) ==
  LET behind == Max({long, total})..(m.numPrevIMDCT - 1)
      over == [i \in 0..(NBANDS - 1) |->
                 IF i < Max({long, total}) THEN Overlap(s, i, long)
                 ELSE IF i \in behind THEN Zero ELSE m.over[i]]
  IN  {[over |-> over, numPrevIMDCT |-> n, prevType |-> s.type,
        prevWinSwitch |-> IF s.mixed THEN BlockCutoff ELSE 0] :
         n \in {Max({long, total})}
                \cup {i \in {total, m.numPrevIMDCT - 1} : i \in behind /\ m.over[i] # Zero}}

-----------------------------------------------------------------------------
(* Subband. *)

\* vbuf of one channel: three groups of rings (samples 16 to 31, samples 16
\* to 1 and sample 0), in two halves, each ring stored twice.
EmptyVbuf == [k \in {"lo", "hi", "s0"} |-> [h \in 0..1 |-> [i \in 0..15 |-> 0]]]

Put(ring, i, b) == [ring EXCEPT ![i] = b, ![i + 8] = b]

\* (mutant: the second group is stored at the same index as the first)
FDCT32SameIndex(v, offset, odd, b) ==
  [v EXCEPT !.s0[1 - odd] = Put(@, (offset - odd) % 8, b),
            !.lo[odd]     = Put(@, offset, b),
            !.hi[1 - odd] = Put(@, offset, b)]

\* FDCT32: where block b goes.
FDCT32(v, offset, odd, b) ==
  LET at == (offset - odd) % 8
  IN  [v EXCEPT !.s0[1 - odd] = Put(@, at, b),
                !.lo[odd]     = Put(@, offset, b),
                !.hi[1 - odd] = Put(@, at, b)]

\* PolyphaseMono and PolyphaseStereo: what the taps x = 0..7 read.
Polyphase(v, offset, odd) ==
  [lo |-> [x \in 0..7 |-> v.lo[odd][offset + x]],
   hi |-> [x \in 0..7 |-> v.hi[odd][offset + 7 - x]],
   s0 |-> [x \in 0..7 |-> v.s0[odd][offset + x]]]

\* One block of all channels; w collects what the last two blocks have read.
SubbandBlock(w, b) ==
  LET odd == b % 2
      t   == w.t + 1
      v   == [c \in Ch |-> IF c < fh.chans THEN FDCT32(w.v[c], w.index, odd, t) ELSE w.v[c]]
  IN  [t |-> t, v |-> v, index |-> (w.index - odd) % 8,
       taps |-> [c \in Ch |->
                   IF c < fh.chans
                   THEN [w.taps[c] EXCEPT ![odd] = Polyphase(v[c], w.index, odd)]
                   ELSE w.taps[c]]]

\* The blocks of a granule, one after the other.
GranuleBlocks(w) ==
  LET after[n \in 0..18] == IF n = 0 THEN w ELSE SubbandBlock(after[n - 1], n - 1)
  IN  after[18]

-----------------------------------------------------------------------------
\* AllocateBuffers clears everything.
Init ==
  /\ MainInit
  /\ step = Idle
  /\ fh \in Headers
  /\ sis = [g \in Gr |-> [c \in Ch |-> NoSub]]
  /\ mainBits = 0
  /\ sfis = [g \in Gr |-> [c \in Ch |->
               [l |-> [b \in 0..22 |-> "zero"], s |-> [b \in 0..12 |-> "zero"]]]]
  /\ nonZeroBound = [c \in Ch |-> 0]
  /\ sup = [c \in Ch |-> 0]
  /\ bc = [c \in Ch |-> [long |-> 0, total |-> 0]]
  /\ mi = [c \in Ch |-> [over |-> [i \in 0..(NBANDS - 1) |-> Zero],
                         numPrevIMDCT |-> 0, prevType |-> 0, prevWinSwitch |-> 0]]
  /\ vbuf = [c \in Ch |-> EmptyVbuf]
  /\ vindex = 0
  /\ blocks = 0
  /\ since = [c \in Ch |-> 0]
  /\ taps = [c \in Ch |-> [odd \in 0..1 |-> Polyphase(EmptyVbuf, 0, 0)]]
  /\ err = "NONE"
  /\ frames = 0

signalVars == <<nonZeroBound, sup, bc, mi, vbuf, vindex, blocks, since, taps>>

\* MP3Decode returns an error: nothing is undone.
Fail(e) == err' = e /\ step' = Idle

\* UnpackFrameHeader refuses the header.
BadHeader ==
  /\ step = Idle /\ frames < MaxFrames
  /\ frames' = frames + 1
  /\ Fail("INVALID_FRAMEHEADER")
  /\ UNCHANGED <<fh, sis, mainBits, sfis, signalVars, mainBuf>>

\* Header and side information are read, but the frame is not all there.
Truncated(h) ==
  /\ step = Idle /\ frames < MaxFrames
  /\ frames' = frames + 1
  /\ fh' = h
  /\ Fail("INDATA_UNDERFLOW")
  /\ UNCHANGED <<sis, mainBits, sfis, signalVars, mainBuf>>

\* The main data of a frame is added; bytes are represented by their age, the
\* number of bytes added after them.  The frame is decoded when its reservoir
\* is there.
StartFrame(h, begin, n) ==
  LET older == [i \in DOMAIN mainBuf |-> mainBuf[i] + n]
  IN  /\ step = Idle /\ frames < MaxFrames
      /\ frames' = frames + 1
      /\ fh' = h
      /\ mainBuf' = Refilled(older, begin, [i \in 1..n |-> n - i])
      /\ IF Len(mainBuf) >= begin
         THEN /\ step' = [Idle EXCEPT !.at = "scale"]
              /\ mainBits' = 8 * (begin + n)
              /\ sis' = [g \in Gr |-> [c \in Ch |-> NoSub]]
              /\ sfis' = [g \in Gr |-> [c \in Ch |->
                            [l |-> [b \in 0..22 |-> IF sfis[g][c].l[b] = "new" THEN "old" ELSE sfis[g][c].l[b]],
                             s |-> [b \in 0..12 |-> IF sfis[g][c].s[b] = "new" THEN "old" ELSE sfis[g][c].s[b]]]]]
              /\ UNCHANGED err
         ELSE /\ Fail("MAINDATA_UNDERFLOW")
              /\ UNCHANGED <<mainBits, sis, sfis>>
      /\ UNCHANGED signalVars

\* The bands that a long block copies from granule 0, whatever blocks that has.
Copied(s, scfsi) ==
  IF fh.ver = 1 /\ step.gr = 1 /\ Long(s) THEN {b \in 0..20 : Group(b) \in scfsi} ELSE {}

\* The classes of sfCompress for this channel (MPEG-2).
Classes == IF fh.ext \in {1, 3} /\ step.ch = 1 THEN 4..6 ELSE 1..3

UnpackScaleFactors(side, scfsi) ==
  LET gr == step.gr
      ch == step.ch
      s  == Unpacked(side)
      read == IF fh.ver = 1 THEN ReadMPEG1(s, gr, scfsi) ELSE ReadMPEG2(s)
      bits == IF fh.ver = 1 THEN BitsMPEG1(s, read) ELSE BitsMPEG2(s)
  IN  /\ step.at = "scale"
      /\ fh.ver = 1 \/ s.class \in Classes
      /\ sis' = [sis EXCEPT ![gr][ch] = [s EXCEPT !.part23 = @ - bits]]
      /\ sfis' = [sfis EXCEPT ![gr][ch] =
                    Factors(s, read, Copied(s, scfsi), gr, sfis[gr][ch], sfis[0][ch])]
      /\ mainBits' = mainBits - bits
      /\ IF mainBits' < s.part23 - bits
         THEN Fail("INVALID_SCALEFACT")
         ELSE step' = [step EXCEPT !.at = "huffman"] /\ UNCHANGED err
      /\ UNCHANGED <<fh, frames, signalVars, mainBuf>>

\* part23 now counts the bits of the code words.  Quads take what the pairs
\* leave; the rest is stuffing.
DecodeHuffman ==
  LET ch == step.ch
      s  == sis[step.gr][ch]
  IN  /\ step.at = "huffman"
      /\ IF s.part23 < 0
         THEN /\ Fail("INVALID_HUFFCODES")
              /\ UNCHANGED <<nonZeroBound, sup, mainBits>>
         ELSE IF s.pairBits > s.part23
         THEN /\ Fail("INVALID_HUFFCODES")
              /\ nonZeroBound' = [nonZeroBound EXCEPT ![ch] = s.pairs]
              /\ sup' = [sup EXCEPT ![ch] = Max({@, s.pairs})]
              /\ UNCHANGED mainBits
         ELSE /\ nonZeroBound' = [nonZeroBound EXCEPT ![ch] =
                                    s.pairs + (IF s.part23 > s.pairBits
                                               THEN Min({s.quads, NSAMP - s.pairs}) ELSE 0)]
              /\ sup' = [sup EXCEPT ![ch] = nonZeroBound'[ch]]
              /\ mainBits' = mainBits - s.part23
              /\ step' = IF ch + 1 < fh.chans THEN [step EXCEPT !.at = "scale", !.ch = ch + 1]
                         ELSE [step EXCEPT !.at = "dequantize", !.ch = 0]
              /\ UNCHANGED err
      /\ UNCHANGED <<fh, sis, sfis, bc, mi, vbuf, vindex, blocks, since, taps, frames, mainBuf>>

Dequantize ==
  LET each(Op(_, _), x) ==
        [c \in Ch |-> IF c < fh.chans THEN Op(sis[step.gr][c], x[c]) ELSE x[c]]
  IN  /\ step.at = "dequantize"
      /\ nonZeroBound' = JointBound(each(DequantChannel, nonZeroBound))
      /\ sup' = IntensityProc(MidSideProc(each(Reordered, sup)))
      /\ step' = [step EXCEPT !.at = "imdct"]
      /\ UNCHANGED <<fh, sis, mainBits, sfis, bc, mi, vbuf, vindex, blocks, since, taps, err,
                     frames, mainBuf>>

IMDCT ==
  LET ch    == step.ch
      s     == sis[step.gr][ch]
      bound == AliasedBound(s, nonZeroBound[ch])
      long  == BlocksLong(s, nonZeroBound[ch])
      total == BlocksTotal(bound)
  IN  /\ step.at = "imdct"
      /\ nonZeroBound' = [nonZeroBound EXCEPT ![ch] = bound]
      /\ sup' = [sup EXCEPT ![ch] = Aliased(s, @)]
      /\ bc' = [bc EXCEPT ![ch] = [long |-> long, total |-> total]]
      /\ \E m \in Transformed(mi[ch], s, long, total) : mi' = [mi EXCEPT ![ch] = m]
      /\ step' = IF ch + 1 < fh.chans THEN [step EXCEPT !.ch = ch + 1]
                 ELSE [step EXCEPT !.at = "subband", !.ch = 0]
      /\ UNCHANGED <<fh, sis, mainBits, sfis, vbuf, vindex, blocks, since, taps, err, frames,
                     mainBuf>>

\* The 18 blocks of a granule, then the next granule or the end of the frame.
Subband ==
  LET w == GranuleBlocks([t |-> blocks, v |-> vbuf, index |-> vindex, taps |-> taps])
  IN  /\ step.at = "subband"
      /\ vbuf' = w.v /\ vindex' = w.index /\ taps' = w.taps /\ blocks' = w.t
      /\ since' = [c \in Ch |-> IF c < fh.chans THEN since[c] ELSE w.t]
      /\ IF step.gr + 1 < Granules(fh.ver)
         THEN step' = [Idle EXCEPT !.at = "scale", !.gr = step.gr + 1] /\ UNCHANGED err
         ELSE Fail("NONE")
      /\ UNCHANGED <<fh, sis, mainBits, sfis, nonZeroBound, sup, bc, mi, frames, mainBuf>>

Next ==
  \/ BadHeader
  \/ \E h \in Headers : Truncated(h)
  \/ \E h \in Headers, begin \in Begins, n \in SlotSet : StartFrame(h, begin, n)
  \/ \E side \in SideInfo[step.ch], scfsi \in Scfsi : UnpackScaleFactors(side, scfsi)
  \/ DecodeHuffman
  \/ Dequantize
  \/ IMDCT
  \/ Subband

Spec == Init /\ [][Next]_vars

-----------------------------------------------------------------------------
\* Before the first frame, where nothing but the functions and tables matters:
\* the cached loops of huffman.c:82 and :285 agree with a decoder that counts
\* bits.  Pairs are accepted exactly when they fit and then the bits used are
\* their own, quads stop at the last one that is complete.
CodeWordsFit == frames = 0 => LoopsAgree

\* Also before the first frame: a frame is laid out as the tables say.
\* UnpackSideInfo reads each bit of the side information once and in order and
\* its last bit is the last one of sideBytesTab (the assertion of
\* bitstream.c:385), slotTab is what bitrate and sample rate make of a frame,
\* and no frame with its reservoir is longer than mainBuf.
FrameLayout == frames = 0 => SideInfoIsRead /\ SlotsFit

\* A frame is decoded from its own data: mainBuf is the end of all main data
\* added so far, without a gap, it has room for it (mp3dec.c:348 and :356 copy
\* without a test), and no granule is accepted that takes bits behind the end,
\* though UnpackScaleFactors reads first and DecodeHuffman looks afterwards.
ReadsOwnData ==
  /\ \A i \in DOMAIN mainBuf : mainBuf[i] = Len(mainBuf) - i
  /\ MainBufBound
  /\ step.at \notin {"idle", "huffman"} => mainBits \in 0..(8 * Len(mainBuf))

\* Band b of this granule is the copy of one of a granule 0 of short blocks,
\* which were sent without it (scalfact.c:128 does not look at their type).
CopiedFromShort(b) ==
  /\ fh.ver = 1 /\ step.gr = 1 /\ ~Long(sis[0][step.ch])
  /\ sfis[1][step.ch].l[b] = sfis[0][step.ch].l[b]

\* Every scale factor DequantChannel uses was sent with this frame, or is the
\* zero of the band that is never sent: none is left over from another frame
\* or from a granule with other bands (scalfact.c leaves them in place).  With
\* one exception, CopiedFromShort: the groups with scfsi of a long block whose
\* granule 0 is not long are what the array of granule 0 happens to hold.
FactorsAreFresh ==
  step.at = "huffman" =>
    LET s == sis[step.gr][step.ch]
        f == sfis[step.gr][step.ch]
    IN  /\ Long(s)  => f.l[21] = "zero" /\ \A b \in 0..20 : f.l[b] = "new" \/ CopiedFromShort(b)
        /\ Mixed(s) => \A b \in 0..(MixedLong(fh.ver) - 1) : f.l[b] = "new"
        /\ ~Long(s) => /\ f.s[12] = "zero"
                       /\ \A b \in (IF s.mixed THEN 3 ELSE 0)..11 : f.s[b] = "new"

\* The shortcut that skips the zeros loses nothing: nonZeroBound never falls
\* behind the lines that reordering, stereo and alias reduction fill, stays
\* within the granule (the assertions of dqchan.c:362 and imdct.c:761), and
\* the blocks that are transformed cover it, with long transforms except in
\* short blocks (imdct.c:650).
SpectrumIsKept ==
  /\ step.at \in {"dequantize", "imdct", "subband"} =>
       \A c \in 0..(fh.chans - 1) : sup[c] <= nonZeroBound[c] /\ nonZeroBound[c] <= NSAMP
  /\ \A c \in Ch :
       ((step.at = "imdct" /\ c < step.ch) \/ (step.at = "subband" /\ c < fh.chans)) =>
         /\ sup[c] <= 18 * bc[c].total
         /\ bc[c].total > bc[c].long => sis[step.gr][c].type = 2

\* The overlap a granule leaves is windowed in the next one as its block was,
\* or is zero: numPrevIMDCT, prevType and prevWinSwitch, three numbers per
\* channel, stand for the windows of 32 blocks, also when a frame fails
\* between two granules or a channel is left out for some frames.
OverlapIsKnown ==
  \A c \in Ch, i \in 0..(NBANDS - 1) :
    LET m == mi[c]
    IN  \/ m.over[i] = Zero
        \/ /\ i < m.numPrevIMDCT
           /\ m.over[i] = WinPrevious(m, i)

\* The filter reads each of the last 16 blocks once, blocks of even age from
\* the first group and of odd age from the second: two halves, a rotating
\* index and rings that are stored twice come to the shift register of the
\* standard, in every channel that was decoded without a break.
SynthesisHistory ==
  \A c \in Ch : since[c] < blocks =>
    \A odd \in 0..1, x \in 0..7 :
      LET t == blocks - 1 + odd
          is(b, age) == b = (IF t - age > 0 THEN t - age ELSE 0) \/ t - age <= since[c]
      IN  /\ is(taps[c][odd].lo[x], 2 * x)
          /\ is(taps[c][odd].hi[x], 15 - 2 * x)
          /\ is(taps[c][odd].s0[x], 2 * x + 1)
=============================================================================
