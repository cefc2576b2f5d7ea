----------------------------- MODULE Mp3Tables ------------------------------
(***************************************************************************)
(* The tables of the MP3 decoder that say how long things are (mp3tabs.c,  *)
(* scalfact.c, bitstream.c): frames, side information, scale factors and   *)
(* bands.  Versions are 1 (MPEG-1), 2 (MPEG-2) and 3 (MPEG-2.5); bitrate   *)
(* index 0, the free format, is left out.                                  *)
(***************************************************************************)
EXTENDS Integers, Sequences, FiniteSetsExt, SequencesExt

Versions == 1..3

samplerateTab == <<<<44100, 48000, 32000>>, <<22050, 24000, 16000>>,
                   <<11025, 12000, 8000>>>>

\* bitrateTab of layer 3, in kbit/s.
bitrateTab ==
  LET low == <<8, 16, 24, 32, 40, 48, 56, 64, 80, 96, 112, 128, 144, 160>>
  IN  <<<<32, 40, 48, 56, 64, 80, 96, 112, 128, 160, 192, 224, 256, 320>>,
        low, low>>

sideBytesTab == <<<<17, 32>>, <<9, 17>>, <<9, 17>>>>

\* The bytes of a frame, by version, sample rate and bitrate.
slotTab ==
  <<<< <<104, 130, 156, 182, 208, 261, 313, 365, 417, 522, 626, 731, 835, 1044>>,
       << 96, 120, 144, 168, 192, 240, 288, 336, 384, 480, 576, 672, 768, 960>>,
       <<144, 180, 216, 252, 288, 360, 432, 504, 576, 720, 864, 1008, 1152, 1440>> >>,
    << << 26, 52, 78, 104, 130, 156, 182, 208, 261, 313, 365, 417, 470, 522>>,
       << 24, 48, 72, 96, 120, 144, 168, 192, 240, 288, 336, 384, 432, 480>>,
       << 36, 72, 108, 144, 180, 216, 252, 288, 360, 432, 504, 576, 648, 720>> >>,
    << << 52, 104, 156, 208, 261, 313, 365, 417, 522, 626, 731, 835, 940, 1044>>,
       << 48, 96, 144, 192, 240, 288, 336, 384, 480, 576, 672, 768, 864, 960>>,
       << 72, 144, 216, 288, 360, 432, 504, 576, 720, 864, 1008, 1152, 1296, 1440>> >>>>

\* nSlots of UnpackFrameHeader: what header, CRC and side information leave.
Slots(ver, chans, sr, br, crc, pad) ==
  slotTab[ver][sr][br] - sideBytesTab[ver][chans] - 4
    - (IF crc THEN 2 ELSE 0) + (IF pad THEN 1 ELSE 0)

\* The widths of the fields UnpackSideInfo reads, in groups; switched says for
\* each granule and channel whether its window_switching_flag is set.
SideFields(ver, chans, switched) ==
  LET sub(w) == <<12, 9, 8, IF ver = 1 THEN 4 ELSE 9, 1>>
                \o (IF w THEN <<2, 1, 5, 5, 3, 3, 3>> ELSE <<5, 5, 5, 4, 3>>)
                \o (IF ver = 1 THEN <<1>> ELSE <<>>) \o <<1, 1>>
      head == IF ver = 1
              THEN <<9, IF chans = 1 THEN 5 ELSE 3>> \o [i \in 1..(4 * chans) |-> 1]
              ELSE <<8, IF chans = 1 THEN 1 ELSE 2>>
  IN  <<head>> \o [i \in DOMAIN switched |-> sub(switched[i])]

Granules(ver) == IF ver = 1 THEN 2 ELSE 1

-----------------------------------------------------------------------------
\* sfBandTable: where the bands of long and of short blocks begin (C index
\* cb is index cb + 1 here), for the first sample rate of each version and
\* for 8 kHz, the only row that puts the end of the long part of a mixed
\* block elsewhere.
sfBandTable ==
  << [l |-> <<0, 4, 8, 12, 16, 20, 24, 30, 36, 44, 52, 62, 74, 90, 110, 134,
              162, 196, 238, 288, 342, 418, 576>>,
      s |-> <<0, 4, 8, 12, 16, 22, 30, 40, 52, 66, 84, 106, 136, 192>>],
     [l |-> <<0, 6, 12, 18, 24, 30, 36, 44, 54, 66, 80, 96, 116, 140, 168, 200,
              238, 284, 336, 396, 464, 522, 576>>,
      s |-> <<0, 4, 8, 12, 18, 24, 32, 42, 56, 74, 100, 132, 174, 192>>],
     [l |-> <<0, 12, 24, 36, 48, 60, 72, 88, 108, 132, 160, 192, 232, 280, 336,
              400, 476, 566, 568, 570, 572, 574, 576>>,
      s |-> <<0, 8, 16, 24, 36, 52, 72, 96, 124, 160, 162, 164, 166, 192>>] >>

\* NRTab: how many bands each of the four scale factor lengths of MPEG-2
\* covers, by class of sfCompress (4 to 6: right channel, intensity) and by
\* kind of block (1 long, 2 short, 3 mixed).
NRTab ==
  << << <<6, 5, 5, 5>>, <<3, 3, 3, 3>>, <<6, 3, 3, 3>> >>,
     << <<6, 5, 7, 3>>, <<3, 3, 4, 2>>, <<6, 3, 4, 2>> >>,
     << <<11, 10, 0, 0>>, <<6, 6, 0, 0>>, <<6, 3, 6, 0>> >>,
     << <<7, 7, 7, 0>>, <<4, 4, 4, 0>>, <<6, 5, 4, 0>> >>,
     << <<6, 6, 6, 3>>, <<4, 3, 3, 2>>, <<6, 4, 3, 2>> >>,
     << <<8, 8, 5, 0>>, <<5, 4, 3, 0>>, <<6, 6, 3, 0>> >> >>
=============================================================================
