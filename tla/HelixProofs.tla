---------------------------- MODULE HelixProofs ----------------------------
(***************************************************************************)
(* What one function of MP3Decode leaves for the next, for every choice of *)
(* frames, side information and sizes of mainBuf: a frame is decoded from  *)
(* its own data and with its own scale factors, the bound on the spectrum  *)
(* never loses a line, and every overlap is windowed as its block was.     *)
(*                                                                         *)
(* The invariant grows in four steps, each of which uses those before:     *)
(*   Reading     where MP3Decode is, and the bits that it has left;        *)
(*   Fresh       where the scale factors of both granules are from;        *)
(*   Covered     the bound, the lines below it and the blocks they fill;   *)
(*   Windowed    the overlaps.                                             *)
(* Three subjects need none of them: the copies into mainBuf, which stand  *)
(* first; and at the end Filtered, the blocks that the synthesis filter    *)
(* keeps, with the arithmetic of the places, and the loops over code       *)
(* words, which keep Accounts.                                             *)
(***************************************************************************)
EXTENDS Helix, SequenceTheorems, FiniteSetTheorems, WellFoundedInduction, TLAPS

-----------------------------------------------------------------------------
(* mainBuf.  The bound is inductive by itself: a frame that finds its       *)
(* reservoir keeps begin bytes of it, and one that does not has found fewer *)
(* than begin bytes.                                                        *)

\* The bytes that MP3Decode keeps for a frame (the memmove of mp3dec.c:347)
\* are bytes of the buffer, and they are exactly main_data_begin many.
LEMMA SuffixProperties ==
  ASSUME NEW s \in Seq(Byte), NEW n \in Nat, n <= Len(s)
  PROVE  /\ Suffix(s, n) \in Seq(Byte)
         /\ Len(Suffix(s, n)) = n
         /\ \A i \in 1..n : Suffix(s, n)[i] = s[Len(s) - n + i]
<1> DEFINE m == Len(s) - n + 1
<1>1. Len(s) \in Nat /\ m \in 1..(Len(s) + 1)
  BY LenProperties
<1>2. \A i \in m..Len(s) : s[i] \in Byte
  BY <1>1, ElementOfSeq
<1>3. Suffix(s, n) = SubSeq(s, m, Len(s))
  BY DEF Suffix
<1>4. /\ SubSeq(s, m, Len(s)) \in Seq(Byte)
      /\ Len(SubSeq(s, m, Len(s))) = IF m <= Len(s) THEN Len(s) - m + 1 ELSE 0
      /\ \A i \in 1..(Len(s) - m + 1) : SubSeq(s, m, Len(s))[i] = s[m + i - 1]
  BY <1>1, <1>2, SubSeqProperties
<1>5. IF m <= Len(s) THEN Len(s) - m + 1 = n ELSE n = 0
  BY <1>1
<1>6. \A i \in 1..n : i \in 1..(Len(s) - m + 1) /\ m + i - 1 = Len(s) - n + i
  BY <1>1
<1> QED
  BY <1>3, <1>4, <1>5, <1>6

\* What is decoded with a frame is a run of at most MaxBegin bytes that were
\* there before, and then the bytes of the frame: the copies of mp3dec.c:348
\* and :356 add a frame behind at most MaxBegin bytes.
LEMMA RefilledProperties ==
  ASSUME NEW buf \in Seq(Byte), NEW begin \in 0..MaxBegin,
         NEW n \in 0..MaxSlots, NEW new \in [1..n -> Byte]
  PROVE  /\ Refilled(buf, begin, new) \in Seq(Byte)
         /\ Len(Refilled(buf, begin, new)) <= MaxBegin + MaxSlots
<1>1. n \in Nat /\ begin \in Nat /\ MaxBegin \in Nat /\ MaxSlots \in Nat
  BY MainDataAssumption
<1>2. new \in Seq(Byte) /\ Len(new) = n
  BY <1>1
<1>3. CASE Len(buf) >= begin
  <2>1. Suffix(buf, begin) \in Seq(Byte) /\ Len(Suffix(buf, begin)) = begin
    BY <1>1, <1>3, SuffixProperties
  <2>2. /\ Suffix(buf, begin) \o new \in Seq(Byte)
        /\ Len(Suffix(buf, begin) \o new) = begin + n
    BY <1>2, <2>1, ConcatProperties
  <2> QED
    BY <1>1, <1>3, <2>2 DEF Refilled
<1>4. CASE ~(Len(buf) >= begin)
  <2>1. Len(buf) \in Nat /\ Len(buf) < begin
    BY <1>1, <1>4, LenProperties
  <2>2. buf \o new \in Seq(Byte) /\ Len(buf \o new) = Len(buf) + n
    BY <1>2, ConcatProperties
  <2> QED
    BY <1>1, <1>4, <2>1, <2>2 DEF Refilled
<1> QED
  BY <1>3, <1>4

\* MP3Decode never writes behind mainBuf, whatever frames it is given, with or
\* without the reservoir they ask for, although mp3dec.c:348 and :356 copy
\* without a test.
THEOREM MainBufNeverOverruns == MainSpec => []MainBufBound
<1>1. MainInit => MainBufBound
  BY EmptySeq, MainDataAssumption DEF MainInit, MainBufBound
<1>2. MainBufBound /\ [MainNext]_mainBuf => MainBufBound'
  <2> SUFFICES ASSUME MainBufBound, [MainNext]_mainBuf
               PROVE  MainBufBound'
    OBVIOUS
  <2>1. CASE MainNext
    <3>1. PICK begin \in 0..MaxBegin, n \in 0..MaxSlots :
            \E new \in [1..n -> Byte] : AddFrame(begin, new)
      BY <2>1 DEF MainNext
    <3>2. PICK new \in [1..n -> Byte] : AddFrame(begin, new)
      BY <3>1
    <3>3. /\ Refilled(mainBuf, begin, new) \in Seq(Byte)
          /\ Len(Refilled(mainBuf, begin, new)) <= MaxBegin + MaxSlots
      BY RefilledProperties DEF MainBufBound
    <3>4. /\ Len(Refilled(mainBuf, begin, new)) \in Nat
          /\ MaxBegin + MaxSlots <= MainBufSize
          /\ MaxBegin \in Nat /\ MaxSlots \in Nat /\ MainBufSize \in Nat
      BY <3>3, LenProperties, MainDataAssumption
    <3> QED
      BY <3>2, <3>3, <3>4 DEF AddFrame, MainBufBound
  <2>2. CASE UNCHANGED mainBuf
    BY <2>2 DEF MainBufBound
  <2> QED
    BY <2>1, <2>2
<1> QED
  BY <1>1, <1>2, PTL DEF MainSpec

-----------------------------------------------------------------------------
(* Numbers. *)

\* A set of natural numbers has a least element, and Min is that element.
LEMMA LeastOf ==
  ASSUME NEW X \in SUBSET Nat, X # {}
  PROVE  Min(X) \in X /\ \A y \in X : Min(X) <= y
<1>1. PICK x \in X : \A y \in X : ~(<<y, x>> \in OpToRel(<, Nat))
  BY NatLessThanWellFounded, WFMin
<1>2. \A y \in X : x <= y
  <2> SUFFICES ASSUME NEW y \in X, y < x
               PROVE  FALSE
    OBVIOUS
  <2>1. <<y, x>> \in OpToRel(<, Nat)
    BY DEF OpToRel
  <2> QED
    BY <1>1, <2>1
<1> QED
  BY <1>2 DEF Min

\* A bounded one also has a greatest.
LEMMA GreatestOf ==
  ASSUME NEW n \in Nat, NEW X \in SUBSET (0..n), X # {}
  PROVE  Max(X) \in X /\ \A y \in X : y <= Max(X)
<1> DEFINE D == {d \in 0..n : n - d \in X}
<1>1. D \in SUBSET Nat /\ D # {}
  <2>1. PICK x \in X : TRUE
    OBVIOUS
  <2>2. n - x \in D
    BY <2>1
  <2> QED
    BY <2>2
<1>2. Min(D) \in D /\ \A y \in D : Min(D) <= y
  BY <1>1, LeastOf
<1> DEFINE x == n - Min(D)
<1>3. x \in X /\ x \in Nat
  BY <1>2
<1>4. \A y \in X : y <= x
  <2> TAKE y \in X
  <2>1. n - y \in D
    OBVIOUS
  <2> QED
    BY <1>2, <2>1
<1> QED
  BY <1>3, <1>4 DEF Max

\* The larger of two numbers.
LEMMA LargerOfTwo ==
  ASSUME NEW a \in Int, NEW b \in Int
  PROVE  Max({a, b}) = IF a >= b THEN a ELSE b
BY DEF Max

\* The smaller of two numbers.
LEMMA SmallerOfTwo ==
  ASSUME NEW a \in Int, NEW b \in Int
  PROVE  Min({a, b}) = IF a <= b THEN a ELSE b
BY DEF Min

-----------------------------------------------------------------------------
(* Tables. *)

\* The bands of a row lie within a granule, and the first short bands that a
\* mixed block leaves out take the lines of its n - 1 long bands.
RowFits(b, n) ==
  /\ \A i \in 1..23 : b.l[i] \in 0..576
  /\ \A i \in 1..14 : b.s[i] \in 0..192
  /\ b.s[1] = 0
  /\ b.s[14] = 192
  /\ b.l[n] = 3 * b.s[4]
  /\ b.l[n] \in {36, 72}
  /\ \A i \in 1..n : b.l[i] <= b.l[n]
  /\ \A i \in 4..14 : b.s[i] >= b.s[4]

\* So it is in every row of sfBandTable.
LEMMA BandsFit ==
  ASSUME NEW ver \in Versions
  PROVE  RowFits(sfBandTable[ver], MixedLong(ver) + 1)
<1>1. ASSUME ver = 1
      PROVE  RowFits(sfBandTable[ver], MixedLong(ver) + 1)
  <2>1. \A i \in 1..23 : sfBandTable[1].l[i] \in 0..576
    BY DEF sfBandTable
  <2>2. \A i \in 1..14 : sfBandTable[1].s[i] \in 0..192
    BY DEF sfBandTable
  <2>3. sfBandTable[1].s[1] = 0 /\ sfBandTable[1].s[14] = 192
    BY DEF sfBandTable
  <2>4. \A i \in 4..14 : sfBandTable[1].s[i] >= sfBandTable[1].s[4]
    BY DEF sfBandTable
  <2>5. sfBandTable[1].l[9] = 3 * sfBandTable[1].s[4] /\ sfBandTable[1].l[9] \in {36, 72}
    BY DEF sfBandTable
  <2>6. \A i \in 1..9 : sfBandTable[1].l[i] <= sfBandTable[1].l[9]
    BY DEF sfBandTable
  <2>7. MixedLong(ver) + 1 = 9
    BY <1>1 DEF MixedLong
  <2>8. RowFits(sfBandTable[1], 9)
    BY <2>1, <2>2, <2>3, <2>4, <2>5, <2>6 DEF RowFits
  <2> QED
    BY <1>1, <2>7, <2>8
<1>2. ASSUME ver = 2
      PROVE  RowFits(sfBandTable[ver], MixedLong(ver) + 1)
  <2>1. \A i \in 1..23 : sfBandTable[2].l[i] \in 0..576
    BY DEF sfBandTable
  <2>2. \A i \in 1..14 : sfBandTable[2].s[i] \in 0..192
    BY DEF sfBandTable
  <2>3. sfBandTable[2].s[1] = 0 /\ sfBandTable[2].s[14] = 192
    BY DEF sfBandTable
  <2>4. \A i \in 4..14 : sfBandTable[2].s[i] >= sfBandTable[2].s[4]
    BY DEF sfBandTable
  <2>5. sfBandTable[2].l[7] = 3 * sfBandTable[2].s[4] /\ sfBandTable[2].l[7] \in {36, 72}
    BY DEF sfBandTable
  <2>6. \A i \in 1..7 : sfBandTable[2].l[i] <= sfBandTable[2].l[7]
    BY DEF sfBandTable
  <2>7. MixedLong(ver) + 1 = 7
    BY <1>2 DEF MixedLong
  <2>8. RowFits(sfBandTable[2], 7)
    BY <2>1, <2>2, <2>3, <2>4, <2>5, <2>6 DEF RowFits
  <2> QED
    BY <1>2, <2>7, <2>8
<1>3. ASSUME ver = 3
      PROVE  RowFits(sfBandTable[ver], MixedLong(ver) + 1)
  <2>1. \A i \in 1..23 : sfBandTable[3].l[i] \in 0..576
    BY DEF sfBandTable
  <2>2. \A i \in 1..14 : sfBandTable[3].s[i] \in 0..192
    BY DEF sfBandTable
  <2>3. sfBandTable[3].s[1] = 0 /\ sfBandTable[3].s[14] = 192
    BY DEF sfBandTable
  <2>4. \A i \in 4..14 : sfBandTable[3].s[i] >= sfBandTable[3].s[4]
    BY DEF sfBandTable
  <2>5. sfBandTable[3].l[7] = 3 * sfBandTable[3].s[4] /\ sfBandTable[3].l[7] \in {36, 72}
    BY DEF sfBandTable
  <2>6. \A i \in 1..7 : sfBandTable[3].l[i] <= sfBandTable[3].l[7]
    BY DEF sfBandTable
  <2>7. MixedLong(ver) + 1 = 7
    BY <1>3 DEF MixedLong
  <2>8. RowFits(sfBandTable[3], 7)
    BY <2>1, <2>2, <2>3, <2>4, <2>5, <2>6 DEF RowFits
  <2> QED
    BY <1>3, <2>7, <2>8
<1>4. ver = 1 \/ ver = 2 \/ ver = 3
  BY DEF Versions
<1> QED
  BY <1>1, <1>2, <1>3, <1>4

\* Every class of NRTab covers all 21 long bands, all 12 short ones and, of a
\* mixed block, the nine short bands behind its long part (scalfact.c:66).
LEMMA ClassesCover ==
  ASSUME NEW c \in 1..6
  PROVE  /\ \A k \in 1..3, i \in 1..4 : NRTab[c][k][i] \in Nat
         /\ NRTab[c][1][1] + NRTab[c][1][2] + NRTab[c][1][3] + NRTab[c][1][4] - 1 = 20
         /\ NRTab[c][2][1] + NRTab[c][2][2] + NRTab[c][2][3] + NRTab[c][2][4] - 1 = 11
         /\ 3 + NRTab[c][3][2] + NRTab[c][3][3] + NRTab[c][3][4] - 1 = 11
BY DEF NRTab

\* A product of natural numbers.
LEMMA ProductOfNats == \A a, b \in Nat : a * b \in Nat
OBVIOUS

-----------------------------------------------------------------------------
(* Where MP3Decode is, and what is left of the main data. *)

\* The side information of a granule once UnpackScaleFactors has taken the
\* bits of the scale factors off part23, which may leave less than nothing.
Taken == [switch : BOOLEAN, type : 0..3, mixed : BOOLEAN, class : 1..6,
          slen : [1..4 -> Nat], part23 : Int, pairs : 0..576, pairBits : Nat, quads : 0..576]

Calls == [at : {"idle", "scale", "huffman", "dequantize", "imdct", "subband"},
          gr : Gr, ch : Ch]

Place ==
  /\ step \in Calls
  /\ fh \in Header
  /\ step.at # "idle" => step.gr < Granules(fh.ver) /\ step.ch < fh.chans
  /\ step.at \in {"dequantize", "subband"} => step.ch = 0

Kinds == sis \in [Gr -> [Ch -> Taken \cup {NoSub}]]

\* Between UnpackScaleFactors and DecodeHuffman the bits left may be less
\* than none, but then part23 is too; it is what DecodeHuffman tests.
PartLeft ==
  step.at = "huffman" =>
    /\ sis[step.gr][step.ch] \in Taken
    /\ sis[step.gr][step.ch].part23 <= mainBits
    /\ mainBits <= 8 * Len(mainBuf)

Reading == Place /\ Kinds /\ mainBits \in Int /\ PartLeft /\ ReadsOwnData

\* UnpackSideInfo leaves fields that are in range.
LEMMA UnpackedIs ==
  ASSUME NEW side \in Sub
  PROVE  /\ Unpacked(side) \in Sub
         /\ Unpacked(side).type = side.type /\ Unpacked(side).mixed = side.mixed
<1>1. <<0, 0, 0, 0>> \in [1..4 -> Nat]
  OBVIOUS
<1>2. side.type \in 0..3 /\ side.mixed \in BOOLEAN /\ side.switch \in BOOLEAN
      /\ side \in [switch : BOOLEAN, type : 0..3, mixed : BOOLEAN, class : 1..6,
        slen : [1..4 -> Nat], part23 : Nat, pairs : 0..576, pairBits : Nat, quads : 0..576]
  BY DEF Sub
<1>3. CASE side.switch /\ side.type = 0
  <2> DEFINE none == <<0, 0, 0, 0>>
             new == [side EXCEPT !.part23 = 0, !.pairs = 0, !.pairBits = 0, !.class = 1,
                                 !.slen = none]
  <2>1. new \in Sub
    <3>1. none \in [1..4 -> Nat]
      BY <1>1
    <3> DEFINE zero == 0
               one == 1
               Types == 0..3
               Classes6 == 1..6
               Lengths == [1..4 -> Nat]
               Lines == 0..576
               Fields == [switch : BOOLEAN, type : Types, mixed : BOOLEAN, class : Classes6,
                          slen : Lengths, part23 : Nat, pairs : Lines, pairBits : Nat,
                          quads : Lines]
    <3>2. zero \in Nat /\ zero \in Lines /\ one \in Classes6 /\ none \in Lengths
      BY <3>1
    <3>3. side \in Fields
      BY <1>2
    <3>4. [side EXCEPT !.part23 = zero, !.pairs = zero, !.pairBits = zero, !.class = one,
                       !.slen = none] \in Fields
      <4> HIDE DEF none, zero, one, Types, Classes6, Lengths, Lines
      <4> QED
        BY <3>2, <3>3
    <3> QED
      BY <3>4 DEF Sub
  <2>2. new.type = side.type /\ new.mixed = side.mixed
    BY <1>2
  <2>3. Unpacked(side) = new
    BY <1>3 DEF Unpacked
  <2> HIDE DEF new
  <2> QED
    BY <2>1, <2>2, <2>3
<1>4. CASE ~(side.switch /\ side.type = 0)
  <2>1. Unpacked(side) = side
    BY <1>4 DEF Unpacked
  <2> QED
    BY <2>1
<1> QED
  BY <1>3, <1>4

\* Taking the bits of the scale factors off changes nothing else.
LEMMA TakenIs ==
  ASSUME NEW s \in Sub, NEW x \in Int
  PROVE  /\ [s EXCEPT !.part23 = x] \in Taken
         /\ [s EXCEPT !.part23 = x].type = s.type
         /\ [s EXCEPT !.part23 = x].mixed = s.mixed
         /\ [s EXCEPT !.part23 = x].part23 = x
BY DEF Sub, Taken

\* What kind of block it is.
LEMMA KindOf ==
  ASSUME NEW s \in Sub \cup Taken \cup {NoSub}
  PROVE  s.type \in 0..3 /\ s.mixed \in BOOLEAN
<1>1. CASE s \in Sub
  BY <1>1 DEF Sub
<1>2. CASE s \in Taken
  BY <1>2 DEF Taken
<1>3. CASE s = NoSub
  BY <1>3 DEF NoSub
<1> QED
  BY <1>1, <1>2, <1>3

\* Bands are few.
LEMMA CountIsNat ==
  ASSUME NEW X \in SUBSET (0..22)
  PROVE  Cardinality(X) \in Nat
<1> DEFINE n == 22
<1>1. IsFiniteSet(0..n)
  <2>1. 0 \in Int /\ n \in Int
    OBVIOUS
  <2> HIDE DEF n
  <2> QED
    BY <2>1, FS_Interval
<1>2. IsFiniteSet(X)
  BY <1>1, FS_Subset
<1> QED
  BY <1>2, FS_CardinalityType

\* The bands that UnpackSFMPEG1 and UnpackSFMPEG2 read are bands that are sent.
LEMMA BandsRead ==
  ASSUME NEW s \in Sub, NEW gr \in Gr, NEW scfsi
  PROVE  /\ ReadMPEG1(s, gr, scfsi).l \in SUBSET (0..20)
         /\ ReadMPEG1(s, gr, scfsi).s \in SUBSET (0..11)
BY DEF ReadMPEG1

\* Scale factors never give bits back.
LEMMA BitsAreNat ==
  ASSUME NEW s \in Sub, NEW gr \in Gr, NEW scfsi
  PROVE  /\ BitsMPEG1(s, ReadMPEG1(s, gr, scfsi)) \in Nat
         /\ BitsMPEG2(s) \in Nat
<1>1. /\ s.class \in 1..6
      /\ \A i \in 1..4 : s.slen[i] \in Nat
  BY DEF Sub
<1>2. BitsMPEG1(s, ReadMPEG1(s, gr, scfsi)) \in Nat
  <2> DEFINE read == ReadMPEG1(s, gr, scfsi)
             l1 == {b \in read.l : b < 11}
             l2 == {b \in read.l : b >= 11}
             s1 == {b \in read.s : b < 6}
             s2 == {b \in read.s : b >= 6}
  <2>1. /\ l1 \in SUBSET (0..22) /\ l2 \in SUBSET (0..22)
        /\ s1 \in SUBSET (0..22) /\ s2 \in SUBSET (0..22)
    <3>1. read.l \in SUBSET (0..22) /\ read.s \in SUBSET (0..22)
      BY BandsRead
    <3> HIDE DEF read
    <3> QED
      BY <3>1
  <2>2. /\ Cardinality(l1) + 3 * Cardinality(s1) \in Nat
        /\ Cardinality(l2) + 3 * Cardinality(s2) \in Nat
    <3>1. /\ Cardinality(l1) \in Nat /\ Cardinality(s1) \in Nat
          /\ Cardinality(l2) \in Nat /\ Cardinality(s2) \in Nat
      BY <2>1, CountIsNat
    <3> HIDE DEF l1, l2, s1, s2
    <3> QED
      BY <3>1
  <2> DEFINE n1 == Cardinality(l1) + 3 * Cardinality(s1)
             n2 == Cardinality(l2) + 3 * Cardinality(s2)
  <2>3. BitsMPEG1(s, read) = s.slen[1] * n1 + s.slen[2] * n2
    BY DEF BitsMPEG1
  <2>4. s.slen[1] * n1 \in Nat /\ s.slen[2] * n2 \in Nat
    <3>1. n1 \in Nat /\ n2 \in Nat /\ s.slen[1] \in Nat /\ s.slen[2] \in Nat
      BY <1>1, <2>2
    <3> HIDE DEF n1, n2
    <3> QED
      BY <3>1, ProductOfNats
  <2>5. \A x, y \in Nat : x + y \in Nat
    OBVIOUS
  <2> HIDE DEF n1, n2
  <2> QED
    BY <2>3, <2>4, <2>5, Zenon
<1>3. BitsMPEG2(s) \in Nat
  <2> DEFINE k == IF Long(s) THEN 1 ELSE IF Short(s) THEN 2 ELSE 3
             nr == NRTab[s.class][k]
             slen == IF s.class = 3 /\ s.mixed THEN <<s.slen[1], s.slen[1], s.slen[2], 0>>
                     ELSE s.slen
             part(i) == nr[i] * slen[i] * (IF Short(s) \/ (Mixed(s) /\ i > 1) THEN 3 ELSE 1)
  <2>1. \A i \in 1..4 : nr[i] \in Nat
    <3>1. k \in 1..3
      OBVIOUS
    <3> HIDE DEF k
    <3> QED
      BY <1>1, <3>1, ClassesCover
  <2>2. \A i \in 1..4 : slen[i] \in Nat
    BY <1>1
  <2>3. \A i \in 1..4 : part(i) \in Nat
    <3> TAKE i \in 1..4
    <3>1. nr[i] \in Nat /\ slen[i] \in Nat
      BY <2>1, <2>2
    <3> HIDE DEF nr, slen
    <3>2. nr[i] * slen[i] \in Nat
      BY <3>1, ProductOfNats
    <3>3. (IF Short(s) \/ (Mixed(s) /\ i > 1) THEN 3 ELSE 1) \in Nat
      OBVIOUS
    <3> QED
      BY <3>2, <3>3, ProductOfNats
  <2>4. BitsMPEG2(s) = part(1) + part(2) + part(3) + part(4)
    BY DEF BitsMPEG2
  <2> HIDE DEF part
  <2> QED
    BY <2>3, <2>4
<1> QED
  BY <1>2, <1>3

OwnBytes ==
  /\ \A i \in DOMAIN mainBuf : mainBuf[i] = Len(mainBuf) - i
  /\ MainBufBound

\* Where nothing is being decoded, only the bytes matter.
LEMMA IdleReads ==
  ASSUME Kinds', mainBits' \in Int, OwnBytes', fh' \in Header, step' = Idle
  PROVE  Reading'
<1>1. /\ step' \in Calls
      /\ step'.at = "idle"
  BY DEF Calls, Idle, Gr, Ch
<1> QED
  BY <1>1 DEF Reading, Place, PartLeft, ReadsOwnData, OwnBytes

\* A decoder that was just allocated has no main data and no bits.
LEMMA ReadingInit == Init => Reading
<1> SUFFICES ASSUME Init
             PROVE  Reading
  OBVIOUS
<1>1. mainBuf = <<>> /\ step = Idle /\ fh \in Header /\ mainBits \in Int
  BY HelixAssumption DEF Init, MainInit
<1>2. Kinds
  BY DEF Init, Kinds, Gr, Ch
<1>3. OwnBytes
  BY <1>1, EmptySeq, MainDataAssumption DEF OwnBytes, MainBufBound
<1>4. /\ step \in Calls
      /\ step.at = "idle"
  BY <1>1 DEF Calls, Idle, Gr, Ch
<1> QED
  BY <1>1, <1>2, <1>3, <1>4 DEF Reading, Place, PartLeft, ReadsOwnData, OwnBytes

\* A frame is added: with its reservoir there, all bits are its own.
LEMMA StartFrameReads ==
  ASSUME Reading,
         NEW h \in Headers, NEW begin \in Begins, NEW n \in SlotSet, StartFrame(h, begin, n)
  PROVE  Reading'
<1> DEFINE k == Len(mainBuf)
           m == (IF k >= begin THEN begin ELSE k) + n
<1>1. /\ begin \in 0..MaxBegin /\ n \in 0..MaxSlots /\ h \in Header
      /\ begin \in Nat /\ n \in Nat /\ MainBufSize \in Nat
      /\ MaxBegin \in Nat /\ MaxSlots \in Nat /\ MaxBegin + MaxSlots <= MainBufSize
  BY HelixAssumption, MainDataAssumption
<1>2. k \in Nat /\ mainBuf = [i \in 1..k |-> k - i]
  BY LenProperties DEF Reading, ReadsOwnData, MainBufBound
<1>3. mainBuf' \in Seq(Int) /\ Len(mainBuf') = m /\ \A i \in 1..m : mainBuf'[i] = m - i
  <2> DEFINE older == [i \in DOMAIN mainBuf |-> mainBuf[i] + n]
             new   == [i \in 1..n |-> n - i]
  <2>1. mainBuf' = Refilled(older, begin, new)
    BY DEF StartFrame
  <2>2. older = [i \in 1..k |-> k + n - i]
    BY <1>1, <1>2
  <2>3. older \in Seq(Int) /\ Len(older) = k /\ \A i \in 1..k : older[i] = k + n - i
    BY <1>1, <1>2, <2>2
  <2>4. new \in Seq(Int) /\ Len(new) = n /\ \A i \in 1..n : new[i] = n - i
    BY <1>1
  <2>5. /\ m \in Nat /\ m = (IF k >= begin THEN begin ELSE k) + n
        /\ k \in Nat /\ begin \in Nat /\ n \in Nat
    BY <1>1, <1>2
  <2> HIDE DEF older, new, m, k
  <2> DEFINE kept  == IF k >= begin THEN begin ELSE k
             front == IF k >= begin THEN Suffix(older, begin) ELSE older
  <2>6. front \in Seq(Int) /\ Len(front) = kept /\ \A i \in 1..kept : front[i] = m - i
    <3>1. CASE k >= begin
      <4> DEFINE first == k - begin + 1
      <4>1. front = SubSeq(older, first, k)
        BY <2>3, <2>5, <3>1 DEF Suffix
      <4>2. first \in 1..(Len(older) + 1) /\ k \in (first - 1)..Len(older)
        BY <2>3, <2>5, <3>1
      <4>3. /\ SubSeq(older, first, k) \in Seq(Int)
            /\ Len(SubSeq(older, first, k)) = IF first <= k THEN k - first + 1 ELSE 0
            /\ \A i \in 1..(k - first + 1) : SubSeq(older, first, k)[i] = older[first + i - 1]
        <5>1. \A i \in first..k : older[i] \in Int
          BY <2>3, <2>5, <3>1
        <5>2. first \in Int /\ k \in Int
          BY <2>5, <3>1
        <5> HIDE DEF first
        <5> QED
          BY <5>1, <5>2, SubSeqProperties
      <4>4. \A i \in 1..kept : /\ i \in 1..(k - first + 1) /\ first + i - 1 \in 1..k
                               /\ k + n - (first + i - 1) = m - i
        BY <2>5, <3>1
      <4>5. (IF first <= k THEN k - first + 1 ELSE 0) = kept
        BY <2>5, <3>1
      <4> HIDE DEF front, first, kept
      <4>6. Len(front) = kept
        BY <4>1, <4>3, <4>5, Zenon
      <4>7. \A i \in 1..kept : front[i] = m - i
        <5> TAKE i \in 1..kept
        <5>1. front[i] = older[first + i - 1]
          BY <4>1, <4>3, <4>4, Zenon
        <5>2. older[first + i - 1] = k + n - (first + i - 1)
          BY <2>3, <4>4, Zenon
        <5> QED
          BY <4>4, <5>1, <5>2, Zenon
      <4> QED
        BY <4>1, <4>3, <4>6, <4>7, Zenon
    <3>2. CASE ~(k >= begin)
      BY <2>3, <2>5, <3>2
    <3> QED
      BY <2>5, <3>1, <3>2
  <2>7. Refilled(older, begin, new) = front \o new
    BY <2>3, <2>5 DEF Refilled
  <2> HIDE DEF front
  <2>8. /\ front \o new \in Seq(Int)
        /\ Len(front \o new) = m
        /\ \A i \in 1..m : (front \o new)[i] = IF i <= kept THEN front[i] ELSE new[i - kept]
    <3> HIDE DEF kept
    <3>1. /\ front \o new \in Seq(Int)
          /\ Len(front \o new) = kept + n
          /\ \A i \in 1..(kept + n) : (front \o new)[i] =
                IF i <= kept THEN front[i] ELSE new[i - kept]
      BY <2>4, <2>5, <2>6, ConcatProperties
    <3> QED
      BY <2>5, <3>1 DEF kept
  <2>9. \A i \in 1..m : (front \o new)[i] = m - i
    <3> TAKE i \in 1..m
    <3>1. kept \in Nat /\ n \in Nat
      BY <2>5
    <3>2. CASE i <= kept
      <4>1. i \in 1..kept
        BY <2>5, <3>1, <3>2
      <4> QED
        BY <2>6, <2>8, <3>2, <4>1
    <3>3. CASE ~(i <= kept)
      <4>1. i - kept \in 1..n /\ n - (i - kept) = m - i
        BY <2>5, <3>1, <3>3
      <4> QED
        BY <2>4, <2>8, <3>3, <4>1
    <3> QED
      BY <3>2, <3>3
  <2> QED
    BY <2>1, <2>7, <2>8, <2>9
<1>4. m \in Nat /\ m <= MainBufSize
  BY <1>1, <1>2
<1>5. OwnBytes' /\ Len(mainBuf') = m
  <2> HIDE DEF m
  <2>1. \A i \in 1..m : m - i \in Byte
    <3> TAKE i \in 1..m
    <3>1. m - i \in 0..(MainBufSize - 1)
      BY <1>1, <1>4
    <3> QED
      BY <3>1, HelixAssumption
  <2>2. mainBuf' \in Seq(Byte) /\ Len(mainBuf') = m /\ DOMAIN mainBuf' = 1..m
    BY <1>3, <1>4, <2>1
  <2>3. \A i \in 1..m : mainBuf'[i] = m - i
    BY <1>3
  <2> QED
    BY <1>4, <2>2, <2>3 DEF OwnBytes, MainBufBound
<1>6. fh' = h /\ fh' \in Header
  BY <1>1 DEF StartFrame
<1>7. CASE k >= begin
  <2>1. /\ step' = [Idle EXCEPT !.at = "scale"]
        /\ mainBits' = 8 * (begin + n)
        /\ sis' = [g \in Gr |-> [c \in Ch |-> NoSub]]
    BY <1>7 DEF StartFrame
  <2>2. /\ step'.at = "scale" /\ step'.gr = 0 /\ step'.ch = 0
        /\ step' \in Calls
    BY <2>1 DEF Calls, Idle, Gr, Ch
  <2>3. 0 < Granules(fh'.ver) /\ 0 < fh'.chans
    BY <1>6 DEF Header, Granules
  <2>4. Place'
    BY <1>6, <2>2, <2>3 DEF Place
  <2>5. Kinds'
    BY <2>1 DEF Kinds
  <2>6. mainBits' \in 0..(8 * Len(mainBuf')) /\ mainBits' \in Int
    BY <1>1, <1>2, <1>5, <1>7, <2>1
  <2> QED
    BY <1>5, <2>2, <2>4, <2>5, <2>6 DEF Reading, PartLeft, ReadsOwnData, OwnBytes
<1>8. CASE ~(k >= begin)
  <2>1. step' = Idle /\ UNCHANGED <<mainBits, sis>>
    BY <1>8 DEF StartFrame, Fail
  <2>2. Kinds' /\ mainBits' \in Int
    BY <2>1 DEF Reading, Kinds
  <2>3. OwnBytes' /\ fh' \in Header
    BY <1>5, <1>6
  <2> QED
    BY <2>1, <2>2, <2>3, IdleReads
<1> QED
  BY <1>7, <1>8

\* MP3Decode calls a function only for a granule and channel of the frame.
LEMMA Calling ==
  ASSUME Place
  PROVE  /\ step.gr \in Gr /\ step.ch \in Ch /\ fh.ver \in Versions /\ fh.chans \in 1..2
         /\ fh.ext \in 0..3
BY DEF Place, Header, Calls

\* The side information that UnpackScaleFactors takes is in range.
LEMMA SideIs ==
  ASSUME Place, NEW side \in SideInfo[step.ch]
  PROVE  side \in Sub
BY Calling, HelixAssumption DEF Ch

\* The scale factors may take more bits than there are, and then no granule
\* is accepted.
LEMMA UnpackScaleFactorsReads ==
  ASSUME Reading, NEW side \in SideInfo[step.ch], NEW scfsi, UnpackScaleFactors(side, scfsi)
  PROVE  Reading'
<1> DEFINE s    == Unpacked(side)
           bits == IF fh.ver = 1 THEN BitsMPEG1(s, ReadMPEG1(s, step.gr, scfsi))
                   ELSE BitsMPEG2(s)
           left == s.part23 - bits
           new  == [s EXCEPT !.part23 = left]
<1>1. Place /\ Kinds /\ mainBits \in Int /\ ReadsOwnData /\ OwnBytes /\ step.at = "scale"
  BY DEF Reading, UnpackScaleFactors, ReadsOwnData, OwnBytes
<1>2. s \in Sub
  BY <1>1, SideIs, UnpackedIs
<1>3. bits \in Nat
  BY <1>1, <1>2, BitsAreNat, Calling
<1>4. s.part23 \in Nat /\ left \in Int
  <2> HIDE DEF s, bits
  <2> QED
    BY <1>2, <1>3 DEF Sub
<1>5. new \in Taken /\ new.part23 = left
  BY <1>2, <1>4, TakenIs
<1>6. /\ mainBits' = mainBits - bits
      /\ sis' = [sis EXCEPT ![step.gr][step.ch] = new]
      /\ fh' = fh /\ mainBuf' = mainBuf
      /\ IF mainBits - bits < s.part23 - bits THEN step' = Idle
         ELSE step' = [step EXCEPT !.at = "huffman"]
  <2>1. new = [s EXCEPT !.part23 = @ - bits]
    OBVIOUS
  <2> HIDE DEF new
  <2> QED
    BY <2>1 DEF UnpackScaleFactors, Fail
<1> HIDE DEF s, bits, left, new
<1>7. Kinds' /\ sis'[step.gr][step.ch] = new
  BY <1>1, <1>5, <1>6, Calling DEF Kinds
<1>8. mainBits' \in Int /\ OwnBytes' /\ fh' \in Header
  BY <1>1, <1>3, <1>6 DEF OwnBytes, MainBufBound, Place
<1>9. CASE mainBits - bits < s.part23 - bits
  BY <1>6, <1>7, <1>8, <1>9, IdleReads
<1>10. CASE ~(mainBits - bits < s.part23 - bits)
  <2>1. step' = [step EXCEPT !.at = "huffman"]
    BY <1>6, <1>10
  <2>2. /\ step'.at = "huffman" /\ step'.gr = step.gr /\ step'.ch = step.ch
        /\ step' \in Calls
    BY <1>1, <2>1 DEF Place, Calls
  <2>3. Place'
    BY <1>1, <1>6, <2>2 DEF Place
  <2>4. /\ sis'[step'.gr][step'.ch] \in Taken
        /\ sis'[step'.gr][step'.ch].part23 = left
    BY <1>5, <1>7, <2>2
  <2>5. left <= mainBits' /\ mainBits' <= 8 * Len(mainBuf')
    <3>1. mainBits \in 0..(8 * Len(mainBuf)) /\ Len(mainBuf) \in Nat
      BY <1>1, LenProperties DEF ReadsOwnData, MainBufBound
    <3>2. left <= mainBits' /\ mainBits' <= 8 * Len(mainBuf)
      BY <1>1, <1>3, <1>4, <1>6, <1>10, <3>1 DEF left
    <3> QED
      BY <1>6, <3>2
  <2> QED
    BY <1>7, <1>8, <2>2, <2>3, <2>4, <2>5 DEF Reading, PartLeft, ReadsOwnData, OwnBytes
<1> QED
  BY <1>9, <1>10

\* DecodeHuffman leaves no less than nothing, or fails.
LEMMA DecodeHuffmanReads ==
  ASSUME Reading, DecodeHuffman
  PROVE  Reading'
<1> DEFINE s == sis[step.gr][step.ch]
<1>1. /\ Place /\ Kinds /\ mainBits \in Int /\ ReadsOwnData /\ OwnBytes /\ step.at = "huffman"
      /\ s.part23 <= mainBits /\ mainBits <= 8 * Len(mainBuf) /\ s \in Taken
  BY DEF Reading, DecodeHuffman, ReadsOwnData, OwnBytes, PartLeft
<1>2. /\ fh' = fh /\ mainBuf' = mainBuf /\ sis' = sis
      /\ \/ step' = Idle /\ mainBits' = mainBits
         \/ /\ ~(s.part23 < 0)
            /\ mainBits' = mainBits - s.part23
            /\ step' = IF step.ch + 1 < fh.chans
                       THEN [step EXCEPT !.at = "scale", !.ch = step.ch + 1]
                       ELSE [step EXCEPT !.at = "dequantize", !.ch = 0]
  BY DEF DecodeHuffman, Fail
<1>3. s.part23 \in Int
  BY <1>1 DEF Taken
<1>4. Kinds' /\ OwnBytes' /\ fh' \in Header
  BY <1>1, <1>2 DEF Kinds, OwnBytes, MainBufBound, Place
<1>5. CASE step' = Idle /\ mainBits' = mainBits
  BY <1>1, <1>4, <1>5, IdleReads
<1>6. CASE /\ ~(s.part23 < 0)
           /\ mainBits' = mainBits - s.part23
           /\ step' = IF step.ch + 1 < fh.chans
                      THEN [step EXCEPT !.at = "scale", !.ch = step.ch + 1]
                      ELSE [step EXCEPT !.at = "dequantize", !.ch = 0]
  <2>1. mainBits' \in Int /\ mainBits' \in 0..(8 * Len(mainBuf'))
    <3>1. Len(mainBuf) \in Nat
      BY <1>1, LenProperties DEF ReadsOwnData, MainBufBound
    <3>2. mainBits - s.part23 \in 0..(8 * Len(mainBuf))
      BY <1>1, <1>3, <1>6, <3>1
    <3> QED
      BY <1>2, <1>6, <3>2
  <2>2. /\ step'.at \in {"scale", "dequantize"} /\ step'.gr = step.gr
        /\ step'.ch \in Ch /\ step'.ch < fh.chans
        /\ step'.at = "dequantize" => step'.ch = 0
        /\ step' \in Calls
    <3>1. /\ step \in Calls
          /\ fh.chans \in 1..2 /\ step.ch \in 0..1
      BY <1>1, Calling DEF Place, Ch
    <3>2. CASE step.ch + 1 < fh.chans
      <4>1. step.ch + 1 \in 0..1
        BY <3>1, <3>2
      <4> QED
        BY <1>6, <3>1, <3>2, <4>1 DEF Calls, Ch
    <3>3. CASE ~(step.ch + 1 < fh.chans)
      <4>1. 0 \in 0..1 /\ 0 < fh.chans
        BY <3>1
      <4> QED
        BY <1>6, <3>1, <3>3, <4>1 DEF Calls, Ch
    <3> QED
      BY <3>2, <3>3
  <2>3. Place'
    BY <1>1, <1>2, <2>2 DEF Place
  <2> QED
    BY <1>4, <2>1, <2>2, <2>3 DEF Reading, PartLeft, ReadsOwnData, OwnBytes
<1> QED
  BY <1>2, <1>5, <1>6

\* Dequantize, IMDCT and Subband do not touch the main data.
LEMMA SignalReads ==
  ASSUME Reading, Dequantize \/ IMDCT \/ Subband
  PROVE  Reading'
<1>1. /\ Place /\ Kinds /\ mainBits \in Int /\ ReadsOwnData /\ OwnBytes
      /\ step.at \in {"dequantize", "imdct", "subband"}
  BY DEF Reading, ReadsOwnData, OwnBytes, Dequantize, IMDCT, Subband
<1>2. /\ fh' = fh /\ mainBuf' = mainBuf /\ sis' = sis /\ mainBits' = mainBits
      /\ mainBits \in 0..(8 * Len(mainBuf))
  <2>1. mainBits \in 0..(8 * Len(mainBuf))
    BY <1>1 DEF ReadsOwnData
  <2>2. CASE Dequantize
    BY <2>1, <2>2 DEF Dequantize
  <2>3. CASE IMDCT
    BY <2>1, <2>3 DEF IMDCT
  <2>4. CASE Subband
    BY <2>1, <2>4 DEF Subband
  <2> QED
    BY <2>2, <2>3, <2>4
<1>3. \/ step' = Idle
      \/ /\ step'.at \in {"scale", "imdct", "subband"} /\ step'.gr < Granules(fh.ver)
         /\ step'.ch < fh.chans /\ step' \in Calls
         /\ step'.at = "subband" => step'.ch = 0
  <2>1. /\ step \in Calls /\ step.gr \in 0..1 /\ step.ch \in 0..1
        /\ step.gr < Granules(fh.ver) /\ step.ch < fh.chans /\ fh.chans \in 1..2
        /\ Granules(fh.ver) \in 1..2
    BY <1>1, Calling DEF Place, Granules, Gr, Ch
  <2>2. CASE Dequantize
    <3>1. step' = [step EXCEPT !.at = "imdct"]
      BY <2>2 DEF Dequantize
    <3> QED
      BY <2>1, <3>1 DEF Calls
  <2>3. CASE IMDCT
    <3>1. step' = IF step.ch + 1 < fh.chans THEN [step EXCEPT !.ch = step.ch + 1]
                  ELSE [step EXCEPT !.at = "subband", !.ch = 0]
      BY <2>3 DEF IMDCT
    <3>2. step.at = "imdct"
      BY <2>3 DEF IMDCT
    <3>3. CASE step.ch + 1 < fh.chans
      <4>1. step.ch + 1 \in 0..1
        BY <2>1, <3>3
      <4> QED
        BY <2>1, <3>1, <3>2, <3>3, <4>1 DEF Calls, Ch
    <3>4. CASE ~(step.ch + 1 < fh.chans)
      <4>1. 0 \in 0..1 /\ 0 < fh.chans
        BY <2>1
      <4> QED
        BY <2>1, <3>1, <3>4, <4>1 DEF Calls, Ch
    <3> QED
      BY <3>3, <3>4
  <2>4. CASE Subband
    <3>1. IF step.gr + 1 < Granules(fh.ver)
          THEN step' = [Idle EXCEPT !.at = "scale", !.gr = step.gr + 1] ELSE step' = Idle
      BY <2>4 DEF Subband, Fail
    <3>2. CASE step.gr + 1 < Granules(fh.ver)
      <4>1. step' = [at |-> "scale", gr |-> step.gr + 1, ch |-> 0]
        BY <3>1, <3>2 DEF Idle
      <4>2. step.gr + 1 \in 0..1 /\ 0 \in 0..1 /\ 0 < fh.chans
        BY <2>1, <3>2
      <4> QED
        BY <3>2, <4>1, <4>2 DEF Calls, Gr, Ch
    <3> QED
      BY <3>1, <3>2
  <2> QED
    BY <2>2, <2>3, <2>4
<1>4. Kinds' /\ OwnBytes' /\ fh' \in Header /\ mainBits' \in Int
  BY <1>1, <1>2 DEF Kinds, OwnBytes, MainBufBound, Place
<1>5. CASE step' = Idle
  BY <1>4, <1>5, IdleReads
<1>6. CASE /\ step'.at \in {"scale", "imdct", "subband"} /\ step'.gr < Granules(fh.ver)
           /\ step'.ch < fh.chans /\ step' \in Calls
           /\ step'.at = "subband" => step'.ch = 0
  BY <1>2, <1>4, <1>6 DEF Reading, Place, PartLeft, ReadsOwnData, OwnBytes
<1> QED
  BY <1>3, <1>5, <1>6

\* Whatever MP3Decode does next, it stays within the main data.
LEMMA ReadingNext ==
  ASSUME Reading, [Next]_vars
  PROVE  Reading'
<1>1. CASE UNCHANGED vars
  BY <1>1 DEF vars, Reading, Place, Kinds, PartLeft, ReadsOwnData, MainBufBound
<1>2. CASE BadHeader \/ \E h \in Headers : Truncated(h)
  <2>1. step' = Idle /\ UNCHANGED <<sis, mainBits, mainBuf>> /\ fh' \in Header
    BY <1>2, HelixAssumption DEF BadHeader, Truncated, Fail, Reading, Place
  <2>2. Kinds' /\ mainBits' \in Int /\ OwnBytes'
    BY <2>1 DEF Reading, Kinds, OwnBytes, ReadsOwnData, MainBufBound
  <2> QED
    BY <2>1, <2>2, IdleReads
<1>3. CASE \E h \in Headers, begin \in Begins, n \in SlotSet : StartFrame(h, begin, n)
  BY <1>3, StartFrameReads
<1>4. CASE \E side \in SideInfo[step.ch], scfsi \in Scfsi : UnpackScaleFactors(side, scfsi)
  BY <1>4, UnpackScaleFactorsReads
<1>5. CASE DecodeHuffman
  BY <1>5, DecodeHuffmanReads
<1>6. CASE Dequantize \/ IMDCT \/ Subband
  BY <1>6, SignalReads
<1> QED
  BY <1>1, <1>2, <1>3, <1>4, <1>5, <1>6 DEF Next

\* A frame is decoded from its own data, for every reservoir and every length
\* of scale factors and code words: mainBuf never has a gap or a byte too
\* many, and the bits taken without a look (UnpackScaleFactors) are missed by
\* DecodeHuffman before a granule is accepted.
THEOREM ReadsOwnDataHolds == Spec => []ReadsOwnData
<1>1. Reading => ReadsOwnData
  BY DEF Reading
<1> QED
  BY <1>1, ReadingInit, ReadingNext, PTL DEF Spec

-----------------------------------------------------------------------------
(* Where scale factors are from. *)

Marks == {"zero", "new", "old"}

FactorSets == [l : [0..22 -> Marks], s : [0..12 -> Marks]]

\* The first granule of channel c has its scale factors.
Sent(c) ==
  \/ step.gr = 1
  \/ step.at \in {"dequantize", "imdct", "subband"}
  \/ c < step.ch
  \/ step.at = "huffman" /\ c = step.ch

\* What granule 1 may copy from long blocks of granule 0 is of this frame.
MayBeCopied ==
  fh.ver = 1 /\ step.at # "idle" =>
    \A c \in Ch : c < fh.chans /\ Sent(c) /\ Long(sis[0][c]) =>
      \A b \in 0..20 : sfis[0][c].l[b] = "new"

\* The band of long blocks that is never sent is never set to anything.
LastIsZero == \A g \in Gr, c \in Ch : sfis[g][c].l[21] = "zero"

Fresh ==
  /\ sfis \in [Gr -> [Ch -> FactorSets]]
  /\ LastIsZero /\ MayBeCopied /\ FactorsAreFresh

\* What UnpackScaleFactors reads in this granule.
Read(s, scfsi) ==
  IF fh.ver = 1 THEN ReadMPEG1(s, step.gr, scfsi) ELSE ReadMPEG2(s)

\* The bands that UnpackSFMPEG1 and UnpackSFMPEG2 read, with those that are
\* copied in granule 1, are all the bands that the block has and no others.
LEMMA ReadsAllBands ==
  ASSUME Place, NEW s \in Sub, NEW scfsi
  PROVE  /\ Read(s, scfsi).l \in SUBSET (0..20) /\ Read(s, scfsi).s \in SUBSET (0..11)
         /\ Long(s) => \A b \in 0..20 :
              \/ b \in Read(s, scfsi).l
              \/ Group(b) \in scfsi /\ fh.ver = 1 /\ step.gr = 1
         /\ Mixed(s) => \A b \in 0..(MixedLong(fh.ver) - 1) : b \in Read(s, scfsi).l
         /\ ~Long(s) => \A b \in (IF s.mixed THEN 3 ELSE 0)..11 : b \in Read(s, scfsi).s
<1>1. /\ step.gr \in 0..1 /\ s.class \in 1..6 /\ s.mixed \in BOOLEAN
      /\ Short(s) <=> s.type = 2 /\ ~s.mixed
      /\ Mixed(s) <=> s.type = 2 /\ s.mixed
      /\ Long(s) <=> s.type # 2
  BY Calling DEF Sub, Gr, Short, Mixed, Long
<1>2. CASE fh.ver = 1
  <2> DEFINE read == ReadMPEG1(s, step.gr, scfsi)
  <2>1. Read(s, scfsi) = read /\ MixedLong(fh.ver) = 8
    BY <1>2 DEF Read, MixedLong
  <2>2. /\ Long(s) => /\ read.l = {b \in 0..20 : step.gr = 0 \/ Group(b) \notin scfsi}
                      /\ read.s = {}
        /\ Short(s) => read.l = {} /\ read.s = 0..11
        /\ Mixed(s) => read.l = 0..7 /\ read.s = 3..11
    BY <1>1 DEF ReadMPEG1
  <2>3. Long(s) \/ Short(s) \/ Mixed(s)
    BY <1>1
  <2>4. ASSUME Long(s), NEW b \in 0..20, b \notin read.l
        PROVE  Group(b) \in scfsi /\ fh.ver = 1 /\ step.gr = 1
    <3>1. Group(b) \in scfsi /\ step.gr # 0
      BY <2>2, <2>4
    <3> QED
      BY <1>1, <1>2, <3>1
  <2> HIDE DEF read
  <2>5. read.l \in SUBSET (0..20) /\ read.s \in SUBSET (0..11)
    BY <2>2, <2>3
  <2>6. Mixed(s) => \A b \in 0..(8 - 1) : b \in read.l
    BY <2>2
  <2>7. ~Long(s) => \A b \in (IF s.mixed THEN 3 ELSE 0)..11 : b \in read.s
    BY <1>1, <2>2
  <2> QED
    BY <2>1, <2>4, <2>5, <2>6, <2>7, Zenon
<1>3. CASE fh.ver # 1
  <2> DEFINE read == ReadMPEG2(s)
             nr(k) == NRTab[s.class][k]
  <2>1. Read(s, scfsi) = read /\ MixedLong(fh.ver) = 6
    BY <1>3 DEF Read, MixedLong
  <2>2. /\ nr(1)[1] + nr(1)[2] + nr(1)[3] + nr(1)[4] - 1 = 20
        /\ nr(2)[1] + nr(2)[2] + nr(2)[3] + nr(2)[4] - 1 = 11
        /\ 3 + nr(3)[2] + nr(3)[3] + nr(3)[4] - 1 = 11
    BY <1>1, ClassesCover
  <2>3. /\ Long(s)  => /\ read.l = 0..(nr(1)[1] + nr(1)[2] + nr(1)[3] + nr(1)[4] - 1)
                       /\ read.s = {}
        /\ Short(s) => /\ read.l = {}
                       /\ read.s = 0..(nr(2)[1] + nr(2)[2] + nr(2)[3] + nr(2)[4] - 1)
        /\ Mixed(s) => read.l = 0..5 /\ read.s = 3..(3 + nr(3)[2] + nr(3)[3] + nr(3)[4] - 1)
    BY <1>1 DEF ReadMPEG2
  <2>4. Long(s) \/ Short(s) \/ Mixed(s)
    BY <1>1
  <2> HIDE DEF read, nr
  <2>5. /\ Long(s)  => read.l = 0..20 /\ read.s = {}
        /\ Short(s) => read.l = {} /\ read.s = 0..11
        /\ Mixed(s) => read.l = 0..5 /\ read.s = 3..11
    BY <2>2, <2>3, Zenon
  <2>6. read.l \in SUBSET (0..20) /\ read.s \in SUBSET (0..11)
    BY <2>4, <2>5
  <2>7. Long(s) => \A b \in 0..20 : b \in read.l
    BY <2>5
  <2>8. Mixed(s) => \A b \in 0..(6 - 1) : b \in read.l
    BY <2>5
  <2>9. ~Long(s) => \A b \in (IF s.mixed THEN 3 ELSE 0)..11 : b \in read.s
    BY <1>1, <2>5
  <2> QED
    BY <2>1, <2>6, <2>7, <2>8, <2>9, Zenon
<1> QED
  BY <1>2, <1>3

\* AllocateBuffers clears the scale factors.
LEMMA FreshInit == Init => Fresh
<1> SUFFICES ASSUME Init
             PROVE  Fresh
  OBVIOUS
<1>1. /\ sfis = [g \in Gr |-> [c \in Ch |->
                   [l |-> [b \in 0..22 |-> "zero"], s |-> [b \in 0..12 |-> "zero"]]]]
      /\ step.at = "idle"
  BY DEF Init, Idle
<1>2. [l |-> [b \in 0..22 |-> "zero"], s |-> [b \in 0..12 |-> "zero"]] \in FactorSets
  BY DEF FactorSets, Marks
<1>3. sfis \in [Gr -> [Ch -> FactorSets]]
  <2> DEFINE none == [l |-> [b \in 0..22 |-> "zero"], s |-> [b \in 0..12 |-> "zero"]]
  <2>1. sfis = [g \in Gr |-> [c \in Ch |-> none]] /\ none \in FactorSets
    BY <1>1, <1>2
  <2> HIDE DEF none
  <2> QED
    BY <2>1
<1>4. LastIsZero
  BY <1>1 DEF LastIsZero
<1> QED
  BY <1>1, <1>3, <1>4 DEF Fresh, MayBeCopied, FactorsAreFresh

\* A frame makes the factors of the frames before old ones; the zero stays.
LEMMA StartFrameFresh ==
  ASSUME Fresh, NEW h, NEW begin, NEW n, StartFrame(h, begin, n)
  PROVE  Fresh'
<1>1. sfis \in [Gr -> [Ch -> FactorSets]] /\ LastIsZero
  BY DEF Fresh
<1>2. CASE Len(mainBuf) >= begin
  <2> DEFINE old(g, c) ==
               [l |-> [b \in 0..22 |-> IF sfis[g][c].l[b] = "new" THEN "old" ELSE sfis[g][c].l[b]],
                s |-> [b \in 0..12 |-> IF sfis[g][c].s[b] = "new" THEN "old" ELSE sfis[g][c].s[b]]]
  <2>1. /\ sfis' = [g \in Gr |-> [c \in Ch |-> old(g, c)]]
        /\ step' = [Idle EXCEPT !.at = "scale"]
    BY <1>2 DEF StartFrame
  <2>2. step'.at = "scale" /\ step'.gr = 0 /\ step'.ch = 0
    BY <2>1 DEF Idle
  <2>3. ASSUME NEW g \in Gr, NEW c \in Ch
        PROVE  old(g, c) \in FactorSets /\ old(g, c).l[21] = "zero"
    <3>1. /\ sfis[g][c].l \in [0..22 -> Marks] /\ sfis[g][c].s \in [0..12 -> Marks]
          /\ sfis[g][c].l[21] = "zero"
      BY <1>1 DEF FactorSets, LastIsZero
    <3> QED
      BY <3>1 DEF FactorSets, Marks
  <2> HIDE DEF old
  <2>4. sfis' \in [Gr -> [Ch -> FactorSets]] /\ LastIsZero'
    BY <2>1, <2>3 DEF LastIsZero
  <2>5. MayBeCopied'
    BY <2>2 DEF MayBeCopied, Sent, Ch
  <2> QED
    BY <2>2, <2>4, <2>5 DEF Fresh, FactorsAreFresh
<1>3. CASE ~(Len(mainBuf) >= begin)
  <2>1. step'.at = "idle" /\ sfis' = sfis
    BY <1>3 DEF StartFrame, Fail, Idle
  <2> QED
    BY <1>1, <2>1 DEF Fresh, LastIsZero, MayBeCopied, FactorsAreFresh
<1> QED
  BY <1>2, <1>3

\* Whatever a block has read or copied, all that it uses is of this frame.
LEMMA UnpackScaleFactorsFresh ==
  ASSUME Reading, Fresh, NEW side \in SideInfo[step.ch], NEW scfsi,
         UnpackScaleFactors(side, scfsi)
  PROVE  Fresh'
<1> DEFINE gr == step.gr
           ch == step.ch
           s  == Unpacked(side)
           read == Read(s, scfsi)
           copied == Copied(s, scfsi)
           own == sfis[gr][ch]
           gr0 == sfis[0][ch]
           f == Factors(s, read, copied, gr, own, gr0)
           new == sis'[gr][ch]
<1>1. /\ Place /\ Kinds /\ step.at = "scale"
      /\ sfis \in [Gr -> [Ch -> FactorSets]] /\ LastIsZero /\ MayBeCopied
      /\ gr \in 0..1 /\ ch \in 0..1 /\ ch < fh.chans
  BY Calling DEF Reading, Fresh, UnpackScaleFactors, Gr, Ch, Place
<1>2. s \in Sub
  BY <1>1, SideIs, UnpackedIs
<1>3. /\ sfis' = [sfis EXCEPT ![gr][ch] = f]
      /\ fh' = fh
      /\ \/ step'.at = "idle"
         \/ step' = [step EXCEPT !.at = "huffman"]
  BY DEF UnpackScaleFactors, Fail, Idle, Read
<1>4. /\ \A g \in Gr, c \in Ch : (g # gr \/ c # ch) => sis'[g][c] = sis[g][c]
      /\ new.type = s.type /\ new.mixed = s.mixed
  <2> DEFINE bits == IF fh.ver = 1 THEN BitsMPEG1(s, ReadMPEG1(s, gr, scfsi)) ELSE BitsMPEG2(s)
             taken == [s EXCEPT !.part23 = @ - bits]
  <2>1. sis' = [sis EXCEPT ![gr][ch] = taken]
    BY DEF UnpackScaleFactors
  <2>2. taken.type = s.type /\ taken.mixed = s.mixed
    <3> HIDE DEF bits, s
    <3> QED
      BY <1>2 DEF Sub
  <2> HIDE DEF taken
  <2> QED
    BY <1>1, <2>1, <2>2 DEF Kinds, Gr, Ch
<1>5. /\ read.l \in SUBSET (0..20) /\ read.s \in SUBSET (0..11)
      /\ Long(s) => \A b \in 0..20 :
           \/ b \in read.l
           \/ Group(b) \in scfsi /\ fh.ver = 1 /\ step.gr = 1
      /\ Mixed(s) => \A b \in 0..(MixedLong(fh.ver) - 1) : b \in read.l
      /\ ~Long(s) => \A b \in (IF s.mixed THEN 3 ELSE 0)..11 : b \in read.s
  BY <1>1, <1>2, ReadsAllBands
<1>6. /\ own.l \in [0..22 -> Marks] /\ own.s \in [0..12 -> Marks]
      /\ gr0.l \in [0..22 -> Marks] /\ own.l[21] = "zero"
  BY <1>1, SMTT(30) DEF FactorSets, LastIsZero, Gr, Ch
<1>7. /\ f \in FactorSets
      /\ \A b \in 0..22 : f.l[b] = IF b \in read.l THEN "new"
                                   ELSE IF b \in copied THEN gr0.l[b]
                                   ELSE IF b >= 21 /\ Long(s) /\ ~(fh.ver = 1 /\ gr = 0)
                                   THEN "zero" ELSE own.l[b]
      /\ \A b \in 0..12 : f.s[b] = IF b \in read.s THEN "new"
                                   ELSE IF b = 12 /\ ~Long(s) THEN "zero" ELSE own.s[b]
  <2> HIDE DEF s, read, copied, gr, own, gr0
  <2> QED
    BY <1>6 DEF Factors, FactorSets, Marks
<1>13. ASSUME Long(s), NEW b \in 0..20, Group(b) \in scfsi, fh.ver = 1, step.gr = 1
       PROVE  b \in copied
  BY <1>13 DEF Copied
<1>14. copied \in SUBSET (0..20)
  BY DEF Copied
<1> HIDE DEF s, read, copied, own, gr0, f
<1>8. f.l[21] = "zero" /\ (~Long(s) => f.s[12] = "zero")
  BY <1>5, <1>6, <1>7, <1>14
<1>9. ASSUME Long(s), NEW b \in 0..20
      PROVE  \/ f.l[b] = "new"
             \/ fh.ver = 1 /\ gr = 1 /\ ~Long(sis[0][ch]) /\ f.l[b] = gr0.l[b]
  <2>1. CASE b \in read.l
    BY <1>7, <2>1
  <2>2. CASE b \notin read.l
    <3>1. Group(b) \in scfsi /\ fh.ver = 1 /\ step.gr = 1
      BY <1>5, <1>9, <2>2
    <3>2. f.l[b] = gr0.l[b]
      BY <1>7, <1>9, <1>13, <2>2, <3>1
    <3>3. Long(sis[0][ch]) => gr0.l[b] = "new"
      BY <1>1, <3>1 DEF MayBeCopied, Sent, gr0, Ch
    <3> QED
      BY <3>1, <3>2, <3>3
  <2> QED
    BY <2>1, <2>2
<1>10. sfis' \in [Gr -> [Ch -> FactorSets]] /\ LastIsZero' /\ sfis'[gr][ch] = f
  <2>1. sfis \in [Gr -> [Ch -> FactorSets]] /\ gr \in Gr /\ ch \in Ch
    BY <1>1 DEF Gr, Ch
  <2>2. sfis' \in [Gr -> [Ch -> FactorSets]] /\ sfis'[gr][ch] = f
        /\ \A g \in Gr, c \in Ch : g # gr \/ c # ch => sfis'[g][c] = sfis[g][c]
    BY <1>3, <1>7, <2>1
  <2>3. ASSUME NEW g \in Gr, NEW c \in Ch
        PROVE  sfis'[g][c].l[21] = "zero"
    <3>1. CASE g = gr /\ c = ch
      BY <1>8, <2>2, <3>1
    <3>2. CASE ~(g = gr /\ c = ch)
      BY <1>1, <2>2, <3>2 DEF LastIsZero
    <3> QED
      BY <3>1, <3>2
  <2> QED
    BY <2>2, <2>3 DEF LastIsZero
<1>11. CASE step'.at = "idle"
  BY <1>10, <1>11 DEF Fresh, MayBeCopied, FactorsAreFresh
<1>12. CASE step' = [step EXCEPT !.at = "huffman"]
  <2>1. step'.at = "huffman" /\ step'.gr = gr /\ step'.ch = ch
    BY <1>1, <1>12 DEF Place, Calls
  <2>2. /\ Long(new) <=> Long(s)
        /\ Mixed(new) <=> Mixed(s)
        /\ new.mixed = s.mixed
    BY <1>4 DEF Long, Mixed
  <2>3. MayBeCopied'
    <3> SUFFICES ASSUME fh.ver = 1, NEW c \in Ch, c < fh.chans, Sent(c)', Long(sis'[0][c]),
                        NEW b \in 0..20
                 PROVE  sfis'[0][c].l[b] = "new"
      BY <1>3 DEF MayBeCopied, Long
    <3>1. CASE gr = 0 /\ c = ch
      BY <1>9, <1>10, <2>2, <3>1
    <3>2. CASE ~(gr = 0 /\ c = ch)
      <4>1. sis'[0][c] = sis[0][c] /\ sfis'[0][c] = sfis[0][c]
        BY <1>1, <1>3, <1>4, <3>2 DEF Gr, Ch
      <4>2. Sent(c)
        BY <1>1, <2>1, <3>2 DEF Sent, Ch
      <4> QED
        BY <1>1, <4>1, <4>2 DEF MayBeCopied, Long
    <3> QED
      BY <3>1, <3>2
  <2>4. /\ Long(s)  => f.l[21] = "zero" /\ \A b \in 0..20 :
                         \/ f.l[b] = "new"
                         \/ fh.ver = 1 /\ gr = 1 /\ ~Long(sis[0][ch]) /\ f.l[b] = gr0.l[b]
        /\ Mixed(s) => \A b \in 0..(MixedLong(fh.ver) - 1) : f.l[b] = "new"
        /\ ~Long(s) => /\ f.s[12] = "zero"
                       /\ \A b \in (IF s.mixed THEN 3 ELSE 0)..11 : f.s[b] = "new"
    <3>1. Mixed(s) => \A b \in 0..(MixedLong(fh.ver) - 1) : f.l[b] = "new"
      BY <1>5, <1>7
    <3>2. ~Long(s) => \A b \in (IF s.mixed THEN 3 ELSE 0)..11 : f.s[b] = "new"
      BY <1>5, <1>7
    <3> QED
      BY <1>8, <1>9, <3>1, <3>2
  <2>5. FactorsAreFresh'
    <3>1. sfis'[step'.gr][step'.ch] = f /\ sis'[step'.gr][step'.ch] = new
      BY <1>10, <2>1
    <3>3. ASSUME gr = 1
          PROVE  sis'[0][ch] = sis[0][ch] /\ sfis'[0][ch] = gr0
      BY <1>1, <1>3, <1>4, <3>3 DEF gr0, Gr, Ch
    <3>4. ASSUME NEW b \in 0..20, fh.ver = 1 /\ gr = 1 /\ ~Long(sis[0][ch]) /\ f.l[b] = gr0.l[b]
          PROVE  CopiedFromShort(b)'
      BY <1>3, <1>10, <2>1, <3>3, <3>4 DEF CopiedFromShort, Long
    <3> HIDE DEF new
    <3>2. /\ Long(new)  => f.l[21] = "zero" /\ \A b \in 0..20 : f.l[b] = "new" \/ CopiedFromShort(b)'
          /\ Mixed(new) => \A b \in 0..(MixedLong(fh'.ver) - 1) : f.l[b] = "new"
          /\ ~Long(new) => /\ f.s[12] = "zero"
                           /\ \A b \in (IF new.mixed THEN 3 ELSE 0)..11 : f.s[b] = "new"
      BY <1>3, <2>2, <2>4, <3>4
    <3> QED
      BY <3>1, <3>2 DEF FactorsAreFresh, Long, Mixed
  <2> QED
    BY <1>10, <2>3, <2>5 DEF Fresh
<1> QED
  BY <1>3, <1>11, <1>12

\* The other functions leave scale factors alone; the next function finds as
\* many channels of granule 0 decoded as this one has left.
LEMMA OthersFresh ==
  ASSUME Reading, Fresh, DecodeHuffman \/ Dequantize \/ IMDCT \/ Subband
  PROVE  Fresh'
<1>1. /\ sfis' = sfis /\ sis' = sis /\ fh' = fh
      /\ step \in Calls /\ step.ch \in 0..1 /\ fh.chans \in 1..2 /\ step.ch < fh.chans
      /\ step.at # "idle"
  <2>1. /\ sfis' = sfis /\ sis' = sis /\ fh' = fh
        /\ step.at \in {"huffman", "dequantize", "imdct", "subband"}
    BY DEF DecodeHuffman, Dequantize, IMDCT, Subband
  <2> QED
    BY <2>1, Calling DEF Reading, Place, Ch
<1>2. step'.at # "huffman" /\ \A c \in Ch : c < fh.chans /\ step'.at # "idle" /\ Sent(c)' => Sent(c)
  <2>1. CASE DecodeHuffman
    <3>1. /\ step.at = "huffman"
          /\ \/ step' = Idle
             \/ step' = IF step.ch + 1 < fh.chans
                        THEN [step EXCEPT !.at = "scale", !.ch = step.ch + 1]
                        ELSE [step EXCEPT !.at = "dequantize", !.ch = 0]
      BY <2>1 DEF DecodeHuffman, Fail
    <3>2. CASE step' = Idle
      BY <3>2 DEF Idle
    <3>3. CASE /\ step.ch + 1 < fh.chans
               /\ step' = [step EXCEPT !.at = "scale", !.ch = step.ch + 1]
      <4>1. step'.at = "scale" /\ step'.gr = step.gr /\ step'.ch = step.ch + 1
        BY <1>1, <3>3 DEF Calls
      <4> QED
        BY <1>1, <3>1, <4>1 DEF Sent, Ch
    <3>4. CASE /\ ~(step.ch + 1 < fh.chans)
               /\ step' = [step EXCEPT !.at = "dequantize", !.ch = 0]
      <4>1. step'.at = "dequantize"
        BY <1>1, <3>4 DEF Calls
      <4> QED
        BY <1>1, <3>1, <3>4, <4>1 DEF Sent, Ch
    <3> QED
      BY <3>1, <3>2, <3>3, <3>4
  <2>2. CASE Dequantize \/ IMDCT \/ Subband
    <3>1. step.at \in {"dequantize", "imdct", "subband"}
      BY <2>2 DEF Dequantize, IMDCT, Subband
    <3>2. step'.at # "huffman"
      <4>1. CASE Dequantize
        BY <1>1, <4>1 DEF Dequantize, Calls
      <4>2. CASE IMDCT
        BY <1>1, <4>2 DEF IMDCT, Calls
      <4>3. CASE Subband
        <5>1. step' = [Idle EXCEPT !.at = "scale", !.gr = step.gr + 1] \/ step' = Idle
          BY <4>3 DEF Subband, Fail
        <5>2. [Idle EXCEPT !.at = "scale", !.gr = step.gr + 1].at = "scale" /\ Idle.at = "idle"
          BY DEF Idle
        <5>3. step'.at = "scale" \/ step'.at = "idle"
          BY <5>1, <5>2, Zenon
        <5> QED
          BY <5>3
      <4> QED
        BY <2>2, <4>1, <4>2, <4>3
    <3> QED
      BY <3>1, <3>2 DEF Sent
  <2> QED
    BY <2>1, <2>2
<1>3. MayBeCopied'
  BY <1>1, <1>2 DEF Fresh, MayBeCopied, Long
<1> QED
  BY <1>1, <1>2, <1>3 DEF Fresh, LastIsZero, FactorsAreFresh

\* Whatever MP3Decode does next, it uses no factor of another frame.
LEMMA FreshNext ==
  ASSUME Reading, Fresh, [Next]_vars
  PROVE  Fresh'
<1>1. CASE UNCHANGED vars
  BY <1>1 DEF vars, Fresh, LastIsZero, MayBeCopied, Sent, FactorsAreFresh, CopiedFromShort, Long, Mixed
<1>2. CASE BadHeader \/ \E h \in Headers : Truncated(h)
  <2>1. step'.at = "idle" /\ sfis' = sfis
    BY <1>2 DEF BadHeader, Truncated, Fail, Idle
  <2> QED
    BY <2>1 DEF Fresh, LastIsZero, MayBeCopied, FactorsAreFresh
<1>3. CASE \E h \in Headers, begin \in Begins, n \in SlotSet : StartFrame(h, begin, n)
  BY <1>3, StartFrameFresh
<1>4. CASE \E side \in SideInfo[step.ch], scfsi \in Scfsi : UnpackScaleFactors(side, scfsi)
  BY <1>4, UnpackScaleFactorsFresh
<1>5. CASE DecodeHuffman \/ Dequantize \/ IMDCT \/ Subband
  BY <1>5, OthersFresh
<1> QED
  BY <1>1, <1>2, <1>3, <1>4, <1>5 DEF Next

\* Every scale factor that is used was sent with its frame, or is the zero of
\* the band that is never sent, or is copied by scfsi from a granule 0 whose
\* short blocks do not have it: for every sequence of frames, complete or not,
\* and every mixture of long, mixed and short blocks, in each version, though
\* UnpackSFMPEG1 and UnpackSFMPEG2 write parts of arrays that they never clear.
THEOREM FactorsAreFreshHolds == Spec => []FactorsAreFresh
<1>1. Fresh => FactorsAreFresh
  BY DEF Fresh
<1> QED
  BY <1>1, ReadingInit, ReadingNext, FreshInit, FreshNext, PTL DEF Spec

-----------------------------------------------------------------------------
(* The bound on the spectrum. *)

Lines == 0..576

\* The last one of a set of lines.
LEMMA GreatestLine ==
  ASSUME NEW X \in SUBSET Lines, X # {}
  PROVE  Max(X) \in X /\ \A y \in X : y <= Max(X)
<1> DEFINE last == 576
<1>1. last \in Nat /\ X \in SUBSET (0..last)
  BY DEF Lines
<1> HIDE DEF last
<1> QED
  BY <1>1, GreatestOf

\* The end of the band in which a line lies.
LEMMA FirstFromIs ==
  ASSUME NEW n \in Lines, NEW ends \in SUBSET Lines, ends # {}
  PROVE  /\ FirstFrom(n, ends) \in ends
         /\ (\E e \in ends : e >= n) => FirstFrom(n, ends) >= n
<1> DEFINE last == Max(ends)
           T == {e \in ends : e >= n} \cup {last}
<1>1. 576 \in Nat /\ \A e \in ends : e \in Nat
  BY DEF Lines
<1>2. last \in ends /\ \A y \in ends : y <= last
  BY GreatestLine
<1> HIDE DEF last
<1>3. T \in SUBSET Nat /\ T # {} /\ T \subseteq ends
  <2>1. T \subseteq ends
    BY <1>2
  <2>2. T # {}
    BY <1>2
  <2> HIDE DEF T
  <2> QED
    BY <1>1, <2>1, <2>2
<1>4. Min(T) \in T
  BY <1>3, LeastOf
<1>5. FirstFrom(n, ends) = Min(T)
  BY DEF FirstFrom, last
<1>6. (\E e \in ends : e >= n) => \A y \in T : y >= n
  <2> SUFFICES ASSUME NEW e \in ends, e >= n, NEW y \in T
               PROVE  y >= n
    OBVIOUS
  <2>1. e \in Nat /\ last \in Nat /\ n \in Nat /\ e <= last
    BY <1>1, <1>2 DEF Lines
  <2> QED
    BY <2>1
<1> QED
  BY <1>3, <1>4, <1>5, <1>6

\* Reordering moves no line behind the bound that DequantChannel returns: the
\* bound and the lines move to the end of the same band.
LEMMA ReorderedBelowBound ==
  ASSUME Place, NEW s \in Taken \cup {NoSub}, NEW m \in Lines, NEW n \in Lines
  PROVE  /\ DequantChannel(s, n) \in Lines
         /\ Reordered(s, m) \in Lines
         /\ m <= n => Reordered(s, m) <= DequantChannel(s, n)
<1> DEFINE ver   == fh.ver
           mixed == MixedLong(ver) + 1
           lcb   == sfBandTable[ver].l
           scb   == sfBandTable[ver].s
<1>1. ver \in Versions
  BY Calling
<1>2. /\ \A i \in 1..23 : lcb[i] \in 0..576
      /\ \A i \in 1..14 : scb[i] \in 0..192
      /\ scb[1] = 0 /\ scb[14] = 192
      /\ lcb[mixed] = 3 * scb[4] /\ lcb[mixed] \in {36, 72}
      /\ \A i \in 1..mixed : lcb[i] <= lcb[mixed]
      /\ \A i \in 4..14 : scb[i] >= scb[4]
  <2>1. RowFits(sfBandTable[ver], mixed)
    BY <1>1, BandsFit
  <2> QED
    BY <2>1 DEF RowFits
<1>3. mixed \in {7, 9} /\ MixedLong(ver) = mixed - 1
  BY DEF MixedLong
<1>4. /\ \A cb \in 0..13 : S(cb) = scb[cb + 1]
      /\ \A cb \in 0..22 : L(cb) = lcb[cb + 1]
  BY DEF S, L, Bands
<1> HIDE DEF ver, mixed, lcb, scb
<1>5. /\ Short(s) <=> s.type = 2 /\ ~s.mixed
      /\ Mixed(s) <=> s.type = 2 /\ s.mixed
      /\ Long(s) <=> s.type # 2
      /\ s.mixed \in BOOLEAN
  BY KindOf DEF Short, Mixed, Long
<1>6. m \in Nat /\ n \in Nat /\ m <= 576 /\ n <= 576
  BY <1>1 DEF Lines
\* The ends of the short bands.
<1> DEFINE shortEnds == {3 * S(cb) : cb \in 1..13}
<1>7. /\ S(0) = 0 /\ S(13) = 192 /\ S(3) = scb[4]
      /\ \A cb \in 0..13 : S(cb) \in 0..192
      /\ \A cb \in 3..13 : S(cb) >= S(3)
  <2>0. /\ \A i \in 1..14 : scb[i] \in 0..192
        /\ scb[1] = 0 /\ scb[14] = 192
        /\ \A i \in 4..14 : scb[i] >= scb[4]
    BY <1>2, Zenon
  <2>1. S(0) = 0 /\ S(13) = 192 /\ S(3) = scb[4]
    <3>1. /\ 0 \in 0..13 /\ 13 \in 0..13 /\ 3 \in 0..13
          /\ 0 + 1 = 1 /\ 13 + 1 = 14 /\ 3 + 1 = 4
      OBVIOUS
    <3>2. S(0) = scb[0 + 1] /\ S(13) = scb[13 + 1] /\ S(3) = scb[3 + 1]
      BY <1>4, <3>1, Zenon
    <3>3. S(0) = scb[1] /\ S(13) = scb[14] /\ S(3) = scb[4]
      BY <3>2
    <3> QED
      BY <2>0, <3>3
  <2>2. ASSUME NEW cb \in 0..13
        PROVE  S(cb) \in 0..192 /\ (cb >= 3 => S(cb) >= S(3))
    <3>1. PICK i \in 1..14 : i = cb + 1 /\ (cb >= 3 => i \in 4..14)
      OBVIOUS
    <3>2. S(cb) = scb[i]
      BY <1>4, <3>1
    <3>3. scb[i] \in 0..192 /\ (i \in 4..14 => scb[i] >= scb[4])
      BY <2>0
    <3> QED
      BY <2>1, <3>1, <3>2, <3>3
  <2>3. \A cb \in 3..13 : cb \in 0..13 /\ cb >= 3
    OBVIOUS
  <2> QED
    BY <2>1, <2>2, <2>3
<1>8. shortEnds \in SUBSET Lines /\ 576 \in shortEnds
  <2>1. \A cb \in 1..13 : 3 * S(cb) \in Lines
    <3>1. ASSUME NEW cb \in 1..13
          PROVE  3 * S(cb) \in Lines
      <4>1. S(cb) \in 0..192
        BY <1>7
      <4> HIDE DEF S
      <4> QED
        BY <4>1 DEF Lines
    <3> QED
      BY <3>1
  <2>2. 3 * S(13) = 576
    BY <1>7
  <2> QED
    BY <2>1, <2>2
<1>9. CASE Long(s)
  BY <1>5, <1>9 DEF DequantChannel, Reordered
\* What is behind the part that stays in place moves to the end of its band.
<1>10. ASSUME ~Long(s), ~(m <= (IF Mixed(s) THEN 3 * S(3) ELSE 0))
       PROVE  /\ Reordered(s, m) \in shortEnds
              /\ \A e \in shortEnds : e >= m => Reordered(s, m) <= e
  <2> DEFINE T == {3 * S(cb) : cb \in {c \in 1..13 : 3 * S(c) >= m}}
  <2>1. Reordered(s, m) = Min(T)
    BY <1>10 DEF Reordered
  <2>2. T \in SUBSET Nat /\ T \subseteq shortEnds /\ T # {}
    <3>1. 13 \in {c \in 1..13 : 3 * S(c) >= m}
      BY <1>6, <1>7
    <3>2. \A cb \in 1..13 : 3 * S(cb) \in Nat
      <4>1. ASSUME NEW cb \in 1..13
            PROVE  3 * S(cb) \in Nat
        <5>1. S(cb) \in 0..192
          BY <1>7
        <5> HIDE DEF S
        <5> QED
          BY <5>1
      <4> QED
        BY <4>1
    <3> QED
      BY <3>1, <3>2
  <2>3. Min(T) \in T /\ \A y \in T : Min(T) <= y
    BY <2>2, LeastOf
  <2>4. \A e \in shortEnds : e >= m => e \in T
    OBVIOUS
  <2> QED
    BY <2>1, <2>2, <2>3, <2>4
<1>11. CASE Short(s)
  <2> DEFINE ends == {0 + 3 * (S(cb) - S(0)) : cb \in (0 + 1)..13}
  <2>1. DequantChannel(s, n) = FirstFrom(n, ends)
    BY <1>5, <1>11 DEF DequantChannel
  <2>2. ends = shortEnds
    <3>1. \A cb \in 1..13 : 0 + 3 * (S(cb) - S(0)) = 3 * S(cb)
      BY <1>7
    <3> QED
      BY <3>1
  <2> HIDE DEF ends, shortEnds
  <2>3. FirstFrom(n, shortEnds) \in shortEnds /\ FirstFrom(n, shortEnds) >= n
    BY <1>6, <1>8, FirstFromIs
  <2>4. FirstFrom(n, shortEnds) \in Nat
    <3>1. \A e \in shortEnds : e \in Nat
      BY <1>8 DEF Lines
    <3> QED
      BY <2>3, <3>1, Zenon
  <2>5. CASE m <= 0
    <3>1. Reordered(s, m) = m
      BY <1>5, <1>11, <2>5 DEF Reordered
    <3> QED
      BY <1>6, <1>8, <2>1, <2>2, <2>3, <2>4, <3>1
  <2>6. CASE ~(m <= 0)
    <3>1. Reordered(s, m) \in shortEnds /\ \A e \in shortEnds : e >= m => Reordered(s, m) <= e
      BY <1>5, <1>10, <1>11, <2>6
    <3>2. m <= n => FirstFrom(n, shortEnds) >= m
      BY <1>6, <2>3, <2>4
    <3> QED
      BY <1>8, <2>1, <2>2, <2>3, <3>1, <3>2
  <2> QED
    BY <2>5, <2>6
<1>12. CASE Mixed(s)
  <2> DEFINE longEnds == {L(cb) : cb \in 1..MixedLong(fh.ver)}
             long == FirstFrom(n, longEnds)
             ends == {long + 3 * (S(cb) - S(3)) : cb \in (3 + 1)..13}
  <2>1. DequantChannel(s, n) = FirstFrom(n, ends)
    BY <1>5, <1>12 DEF DequantChannel
  <2>2. /\ longEnds \in SUBSET Lines /\ 3 * S(3) \in longEnds
        /\ \A e \in longEnds : e <= 3 * S(3)
        /\ 3 * S(3) \in {36, 72}
    <3>1. MixedLong(fh.ver) \in {6, 8} /\ MixedLong(fh.ver) + 1 = mixed
      BY DEF ver, mixed, MixedLong
    <3>0. /\ \A i \in 1..23 : lcb[i] \in 0..576
          /\ \A i \in 1..mixed : lcb[i] <= lcb[mixed]
      BY <1>2
    <3>2. \A cb \in 1..MixedLong(fh.ver) : L(cb) \in Lines /\ L(cb) <= lcb[mixed]
      <4> TAKE cb \in 1..MixedLong(fh.ver)
      <4>1. cb \in 0..22 /\ cb + 1 \in 1..23 /\ cb + 1 \in 1..mixed
        BY <3>1
      <4> QED
        <5>1. PICK i \in 1..23 : i = cb + 1 /\ i \in 1..mixed
          BY <4>1
        <5>2. L(cb) = lcb[i]
          BY <1>4, <4>1, <5>1
        <5>3. lcb[i] \in 0..576 /\ lcb[i] <= lcb[mixed]
          BY <3>0, <5>1
        <5> QED
          BY <5>2, <5>3 DEF Lines
    <3>3. L(MixedLong(fh.ver)) = lcb[mixed] /\ lcb[mixed] = 3 * S(3)
      <4>1. MixedLong(fh.ver) \in 0..22
        BY <3>1
      <4> QED
        BY <1>2, <1>4, <1>7, <3>1, <4>1
    <3>4. MixedLong(fh.ver) \in 1..MixedLong(fh.ver)
      BY <3>1
    <3>5. 3 * S(3) \in {36, 72}
      <4>1. lcb[mixed] \in {36, 72}
        BY <1>2
      <4> QED
        BY <3>3, <4>1
    <3>6. 3 * S(3) \in longEnds
      BY <3>3, <3>4
    <3>7. longEnds \in SUBSET Lines /\ \A e \in longEnds : e <= 3 * S(3)
      BY <3>2, <3>3
    <3> QED
      BY <3>5, <3>6, <3>7
  <2> HIDE DEF longEnds
  <2>3. long \in longEnds /\ (n <= 3 * S(3) => long >= n)
    <3>1. n <= 3 * S(3) => 3 * S(3) >= n
      BY <1>6, <2>2
    <3> QED
      BY <1>6, <2>2, <3>1, FirstFromIs
  <2> HIDE DEF long
  <2>4. long \in Nat /\ long <= 3 * S(3)
    <3>1. \A e \in longEnds : e \in Nat /\ e <= 3 * S(3)
      BY <2>2 DEF Lines
    <3> QED
      BY <2>3, <3>1, Zenon
  <2>5. ~(n <= 3 * S(3)) => long = 3 * S(3)
    <3> SUFFICES ASSUME ~(n <= 3 * S(3))
                 PROVE  long = 3 * S(3)
      OBVIOUS
    <3> DEFINE end == 3 * S(3)
               last == Max(longEnds)
    <3>0. /\ end \in {36, 72} /\ end \in longEnds /\ ~(n <= end)
          /\ \A e \in longEnds : e \in Nat /\ e <= end
      BY <2>2 DEF Lines
    <3>2. last \in longEnds /\ \A y \in longEnds : y <= last
      <4>1. longEnds \in SUBSET Lines /\ longEnds # {}
        BY <2>2
      <4> QED
        BY <4>1, GreatestLine
    <3> HIDE DEF end, last
    <3>1. {e \in longEnds : e >= n} = {}
      <4>1. \A e \in longEnds : ~(e >= n)
        BY <1>6, <3>0
      <4> QED
        BY <4>1
    <3>3. last = end
      BY <3>0, <3>2
    <3>4. long = Min({end})
      BY <3>1, <3>3 DEF long, last, FirstFrom
    <3>5. {end} \in SUBSET Nat
      BY <3>0
    <3> QED
      BY <3>4, <3>5, LeastOf DEF end
  <2>6. /\ ends \in SUBSET Lines /\ ends # {}
        /\ \A e \in ends : e >= long
        /\ (~(n <= 3 * S(3)) => ends \subseteq shortEnds /\ 576 \in ends)
    <3>1. \A cb \in 4..13 : /\ long + 3 * (S(cb) - S(3)) \in Lines
                            /\ long + 3 * (S(cb) - S(3)) >= long
                            /\ long = 3 * S(3) => long + 3 * (S(cb) - S(3)) = 3 * S(cb)
      <4> TAKE cb \in 4..13
      <4> DEFINE a == S(cb)
                 b == S(3)
      <4>1. a \in 0..192 /\ a >= b /\ b \in 0..192 /\ long \in Nat /\ long <= 3 * b
        BY <1>7, <2>4
      <4> HIDE DEF a, b
      <4>2. /\ long + 3 * (a - b) \in Lines /\ long + 3 * (a - b) >= long
            /\ long = 3 * b => long + 3 * (a - b) = 3 * a
        BY <4>1 DEF Lines
      <4> QED
        BY <4>2 DEF a, b
    <3>2. long = 3 * S(3) => long + 3 * (S(13) - S(3)) = 576
      BY <1>7, <3>1
    <3> QED
      BY <2>5, <3>1, <3>2
  <2> HIDE DEF ends
  <2>7. FirstFrom(n, ends) \in ends
    BY <2>6, FirstFromIs
  <2>8. FirstFrom(n, ends) >= n /\ FirstFrom(n, ends) \in Nat
    <3>1. \E e \in ends : e >= n
      <4>1. CASE n <= 3 * S(3)
        <5>1. PICK e \in ends : TRUE
          BY <2>6
        <5>2. e >= long /\ long >= n /\ e \in Nat
          BY <1>1, <2>3, <2>6, <4>1, <5>1 DEF Lines
        <5> QED
          BY <1>6, <2>4, <5>2
      <4>2. CASE ~(n <= 3 * S(3))
        BY <1>6, <2>6, <4>2
      <4> QED
        BY <4>1, <4>2
    <3> QED
      <4>1. \A e \in ends : e \in Nat
        BY <2>6 DEF Lines
      <4>2. FirstFrom(n, ends) >= n
        BY <2>6, <3>1, FirstFromIs
      <4> QED
        BY <2>7, <4>1, <4>2, Zenon
  <2>9. CASE m <= 3 * S(3)
    <3>1. Reordered(s, m) = m
      BY <1>12, <2>9 DEF Reordered
    <3> QED
      BY <1>6, <2>1, <2>6, <2>7, <2>8, <3>1
  <2>10. CASE ~(m <= 3 * S(3))
    <3>1. Reordered(s, m) \in shortEnds /\ \A e \in shortEnds : e >= m => Reordered(s, m) <= e
      BY <1>5, <1>10, <1>12, <2>10
    <3>2. m <= n => ~(n <= 3 * S(3)) /\ FirstFrom(n, ends) >= m
      BY <1>6, <2>2, <2>8, <2>10
    <3> HIDE DEF shortEnds
    <3> QED
      BY <1>8, <2>1, <2>6, <2>7, <3>1, <3>2
  <2> QED
    BY <2>9, <2>10
<1> QED
  BY <1>5, <1>9, <1>11, <1>12

\* The long part of a mixed block is two or four blocks of 18 lines.
LEMMA CutoffIs ==
  ASSUME Place
  PROVE  BlockCutoff \in {2, 4}
<1> DEFINE n == MixedLong(fh.ver) + 1
           end == sfBandTable[fh.ver].l[n]
<1>1. end \in {36, 72}
  <2>1. RowFits(sfBandTable[fh.ver], n)
    BY Calling, BandsFit
  <2> HIDE DEF n
  <2> QED
    BY <2>1 DEF RowFits
<1>2. BlockCutoff = end \div 18
  BY DEF BlockCutoff, L, Bands
<1> HIDE DEF end
<1> QED
  BY <1>1, <1>2

\* How many blocks get long transforms, and the butterflies between them.
LEMMA LongBlocks ==
  ASSUME Place, NEW s \in Taken \cup {NoSub}, NEW n \in Lines
  PROVE  /\ BlocksLong(s, n) \in 0..32
         /\ Butterflies(s, n) \in 0..31
         /\ Mixed(s) => BlocksLong(s, n) = BlockCutoff /\ Butterflies(s, n) = BlockCutoff - 1
         /\ Short(s) => BlocksLong(s, n) = 0 /\ Butterflies(s, n) = 0
         /\ Long(s) => /\ BlocksLong(s, n) = Butterflies(s, n) + 1
                       /\ \A b \in 1..31 : 18 * b - 8 < n => b <= Butterflies(s, n)
                       /\ n <= 18 * BlocksLong(s, n)
<1>1. /\ Short(s) <=> s.type = 2 /\ ~s.mixed
      /\ Mixed(s) <=> s.type = 2 /\ s.mixed
      /\ Long(s) <=> s.type # 2
      /\ s.mixed \in BOOLEAN
  BY KindOf DEF Short, Mixed, Long
<1>2. CASE Long(s)
  <2> DEFINE q == (n + 7) \div 18 + 1
             long == IF q <= 32 THEN q ELSE 32
  <2>1. n \in 0..576 /\ q \in Int
    BY DEF Lines
  <2>2. Min({q, 32}) = long
    <3> HIDE DEF q
    <3> QED
      BY <2>1, SmallerOfTwo
  <2>3. BlocksLong(s, n) = long /\ Butterflies(s, n) = long - 1
    BY <1>1, <1>2, <2>2 DEF BlocksLong, Butterflies, NBANDS
  <2>4. /\ long \in 0..32 /\ long - 1 \in 0..31 /\ long = (long - 1) + 1
        /\ \A b \in 1..31 : 18 * b - 8 < n => b <= long - 1
        /\ n <= 18 * long
    BY <2>1
  <2> HIDE DEF long
  <2> QED
    BY <1>1, <1>2, <2>3, <2>4
<1>3. CASE Mixed(s)
  BY <1>1, <1>3, CutoffIs DEF BlocksLong, Butterflies
<1>4. CASE Short(s)
  BY <1>1, <1>4 DEF BlocksLong, Butterflies
<1> QED
  BY <1>1, <1>2, <1>3, <1>4

\* Alias reduction moves no line behind the bound that AntiAlias returns: a
\* butterfly that has a line to spread is one of those that are done.
LEMMA AliasedBelowBound ==
  ASSUME Place, NEW s \in Taken \cup {NoSub}, NEW m \in Lines, NEW n \in Lines
  PROVE  /\ AliasedBound(s, n) \in Lines /\ n <= AliasedBound(s, n)
         /\ 18 * Butterflies(s, n) + 8 <= AliasedBound(s, n)
         /\ Aliased(s, m) \in Lines
         /\ m <= n => Aliased(s, m) <= AliasedBound(s, n)
         /\ AliasedBound(s, n) = n \/ AliasedBound(s, n) = 18 * Butterflies(s, n) + 8
<1> DEFINE bf == Butterflies(s, n)
           bound == AliasedBound(s, n)
           top == IF Short(s) THEN 0 ELSE IF Mixed(s) THEN BlockCutoff - 1 ELSE 31
           at == {b \in 1..top : 18 * b - 8 < m}
           T == {m} \cup {18 * b + 8 : b \in at}
           last == Max(T)
<1>1. /\ Short(s) <=> s.type = 2 /\ ~s.mixed
      /\ Mixed(s) <=> s.type = 2 /\ s.mixed
      /\ Long(s) <=> s.type # 2
      /\ s.mixed \in BOOLEAN
  BY KindOf DEF Short, Mixed, Long
<1>2. m \in 0..576 /\ n \in 0..576
  BY DEF Lines
<1>3. /\ bf \in 0..31
      /\ Mixed(s) => bf = BlockCutoff - 1
      /\ Short(s) => bf = 0
      /\ Long(s) => \A b \in 1..31 : 18 * b - 8 < n => b <= bf
  BY LongBlocks
<1>4. bound = IF n >= 18 * bf + 8 THEN n ELSE 18 * bf + 8
  <2> HIDE DEF bf
  <2>1. n \in Int /\ 18 * bf + 8 \in Int
    BY <1>2, <1>3
  <2> QED
    BY <2>1, LargerOfTwo DEF AliasedBound, bf
<1> HIDE DEF bf, bound
<1>5. bound \in 0..576 /\ n <= bound /\ 18 * bf + 8 <= bound
  BY <1>2, <1>3, <1>4
<1>6. top \in 0..31
  BY CutoffIs
<1>7. Aliased(s, m) = last
  BY DEF Aliased, NBANDS
<1>8. m <= n => \A b \in at : b <= bf
  <2> SUFFICES ASSUME m <= n, NEW b \in at
               PROVE  b <= bf
    OBVIOUS
  <2>1. b \in 1..top /\ 18 * b - 8 < n
    BY <1>2, <1>6
  <2>2. CASE Long(s)
    <3>1. b \in 1..31
      BY <1>6, <2>1
    <3> QED
      BY <1>3, <2>1, <2>2, <3>1
  <2>3. CASE ~Long(s)
    <3>1. top = bf
      BY <1>1, <1>3, <2>3
    <3> HIDE DEF top
    <3> QED
      BY <2>1, <3>1, <1>3
  <2> QED
    BY <2>2, <2>3
<1> HIDE DEF top
<1>9. T \in SUBSET (0..576) /\ T # {}
  <2>1. \A b \in at : 18 * b + 8 \in 0..576
    BY <1>6
  <2> QED
    BY <1>2, <2>1
<1>10. m <= n => \A y \in T : y <= bound
  <2>1. m <= n => m <= bound
    BY <1>2, <1>5
  <2>2. \A b \in at : b <= bf => 18 * b + 8 <= bound
    BY <1>3, <1>5, <1>6
  <2> QED
    BY <1>8, <2>1, <2>2
<1> HIDE DEF at, T
<1>11. last \in T
  <2>1. 576 \in Nat
    OBVIOUS
  <2> QED
    BY <1>9, <2>1, GreatestOf
<1> HIDE DEF last
<1>12. last \in 0..576 /\ (m <= n => last <= bound)
  BY <1>9, <1>10, <1>11
<1> QED
  BY <1>4, <1>5, <1>7, <1>12 DEF Lines, bf, bound

\* The blocks that HybridTransform takes cover the lines, with no more of them
\* than the long transforms except in short blocks (imdct.c:650).
LEMMA BlocksCover ==
  ASSUME Place, NEW s \in Taken \cup {NoSub}, NEW n \in Lines
  PROVE  /\ BlocksTotal(AliasedBound(s, n)) \in 0..32
         /\ AliasedBound(s, n) <= 18 * BlocksTotal(AliasedBound(s, n))
         /\ BlocksTotal(AliasedBound(s, n)) > BlocksLong(s, n) => s.type = 2
<1> DEFINE bound == AliasedBound(s, n)
           total == BlocksTotal(bound)
           long  == BlocksLong(s, n)
           bf    == Butterflies(s, n)
<1>1. /\ bound \in Lines /\ (bound = n \/ bound = 18 * bf + 8)
  BY AliasedBelowBound
<1>2. /\ long \in 0..32 /\ bf \in 0..31
      /\ Long(s) => long = bf + 1 /\ n <= 18 * long
  BY LongBlocks
<1>3. total = (bound + 17) \div 18
  BY DEF BlocksTotal
<1> HIDE DEF bound, total, long, bf
<1>4. total \in 0..32 /\ bound <= 18 * total
  BY <1>1, <1>3 DEF Lines
<1>5. n <= 18 * long /\ long = bf + 1 => total <= long
  <2>1. n \in 0..576
    BY DEF Lines
  <2> QED
    BY <1>1, <1>2, <1>3, <2>1
<1>6. total > long => s.type = 2
  <2>1. Long(s) => total <= long
    BY <1>2, <1>5
  <2>2. total <= long => ~(total > long)
    BY <1>2, <1>4
  <2> QED
    BY <2>1, <2>2 DEF Long
<1> QED
  BY <1>4, <1>6 DEF bound, total, long

Blocks == [long : 0..32, total : 0..32]

\* Channels that are done in this granule have their bound above their lines.
BelowBound ==
  step.at \in {"scale", "huffman"} => \A c \in Ch : c < step.ch => sup[c] <= nonZeroBound[c]

Covered ==
  /\ nonZeroBound \in [Ch -> Lines] /\ sup \in [Ch -> Lines] /\ bc \in [Ch -> Blocks]
  /\ BelowBound /\ SpectrumIsKept

\* AllocateBuffers clears the bounds with the spectrum.
LEMMA CoveredInit == Init => Covered
<1> SUFFICES ASSUME Init
             PROVE  Covered
  OBVIOUS
<1>1. /\ nonZeroBound = [c \in Ch |-> 0] /\ sup = [c \in Ch |-> 0]
      /\ bc = [c \in Ch |-> [long |-> 0, total |-> 0]] /\ step.at = "idle"
  BY DEF Init, Idle
<1>2. nonZeroBound \in [Ch -> Lines] /\ sup \in [Ch -> Lines] /\ bc \in [Ch -> Blocks]
  <2>1. 0 \in 0..576 /\ 0 \in 0..32
    OBVIOUS
  <2> QED
    BY <1>1, <2>1 DEF Lines, Blocks
<1> QED
  BY <1>1, <1>2 DEF Covered, BelowBound, SpectrumIsKept

\* Before Dequantize nothing but the bounds of the channels that are done counts.
LEMMA SearchCovers ==
  ASSUME Covered, UNCHANGED <<nonZeroBound, sup, bc>>,
         \/ step'.at = "idle"
         \/ step'.at = "scale" /\ step'.ch = 0
         \/ step'.at = "huffman" /\ step.at = "scale" /\ step'.ch = step.ch
  PROVE  Covered'
<1>1. step'.at \notin {"dequantize", "imdct", "subband"}
  OBVIOUS
<1>2. BelowBound'
  <2> SUFFICES ASSUME step'.at \in {"scale", "huffman"}, NEW c \in Ch, c < step'.ch
               PROVE  sup[c] <= nonZeroBound[c]
    BY DEF BelowBound
  <2>1. step'.at = "huffman" /\ step.at = "scale" /\ step'.ch = step.ch
    BY DEF Ch
  <2> QED
    BY <2>1 DEF Covered, BelowBound
<1> QED
  BY <1>1, <1>2 DEF Covered, SpectrumIsKept

\* The code words say how far a channel goes.
LEMMA DecodeHuffmanCovers ==
  ASSUME Reading, Covered, DecodeHuffman
  PROVE  Covered'
<1> DEFINE ch == step.ch
           s  == sis[step.gr][ch]
           v  == s.pairs + (IF s.part23 > s.pairBits THEN Min({s.quads, NSAMP - s.pairs}) ELSE 0)
<1>1. /\ step.at = "huffman" /\ step \in Calls /\ ch \in 0..1 /\ fh.chans \in 1..2
      /\ s \in Taken /\ fh' = fh /\ bc' = bc /\ sis' = sis
      /\ nonZeroBound \in [Ch -> Lines] /\ sup \in [Ch -> Lines] /\ bc \in [Ch -> Blocks]
      /\ BelowBound
  BY Calling DEF DecodeHuffman, Reading, Place, PartLeft, Covered, Ch
<1>2. /\ s.pairs \in 0..576 /\ s.quads \in 0..576
      /\ v \in Lines
  <2>1. s.pairs \in 0..576 /\ s.quads \in 0..576
    BY <1>1 DEF Taken
  <2> DEFINE p == s.pairs
             q == s.quads
             r == NSAMP - p
             w == Min({q, r})
  <2>2. p \in 0..576 /\ q \in 0..576 /\ (v = p \/ v = p + w)
    <3>1. p \in 0..576 /\ q \in 0..576
      BY <2>1
    <3> HIDE DEF s, w
    <3>2. p \in Int => p + 0 = p
      OBVIOUS
    <3> QED
      BY <3>1, <3>2 DEF w
  <2>3. r = 576 - p
    BY DEF NSAMP
  <2> HIDE DEF v, p, q, r
  <2>4. w = IF q <= r THEN q ELSE r
    BY <2>2, <2>3, SmallerOfTwo
  <2> HIDE DEF w
  <2>5. v \in Lines
    BY <2>2, <2>3, <2>4, SMTT(30) DEF Lines
  <2> QED
    BY <2>1, <2>5
<1>3. \/ step' = Idle /\ UNCHANGED <<nonZeroBound, sup>>
      \/ /\ step' = Idle
         /\ nonZeroBound' = [nonZeroBound EXCEPT ![ch] = s.pairs]
         /\ sup' = [sup EXCEPT ![ch] = Max({sup[ch], s.pairs})]
      \/ /\ nonZeroBound' = [nonZeroBound EXCEPT ![ch] = v]
         /\ sup' = [sup EXCEPT ![ch] = nonZeroBound'[ch]]
         /\ step' = IF ch + 1 < fh.chans THEN [step EXCEPT !.at = "scale", !.ch = ch + 1]
                    ELSE [step EXCEPT !.at = "dequantize", !.ch = 0]
  BY DEF DecodeHuffman, Fail
<1> HIDE DEF v
<1>4. CASE step' = Idle /\ UNCHANGED <<nonZeroBound, sup>>
  BY <1>1, <1>4, SearchCovers DEF Idle
<1>5. CASE /\ step' = Idle
           /\ nonZeroBound' = [nonZeroBound EXCEPT ![ch] = s.pairs]
           /\ sup' = [sup EXCEPT ![ch] = Max({sup[ch], s.pairs})]
  <2>1. sup[ch] \in 0..576
    BY <1>1 DEF Lines, Ch
  <2>2. Max({sup[ch], s.pairs}) \in Lines /\ s.pairs \in Lines
    <3> DEFINE a == sup[ch]
               b == s.pairs
    <3>1. a \in 0..576 /\ b \in 0..576
      BY <1>2, <2>1
    <3> HIDE DEF a, b
    <3>2. Max({a, b}) = IF a >= b THEN a ELSE b
      BY <3>1, LargerOfTwo
    <3>3. (IF a >= b THEN a ELSE b) \in Lines /\ b \in Lines
      BY <3>1 DEF Lines
    <3> QED
      BY <3>2, <3>3 DEF a, b
  <2>3. nonZeroBound' \in [Ch -> Lines] /\ sup' \in [Ch -> Lines]
    <3> HIDE DEF s
    <3> QED
      BY <1>1, <1>5, <2>2
  <2>4. step'.at = "idle"
    BY <1>5 DEF Idle
  <2> QED
    BY <1>1, <2>3, <2>4 DEF Covered, BelowBound, SpectrumIsKept
<1>6. CASE /\ nonZeroBound' = [nonZeroBound EXCEPT ![ch] = v]
           /\ sup' = [sup EXCEPT ![ch] = nonZeroBound'[ch]]
           /\ step' = IF ch + 1 < fh.chans THEN [step EXCEPT !.at = "scale", !.ch = ch + 1]
                      ELSE [step EXCEPT !.at = "dequantize", !.ch = 0]
  <2>1. /\ nonZeroBound' \in [Ch -> Lines] /\ sup' \in [Ch -> Lines]
        /\ nonZeroBound'[ch] = v /\ sup'[ch] = v
        /\ \A c \in Ch : c # ch => nonZeroBound'[c] = nonZeroBound[c] /\ sup'[c] = sup[c]
    <3>1. ch \in Ch
      BY <1>1 DEF Ch
    <3> HIDE DEF ch
    <3>2. /\ nonZeroBound' \in [Ch -> Lines] /\ nonZeroBound'[ch] = v
          /\ \A c \in Ch : c # ch => nonZeroBound'[c] = nonZeroBound[c]
      BY <1>1, <1>2, <1>6, <3>1
    <3>3. sup' = [sup EXCEPT ![ch] = v]
      BY <1>6, <3>2
    <3>4. /\ sup' \in [Ch -> Lines] /\ sup'[ch] = v
          /\ \A c \in Ch : c # ch => sup'[c] = sup[c]
      BY <1>1, <1>2, <3>1, <3>3
    <3> QED
      BY <3>2, <3>4
  <2>2. \A c \in Ch : c <= ch => sup'[c] <= nonZeroBound'[c]
    <3>1. v <= v
      <4>1. v \in Lines
        BY <1>2
      <4> QED
        BY <4>1 DEF Lines
    <3>2. \A c \in Ch : c < ch => sup[c] <= nonZeroBound[c]
      BY <1>1 DEF BelowBound
    <3>3. \A c \in Ch : c <= ch => c = ch \/ c < ch
      BY <1>1 DEF Ch
    <3>4. \A c \in Ch : c < ch => c # ch
      BY <1>1 DEF Ch
    <3> QED
      BY <2>1, <3>1, <3>2, <3>3, <3>4, Zenon
  <2>3. CASE ch + 1 < fh.chans
    <3>1. step'.at = "scale" /\ step'.ch = ch + 1
      BY <1>1, <1>6, <2>3 DEF Calls
    <3>2. \A c \in Ch : c < ch + 1 => c <= ch
      BY <1>1 DEF Ch
    <3> QED
      BY <1>1, <2>1, <2>2, <3>1, <3>2 DEF Covered, BelowBound, SpectrumIsKept
  <2>4. CASE ~(ch + 1 < fh.chans)
    <3>1. step'.at = "dequantize"
      BY <1>1, <1>6, <2>4 DEF Calls
    <3>2. \A c \in 0..(fh.chans - 1) : c \in Ch /\ c <= ch
      BY <1>1, <2>4 DEF Ch
    <3>3. \A c \in Ch : nonZeroBound'[c] <= NSAMP
      BY <2>1 DEF Lines, NSAMP
    <3> QED
      BY <1>1, <2>1, <2>2, <3>1, <3>2, <3>3 DEF Covered, BelowBound, SpectrumIsKept
  <2> QED
    BY <2>3, <2>4
<1> QED
  BY <1>3, <1>4, <1>5, <1>6

\* Reordering, stereo and intensity never pass the bound: each line that they
\* fill is below the larger of the two bounds.
LEMMA DequantizeCovers ==
  ASSUME Reading, Covered, Dequantize
  PROVE  Covered'
<1> DEFINE s(c) == sis[step.gr][c]
           n == [c \in Ch |-> IF c < fh.chans THEN DequantChannel(s(c), nonZeroBound[c])
                              ELSE nonZeroBound[c]]
           x == [c \in Ch |-> IF c < fh.chans THEN Reordered(s(c), sup[c]) ELSE sup[c]]
           mid == MidSideProc(x)
<1>1. /\ Place /\ step.at = "dequantize" /\ step \in Calls /\ step.ch = 0
      /\ fh.chans \in 1..2 /\ fh.ext \in 0..3 /\ (fh.chans = 1 => fh.ext = 0)
      /\ nonZeroBound \in [Ch -> Lines] /\ sup \in [Ch -> Lines] /\ bc \in [Ch -> Blocks]
      /\ \A c \in Ch : s(c) \in Taken \cup {NoSub}
  BY Calling DEF Dequantize, Reading, Place, Kinds, Covered, Header
<1>2. \A c \in 0..(fh.chans - 1) : sup[c] <= nonZeroBound[c]
  BY <1>1 DEF Covered, SpectrumIsKept
<1>3. /\ nonZeroBound' = JointBound(n)
      /\ sup' = IntensityProc(mid)
      /\ step' = [step EXCEPT !.at = "imdct"]
      /\ fh' = fh /\ sis' = sis /\ bc' = bc
  BY DEF Dequantize
<1>4. \A c \in Ch : /\ DequantChannel(s(c), nonZeroBound[c]) \in Lines
                    /\ Reordered(s(c), sup[c]) \in Lines
                    /\ sup[c] <= nonZeroBound[c] =>
                         Reordered(s(c), sup[c]) <= DequantChannel(s(c), nonZeroBound[c])
  <2> TAKE c \in Ch
  <2> DEFINE sc == s(c)
             m == sup[c]
             k == nonZeroBound[c]
  <2>1. sc \in Taken \cup {NoSub} /\ m \in Lines /\ k \in Lines
    BY <1>1
  <2> HIDE DEF sc, m, k
  <2>2. /\ DequantChannel(sc, k) \in Lines
        /\ Reordered(sc, m) \in Lines
        /\ m <= k => Reordered(sc, m) <= DequantChannel(sc, k)
    BY <1>1, <2>1, ReorderedBelowBound
  <2> QED
    BY <2>2 DEF sc, m, k
<1>5. /\ n \in [Ch -> Lines] /\ x \in [Ch -> Lines]
      /\ \A c \in Ch : c < fh.chans => x[c] <= n[c]
  <2>1. \A c \in Ch : c < fh.chans => c \in 0..(fh.chans - 1)
    BY <1>1 DEF Ch
  <2>2. \A c \in Ch : nonZeroBound[c] \in Lines /\ sup[c] \in Lines
    BY <1>1
  <2>3. \A c \in Ch : n[c] = IF c < fh.chans THEN DequantChannel(s(c), nonZeroBound[c])
                             ELSE nonZeroBound[c]
    OBVIOUS
  <2>4. \A c \in Ch : x[c] = IF c < fh.chans THEN Reordered(s(c), sup[c]) ELSE sup[c]
    OBVIOUS
  <2>5. n = [c \in Ch |-> n[c]] /\ x = [c \in Ch |-> x[c]]
    OBVIOUS
  <2> HIDE DEF n, x, s
  <2>6. \A c \in Ch : n[c] \in Lines /\ x[c] \in Lines /\ (c < fh.chans => x[c] <= n[c])
    BY <1>2, <1>4, <2>1, <2>2, <2>3, <2>4, Zenon
  <2> QED
    BY <2>5, <2>6
<1> HIDE DEF n, x
\* The larger of the two channels.
<1> DEFINE larger(f) == IF f[0] >= f[1] THEN f[0] ELSE f[1]
<1>6. ASSUME NEW f \in [Ch -> Lines]
      PROVE  /\ Max({f[0], f[1]}) = larger(f)
             /\ larger(f) \in Lines /\ larger(f) \in Nat /\ larger(f) <= larger(f)
             /\ \A c \in Ch : f[c] <= larger(f) /\ f[c] \in Nat
  <2> DEFINE a == f[0]
             b == f[1]
  <2>1. a \in 0..576 /\ b \in 0..576
    BY DEF Lines, Ch
  <2>2. Max({a, b}) = IF a >= b THEN a ELSE b
    <3> HIDE DEF a, b
    <3> QED
      BY <2>1, LargerOfTwo
  <2>3. \A c \in Ch : f[c] = a \/ f[c] = b
    BY DEF Ch
  <2> HIDE DEF a, b
  <2> DEFINE w == IF a >= b THEN a ELSE b
  <2>4. /\ w \in Lines /\ w \in Nat /\ w <= w
        /\ a <= w /\ b <= w
        /\ a \in Nat /\ b \in Nat
    BY <2>1 DEF Lines
  <2>5. larger(f) = w
    BY DEF a, b
  <2>6. Max({f[0], f[1]}) = w
    BY <2>2 DEF a, b
  <2> HIDE DEF larger, w
  <2> QED
    BY <2>3, <2>4, <2>5, <2>6
<1> HIDE DEF larger
<1>7. step'.at = "imdct" /\ step'.ch = 0
  BY <1>1, <1>3 DEF Calls
<1>8. /\ nonZeroBound' \in [Ch -> Lines] /\ sup' \in [Ch -> Lines]
      /\ \A c \in Ch : c < fh.chans => sup'[c] <= nonZeroBound'[c]
  <2>1. CASE fh.ext = 0
    <3>1. nonZeroBound' = n /\ sup' = x
      BY <1>3, <2>1 DEF JointBound, IntensityProc, MidSideProc
    <3> QED
      BY <1>5, <3>1
  <2>2. CASE fh.ext # 0
    <3>1. fh.chans = 2 /\ \A c \in Ch : c < fh.chans
      BY <1>1, <2>2 DEF Ch
    <3>2. nonZeroBound' = [c \in Ch |-> larger(n)]
      BY <1>3, <1>5, <1>6, <2>2 DEF JointBound
    <3>3. larger(x) <= larger(n)
      <4> DEFINE w == larger(n)
      <4>1. x[0] <= w /\ x[1] <= w
        <5>1. 0 \in Ch /\ 1 \in Ch
          BY DEF Ch
        <5>2. \A a, b, c \in Nat : a <= b /\ b <= c => a <= c
          OBVIOUS
        <5>3. w \in Nat
          BY <1>5, <1>6
        <5>4. \A c \in Ch : x[c] \in Nat /\ n[c] \in Nat /\ x[c] <= n[c] /\ n[c] <= w
          BY <1>5, <1>6, <3>1
        <5> QED
          BY <5>1, <5>2, <5>3, <5>4, Zenon
      <4> HIDE DEF w
      <4>2. larger(x) <= w
        BY <4>1 DEF larger
      <4> QED
        BY <4>2 DEF w
    <3>4. /\ mid \in [Ch -> Lines]
          /\ \A c \in Ch : mid[c] <= larger(x)
      <4>1. CASE fh.ext >= 2
        <5>1. mid = [c \in Ch |-> larger(x)]
          BY <1>5, <1>6, <4>1 DEF MidSideProc
        <5>2. larger(x) <= larger(x)
          BY <1>5, <1>6
        <5> QED
          BY <1>5, <1>6, <5>1, <5>2
      <4>2. CASE ~(fh.ext >= 2)
        <5>1. mid = x
          BY <4>2 DEF MidSideProc
        <5> QED
          BY <1>5, <1>6, <5>1
      <4> QED
        BY <4>1, <4>2
    <3> HIDE DEF mid
    <3>5. /\ sup' \in [Ch -> Lines]
          /\ \A c \in Ch : sup'[c] <= larger(x)
      <4>1. CASE fh.ext % 2 = 1
        <5>1. sup' = [mid EXCEPT ![1] = larger(mid)]
          BY <1>3, <1>6, <3>4, <4>1 DEF IntensityProc
        <5>2. larger(mid) <= larger(x) /\ larger(mid) \in Lines
          BY <1>6, <3>4 DEF larger, Ch
        <5>3. \A c \in Ch : sup'[c] = mid[c] \/ sup'[c] = larger(mid)
          BY <3>4, <5>1
        <5>4. sup' \in [Ch -> Lines]
          BY <3>4, <5>1, <5>2
        <5> QED
          BY <3>4, <5>2, <5>3, <5>4
      <4>2. CASE ~(fh.ext % 2 = 1)
        <5>1. sup' = mid
          BY <1>3, <4>2 DEF IntensityProc
        <5> QED
          BY <3>4, <5>1
      <4> QED
        BY <4>1, <4>2
    <3>6. nonZeroBound' \in [Ch -> Lines] /\ \A c \in Ch : nonZeroBound'[c] = larger(n)
      BY <1>5, <1>6, <3>2
    <3>7. \A c \in Ch : sup'[c] <= larger(n)
      <4>1. \A a, b, c \in Nat : a <= b /\ b <= c => a <= c
        OBVIOUS
      <4>2. larger(x) \in Nat /\ larger(n) \in Nat
        BY <1>5, <1>6
      <4>3. \A c \in Ch : sup'[c] \in Nat
        BY <3>5 DEF Lines
      <4> QED
        BY <3>3, <3>5, <4>1, <4>2, <4>3, Zenon
    <3> QED
      BY <3>5, <3>6, <3>7
  <2> QED
    BY <2>1, <2>2
<1>9. \A c \in 0..(fh.chans - 1) : sup'[c] <= nonZeroBound'[c] /\ nonZeroBound'[c] <= NSAMP
  <2>1. \A c \in 0..(fh.chans - 1) : c \in Ch /\ c < fh.chans
    BY <1>1 DEF Ch
  <2>2. \A c \in Ch : nonZeroBound'[c] <= NSAMP
    BY <1>8 DEF Lines, NSAMP
  <2> QED
    BY <1>8, <2>1, <2>2, Zenon
<1>10. \A c \in Ch : ~(c < step'.ch)
  BY <1>7 DEF Ch
<1> QED
  BY <1>1, <1>3, <1>7, <1>8, <1>9, <1>10 DEF Covered, BelowBound, SpectrumIsKept

\* What IMDCT does to one channel.
LEMMA IMDCTBlocks ==
  ASSUME Reading, Covered, IMDCT
  PROVE  LET ch    == step.ch
             s     == sis[step.gr][ch]
             long  == BlocksLong(s, nonZeroBound[ch])
             total == BlocksTotal(AliasedBound(s, nonZeroBound[ch]))
         IN  /\ Place /\ step \in Calls /\ ch \in Ch /\ s \in Taken \cup {NoSub}
             /\ long \in 0..32 /\ total \in 0..32
             /\ total > long => s.type = 2
             /\ Mixed(s) => long = BlockCutoff
             /\ nonZeroBound[ch] \in Lines /\ sup[ch] \in Lines
             /\ sup[ch] <= nonZeroBound[ch]
<1> DEFINE ch == step.ch
           s  == sis[step.gr][ch]
           n  == nonZeroBound[ch]
<1>1. /\ Place /\ step \in Calls /\ ch \in Ch /\ s \in Taken \cup {NoSub} /\ n \in Lines
      /\ step.at = "imdct" /\ ch < fh.chans /\ fh.chans \in 1..2 /\ sup[ch] \in Lines
  BY Calling DEF IMDCT, Reading, Place, Kinds, Covered
<1>2. sup[ch] <= nonZeroBound[ch]
  <2>1. ch \in 0..(fh.chans - 1)
    BY <1>1 DEF Ch
  <2> QED
    BY <1>1, <2>1 DEF Covered, SpectrumIsKept
<1> HIDE DEF n, s
<1>3. /\ BlocksLong(s, n) \in 0..32
      /\ Mixed(s) => BlocksLong(s, n) = BlockCutoff
      /\ BlocksTotal(AliasedBound(s, n)) \in 0..32
      /\ BlocksTotal(AliasedBound(s, n)) > BlocksLong(s, n) => s.type = 2
  BY <1>1, LongBlocks, BlocksCover
<1> QED
  BY <1>1, <1>2, <1>3 DEF n, s

\* Alias reduction stays below the bound, and the blocks reach up to it.
LEMMA IMDCTCovers ==
  ASSUME Reading, Covered, IMDCT
  PROVE  Covered'
<1> DEFINE ch == step.ch
           s  == sis[step.gr][ch]
           n  == nonZeroBound[ch]
           m  == sup[ch]
           bound == AliasedBound(s, n)
           total == BlocksTotal(bound)
           long  == BlocksLong(s, n)
           new   == Aliased(s, m)
           blk   == [long |-> long, total |-> total]
<1>1. /\ Place /\ step \in Calls /\ ch \in Ch /\ s \in Taken \cup {NoSub}
      /\ long \in 0..32 /\ total \in 0..32 /\ (total > long => s.type = 2)
      /\ n \in Lines /\ m \in Lines /\ m <= n
      /\ step.at = "imdct" /\ ch < fh.chans /\ fh.chans \in 1..2
  BY IMDCTBlocks, Calling DEF IMDCT, Place
<1>2. /\ nonZeroBound \in [Ch -> Lines] /\ sup \in [Ch -> Lines] /\ bc \in [Ch -> Blocks]
      /\ SpectrumIsKept
  BY DEF Covered
<1>3. /\ nonZeroBound' = [nonZeroBound EXCEPT ![ch] = bound]
      /\ sup' = [sup EXCEPT ![ch] = new]
      /\ bc' = [bc EXCEPT ![ch] = blk]
      /\ step' = IF ch + 1 < fh.chans THEN [step EXCEPT !.ch = ch + 1]
                 ELSE [step EXCEPT !.at = "subband", !.ch = 0]
      /\ fh' = fh /\ sis' = sis
  BY DEF IMDCT
<1>4. bound \in Lines /\ new \in Lines /\ new <= bound /\ bound <= 18 * total
  <2> HIDE DEF s, n, m
  <2>1. /\ bound \in Lines /\ new \in Lines /\ new <= bound
    BY <1>1, AliasedBelowBound
  <2>2. bound <= 18 * total
    BY <1>1, BlocksCover
  <2> QED
    BY <2>1, <2>2
<1>5. blk \in Blocks /\ blk.long = long /\ blk.total = total
  BY <1>1 DEF Blocks
<1> HIDE DEF s, n, m, bound, total, long, new, blk
<1>6. /\ nonZeroBound' \in [Ch -> Lines] /\ sup' \in [Ch -> Lines] /\ bc' \in [Ch -> Blocks]
      /\ nonZeroBound'[ch] = bound /\ sup'[ch] = new /\ bc'[ch] = blk
      /\ \A c \in Ch : c # ch => /\ nonZeroBound'[c] = nonZeroBound[c]
                                 /\ sup'[c] = sup[c] /\ bc'[c] = bc[c]
  BY <1>1, <1>2, <1>3, <1>4, <1>5
<1>7. new <= 18 * total
  <2>1. new \in 0..576 /\ bound \in 0..576 /\ total \in 0..32
    BY <1>1, <1>4 DEF Lines
  <2> QED
    BY <1>4, <2>1
\* Before and after, the channels below ch have their blocks; now ch has too.
<1>8. \A c \in Ch : c <= ch => /\ sup'[c] <= 18 * bc'[c].total
                               /\ bc'[c].total > bc'[c].long => sis[step.gr][c].type = 2
  <2> TAKE c \in Ch
  <2>1. CASE c = ch
    BY <1>1, <1>5, <1>6, <1>7, <2>1 DEF s
  <2>2. CASE c # ch
    <3>1. c <= ch => c < ch
      BY <1>1, <2>2 DEF Ch
    <3>2. c < ch => /\ sup[c] <= 18 * bc[c].total
                    /\ bc[c].total > bc[c].long => sis[step.gr][c].type = 2
      BY <1>1, <1>2 DEF SpectrumIsKept
    <3> QED
      BY <1>6, <2>2, <3>1, <3>2
  <2> QED
    BY <2>1, <2>2
<1>9. \A c \in 0..(fh.chans - 1) : sup'[c] <= nonZeroBound'[c] /\ nonZeroBound'[c] <= NSAMP
  <2> TAKE c \in 0..(fh.chans - 1)
  <2>1. c \in Ch
    BY <1>1 DEF Ch
  <2>2. nonZeroBound'[c] <= NSAMP
    <3>1. nonZeroBound'[c] \in Lines
      BY <1>6, <2>1
    <3> QED
      BY <3>1 DEF Lines, NSAMP
  <2>3. CASE c = ch
    BY <1>4, <1>6, <2>2, <2>3
  <2>4. CASE c # ch
    <3>1. sup[c] <= nonZeroBound[c]
      BY <1>1, <1>2 DEF SpectrumIsKept
    <3> QED
      BY <1>6, <2>1, <2>2, <2>4, <3>1
  <2> QED
    BY <2>3, <2>4
<1>10. CASE ch + 1 < fh.chans
  <2>1. step'.at = "imdct" /\ step'.ch = ch + 1 /\ step'.gr = step.gr
    BY <1>1, <1>3, <1>10 DEF Calls
  <2>2. \A c \in Ch : c < ch + 1 => c <= ch
    BY <1>1 DEF Ch
  <2>3. SpectrumIsKept'
    BY <1>3, <1>8, <1>9, <2>1, <2>2 DEF SpectrumIsKept
  <2> QED
    BY <1>6, <2>1, <2>3 DEF Covered, BelowBound
<1>11. CASE ~(ch + 1 < fh.chans)
  <2>1. step'.at = "subband" /\ step'.gr = step.gr
    BY <1>1, <1>3, <1>11 DEF Calls
  <2>2. \A c \in Ch : c < fh.chans => c <= ch
    BY <1>1, <1>11 DEF Ch
  <2>3. SpectrumIsKept'
    BY <1>3, <1>8, <1>9, <2>1, <2>2 DEF SpectrumIsKept
  <2> QED
    BY <1>6, <2>1, <2>3 DEF Covered, BelowBound
<1> QED
  BY <1>10, <1>11

\* Whatever MP3Decode does next, the bound stays above the lines.
LEMMA CoveredNext ==
  ASSUME Reading, Covered, [Next]_vars
  PROVE  Covered'
<1>1. CASE UNCHANGED vars
  BY <1>1 DEF vars, Covered, BelowBound, SpectrumIsKept
<1>2. CASE BadHeader \/ \E h \in Headers : Truncated(h)
  <2>1. step'.at = "idle" /\ UNCHANGED <<nonZeroBound, sup, bc>>
    BY <1>2 DEF BadHeader, Truncated, Fail, Idle, signalVars
  <2> QED
    BY <2>1, SearchCovers
<1>3. CASE \E h \in Headers, begin \in Begins, n \in SlotSet : StartFrame(h, begin, n)
  <2>1. UNCHANGED <<nonZeroBound, sup, bc>>
    BY <1>3 DEF StartFrame, signalVars
  <2>2. step' = Idle \/ step' = [Idle EXCEPT !.at = "scale"]
    BY <1>3 DEF StartFrame, Fail
  <2>3. step'.at = "idle" \/ (step'.at = "scale" /\ step'.ch = 0)
    BY <2>2 DEF Idle
  <2> QED
    BY <2>1, <2>3, SearchCovers
<1>4. CASE \E side \in SideInfo[step.ch], scfsi \in Scfsi : UnpackScaleFactors(side, scfsi)
  <2>1. /\ UNCHANGED <<nonZeroBound, sup, bc>>
        /\ step.at = "scale"
        /\ step' = Idle \/ step' = [step EXCEPT !.at = "huffman"]
    BY <1>4 DEF UnpackScaleFactors, Fail, signalVars
  <2>2. step'.at = "idle" \/ (step'.at = "huffman" /\ step'.ch = step.ch)
    BY <2>1 DEF Idle, Reading, Place, Calls
  <2> QED
    BY <2>1, <2>2, SearchCovers
<1>5. CASE DecodeHuffman
  BY <1>5, DecodeHuffmanCovers
<1>6. CASE Dequantize
  BY <1>6, DequantizeCovers
<1>7. CASE IMDCT
  BY <1>7, IMDCTCovers
<1>8. CASE Subband
  <2>1. /\ UNCHANGED <<nonZeroBound, sup, bc>>
        /\ \/ step' = Idle
           \/ step' = [Idle EXCEPT !.at = "scale", !.gr = step.gr + 1]
    BY <1>8 DEF Subband, Fail
  <2>2. /\ [Idle EXCEPT !.at = "scale", !.gr = step.gr + 1].at = "scale"
        /\ [Idle EXCEPT !.at = "scale", !.gr = step.gr + 1].ch = 0
        /\ Idle.at = "idle"
    BY DEF Idle
  <2>3. step'.at = "idle" \/ (step'.at = "scale" /\ step'.ch = 0)
    BY <2>1, <2>2, Zenon
  <2> QED
    BY <2>1, <2>3, SearchCovers
<1> QED
  BY <1>1, <1>2, <1>3, <1>4, <1>5, <1>6, <1>7, <1>8 DEF Next

\* The shortcut that skips the zeros loses no line of any spectrum, for every
\* pattern of blocks, with and without joint stereo: nonZeroBound stays above
\* what reordering, stereo and alias reduction fill and within the granule
\* (dqchan.c:362 and imdct.c:761 assert it), and the blocks reach up to it.
THEOREM SpectrumIsKeptHolds == Spec => []SpectrumIsKept
<1>1. Covered => SpectrumIsKept
  BY DEF Covered
<1> QED
  BY <1>1, ReadingInit, ReadingNext, CoveredInit, CoveredNext, PTL DEF Spec

-----------------------------------------------------------------------------
(* The overlaps. *)

Infos == [over : [0..31 -> -1..3], numPrevIMDCT : 0..32, prevType : 0..3, prevWinSwitch : 0..4]

Windowed == mi \in [Ch -> Infos] /\ OverlapIsKnown

\* HybridTransform describes by three numbers what it leaves, if it got long
\* transforms for all blocks except in short ones: what is behind the blocks
\* it has taken was put out and cleared, or was nothing before.
LEMMA TransformedIsKnown ==
  ASSUME Place, NEW m \in Infos, NEW s \in Taken \cup {NoSub},
         NEW long \in 0..32, NEW total \in 0..32,
         total > long => s.type = 2,
         Mixed(s) => long = BlockCutoff,
         \A i \in 0..31 : m.over[i] = Zero \/ i < m.numPrevIMDCT,
         NEW r \in Transformed(m, s, long, total)
  PROVE  /\ r \in Infos
         /\ \A i \in 0..31 : \/ r.over[i] = Zero
                             \/ i < r.numPrevIMDCT /\ r.over[i] = WinPrevious(r, i)
<1> DEFINE mx == Max({long, total})
           behind == mx..(m.numPrevIMDCT - 1)
           over == [i \in 0..31 |-> IF i < mx THEN Overlap(s, i, long)
                                    ELSE IF i \in behind THEN Zero ELSE m.over[i]]
           switch == IF s.mixed THEN BlockCutoff ELSE 0
<1>1. /\ mx = IF long >= total THEN long ELSE total
      /\ Zero = -1
  BY LargerOfTwo DEF Zero
<1>2. /\ s.type \in 0..3 /\ s.mixed \in BOOLEAN /\ BlockCutoff \in {2, 4}
      /\ m.over \in [0..31 -> -1..3] /\ m.numPrevIMDCT \in 0..32
  BY KindOf, CutoffIs DEF Infos
<1>3. PICK n \in {mx} \cup {i \in {total, m.numPrevIMDCT - 1} : i \in behind /\ m.over[i] # Zero} :
        r = [over |-> over, numPrevIMDCT |-> n, prevType |-> s.type, prevWinSwitch |-> switch]
  <2> DEFINE N == {mx} \cup {i \in {total, m.numPrevIMDCT - 1} : i \in behind /\ m.over[i] # Zero}
         all == [i \in 0..(NBANDS - 1) |-> IF i < mx THEN Overlap(s, i, long)
                                          ELSE IF i \in behind THEN Zero ELSE m.over[i]]
  <2>1. Transformed(m, s, long, total) =
          {[over |-> all, numPrevIMDCT |-> n, prevType |-> s.type, prevWinSwitch |-> switch]
             : n \in N}
    BY Zenon DEF Transformed
  <2>2. all = over
    <3>1. NBANDS - 1 = 31
      BY DEF NBANDS
    <3> QED BY <3>1, Zenon
  <2> HIDE DEF N, over, switch, all
  <2>3. \E n \in N : r = [over |-> over, numPrevIMDCT |-> n, prevType |-> s.type,
                           prevWinSwitch |-> switch]
    BY <2>1, <2>2
  <2> QED BY <2>3 DEF N
<1> HIDE DEF mx
<1>4. mx \in 0..32 /\ long <= mx /\ (mx > long => s.type = 2)
  BY <1>1
<1>5. n \in 0..32 /\ mx <= n
  BY <1>2, <1>3, <1>4
<1>6. switch \in 0..4
  BY <1>2
<1>7. \A i \in 0..31 : Overlap(s, i, long) \in -1..3
  BY <1>2 DEF Overlap, IMDCT36, IMDCT12x3
<1>8. over \in [0..31 -> -1..3]
  <2>1. \A i \in 0..31 : m.over[i] \in -1..3
    BY <1>2
  <2> QED
    BY <1>1, <1>7, <2>1
<1> HIDE DEF over, switch
<1>9. /\ r.over = over /\ r.numPrevIMDCT = n /\ r.prevType = s.type /\ r.prevWinSwitch = switch
      /\ r \in Infos
  BY <1>2, <1>3, <1>5, <1>6, <1>8 DEF Infos
<1>10. ASSUME NEW i \in 0..31, i < mx
       PROVE  Overlap(s, i, long) = IF i < switch THEN 0 ELSE s.type
  <2>1. CASE i < long
    BY <1>2, <2>1 DEF Overlap, IMDCT36, switch
  <2>2. CASE ~(i < long)
    <3>1. s.type = 2
      BY <1>4, <1>10, <2>2
    <3>2. ~(i < switch)
      <4>1. CASE s.mixed
        BY <2>2, <3>1, <4>1 DEF Mixed, switch
      <4>2. CASE ~s.mixed
        BY <4>2 DEF switch
      <4> QED
        BY <4>1, <4>2
    <3> QED
      BY <2>2, <3>1, <3>2 DEF Overlap, IMDCT12x3
  <2> QED
    BY <2>1, <2>2
<1>11. ASSUME NEW i \in 0..31
       PROVE  over[i] = Zero \/ (i < n /\ over[i] = IF i < switch THEN 0 ELSE s.type)
  <2>1. CASE i < mx
    <3>1. over[i] = Overlap(s, i, long)
      BY <2>1 DEF over
    <3>2. i < n
      BY <1>4, <1>5, <2>1
    <3> QED
      BY <1>10, <2>1, <3>1, <3>2
  <2>2. CASE ~(i < mx) /\ i \in behind
    BY <2>2 DEF over
  <2>3. CASE ~(i < mx) /\ i \notin behind
    <3>1. over[i] = m.over[i]
      BY <2>3 DEF over
    <3>2. ~(i < m.numPrevIMDCT)
      BY <1>2, <1>4, <2>3
    <3> QED
      BY <3>1, <3>2
  <2> QED
    BY <2>1, <2>2, <2>3
<1> QED
  BY <1>9, <1>11 DEF WinPrevious

\* AllocateBuffers clears the overlaps.
LEMMA WindowedInit == Init => Windowed
<1> SUFFICES ASSUME Init
             PROVE  Windowed
  OBVIOUS
<1> DEFINE none == [over |-> [i \in 0..31 |-> Zero], numPrevIMDCT |-> 0, prevType |-> 0,
                    prevWinSwitch |-> 0]
<1>1. mi = [c \in Ch |-> none]
  BY DEF Init, NBANDS
<1>2. none \in Infos /\ \A i \in 0..31 : none.over[i] = Zero
  BY DEF Infos, Zero
<1> HIDE DEF none
<1>3. \A c \in Ch : mi[c] = none
  BY <1>1
<1>4. \A i \in 0..(NBANDS - 1) : i \in 0..31
  BY DEF NBANDS
<1> QED
  BY <1>1, <1>2, <1>3, <1>4 DEF Windowed, OverlapIsKnown

\* IMDCT windows what the granule before has left, and leaves what the next
\* one will know how to window.
LEMMA IMDCTWindows ==
  ASSUME Reading, Covered, Windowed, IMDCT
  PROVE  Windowed'
<1> DEFINE ch    == step.ch
           s     == sis[step.gr][ch]
           m     == mi[ch]
           long  == BlocksLong(s, nonZeroBound[ch])
           total == BlocksTotal(AliasedBound(s, nonZeroBound[ch]))
<1>1. /\ Place /\ ch \in Ch /\ s \in Taken \cup {NoSub}
      /\ long \in 0..32 /\ total \in 0..32 /\ (total > long => s.type = 2)
      /\ Mixed(s) => long = BlockCutoff
  BY IMDCTBlocks
<1>2. PICK r \in Transformed(m, s, long, total) : mi' = [mi EXCEPT ![ch] = r]
  BY DEF IMDCT
<1>3. mi \in [Ch -> Infos] /\ OverlapIsKnown /\ m \in Infos
  BY <1>1 DEF Windowed
<1>4. 0..(NBANDS - 1) = 0..31
  BY DEF NBANDS
<1>5. \A i \in 0..31 : m.over[i] = Zero \/ i < m.numPrevIMDCT
  BY <1>1, <1>3, <1>4, Zenon DEF OverlapIsKnown
<1> HIDE DEF s, m, long, total, ch
<1>6. /\ r \in Infos
      /\ \A i \in 0..31 : \/ r.over[i] = Zero
                          \/ i < r.numPrevIMDCT /\ r.over[i] = WinPrevious(r, i)
  <2>1. Place /\ s \in Taken \cup {NoSub} /\ long \in 0..32 /\ total \in 0..32
    BY <1>1
  <2>2. (total > long => s.type = 2) /\ (Mixed(s) => long = BlockCutoff)
    BY <1>1
  <2>3. m \in Infos /\ r \in Transformed(m, s, long, total)
    BY <1>2, <1>3
  <2> QED
    BY <1>5, <2>1, <2>2, <2>3, TransformedIsKnown, Zenon
<1>7. mi' \in [Ch -> Infos] /\ \A c \in Ch : mi'[c] = IF c = ch THEN r ELSE mi[c]
  BY <1>1, <1>2, <1>3, <1>6
<1>8. ASSUME NEW c \in Ch, NEW i \in 0..(NBANDS - 1)
      PROVE  \/ mi'[c].over[i] = Zero
             \/ i < mi'[c].numPrevIMDCT /\ mi'[c].over[i] = WinPrevious(mi'[c], i)
  <2>1. CASE c = ch
    BY <1>4, <1>6, <1>7, <2>1, Zenon
  <2>2. CASE c # ch
    <3>1. mi'[c] = mi[c]
      BY <1>7, <2>2
    <3>2. \/ mi[c].over[i] = Zero
          \/ i < mi[c].numPrevIMDCT /\ mi[c].over[i] = WinPrevious(mi[c], i)
      BY <1>3, Zenon DEF OverlapIsKnown
    <3> QED
      BY <3>1, <3>2, Zenon
  <2> QED
    BY <2>1, <2>2
<1> QED
  BY <1>7, <1>8, Zenon DEF Windowed, OverlapIsKnown

\* No function but IMDCT touches an overlap or what describes it.
LEMMA WindowedNext ==
  ASSUME Reading, Covered, Windowed, [Next]_vars
  PROVE  Windowed'
<1>1. CASE IMDCT
  BY <1>1, IMDCTWindows
<1>2. CASE UNCHANGED mi
  BY <1>2 DEF Windowed, OverlapIsKnown, WinPrevious
<1>3. \/ IMDCT
      \/ UNCHANGED mi
  BY DEF Next, vars, BadHeader, Truncated, StartFrame, UnpackScaleFactors, DecodeHuffman,
         Dequantize, Subband, signalVars
<1> QED
  BY <1>1, <1>2, <1>3

\* Every overlap is windowed as its block was, or is zero, for every sequence
\* of long, mixed and short blocks, of mono and stereo frames and of frames
\* that fail between two granules: the three numbers that IMDCT keeps for each
\* channel are enough.  It needs that blocks without a long transform are
\* short (SpectrumIsKept): any other would be windowed as a long one.
THEOREM OverlapIsKnownHolds == Spec => []OverlapIsKnown
<1>1. Windowed => OverlapIsKnown
  BY DEF Windowed
<1> QED
  BY <1>1, ReadingInit, ReadingNext, CoveredInit, CoveredNext, WindowedInit, WindowedNext, PTL
     DEF Spec

\* All of it is one inductive invariant.
THEOREM HelixInvariance == Spec => [](Reading /\ Fresh /\ Covered /\ Windowed)
BY ReadingInit, ReadingNext, FreshInit, FreshNext, CoveredInit, CoveredNext, WindowedInit,
   WindowedNext, PTL DEF Spec

-----------------------------------------------------------------------------
(* The synthesis filter.  Block number t, counted from 1, is put where its *)
(* number says; the invariant is that the last sixteen are still there.    *)

Odd(t) == (t - 1) % 2
\* vindex before block t, and where the second half of the block goes.
Index(t) == (-((t - 1) \div 2)) % 8
Second(t) == (Index(t) - Odd(t)) % 8

Ring == [0..15 -> Nat]
Vbuf == [{"lo", "hi", "s0"} -> [0..1 -> Ring]]

\* Block t is where FDCT32 has put it.
At2(ring, i, t) == ring[i] = t /\ ring[i + 8] = t
Written(v, t) ==
  /\ At2(v.lo[Odd(t)], Index(t), t)
  /\ At2(v.hi[1 - Odd(t)], Second(t), t)
  /\ At2(v.s0[1 - Odd(t)], Second(t), t)

\* So are the last sixteen of t blocks, those after block s.
Stored(v, t, s) == \A u \in 1..t : u > t - 16 /\ u > s => Written(v, u)

\* What block t has read.
Heard(p, t, s) ==
  \A x \in 0..7 :
    /\ t - 2 * x > s => p.lo[x] = t - 2 * x
    /\ t - (15 - 2 * x) > s => p.hi[x] = t - (15 - 2 * x)
    /\ t - (2 * x + 1) > s => p.s0[x] = t - (2 * x + 1)

\* The places of a block.
LEMMA PlaceTypes ==
  ASSUME NEW t \in Nat, t > 0
  PROVE  Odd(t) \in 0..1 /\ 1 - Odd(t) \in 0..1 /\ Index(t) \in 0..7
         /\ Second(t) \in 0..7
  BY DEF Odd, Index, Second

\* No block is put on one of the last fifteen.
LEMMA PlacesDiffer ==
  ASSUME NEW t \in Nat, NEW u \in Nat, u > 0, u < t, t - u < 16,
         Odd(t) = Odd(u)
  PROVE  Index(t) # Index(u) /\ Second(t) # Second(u)
<1> DEFINE i == (t - 1) \div 2
           j == (u - 1) \div 2
           o == (t - 1) % 2
<1>1. /\ i \in Int /\ j \in Int /\ o \in 0..1
      /\ t - 1 = 2 * i + o /\ u - 1 = 2 * j + o
  BY DEF Odd
<1>2. i - j \in 1..7
  BY <1>1
<1> HIDE DEF i, j, o
<1>3. (-i) % 8 # (-j) % 8 /\ (-i - o) % 8 # (-j - o) % 8
  BY <1>1, <1>2
<1>4. (((-i) % 8) - o) % 8 = (-i - o) % 8 /\ (((-j) % 8) - o) % 8 = (-j - o) % 8
  BY <1>1
<1> QED BY <1>1, <1>3, <1>4 DEF Index, Second, Odd, i, j, o

\* The places of the next block.
LEMMA NextPlaces ==
  ASSUME NEW t \in Nat, t > 0
  PROVE  /\ Odd(t + 1) = 1 - Odd(t) /\ Odd(t - 1) = 1 - Odd(t)
         /\ Index(t + 1) = Second(t)
<1> DEFINE i == (t - 1) \div 2
           j == (t + 1 - 1) \div 2
           o == (t - 1) % 2
<1>1. /\ i \in Int /\ o \in 0..1 /\ j = i + o
  OBVIOUS
<1>2. (t + 1 - 1) % 2 = 1 - o /\ (t - 1 - 1) % 2 = 1 - o
  OBVIOUS
<1> HIDE DEF i, j, o
<1>3. (-j) % 8 = (((-i) % 8) - o) % 8
  BY <1>1
<1> QED BY <1>2, <1>3 DEF Odd, Index, Second, i, j, o

\* Where the taps of a block find the ones before it.
LEMMA TapPlaces ==
  ASSUME NEW t \in Nat, t > 0, NEW x \in 0..7, NEW u \in Nat, u > 0
  PROVE  /\ u = t - 2 * x =>
              Odd(u) = Odd(t) /\ Index(t) + x \in {Index(u), Index(u) + 8}
         /\ u = t - (15 - 2 * x) =>
              Odd(u) = 1 - Odd(t) /\ Index(t) + 7 - x \in {Second(u), Second(u) + 8}
         /\ u = t - (2 * x + 1) =>
              Odd(u) = 1 - Odd(t) /\ Index(t) + x \in {Second(u), Second(u) + 8}
<1> DEFINE i == (t - 1) \div 2
           j == (u - 1) \div 2
           o == (t - 1) % 2
           n == (u - 1) % 2
<1>1. /\ i \in Int /\ j \in Int /\ o \in 0..1 /\ n \in 0..1
      /\ t - 1 = 2 * i + o /\ u - 1 = 2 * j + n
  OBVIOUS
<1>2. (((-j) % 8) - n) % 8 = (-j - n) % 8
  BY <1>1
<1> HIDE DEF i, j, o, n
<1>3. ASSUME u = t - 2 * x
      PROVE  n = o /\ ((-i) % 8) + x \in {(-j) % 8, ((-j) % 8) + 8}
  BY <1>1, <1>3
<1>4. ASSUME u = t - (15 - 2 * x)
      PROVE  n = 1 - o /\ ((-i) % 8) + 7 - x \in {(-j - n) % 8, ((-j - n) % 8) + 8}
  <2>1. n = 1 - o /\ -j - n = -i + 7 - x
    BY <1>1, <1>4
  <2> QED BY <1>1, <2>1
<1>5. ASSUME u = t - (2 * x + 1)
      PROVE  n = 1 - o /\ ((-i) % 8) + x \in {(-j - n) % 8, ((-j - n) % 8) + 8}
  <2>1. n = 1 - o /\ -j - n = -i + x
    BY <1>1, <1>5
  <2> QED BY <1>1, <2>1
<1> QED BY <1>2, <1>3, <1>4, <1>5 DEF Index, Second, Odd, i, j, o, n

\* A block stored twice in a ring, and what stays of the others.
LEMMA PutStores ==
  ASSUME NEW ring \in Ring, NEW i \in 0..7, NEW t \in Nat
  PROVE  /\ Put(ring, i, t) \in Ring /\ At2(Put(ring, i, t), i, t)
         /\ \A j \in 0..7, u \in Nat : j # i /\ At2(ring, j, u) =>
              At2(Put(ring, i, t), j, u)
<1>1. /\ i \in 0..15 /\ i + 8 \in 0..15
      /\ \A j \in 0..7 : j \in 0..15 /\ j + 8 \in 0..15 /\ j # i + 8 /\ j + 8 # i
  OBVIOUS
<1>2. Put(ring, i, t) = [k \in 0..15 |-> IF k = i \/ k = i + 8 THEN t ELSE ring[k]]
  BY <1>1 DEF Put, Ring
<1>3. Put(ring, i, t) \in Ring
  BY <1>2 DEF Ring
<1>4. At2(Put(ring, i, t), i, t)
  BY <1>1, <1>2 DEF At2
<1>5. ASSUME NEW j \in 0..7, NEW u \in Nat, j # i, At2(ring, j, u)
      PROVE  At2(Put(ring, i, t), j, u)
  BY <1>1, <1>2, <1>5 DEF At2
<1> QED BY <1>3, <1>4, <1>5

\* FDCT32 puts block t in its places and changes no other ring.
LEMMA FdctRings ==
  ASSUME NEW v \in Vbuf, NEW t \in Nat, t > 0
  PROVE  LET w == FDCT32(v, Index(t), Odd(t), t) IN
         /\ w \in Vbuf
         /\ w.lo[Odd(t)] = Put(v.lo[Odd(t)], Index(t), t)
         /\ w.lo[1 - Odd(t)] = v.lo[1 - Odd(t)]
         /\ w.hi[1 - Odd(t)] = Put(v.hi[1 - Odd(t)], Second(t), t)
         /\ w.hi[Odd(t)] = v.hi[Odd(t)]
         /\ w.s0[1 - Odd(t)] = Put(v.s0[1 - Odd(t)], Second(t), t)
         /\ w.s0[Odd(t)] = v.s0[Odd(t)]
<1> DEFINE w == FDCT32(v, Index(t), Odd(t), t)
           o == Odd(t)
           lo == Put(v.lo[o], Index(t), t)
           hi == Put(v.hi[1 - o], Second(t), t)
           s0 == Put(v.s0[1 - o], Second(t), t)
<1>1. o \in 0..1 /\ 1 - o \in 0..1 /\ 1 - o # o
      /\ Index(t) \in 0..7 /\ Second(t) \in 0..7
  BY PlaceTypes
<1>2. /\ v.lo \in [0..1 -> Ring] /\ v.hi \in [0..1 -> Ring]
      /\ v.s0 \in [0..1 -> Ring]
  BY DEF Vbuf
<1>3. lo \in Ring /\ hi \in Ring /\ s0 \in Ring
  BY <1>1, <1>2, PutStores
<1>4. w = [v EXCEPT !.s0[1 - o] = s0, !.lo[o] = lo, !.hi[1 - o] = hi]
  BY DEF FDCT32, Second
<1> HIDE DEF w, lo, hi, s0, o
<1>5. /\ w.lo = [v.lo EXCEPT ![o] = lo]
      /\ w.hi = [v.hi EXCEPT ![1 - o] = hi]
      /\ w.s0 = [v.s0 EXCEPT ![1 - o] = s0]
      /\ DOMAIN w = {"lo", "hi", "s0"}
      /\ w = [k \in {"lo", "hi", "s0"} |-> w[k]]
  BY <1>4 DEF Vbuf
<1>6. w \in Vbuf
  <2>1. /\ w.lo \in [0..1 -> Ring] /\ w.hi \in [0..1 -> Ring]
        /\ w.s0 \in [0..1 -> Ring]
    BY <1>1, <1>2, <1>3, <1>5
  <2> QED BY <2>1, <1>5 DEF Vbuf
<1> QED BY <1>1, <1>2, <1>5, <1>6 DEF w, lo, hi, s0, o

\* With block t, the last sixteen blocks are where they belong.
LEMMA FdctStores ==
  ASSUME NEW v \in Vbuf, NEW t \in Nat, t > 0, NEW s \in Nat, Stored(v, t - 1, s)
  PROVE  /\ FDCT32(v, Index(t), Odd(t), t) \in Vbuf
         /\ Stored(FDCT32(v, Index(t), Odd(t), t), t, s)
<1> DEFINE w == FDCT32(v, Index(t), Odd(t), t)
<1>1. /\ w \in Vbuf
      /\ w.lo[Odd(t)] = Put(v.lo[Odd(t)], Index(t), t)
      /\ w.lo[1 - Odd(t)] = v.lo[1 - Odd(t)]
      /\ w.hi[1 - Odd(t)] = Put(v.hi[1 - Odd(t)], Second(t), t)
      /\ w.hi[Odd(t)] = v.hi[Odd(t)]
      /\ w.s0[1 - Odd(t)] = Put(v.s0[1 - Odd(t)], Second(t), t)
      /\ w.s0[Odd(t)] = v.s0[Odd(t)]
  BY FdctRings
<1> HIDE DEF w
<1>2. /\ Odd(t) \in 0..1 /\ 1 - Odd(t) \in 0..1
      /\ Index(t) \in 0..7 /\ Second(t) \in 0..7
  BY PlaceTypes
<1>3. /\ v.lo[Odd(t)] \in Ring /\ v.hi[1 - Odd(t)] \in Ring
      /\ v.s0[1 - Odd(t)] \in Ring
  BY <1>2 DEF Vbuf
<1>4. ASSUME NEW u \in 1..t, u > t - 16, u > s
      PROVE  Written(w, u)
  <2>1. CASE u = t
    BY <1>1, <1>2, <1>3, <2>1, PutStores DEF Written
  <2>2. CASE u # t
    <3>1. u \in 1..(t - 1) /\ u > (t - 1) - 16 /\ u \in Nat /\ u > 0 /\ u < t
          /\ t - u < 16
      BY <1>4, <2>2
    <3>2. Written(v, u)
      BY <1>4, <3>1 DEF Stored
    <3>3. Odd(u) \in 0..1 /\ Index(u) \in 0..7 /\ Second(u) \in 0..7
      BY <3>1, PlaceTypes
    <3>4. CASE Odd(u) = Odd(t)
      <4>1. Index(t) # Index(u) /\ Second(t) # Second(u)
        BY <3>1, <3>4, PlacesDiffer
      <4>2. At2(v.lo[Odd(t)], Index(u), u) /\ At2(v.hi[1 - Odd(t)], Second(u), u)
            /\ At2(v.s0[1 - Odd(t)], Second(u), u)
        BY <3>2, <3>4 DEF Written
      <4>3. At2(w.lo[Odd(t)], Index(u), u)
        BY <1>1, <1>2, <1>3, <3>1, <3>3, <4>1, <4>2, PutStores
      <4>4. At2(w.hi[1 - Odd(t)], Second(u), u)
        BY <1>1, <1>2, <1>3, <3>1, <3>3, <4>1, <4>2, PutStores
      <4>5. At2(w.s0[1 - Odd(t)], Second(u), u)
        BY <1>1, <1>2, <1>3, <3>1, <3>3, <4>1, <4>2, PutStores
      <4> QED BY <3>4, <4>3, <4>4, <4>5 DEF Written
    <3>5. CASE Odd(u) # Odd(t)
      <4>1. Odd(u) = 1 - Odd(t) /\ 1 - Odd(u) = Odd(t)
        BY <1>2, <3>3, <3>5
      <4> QED BY <1>1, <3>2, <4>1 DEF Written
    <3> QED BY <3>4, <3>5
  <2> QED BY <2>1, <2>2
<1> QED BY <1>1, <1>4 DEF Stored, w

\* The taps of block t find the last sixteen blocks.
LEMMA TapsHear ==
  ASSUME NEW v, NEW t \in Nat, t > 0, NEW s \in Nat, Stored(v, t, s)
  PROVE  Heard(Polyphase(v, Index(t), Odd(t)), t, s)
<1> DEFINE p == Polyphase(v, Index(t), Odd(t))
<1> SUFFICES ASSUME NEW x \in 0..7
             PROVE  /\ t - 2 * x > s => p.lo[x] = t - 2 * x
                    /\ t - (15 - 2 * x) > s => p.hi[x] = t - (15 - 2 * x)
                    /\ t - (2 * x + 1) > s => p.s0[x] = t - (2 * x + 1)
  BY DEF Heard
<1>1. /\ p.lo[x] = v.lo[Odd(t)][Index(t) + x]
      /\ p.hi[x] = v.hi[Odd(t)][Index(t) + 7 - x]
      /\ p.s0[x] = v.s0[Odd(t)][Index(t) + x]
  BY DEF Polyphase
<1> HIDE DEF p
<1>2. ASSUME NEW u \in Int, u > s, u > t - 16, u <= t
      PROVE  u \in Nat /\ u > 0 /\ Written(v, u)
  BY <1>2 DEF Stored
<1>0. Odd(t) \in 0..1
  BY PlaceTypes
<1>3. ASSUME t - 2 * x > s
      PROVE  p.lo[x] = t - 2 * x
  <2> DEFINE u == t - 2 * x
  <2>1. u \in Nat /\ u > 0 /\ Written(v, u)
    BY <1>2, <1>3
  <2>2. Odd(u) = Odd(t) /\ Index(t) + x \in {Index(u), Index(u) + 8}
    BY <2>1, TapPlaces
  <2> HIDE DEF u
  <2>3. v.lo[Odd(t)][Index(t) + x] = u
    BY <2>1, <2>2 DEF Written, At2
  <2> QED BY <1>1, <2>3 DEF u
<1>4. ASSUME t - (15 - 2 * x) > s
      PROVE  p.hi[x] = t - (15 - 2 * x)
  <2> DEFINE u == t - (15 - 2 * x)
  <2>1. u \in Nat /\ u > 0 /\ Written(v, u)
    BY <1>2, <1>4
  <2>2. Odd(u) = 1 - Odd(t)
        /\ Index(t) + 7 - x \in {Second(u), Second(u) + 8}
    BY <2>1, TapPlaces
  <2> HIDE DEF u
  <2>3. 1 - Odd(u) = Odd(t)
    BY <1>0, <2>2
  <2>4. v.hi[Odd(t)][Index(t) + 7 - x] = u
    BY <2>1, <2>2, <2>3 DEF Written, At2
  <2> QED BY <1>1, <2>4 DEF u
<1>5. ASSUME t - (2 * x + 1) > s
      PROVE  p.s0[x] = t - (2 * x + 1)
  <2> DEFINE u == t - (2 * x + 1)
  <2>1. u \in Nat /\ u > 0 /\ Written(v, u)
    BY <1>2, <1>5
  <2>2. Odd(u) = 1 - Odd(t) /\ Index(t) + x \in {Second(u), Second(u) + 8}
    BY <2>1, TapPlaces
  <2> HIDE DEF u
  <2>3. 1 - Odd(u) = Odd(t)
    BY <1>0, <2>2
  <2>4. v.s0[Odd(t)][Index(t) + x] = u
    BY <2>1, <2>2, <2>3 DEF Written, At2
  <2> QED BY <1>1, <2>4 DEF u
<1> QED BY <1>3, <1>4, <1>5

-----------------------------------------------------------------------------
(* The blocks of a granule. *)

\* The values of the loop of Subband, block by block.
IsBlocks(after, w, n) ==
  /\ after[0] = w
  /\ \A i \in 1..n : after[i] = SubbandBlock(after[i - 1], i - 1)

\* What holds before the first block and survives each block holds after any of
\* them.
LEMMA AfterEachBlock ==
  ASSUME NEW n \in Nat, NEW X, 0 \in X, \A i \in 1..n : i - 1 \in X => i \in X
  PROVE  \A i \in 0..n : i \in X
<1> DEFINE Y == {i \in 0..n : i \notin X}
<1> SUFFICES ASSUME Y # {}
             PROVE  FALSE
  OBVIOUS
<1>1. Y \in SUBSET Nat
  OBVIOUS
<1>2. Min(Y) \in Y /\ \A i \in Y : Min(Y) <= i
  <2> HIDE DEF Y
  <2> QED BY <1>1, LeastOf
<1> DEFINE y == Min(Y)
<1>3. y \in 0..n /\ y \notin X /\ \A i \in Y : y <= i
  BY <1>2
<1> HIDE DEF y
<1>4. y \in 1..n /\ y - 1 \in 0..n
  BY <1>3
<1>5. y - 1 \in X
  BY <1>3, <1>4
<1> QED BY <1>3, <1>4, <1>5

\* The loop of Subband has such values.
LEMMA BlocksRun ==
  ASSUME NEW w
  PROVE  \E after : IsBlocks(after, w, 18) /\ GranuleBlocks(w) = after[18]
<1> DEFINE X == {n \in 0..18 : \E f : IsBlocks(f, w, n)}
<1>1. 0 \in X
  <2>1. IsBlocks([i \in 0..18 |-> w], w, 0)
    BY DEF IsBlocks
  <2> QED BY <2>1
<1>2. ASSUME NEW n \in 1..18, n - 1 \in X
      PROVE  n \in X
  <2>1. PICK f : IsBlocks(f, w, n - 1)
    BY <1>2
  <2> DEFINE next == SubbandBlock(f[n - 1], n - 1)
             g == [i \in 0..18 |-> IF i = n THEN next ELSE f[i]]
  <2>2. g[0] = w /\ g[n] = next /\ \A i \in 0..(n - 1) : g[i] = f[i]
    <3> HIDE DEF next
    <3> QED BY <2>1 DEF IsBlocks
  <2>3. ASSUME NEW i \in 1..n
        PROVE  g[i] = SubbandBlock(g[i - 1], i - 1)
    <3>1. CASE i = n
      BY <2>2, <3>1
    <3>2. CASE i # n
      <4>1. i \in 1..(n - 1) /\ i \in 0..(n - 1) /\ i - 1 \in 0..(n - 1)
        BY <3>2
      <4> QED BY <2>1, <2>2, <4>1 DEF IsBlocks
    <3> QED BY <3>1, <3>2
  <2>4. IsBlocks(g, w, n)
    BY <2>2, <2>3 DEF IsBlocks
  <2> QED BY <2>4
<1>3. PICK f : IsBlocks(f, w, 18)
  <2> HIDE DEF X
  <2>1. 18 \in X
    BY <1>1, <1>2, AfterEachBlock
  <2> QED BY <2>1 DEF X
<1> DEFINE h == [i \in 0..18 |-> f[i]]
           Whole(l) == l = [n \in 0..18 |-> IF n = 0 THEN w
                                            ELSE SubbandBlock(l[n - 1], n - 1)]
           after == CHOOSE l : Whole(l)
<1>4. Whole(h)
  <2>1. \A n \in 0..18 : f[n] = IF n = 0 THEN w ELSE SubbandBlock(h[n - 1], n - 1)
    BY <1>3 DEF IsBlocks
  <2> QED BY <2>1
<1>5. Whole(after)
  <2> HIDE DEF Whole, h
  <2> QED BY <1>4
<1>6. GranuleBlocks(w) = after[18]
  BY DEF GranuleBlocks
<1>7. IsBlocks(after, w, 18)
  <2> HIDE DEF after
  <2> QED BY <1>5 DEF IsBlocks
<1> HIDE DEF after
<1> QED BY <1>6, <1>7

\* Between two granules: the blocks of every channel are where their numbers
\* say, from the block after which the channel was last left out, and the last
\* two have read what they should.
Filtered ==
  /\ blocks \in Nat /\ blocks % 2 = 0
  /\ vindex = Index(blocks + 1)
  /\ fh.chans \in 1..2
  /\ \A c \in Ch :
       /\ since[c] \in 0..blocks
       /\ vbuf[c] \in Vbuf /\ DOMAIN taps[c] = 0..1
       /\ Stored(vbuf[c], blocks, since[c])
       /\ since[c] < blocks => /\ Heard(taps[c][0], blocks - 1, since[c])
                               /\ Heard(taps[c][1], blocks, since[c])

\* After n blocks of a granule.
Filtering(w, n) ==
  /\ w.t = blocks + n
  /\ w.index = Index(w.t + 1)
  /\ \A c \in Ch :
       /\ w.v[c] \in Vbuf /\ DOMAIN w.taps[c] = 0..1
       /\ c < fh.chans =>
            /\ Stored(w.v[c], w.t, since[c])
            /\ n > 0 => Heard(w.taps[c][Odd(w.t)], w.t, since[c])
            /\ n > 1 => Heard(w.taps[c][1 - Odd(w.t)], w.t - 1, since[c])

\* One more block.
LEMMA BlockFilters ==
  ASSUME Filtered, NEW n \in 1..18, NEW w, Filtering(w, n - 1)
  PROVE  Filtering(SubbandBlock(w, n - 1), n)
<1> DEFINE r == SubbandBlock(w, n - 1)
           t == w.t + 1
           o == Odd(t)
           p(c) == Polyphase(r.v[c], w.index, o)
<1>1. /\ t = blocks + n /\ t \in Nat /\ t > 0 /\ t - 1 = w.t
      /\ (n - 1) % 2 = o
      /\ w.index = Index(t)
  <2>1. w.t = blocks + (n - 1) /\ w.index = Index(w.t + 1) /\ blocks \in Nat
        /\ blocks % 2 = 0
    BY DEF Filtered, Filtering
  <2>2. t = blocks + n /\ t - 1 = blocks + (n - 1) /\ w.t = t - 1
    BY <2>1
  <2> HIDE DEF t
  <2>3. (t - 1) % 2 = (n - 1) % 2
    BY <2>1, <2>2
  <2>4. w.t + 1 = t
    BY <2>1, <2>2
  <2> QED BY <2>1, <2>2, <2>3, <2>4 DEF Odd
<1>2. o \in 0..1 /\ Odd(t + 1) = 1 - o /\ Index(t + 1) = Second(t)
      /\ (n > 1 => Odd(t - 1) = 1 - o /\ 1 - Odd(t - 1) = o)
  <2>1. o \in 0..1 /\ 1 - o \in 0..1
    BY <1>1, PlaceTypes
  <2>2. Odd(t + 1) = 1 - o /\ Index(t + 1) = Second(t) /\ Odd(t - 1) = 1 - o
    BY <1>1, NextPlaces
  <2> HIDE DEF o, t
  <2> QED BY <2>1, <2>2
<1>3. /\ r.t = t /\ r.index = Second(t)
      /\ \A c \in Ch :
           /\ r.v[c] = IF c < fh.chans THEN FDCT32(w.v[c], Index(t), o, t)
                                       ELSE w.v[c]
           /\ r.taps[c] = IF c < fh.chans
                          THEN [w.taps[c] EXCEPT ![o] = p(c)]
                          ELSE w.taps[c]
  BY <1>1 DEF SubbandBlock, Second
<1> HIDE DEF r, t, o, p
<1>4. ASSUME NEW c \in Ch
      PROVE  /\ r.v[c] \in Vbuf /\ DOMAIN r.taps[c] = 0..1
             /\ c < fh.chans =>
                  /\ Stored(r.v[c], r.t, since[c])
                  /\ Heard(r.taps[c][Odd(r.t)], r.t, since[c])
                  /\ n > 1 => Heard(r.taps[c][1 - Odd(r.t)], r.t - 1, since[c])
  <2>1. w.v[c] \in Vbuf /\ DOMAIN w.taps[c] = 0..1
    BY DEF Filtering
  <2>2. CASE ~(c < fh.chans)
    BY <1>3, <2>1, <2>2
  <2>3. CASE c < fh.chans
    <3>1. Stored(w.v[c], t - 1, since[c]) /\ since[c] \in Nat
      BY <1>1, <2>3 DEF Filtering, Filtered
    <3>2. r.v[c] \in Vbuf /\ Stored(r.v[c], t, since[c])
      <4>1. r.v[c] = FDCT32(w.v[c], Index(t), Odd(t), t)
        BY <1>3, <2>3 DEF o
      <4>2. t \in Nat \ {0} /\ w.v[c] \in Vbuf
        BY <1>1, <2>1
      <4>3. /\ FDCT32(w.v[c], Index(t), Odd(t), t) \in Vbuf
            /\ Stored(FDCT32(w.v[c], Index(t), Odd(t), t), t, since[c])
        BY <3>1, <4>2, FdctStores
      <4> QED BY <4>1, <4>3
    <3>3. Heard(p(c), t, since[c])
      BY <1>1, <3>1, <3>2, TapsHear DEF p, o
    <3>4. /\ DOMAIN r.taps[c] = 0..1 /\ r.taps[c][o] = p(c)
          /\ r.taps[c][1 - o] = w.taps[c][1 - o]
      <4>1. r.taps[c] = [w.taps[c] EXCEPT ![o] = p(c)]
        BY <1>3, <2>3
      <4>2. o \in 0..1 /\ 1 - o \in 0..1 /\ 1 - o # o
        BY <1>2
      <4> QED BY <2>1, <4>1, <4>2
    <3>5. n > 1 => Heard(w.taps[c][1 - o], t - 1, since[c])
      <4>1. n > 1 => n - 1 > 0
        OBVIOUS
      <4> QED BY <1>1, <1>2, <2>3, <4>1 DEF Filtering
    <3>6. Odd(r.t) = o /\ r.t = t
      BY <1>3 DEF o
    <3> QED BY <3>2, <3>3, <3>4, <3>5, <3>6
  <2> QED BY <2>2, <2>3
<1>5. r.t = blocks + n /\ r.index = Index(r.t + 1)
  BY <1>1, <1>2, <1>3
<1> QED BY <1>4, <1>5 DEF Filtering, r

\* All blocks of a granule.
LEMMA GranuleFilters ==
  ASSUME Filtered, NEW w, Filtering(w, 0)
  PROVE  Filtering(GranuleBlocks(w), 18)
<1>1. PICK after : IsBlocks(after, w, 18) /\ GranuleBlocks(w) = after[18]
  BY BlocksRun
<1> DEFINE X == {n \in 0..18 : Filtering(after[n], n)}
<1>2. 0 \in X
  BY <1>1 DEF IsBlocks
<1>3. ASSUME NEW n \in 1..18, n - 1 \in X
      PROVE  n \in X
  <2>1. after[n] = SubbandBlock(after[n - 1], n - 1)
    BY <1>1 DEF IsBlocks
  <2>2. Filtering(after[n - 1], n - 1)
    BY <1>3
  <2>3. Filtering(after[n], n)
    BY <2>1, <2>2, BlockFilters
  <2> QED BY <2>3
<1>4. 18 \in X
  <2> HIDE DEF X
  <2> QED BY <1>2, <1>3, AfterEachBlock
<1> QED BY <1>1, <1>4

\* A granule starts with the blocks of the one before.
LEMMA SubbandFilters ==
  ASSUME Filtered, Subband
  PROVE  Filtered'
<1> DEFINE w0 == [t |-> blocks, v |-> vbuf, index |-> vindex, taps |-> taps]
           w == GranuleBlocks(w0)
<1>1. /\ vbuf' = w.v /\ vindex' = w.index /\ taps' = w.taps /\ blocks' = w.t
      /\ since' = [c \in Ch |-> IF c < fh.chans THEN since[c] ELSE w.t]
      /\ fh' = fh
  BY DEF Subband
<1>2. Filtering(w0, 0)
  BY DEF Filtering, Filtered
<1>3. Filtering(w, 18)
  <2> HIDE DEF w0
  <2> QED BY <1>2, GranuleFilters
<1> HIDE DEF w
<1>4. /\ blocks \in Nat /\ blocks % 2 = 0 /\ w.t = blocks + 18
      /\ w.index = Index(w.t + 1)
  BY <1>3 DEF Filtered, Filtering
<1> DEFINE t == w.t
<1>5. t \in Nat /\ t % 2 = 0 /\ Odd(t) = 1 /\ t > blocks /\ t > 0
  <2>1. t = blocks + 18
    BY <1>4
  <2> HIDE DEF t
  <2> QED BY <1>4, <2>1 DEF Odd
<1>6. ASSUME NEW c \in Ch
      PROVE  /\ since'[c] \in 0..t
             /\ w.v[c] \in Vbuf /\ DOMAIN w.taps[c] = 0..1
             /\ Stored(w.v[c], t, since'[c])
             /\ since'[c] < t => /\ Heard(w.taps[c][0], t - 1, since'[c])
                                 /\ Heard(w.taps[c][1], t, since'[c])
  <2>1. w.v[c] \in Vbuf /\ DOMAIN w.taps[c] = 0..1
    BY <1>3 DEF Filtering
  <2>2. CASE c < fh.chans
    <3>1. since'[c] = since[c] /\ since[c] \in 0..blocks
      BY <1>1, <2>2 DEF Filtered
    <3>2. /\ Stored(w.v[c], t, since[c])
          /\ Heard(w.taps[c][Odd(t)], t, since[c])
          /\ Heard(w.taps[c][1 - Odd(t)], t - 1, since[c])
      BY <1>3, <2>2 DEF Filtering
    <3>3. 1 - Odd(t) = 0
      BY <1>5
    <3> HIDE DEF t
    <3> QED BY <1>4, <1>5, <2>1, <3>1, <3>2, <3>3
  <2>3. CASE ~(c < fh.chans)
    <3>1. since'[c] = t
      BY <1>1, <2>3
    <3>2. Stored(w.v[c], t, t)
      <4> HIDE DEF t
      <4> QED BY <1>5 DEF Stored
    <3> HIDE DEF t
    <3> QED BY <1>5, <2>1, <3>1, <3>2
  <2> QED BY <2>2, <2>3
<1>7. fh'.chans \in 1..2
  BY <1>1 DEF Filtered
<1> QED BY <1>1, <1>4, <1>5, <1>6, <1>7 DEF Filtered

\* The filter is only used by Subband.
LEMMA NextFilters ==
  ASSUME Filtered, [Next]_vars
  PROVE  Filtered'
<1>1. ASSUME UNCHANGED <<vbuf, vindex, blocks, since, taps>>,
             fh' = fh \/ fh' \in Headers
      PROVE  Filtered'
  <2>1. fh'.chans \in 1..2
    BY <1>1, HelixAssumption DEF Filtered, Header
  <2> QED BY <1>1, <2>1 DEF Filtered
<1>2. CASE BadHeader \/ \E h \in Headers : Truncated(h)
  BY <1>1, <1>2 DEF BadHeader, Truncated, signalVars
<1>3. ASSUME NEW h \in Headers, NEW begin \in Begins, NEW n \in SlotSet,
             StartFrame(h, begin, n)
      PROVE  Filtered'
  BY <1>1, <1>3 DEF StartFrame, signalVars
<1>4. ASSUME NEW side \in SideInfo[step.ch], NEW scfsi \in Scfsi,
             UnpackScaleFactors(side, scfsi)
      PROVE  Filtered'
  BY <1>1, <1>4 DEF UnpackScaleFactors, signalVars
<1>5. CASE DecodeHuffman \/ Dequantize \/ IMDCT
  BY <1>1, <1>5 DEF DecodeHuffman, Dequantize, IMDCT
<1>6. CASE Subband
  BY <1>6, SubbandFilters
<1>7. CASE UNCHANGED vars
  BY <1>1, <1>7 DEF vars
<1> QED BY <1>2, <1>3, <1>4, <1>5, <1>6, <1>7 DEF Next

\* The two halves of vbuf, the index that goes back by one every second block,
\* and the rings that are stored twice come to the shift register of the
\* standard: each tap of the filter reads the block of its age, in every
\* channel and for any number of frames, errors and changes between mono and
\* stereo, as far back as the channel was decoded without a break.
THEOREM SynthesisHistoryHolds == Spec => []SynthesisHistory
<1>1. Init => Filtered
  <2> SUFFICES ASSUME Init
               PROVE  Filtered
    OBVIOUS
  <2>1. /\ blocks = 0 /\ vindex = 0 /\ fh \in Headers
        /\ \A c \in Ch : /\ since[c] = 0 /\ vbuf[c] = EmptyVbuf
                         /\ DOMAIN taps[c] = 0..1
    BY DEF Init
  <2>2. EmptyVbuf \in Vbuf
    BY DEF EmptyVbuf, Vbuf, Ring
  <2>3. \A v : Stored(v, 0, 0)
    BY DEF Stored
  <2>4. fh.chans \in 1..2
    BY <2>1, HelixAssumption DEF Header
  <2>5. Index(0 + 1) = 0
    BY DEF Index
  <2> QED BY <2>1, <2>2, <2>3, <2>4, <2>5 DEF Filtered
<1>2. Filtered /\ [Next]_vars => Filtered'
  BY NextFilters
<1>3. ASSUME Filtered
      PROVE  SynthesisHistory
  <2> SUFFICES ASSUME NEW c \in Ch, since[c] < blocks, NEW odd \in 0..1,
                      NEW x \in 0..7
               PROVE  LET t == blocks - 1 + odd
                          is(b, age) == \/ b = (IF t - age > 0 THEN t - age ELSE 0)
                                        \/ t - age <= since[c]
                      IN  /\ is(taps[c][odd].lo[x], 2 * x)
                          /\ is(taps[c][odd].hi[x], 15 - 2 * x)
                          /\ is(taps[c][odd].s0[x], 2 * x + 1)
    BY DEF SynthesisHistory
  <2> DEFINE t == blocks - 1 + odd
             p == taps[c][odd]
  <2>1. blocks \in Nat /\ since[c] \in Nat
    BY <1>3 DEF Filtered
  <2>2. Heard(p, t, since[c])
    <3>1. Heard(taps[c][0], blocks - 1, since[c])
          /\ Heard(taps[c][1], blocks, since[c])
      BY <1>3 DEF Filtered
    <3>2. CASE odd = 0
      BY <2>1, <3>1, <3>2
    <3>3. CASE odd = 1
      BY <2>1, <3>1, <3>3
    <3> QED BY <3>2, <3>3
  <2>3. t \in Int
    BY <2>1
  <2> HIDE DEF p, t
  <2>4. /\ t - 2 * x > since[c] => p.lo[x] = t - 2 * x
        /\ t - (15 - 2 * x) > since[c] => p.hi[x] = t - (15 - 2 * x)
        /\ t - (2 * x + 1) > since[c] => p.s0[x] = t - (2 * x + 1)
    BY <2>2 DEF Heard
  <2> QED BY <2>1, <2>3, <2>4 DEF p, t
<1> QED BY <1>1, <1>2, <1>3, PTL DEF Spec

-----------------------------------------------------------------------------
(* The loops of huffman.c.  Their cache is right as long as what is cached *)
(* and what is left, without the padding, are the bits that are not used.  *)

Cache == [cached : Int, left : Int, pad : Int, n : Int, out : BOOLEAN]

\* used of bits are used, perhaps more; not all of the others are cached
\* before the first look-up.
Accounts(c, bits, used, min) ==
  /\ c \in Cache
  /\ c.cached + c.left - c.pad = bits - used
  /\ \/ c.pad = 0 /\ c.cached >= 0 /\ (c.left >= 0 \/ c.cached < min)
     \/ c.pad = min /\ c.left = 0

\* The bits that escapes take; an escape needs no more bits than it and those
\* behind it take.
Takes(esc) == [i \in DOMAIN esc |-> esc[i][2]]
GoodEscapes(esc) ==
  /\ esc \in Seq(Int \X Nat)
  /\ \A i \in 1..Len(esc) :
       /\ esc[i][2] <= esc[i][1]
       /\ esc[i][1] <= Total(Takes(esc)) - Sums(Takes(esc))[i - 1]

\* Look-ups, and code words with at least one, of at most min bits each.
AreLookups(lens, min) == lens \in Seq(1..min) /\ Len(lens) > 0
IsWord(w, min) ==
  /\ w.skips \in Seq(1..min) /\ w.len \in 1..min
  /\ GoodEscapes(w.esc)

-----------------------------------------------------------------------------
(* Loops over a sequence. *)

\* n rounds, each of which takes a value in V to another, and what comes of base.
IsLoop(n, V, base, round) ==
  /\ n \in Nat /\ base \in V
  /\ \A i \in 1..n, x \in V : round[i][x] \in V
IsRun(f, n, V, base, round) ==
  /\ f[0] = base /\ \A i \in 0..n : f[i] \in V
  /\ \A i \in 1..n : f[i] = round[i][f[i - 1]]

\* A loop has values.
LEMMA LoopRuns ==
  ASSUME NEW n, NEW V, NEW base, NEW round, IsLoop(n, V, base, round)
  PROVE  \E f : IsRun(f, n, V, base, round)
<1> USE DEF IsLoop
<1> DEFINE Runs(f, k) == IsRun(f, k, V, base, round)
           X == {k \in 0..n : \E f : Runs(f, k)}
<1>1. 0 \in X
  <2> DEFINE f == [i \in 0..n |-> base]
  <2>1. Runs(f, 0)
    BY DEF IsRun
  <2> HIDE DEF f, Runs
  <2> QED BY <2>1
<1>2. ASSUME NEW k \in 1..n, k - 1 \in X
      PROVE  k \in X
  <2>1. PICK f : Runs(f, k - 1)
    BY <1>2
  <2> DEFINE x == round[k][f[k - 1]]
             g == [i \in 0..n |-> IF i = k THEN x ELSE f[i]]
  <2>2. x \in V
    BY <2>1 DEF IsRun
  <2> HIDE DEF x
  <2>3. g[k] = x /\ \A i \in 0..(k - 1) : g[i] = f[i]
    OBVIOUS
  <2> HIDE DEF g
  <2>4. g[0] = base
    BY <2>1, <2>3 DEF IsRun
  <2>5. ASSUME NEW i \in 0..k
        PROVE  g[i] \in V
    <3>1. i = k \/ i \in 0..(k - 1)
      OBVIOUS
    <3> QED BY <2>1, <2>2, <2>3, <3>1 DEF IsRun
  <2>6. ASSUME NEW i \in 1..k
        PROVE  g[i] = round[i][g[i - 1]]
    <3>1. CASE i = k
      BY <2>3, <3>1 DEF x
    <3>2. CASE i # k
      <4>1. i \in 1..(k - 1) /\ i \in 0..(k - 1) /\ i - 1 \in 0..(k - 1)
        BY <3>2
      <4> QED BY <2>1, <2>3, <4>1 DEF IsRun
    <3> QED BY <3>1, <3>2
  <2>7. Runs(g, k)
    BY <2>4, <2>5, <2>6 DEF IsRun
  <2> HIDE DEF Runs
  <2> QED BY <2>7
<1>3. n \in X
  <2> HIDE DEF X
  <2> QED BY <1>1, <1>2, AfterEachBlock
<1> QED BY <1>3

\* The sums of a sequence.
LEMMA SumsRun ==
  ASSUME NEW s \in Seq(Int)
  PROVE  /\ Sums(s) \in [0..Len(s) -> Int] /\ Sums(s)[0] = 0
         /\ \A i \in 1..Len(s) : Sums(s)[i] = Sums(s)[i - 1] + s[i]
<1> DEFINE n == Len(s)
           round == [i \in 1..n |-> [x \in Int |-> x + s[i]]]
           Whole(l) == l = [i \in 0..n |-> IF i = 0 THEN 0 ELSE l[i - 1] + s[i]]
           sum == CHOOSE l : Whole(l)
<1>1. n \in Nat /\ \A i \in 1..n : s[i] \in Int
  OBVIOUS
<1> HIDE DEF n
<1>2. PICK f : IsRun(f, n, Int, 0, round)
  <2>1. IsLoop(n, Int, 0, round)
    BY <1>1 DEF IsLoop
  <2> HIDE DEF round
  <2> QED BY <2>1, LoopRuns
<1> DEFINE h == [i \in 0..n |-> f[i]]
<1>3. Whole(h)
  <2>1. ASSUME NEW i \in 1..n
        PROVE  h[i] = h[i - 1] + s[i]
    <3>1. f[i] = round[i][f[i - 1]] /\ f[i - 1] \in Int
      <4> HIDE DEF round
      <4> QED BY <1>1, <1>2 DEF IsRun
    <3>2. i \in 0..n /\ i - 1 \in 0..n
      BY <1>1
    <3> QED BY <3>1, <3>2
  <2>2. h[0] = 0
    BY <1>1, <1>2 DEF IsRun
  <2>3. \A i \in 0..n : h[i] = IF i = 0 THEN 0 ELSE h[i - 1] + s[i]
    <3> HIDE DEF h
    <3> QED BY <1>1, <2>1, <2>2
  <2>4. h = [i \in 0..n |-> h[i]]
    OBVIOUS
  <2> HIDE DEF h
  <2> QED BY <2>3, <2>4
<1>4. Whole(sum)
  <2> HIDE DEF Whole, h
  <2> QED BY <1>3
<1>5. Sums(s) = sum
  BY DEF Sums, n
<1> HIDE DEF sum
<1>6. /\ sum[0] = 0 /\ DOMAIN sum = 0..n
      /\ \A i \in 1..n : sum[i] = sum[i - 1] + s[i]
  BY <1>1, <1>4
<1> DEFINE X == {i \in 0..n : sum[i] \in Int}
<1>7. \A i \in 0..n : i \in X
  <2>1. 0 \in X
    BY <1>1, <1>6
  <2>2. ASSUME NEW i \in 1..n, i - 1 \in X
        PROVE  i \in X
    <3>1. sum[i] = sum[i - 1] + s[i] /\ s[i] \in Int /\ sum[i - 1] \in Int
      BY <1>1, <1>6, <2>2
    <3>2. i \in 0..n
      BY <1>1
    <3> QED BY <3>1, <3>2
  <2> HIDE DEF X
  <2> QED BY <1>1, <2>1, <2>2, AfterEachBlock
<1>8. sum \in [0..n -> Int]
  <2>1. sum = [i \in 0..n |-> sum[i]]
    BY <1>4
  <2> QED BY <1>7, <2>1
<1> QED BY <1>5, <1>6, <1>8 DEF n

\* A sum depends on what is added.
LEMMA SumsAgree ==
  ASSUME NEW s \in Seq(Int), NEW t \in Seq(Int), NEW k \in Nat,
         k <= Len(s), k <= Len(t), \A i \in 1..k : s[i] = t[i]
  PROVE  Sums(s)[k] = Sums(t)[k]
<1> DEFINE X == {i \in 0..k : Sums(s)[i] = Sums(t)[i]}
<1>1. Len(s) \in Nat /\ Len(t) \in Nat
  OBVIOUS
<1>2. 0 \in X
  BY SumsRun
<1>3. ASSUME NEW i \in 1..k, i - 1 \in X
      PROVE  i \in X
  <2>1. Sums(s)[i] = Sums(s)[i - 1] + s[i] /\ Sums(t)[i] = Sums(t)[i - 1] + t[i]
    BY <1>1, SumsRun
  <2> QED BY <1>3, <2>1
<1> HIDE DEF X
<1>4. \A i \in 0..k : i \in X
  BY <1>2, <1>3, AfterEachBlock
<1> QED BY <1>4 DEF X

\* One element more.
LEMMA TotalAppends ==
  ASSUME NEW s \in Seq(Int), NEW x \in Int
  PROVE  Total(Append(s, x)) = Total(s) + x
<1> DEFINE t == Append(s, x)
           n == Len(s)
<1>1. /\ t \in Seq(Int) /\ n \in Nat /\ Len(t) = n + 1 /\ t[n + 1] = x
      /\ \A i \in 1..n : s[i] = t[i]
  OBVIOUS
<1> HIDE DEF t, n
<1>2. Sums(s)[n] = Sums(t)[n]
  <2>1. n <= Len(s) /\ n <= Len(t)
    BY <1>1 DEF n
  <2> QED BY <1>1, <2>1, SumsAgree, Zenon
<1>3. Sums(t)[n + 1] = Sums(t)[n] + x
  <2>1. n + 1 \in 1..Len(t)
    BY <1>1
  <2>2. \A i \in 1..Len(t) : Sums(t)[i] = Sums(t)[i - 1] + t[i]
    BY <1>1, SumsRun, Zenon
  <2>3. Sums(t)[n + 1] = Sums(t)[(n + 1) - 1] + t[n + 1]
    <3> DEFINE k == n + 1
    <3>1. k \in 1..Len(t)
      BY <2>1
    <3> HIDE DEF k
    <3>2. Sums(t)[k] = Sums(t)[k - 1] + t[k]
      BY <2>2, <3>1
    <3> QED BY <3>2 DEF k
  <2>4. n + 1 - 1 = n
    BY <1>1
  <2> QED BY <1>1, <2>3, <2>4
<1> QED BY <1>1, <1>2, <1>3 DEF Total, t, n

\* Sums of what is not negative do not go back.
LEMMA SumsGrow ==
  ASSUME NEW s \in Seq(Nat), NEW j \in 0..Len(s)
  PROVE  \A k \in j..Len(s) : Sums(s)[j] <= Sums(s)[k]
<1> DEFINE n == Len(s)
           X == {i \in 0..n : i >= j => Sums(s)[j] <= Sums(s)[i]}
<1>1. /\ n \in Nat /\ s \in Seq(Int) /\ j \in Nat
      /\ \A i \in 1..n : s[i] \in Nat
  OBVIOUS
<1>2. /\ \A i \in 0..n : Sums(s)[i] \in Int
      /\ \A i \in 1..n : Sums(s)[i] = Sums(s)[i - 1] + s[i]
  BY <1>1, SumsRun
<1> HIDE DEF n
<1>3. 0 \in X
  BY <1>1, <1>2 DEF n
<1>4. ASSUME NEW i \in 1..n, i - 1 \in X
      PROVE  i \in X
  <2>1. Sums(s)[i] = Sums(s)[i - 1] + s[i] /\ s[i] \in Nat
        /\ Sums(s)[i] \in Int /\ Sums(s)[i - 1] \in Int /\ Sums(s)[j] \in Int
    BY <1>1, <1>2 DEF n
  <2>2. CASE i = j
    BY <2>1, <2>2
  <2>3. CASE i # j
    BY <1>1, <1>4, <2>1, <2>3
  <2> QED BY <2>2, <2>3
<1> HIDE DEF X
<1>5. \A i \in 0..n : i \in X
  BY <1>1, <1>3, <1>4, AfterEachBlock
<1> QED BY <1>1, <1>5 DEF X, n

-----------------------------------------------------------------------------
(* The cache. *)

\* What Max(_, 0) is.
LEMMA NotBelowZero ==
  ASSUME NEW x \in Int
  PROVE  Max({x, 0}) = IF x < 0 THEN 0 ELSE x
  BY DEF Max

\* The numbers of a cache.
LEMMA CacheFields ==
  ASSUME NEW c \in Cache
  PROVE  c.cached \in Int /\ c.left \in Int /\ c.pad \in Int /\ c.n \in Int
  BY DEF Cache

\* What stays a cache when its numbers change.
LEMMA CacheChanges ==
  ASSUME NEW c \in Cache, NEW x \in Int, NEW y \in Int, NEW z \in Int
  PROVE  /\ [c EXCEPT !.out = TRUE] \in Cache
         /\ [c EXCEPT !.cached = x] \in Cache
         /\ [c EXCEPT !.n = x] \in Cache
         /\ [c EXCEPT !.cached = x, !.left = y] \in Cache
         /\ [c EXCEPT !.cached = x, !.left = y, !.pad = z] \in Cache
  BY DEF Cache

\* The functions that work on a cache leave one.
LEMMA CacheTypes ==
  ASSUME NEW c \in Cache, NEW x \in Int, NEW y \in Int
  PROVE  Refill(c, x) \in Cache /\ Lookup(c, x, y) \in Cache /\ Escape(c, x, y) \in Cache
<1>1. ASSUME NEW min \in Int
      PROVE  Refill(c, min) \in Cache
  <2>1. /\ c.cached + 16 \in Int /\ c.left - 16 \in Int
        /\ c.cached + c.left + min \in Int /\ 0 \in Int
    BY CacheFields
  <2>2. /\ [c EXCEPT !.cached = @ + 16, !.left = @ - 16] \in Cache
        /\ [c EXCEPT !.out = TRUE] \in Cache
        /\ [c EXCEPT !.cached = @ + c.left + min, !.left = 0, !.pad = min] \in Cache
    BY <2>1, CacheChanges
  <2> QED BY <2>2 DEF Refill
<1>2. Lookup(c, x, y) \in Cache
  <2> DEFINE d == IF c.cached < y THEN Refill(c, y) ELSE c
  <2>1. d \in Cache
    BY <1>1
  <2> HIDE DEF d
  <2>2. Lookup(c, x, y) = IF c.out \/ d.out THEN [d EXCEPT !.out = TRUE]
                                            ELSE [d EXCEPT !.cached = @ - x]
    BY DEF Lookup, d
  <2>3. d.cached - x \in Int
    BY <2>1, CacheFields
  <2>4. [d EXCEPT !.out = TRUE] \in Cache /\ [d EXCEPT !.cached = @ - x] \in Cache
    BY <2>1, <2>3, CacheChanges
  <2> QED BY <2>2, <2>4
<1>3. Escape(c, x, y) \in Cache
  <2> DEFINE k == IF c.cached >= x THEN 0 ELSE (x - c.cached + 7) \div 8
             left == c.left - 8 * k
             m == Max({left, 0})
             e == c.cached + 8 * k + (IF left < 0 THEN left ELSE 0) - y
  <2>1. c.cached \in Int /\ c.left \in Int
    BY DEF Cache
  <2>2. k \in Int
    BY <2>1
  <2> HIDE DEF k
  <2>3. left \in Int
    BY <2>1, <2>2
  <2>4. m \in Int /\ e \in Int
    BY <2>1, <2>2, <2>3, NotBelowZero
  <2>5. Escape(c, x, y) = IF c.out \/ c.cached + c.left < x
                          THEN [c EXCEPT !.out = TRUE]
                          ELSE [c EXCEPT !.cached = e, !.left = m]
    BY DEF Escape, k
  <2> HIDE DEF m, e
  <2>6. [c EXCEPT !.out = TRUE] \in Cache
        /\ [c EXCEPT !.cached = e, !.left = m] \in Cache
    BY <2>4, CacheChanges
  <2> QED BY <2>5, <2>6
<1> QED BY <1>1, <1>2, <1>3

\* The look-ups of a word, one by one.
LEMMA LookupsRun ==
  ASSUME NEW c \in Cache, NEW bits \in Seq(Int), NEW min \in Int
  PROVE  \E f : /\ f[0] = c /\ \A i \in 0..Len(bits) : f[i] \in Cache
                /\ \A i \in 1..Len(bits) :
                     f[i] = Lookup(f[i - 1], bits[i], min)
                /\ Lookups(c, bits, min) = f[Len(bits)]
<1> DEFINE n == Len(bits)
           round == [i \in 1..n |-> [x \in Cache |-> Lookup(x, bits[i], min)]]
           Whole(l) == l = [i \in 0..n |-> IF i = 0 THEN c
                                          ELSE Lookup(l[i - 1], bits[i], min)]
           after == CHOOSE l : Whole(l)
<1>1. n \in Nat /\ c \in Cache
  OBVIOUS
<1>2. ASSUME NEW i \in 1..n, NEW x \in Cache
      PROVE  Lookup(x, bits[i], min) \in Cache
  <2>1. bits[i] \in Int
    OBVIOUS
  <2> QED BY <2>1, CacheTypes
<1>3. Lookups(c, bits, min) = after[n]
  BY DEF Lookups
<1> HIDE DEF n
<1>4. PICK f : IsRun(f, n, Cache, c, round)
  <2>1. IsLoop(n, Cache, c, round)
    BY <1>1, <1>2 DEF IsLoop
  <2> HIDE DEF round
  <2> QED BY <2>1, LoopRuns
<1> DEFINE h == [i \in 0..n |-> f[i]]
<1>5. Whole(h)
  <2>1. ASSUME NEW i \in 1..n
        PROVE  h[i] = Lookup(h[i - 1], bits[i], min)
    <3>1. f[i] = round[i][f[i - 1]] /\ f[i - 1] \in Cache
      <4> HIDE DEF round
      <4> QED BY <1>1, <1>4 DEF IsRun
    <3>2. i \in 0..n /\ i - 1 \in 0..n
      BY <1>1
    <3> QED BY <3>1, <3>2
  <2>2. h[0] = c
    BY <1>1, <1>4 DEF IsRun
  <2>3. \A i \in 0..n : h[i] = IF i = 0 THEN c
                              ELSE Lookup(h[i - 1], bits[i], min)
    <3> HIDE DEF h
    <3> QED BY <1>1, <2>1, <2>2
  <2>4. h = [i \in 0..n |-> h[i]]
    OBVIOUS
  <2> HIDE DEF h
  <2> QED BY <2>3, <2>4
<1>6. Whole(after)
  <2> HIDE DEF Whole, h
  <2> QED BY <1>5
<1> HIDE DEF after
<1>7. /\ after[0] = c
      /\ \A i \in 1..n : after[i] = Lookup(after[i - 1], bits[i], min)
  BY <1>1, <1>6
<1> DEFINE X == {i \in 0..n : after[i] \in Cache}
<1>8. \A i \in 0..n : i \in X
  <2>1. 0 \in X
    BY <1>1, <1>7
  <2>2. ASSUME NEW i \in 1..n, i - 1 \in X
        PROVE  i \in X
    <3>1. after[i] = Lookup(after[i - 1], bits[i], min) /\ after[i - 1] \in Cache
      BY <1>7, <2>2
    <3>2. Lookup(after[i - 1], bits[i], min) \in Cache
      BY <1>2, <3>1, Zenon
    <3>3. after[i] \in Cache /\ i \in 0..n
      BY <1>1, <3>1, <3>2
    <3> QED BY <3>3
  <2> HIDE DEF X
  <2> QED BY <1>1, <2>1, <2>2, AfterEachBlock
<1> HIDE DEF round
<1> QED BY <1>3, <1>7, <1>8 DEF n

\* Its escapes, one by one.
LEMMA EscapesRun ==
  ASSUME NEW c \in Cache, NEW esc \in Seq(Int \X Nat)
  PROVE  \E f : /\ f[0] = c /\ \A i \in 0..Len(esc) : f[i] \in Cache
                /\ \A i \in 1..Len(esc) :
                     f[i] = Escape(f[i - 1], esc[i][1], esc[i][2])
                /\ Escapes(c, esc) = f[Len(esc)]
<1> DEFINE n == Len(esc)
           round == [i \in 1..n |-> [x \in Cache |-> Escape(x, esc[i][1], esc[i][2])]]
           Whole(l) == l = [i \in 0..n |-> IF i = 0 THEN c
                                          ELSE Escape(l[i - 1], esc[i][1], esc[i][2])]
           after == CHOOSE l : Whole(l)
<1>1. n \in Nat /\ c \in Cache
  OBVIOUS
<1>2. ASSUME NEW i \in 1..n, NEW x \in Cache
      PROVE  Escape(x, esc[i][1], esc[i][2]) \in Cache
  <2>1. esc[i][1] \in Int /\ esc[i][2] \in Int
    OBVIOUS
  <2> QED BY <2>1, CacheTypes
<1>3. Escapes(c, esc) = after[n]
  BY DEF Escapes
<1> HIDE DEF n
<1>4. PICK f : IsRun(f, n, Cache, c, round)
  <2>1. IsLoop(n, Cache, c, round)
    BY <1>1, <1>2 DEF IsLoop
  <2> HIDE DEF round
  <2> QED BY <2>1, LoopRuns
<1> DEFINE h == [i \in 0..n |-> f[i]]
<1>5. Whole(h)
  <2>1. ASSUME NEW i \in 1..n
        PROVE  h[i] = Escape(h[i - 1], esc[i][1], esc[i][2])
    <3>1. f[i] = round[i][f[i - 1]] /\ f[i - 1] \in Cache
      <4> HIDE DEF round
      <4> QED BY <1>1, <1>4 DEF IsRun
    <3>2. i \in 0..n /\ i - 1 \in 0..n
      BY <1>1
    <3> QED BY <3>1, <3>2
  <2>2. h[0] = c
    BY <1>1, <1>4 DEF IsRun
  <2>3. \A i \in 0..n : h[i] = IF i = 0 THEN c
                              ELSE Escape(h[i - 1], esc[i][1], esc[i][2])
    <3> HIDE DEF h
    <3> QED BY <1>1, <2>1, <2>2
  <2>4. h = [i \in 0..n |-> h[i]]
    OBVIOUS
  <2> HIDE DEF h
  <2> QED BY <2>3, <2>4
<1>6. Whole(after)
  <2> HIDE DEF Whole, h
  <2> QED BY <1>5
<1> HIDE DEF after
<1>7. /\ after[0] = c
      /\ \A i \in 1..n : after[i] = Escape(after[i - 1], esc[i][1], esc[i][2])
  BY <1>1, <1>6
<1> DEFINE X == {i \in 0..n : after[i] \in Cache}
<1>8. \A i \in 0..n : i \in X
  <2>1. 0 \in X
    BY <1>1, <1>7
  <2>2. ASSUME NEW i \in 1..n, i - 1 \in X
        PROVE  i \in X
    <3>1. after[i] = Escape(after[i - 1], esc[i][1], esc[i][2]) /\ after[i - 1] \in Cache
      BY <1>7, <2>2
    <3>2. Escape(after[i - 1], esc[i][1], esc[i][2]) \in Cache
      BY <1>2, <3>1, Zenon
    <3>3. after[i] \in Cache /\ i \in 0..n
      BY <1>1, <3>1, <3>2
    <3> QED BY <3>3
  <2> HIDE DEF X
  <2> QED BY <1>1, <2>1, <2>2, AfterEachBlock
<1> HIDE DEF round
<1> QED BY <1>3, <1>7, <1>8 DEF n

\* A code word leaves a cache.
LEMMA WordType ==
  ASSUME NEW c \in Cache, NEW w, NEW min \in Int,
         Append(w.skips, w.len) \in Seq(Int), w.esc \in Seq(Int \X Nat)
  PROVE  /\ Lookups(c, Append(w.skips, w.len), min) \in Cache
         /\ Escapes(Lookups(c, Append(w.skips, w.len), min), w.esc) \in Cache
         /\ CodeWord(c, w, min) \in Cache
<1> DEFINE bits == Append(w.skips, w.len)
           esc == w.esc
           looked == Lookups(c, bits, min)
           done == Escapes(looked, esc)
<1>1. bits \in Seq(Int) /\ esc \in Seq(Int \X Nat)
  OBVIOUS
<1> HIDE DEF bits, esc
<1>2. looked \in Cache
  BY <1>1, LookupsRun
<1> HIDE DEF looked
<1>3. done \in Cache
  <2>1. Len(esc) \in Nat
    BY <1>1
  <2>2. PICK f : (\A i \in 0..Len(esc) : f[i] \in Cache)
                 /\ done = f[Len(esc)]
    BY <1>1, <1>2, EscapesRun
  <2> HIDE DEF done
  <2> QED BY <2>1, <2>2
<1>4. CodeWord(c, w, min) = IF c.out \/ done.out \/ done.cached < done.pad
                            THEN [c EXCEPT !.out = TRUE] ELSE [done EXCEPT !.n = @ + 1]
  BY DEF CodeWord, looked, bits, esc
<1> HIDE DEF done
<1>5. CodeWord(c, w, min) \in Cache
  <2>1. done.n + 1 \in Int
    BY <1>3, CacheFields
  <2>2. [c EXCEPT !.out = TRUE] \in Cache /\ [done EXCEPT !.n = @ + 1] \in Cache
    BY <1>3, <2>1, CacheChanges
  <2> QED BY <1>4, <2>2
<1> QED BY <1>2, <1>3, <1>5 DEF looked, done, bits, esc

\* The code words, one by one.
LEMMA WordsRun ==
  ASSUME NEW words, NEW bits \in Int, NEW off \in 0..7, NEW min \in Int,
         Len(words) \in Nat,
         \A i \in 1..Len(words) : /\ Append(words[i].skips, words[i].len) \in Seq(Int)
                                  /\ words[i].esc \in Seq(Int \X Nat)
  PROVE  \E f : /\ f[0] = StartCache(bits, off) /\ \A i \in 0..Len(words) : f[i] \in Cache
                /\ \A i \in 1..Len(words) :
                     f[i] = CodeWord(f[i - 1], words[i], min)
                /\ CodeWords(words, bits, off, min) = f[Len(words)]
<1> DEFINE n == Len(words)
           round == [i \in 1..n |-> [x \in Cache |-> CodeWord(x, words[i], min)]]
           Whole(l) == l = [i \in 0..n |-> IF i = 0 THEN StartCache(bits, off)
                                          ELSE CodeWord(l[i - 1], words[i], min)]
           after == CHOOSE l : Whole(l)
<1>1. n \in Nat /\ StartCache(bits, off) \in Cache
  BY DEF StartCache, Cache
<1>2. ASSUME NEW i \in 1..n, NEW x \in Cache
      PROVE  CodeWord(x, words[i], min) \in Cache
  BY WordType
<1>3. CodeWords(words, bits, off, min) = after[n]
  BY DEF CodeWords
<1> HIDE DEF n
<1>4. PICK f : IsRun(f, n, Cache, StartCache(bits, off), round)
  <2>1. IsLoop(n, Cache, StartCache(bits, off), round)
    BY <1>1, <1>2 DEF IsLoop
  <2> HIDE DEF round
  <2> QED BY <2>1, LoopRuns
<1> DEFINE h == [i \in 0..n |-> f[i]]
<1>5. Whole(h)
  <2>1. ASSUME NEW i \in 1..n
        PROVE  h[i] = CodeWord(h[i - 1], words[i], min)
    <3>1. f[i] = round[i][f[i - 1]] /\ f[i - 1] \in Cache
      <4> HIDE DEF round
      <4> QED BY <1>1, <1>4 DEF IsRun
    <3>2. i \in 0..n /\ i - 1 \in 0..n
      BY <1>1
    <3> QED BY <3>1, <3>2
  <2>2. h[0] = StartCache(bits, off)
    BY <1>1, <1>4 DEF IsRun
  <2>3. \A i \in 0..n : h[i] = IF i = 0 THEN StartCache(bits, off)
                              ELSE CodeWord(h[i - 1], words[i], min)
    <3> HIDE DEF h
    <3> QED BY <1>1, <2>1, <2>2
  <2>4. h = [i \in 0..n |-> h[i]]
    OBVIOUS
  <2> HIDE DEF h
  <2> QED BY <2>3, <2>4
<1>6. Whole(after)
  <2> HIDE DEF Whole, h
  <2> QED BY <1>5
<1> HIDE DEF after
<1>7. /\ after[0] = StartCache(bits, off)
      /\ \A i \in 1..n : after[i] = CodeWord(after[i - 1], words[i], min)
  BY <1>1, <1>6
<1> DEFINE X == {i \in 0..n : after[i] \in Cache}
<1>8. \A i \in 0..n : i \in X
  <2>1. 0 \in X
    BY <1>1, <1>7
  <2>2. ASSUME NEW i \in 1..n, i - 1 \in X
        PROVE  i \in X
    <3>1. after[i] = CodeWord(after[i - 1], words[i], min) /\ after[i - 1] \in Cache
      BY <1>7, <2>2
    <3>2. CodeWord(after[i - 1], words[i], min) \in Cache
      BY <1>2, <3>1, Zenon
    <3>3. after[i] \in Cache /\ i \in 0..n
      BY <1>1, <3>1, <3>2
    <3> QED BY <3>3
  <2> HIDE DEF X
  <2> QED BY <1>1, <2>1, <2>2, AfterEachBlock
<1> HIDE DEF round
<1> QED BY <1>3, <1>7, <1>8 DEF n

-----------------------------------------------------------------------------
(* What a code word costs. *)

\* A look-up takes its bits, or finds that they are not there.
LEMMA LookupAccounts ==
  ASSUME NEW min \in 8..16, NEW bits \in Int, NEW used \in Int, NEW c,
         Accounts(c, bits, used, min), used <= bits, ~c.out, NEW b \in 1..min
  PROVE  LET r == Lookup(c, b, min) IN
         /\ r.n = c.n
         /\ r.out => bits - used < b
         /\ ~r.out => Accounts(r, bits, used + b, min) /\ r.left >= 0
<1> DEFINE d == IF c.cached < min THEN Refill(c, min) ELSE c
           r == Lookup(c, b, min)
<1>1. /\ c \in Cache /\ c.cached \in Int /\ c.left \in Int /\ c.pad \in Int
      /\ c.cached + c.left - c.pad = bits - used
  BY CacheFields DEF Accounts
<1>2. r \in Cache
  BY <1>1, CacheTypes
<1>3. /\ d.n = c.n
      /\ d.out => bits - used < b
      /\ ~d.out => /\ d.cached \in Int /\ d.left \in Int /\ d.pad \in Int
                   /\ d.cached >= min /\ d.left >= 0 /\ d.pad \in {0, min}
                   /\ d.pad = min => d.left = 0
                   /\ d.cached + d.left - d.pad = bits - used
  <2>1. CASE c.cached >= min
    BY <1>1, <2>1 DEF Accounts
  <2>2. CASE c.cached < min
    <3>1. c.pad = 0 /\ c.cached >= 0
      BY <1>1, <2>2 DEF Accounts
    <3>2. d = Refill(c, min)
      BY <2>2
    <3> HIDE DEF d
    <3>3. CASE c.left >= 16
      <4>1. d = [c EXCEPT !.cached = @ + 16, !.left = @ - 16]
        BY <3>2, <3>3 DEF Refill
      <4>2. /\ d.cached = c.cached + 16 /\ d.left = c.left - 16 /\ d.pad = c.pad
            /\ d.n = c.n /\ d.out = c.out
        BY <1>1, <4>1 DEF Cache
      <4> QED BY <1>1, <3>1, <3>3, <4>2
    <3>4. CASE c.left < 16 /\ c.cached + c.left <= 0
      <4>1. d = [c EXCEPT !.out = TRUE]
        BY <1>1, <3>2, <3>4 DEF Refill
      <4>2. d.n = c.n /\ d.out = TRUE
        BY <1>1, <4>1 DEF Cache
      <4> QED BY <1>1, <3>1, <3>4, <4>2
    <3>5. CASE c.left < 16 /\ c.cached + c.left > 0
      <4>1. d = [c EXCEPT !.cached = @ + c.left + min, !.left = 0, !.pad = min]
        BY <1>1, <3>2, <3>5 DEF Refill
      <4>2. /\ d.cached = c.cached + c.left + min /\ d.left = 0 /\ d.pad = min
            /\ d.n = c.n /\ d.out = c.out
        BY <1>1, <4>1 DEF Cache
      <4> QED BY <1>1, <3>1, <3>5, <4>2
    <3> QED BY <1>1, <3>3, <3>4, <3>5
  <2> QED BY <1>1, <2>1, <2>2
<1>4. d \in Cache
  <2>1. Refill(c, min) \in Cache
    <3>1. min \in Int
      OBVIOUS
    <3> QED BY <1>1, <3>1, CacheTypes
  <2> QED BY <1>1, <2>1
<1>5. r = IF d.out THEN [d EXCEPT !.out = TRUE] ELSE [d EXCEPT !.cached = @ - b]
  BY DEF Lookup
<1> HIDE DEF d, r
<1>6. CASE d.out
  <2>1. r.n = d.n /\ r.out
    BY <1>4, <1>5, <1>6 DEF Cache
  <2> QED BY <1>3, <1>6, <2>1 DEF r
<1>7. CASE ~d.out
  <2>1. /\ r.cached = d.cached - b /\ r.left = d.left /\ r.pad = d.pad /\ r.n = d.n
        /\ ~r.out
    BY <1>4, <1>5, <1>7 DEF Cache
  <2>2. r.cached + r.left - r.pad = bits - (used + b)
    BY <1>3, <1>7, <2>1
  <2>3. r.left >= 0 /\ (\/ r.pad = 0 /\ r.cached >= 0
                        \/ r.pad = min /\ r.left = 0)
    BY <1>3, <1>7, <2>1
  <2> QED BY <1>2, <1>3, <2>1, <2>2, <2>3 DEF Accounts, r
<1> QED BY <1>6, <1>7

\* An escape takes its bits, or finds that there are fewer than it needs.
LEMMA EscapeAccounts ==
  ASSUME NEW min \in 8..16, NEW bits \in Int, NEW used \in Int, NEW c,
         Accounts(c, bits, used, min), c.left >= 0, ~c.out,
         NEW need \in Int, NEW b \in Nat, b <= need
  PROVE  LET r == Escape(c, need, b) IN
         /\ r.n = c.n
         /\ r.out => bits - used < need
         /\ ~r.out => Accounts(r, bits, used + b, min) /\ r.left >= 0
<1> DEFINE k == IF c.cached >= need THEN 0 ELSE (need - c.cached + 7) \div 8
           left == c.left - 8 * k
           m == Max({left, 0})
           e == c.cached + 8 * k + (IF left < 0 THEN left ELSE 0) - b
           r == Escape(c, need, b)
<1>1. /\ c \in Cache /\ c.cached \in Int /\ c.left \in Int /\ c.pad \in Int
      /\ c.cached + c.left - c.pad = bits - used
      /\ (c.pad = 0 /\ c.cached >= 0) \/ (c.pad = min /\ c.left = 0)
  BY CacheFields DEF Accounts
<1>2. r \in Cache
  <2>1. need \in Int /\ b \in Int
    OBVIOUS
  <2> QED BY <1>1, <2>1, CacheTypes
<1>3. k \in Nat /\ c.cached + 8 * k >= need /\ (c.cached >= need => k = 0)
  BY <1>1
<1>4. r = IF c.cached + c.left < need THEN [c EXCEPT !.out = TRUE]
          ELSE [c EXCEPT !.cached = e, !.left = m]
  BY DEF Escape
<1> HIDE DEF k, r
<1>5. left \in Int /\ m = IF left < 0 THEN 0 ELSE left
  BY <1>1, <1>3, NotBelowZero
<1> HIDE DEF m
<1>6. CASE c.cached + c.left < need
  <2>1. r.n = c.n /\ r.out
    BY <1>1, <1>4, <1>6 DEF Cache
  <2>2. bits - used < need
    BY <1>1, <1>6
  <2> QED BY <2>1, <2>2 DEF r
<1>7. CASE ~(c.cached + c.left < need)
  <2>1. e \in Int /\ m \in Int /\ m >= 0 /\ e + m = c.cached + c.left - b /\ e >= 0
        /\ (c.left = 0 => m = 0)
    BY <1>1, <1>3, <1>5, <1>7
  <2> HIDE DEF e
  <2>2. r.cached = e /\ r.left = m /\ r.pad = c.pad /\ r.n = c.n /\ ~r.out
    BY <1>1, <1>4, <1>7 DEF Cache
  <2>3. r.cached + r.left - r.pad = bits - (used + b)
    BY <1>1, <2>1, <2>2
  <2>4. r.left >= 0 /\ ((r.pad = 0 /\ r.cached >= 0) \/ (r.pad = min /\ r.left = 0))
    BY <1>1, <2>1, <2>2
  <2> QED BY <1>2, <2>2, <2>3, <2>4 DEF Accounts, r
<1> QED BY <1>6, <1>7

\* All look-ups of a word.  With the bits for them they are found to fit; a word
\* of one look-up that does not fit has run out, or is found out later.
LEMMA LookupsAccount ==
  ASSUME NEW min \in 8..16, NEW bits \in Int, NEW used \in Int, NEW c,
         Accounts(c, bits, used, min), used <= bits, ~c.out,
         NEW lens, AreLookups(lens, min)
  PROVE  LET r == Lookups(c, lens, min)
             all == used + Total(lens)
         IN  /\ all <= bits => ~r.out
             /\ Len(lens) = 1 /\ r.out => bits < all
             /\ all <= bits \/ (Len(lens) = 1 /\ ~r.out) =>
                  Accounts(r, bits, all, min) /\ r.left >= 0 /\ r.n = c.n
<1> DEFINE n == Len(lens)
           T(i) == Sums(lens)[i]
<1>1. /\ n \in Nat /\ n > 0 /\ lens \in Seq(Nat) /\ lens \in Seq(Int)
      /\ \A i \in 1..n : lens[i] \in 1..min
  BY DEF AreLookups
<1>2. /\ T(0) = 0 /\ \A i \in 0..n : T(i) \in Int
      /\ \A i \in 1..n : T(i) = T(i - 1) + lens[i]
  BY <1>1, SumsRun
<1>3. \A i \in 0..n : T(i) <= T(n)
  BY <1>1, SumsGrow
<1>4. PICK f : /\ f[0] = c /\ \A i \in 0..n : f[i] \in Cache
               /\ \A i \in 1..n : f[i] = Lookup(f[i - 1], lens[i], min)
               /\ Lookups(c, lens, min) = f[n]
  <2>1. c \in Cache /\ min \in Int
    BY DEF Accounts
  <2> QED BY <1>1, <2>1, LookupsRun
<1>5. Total(lens) = T(n)
  BY DEF Total
<1> HIDE DEF n, T
<1> DEFINE Good(i) == ~f[i].out /\ Accounts(f[i], bits, used + T(i), min)
                      /\ f[i].n = c.n
<1>6. Good(0)
  BY <1>2, <1>4
<1>7. ASSUME NEW i \in 1..n, Good(i - 1), used + T(i - 1) <= bits
      PROVE  /\ f[i].out => bits < used + T(i)
             /\ ~f[i].out => Good(i) /\ f[i].left >= 0
  <2>1. i - 1 \in 0..n /\ i \in 0..n
    BY <1>1
  <2>2. /\ T(i) = T(i - 1) + lens[i] /\ T(i - 1) \in Int /\ T(i) \in Int
        /\ lens[i] \in 1..min /\ f[i] = Lookup(f[i - 1], lens[i], min)
    BY <1>1, <1>2, <1>4, <2>1
  <2> DEFINE u == used + T(i - 1)
  <2>3. u \in Int /\ u + lens[i] = used + T(i)
    BY <2>2
  <2>4. Accounts(f[i - 1], bits, u, min) /\ u <= bits /\ ~f[i - 1].out /\ f[i - 1].n = c.n
    BY <1>7
  <2> HIDE DEF u
  <2>5. /\ f[i].n = f[i - 1].n
        /\ f[i].out => bits - u < lens[i]
        /\ ~f[i].out => Accounts(f[i], bits, u + lens[i], min) /\ f[i].left >= 0
    <3> DEFINE x == f[i - 1]
               b == lens[i]
    <3>1. b \in 1..min /\ f[i] = Lookup(x, b, min)
      BY <2>2
    <3>2. Accounts(x, bits, u, min) /\ u <= bits /\ ~x.out
      BY <2>4
    <3> HIDE DEF x, b
    <3> DEFINE y == Lookup(x, b, min)
    <3>3. /\ y.n = x.n
          /\ y.out => bits - u < b
          /\ ~y.out => Accounts(y, bits, u + b, min) /\ y.left >= 0
      <4>1. u \in Int /\ b \in 1..min
        BY <2>3, <3>1
      <4> QED BY <3>2, <4>1, LookupAccounts
    <3> HIDE DEF y
    <3>4. /\ f[i].n = x.n
          /\ f[i].out => bits - u < b
          /\ ~f[i].out => Accounts(f[i], bits, u + b, min) /\ f[i].left >= 0
      BY <3>1, <3>3 DEF y
    <3> QED BY <3>4 DEF x, b
  <2>6. f[i].out => bits < used + T(i)
    BY <2>2, <2>3, <2>5
  <2> QED BY <2>3, <2>4, <2>5, <2>6
<1>8. ASSUME used + T(n) <= bits
      PROVE  Good(n) /\ f[n].left >= 0
  <2> DEFINE X == {i \in 0..n : Good(i) /\ (i > 0 => f[i].left >= 0)}
  <2>1. 0 \in X
    BY <1>1, <1>6
  <2>2. ASSUME NEW i \in 1..n, i - 1 \in X
        PROVE  i \in X
    <3>1. i \in 0..n /\ i - 1 \in 0..n /\ Good(i - 1)
      BY <1>1, <2>2
    <3>2. used + T(i - 1) <= bits /\ used + T(i) <= bits
      <4>1. n \in 0..n
        BY <1>1
      <4>2. T(i) \in Int /\ T(i - 1) \in Int /\ T(n) \in Int
        BY <1>2, <3>1, <4>1
      <4>3. T(i) <= T(n) /\ T(i - 1) <= T(n)
        BY <1>3, <3>1
      <4> HIDE DEF T
      <4> QED BY <1>8, <4>2, <4>3
    <3>3. ~f[i].out
      BY <1>1, <1>2, <1>7, <3>1, <3>2
    <3>4. Good(i) /\ f[i].left >= 0
      BY <1>7, <3>1, <3>2, <3>3
    <3> HIDE DEF Good
    <3> QED BY <3>1, <3>4
  <2>3. \A i \in 0..n : i \in X
    <3> HIDE DEF X
    <3> QED BY <1>1, <2>1, <2>2, AfterEachBlock
  <2> HIDE DEF Good
  <2> QED BY <1>1, <2>3
<1>9. ASSUME n = 1
      PROVE  /\ f[n].out => bits < used + T(n)
             /\ ~f[n].out => Good(n) /\ f[n].left >= 0
  <2>1. used + T(0) <= bits /\ 1 \in 1..n /\ 1 - 1 = 0
    BY <1>2, <1>9
  <2> HIDE DEF Good
  <2> QED BY <1>6, <1>7, <1>9, <2>1
<1> DEFINE r == Lookups(c, lens, min)
<1>10. r = f[n] /\ used + Total(lens) = used + T(n)
  BY <1>4, <1>5
<1> HIDE DEF r
<1>11. /\ used + T(n) <= bits => ~r.out
       /\ n = 1 /\ r.out => bits < used + T(n)
       /\ used + T(n) <= bits \/ (n = 1 /\ ~r.out) =>
            Accounts(r, bits, used + T(n), min) /\ r.left >= 0 /\ r.n = c.n
  BY <1>8, <1>9, <1>10
<1> QED BY <1>10, <1>11 DEF r, n

\* All escapes of a word: they are found out when they do not fit.
LEMMA EscapesAccount ==
  ASSUME NEW min \in 8..16, NEW bits \in Int, NEW used \in Int, NEW c,
         Accounts(c, bits, used, min), c.left >= 0, ~c.out,
         NEW esc, GoodEscapes(esc)
  PROVE  LET r == Escapes(c, esc)
             all == used + Total(Takes(esc))
         IN  /\ r.out => bits < all
             /\ ~r.out => Accounts(r, bits, all, min) /\ r.left >= 0 /\ r.n = c.n
<1> DEFINE n == Len(esc)
           takes == Takes(esc)
           T(i) == Sums(takes)[i]
<1>1. /\ n \in Nat /\ esc \in Seq(Int \X Nat)
      /\ \A i \in 1..n : esc[i][1] \in Int /\ esc[i][2] \in Nat /\ esc[i][2] <= esc[i][1]
  BY DEF GoodEscapes
<1>2. /\ takes \in Seq(Int) /\ Len(takes) = n
      /\ \A i \in 1..n : takes[i] = esc[i][2]
  <2>1. takes = [i \in 1..n |-> esc[i][2]]
    BY <1>1 DEF Takes
  <2> HIDE DEF n, takes
  <2>2. takes \in [1..n -> Int]
    BY <1>1, <2>1
  <2>3. takes \in Seq(Int) /\ Len(takes) = n
    BY <1>1, <2>2
  <2> QED BY <2>1, <2>3
<1> HIDE DEF takes
<1>3. /\ T(0) = 0 /\ \A i \in 0..n : T(i) \in Int
      /\ \A i \in 1..n : T(i) = T(i - 1) + esc[i][2]
  <2>1. /\ Sums(takes)[0] = 0 /\ Sums(takes) \in [0..Len(takes) -> Int]
        /\ \A i \in 1..Len(takes) : Sums(takes)[i] = Sums(takes)[i - 1] + takes[i]
    BY <1>2, SumsRun
  <2> HIDE DEF n
  <2> QED BY <1>2, <2>1
<1>4. Total(Takes(esc)) = T(n)
  BY <1>2 DEF Total, takes
<1>5. \A i \in 1..n : esc[i][1] <= T(n) - T(i - 1)
  BY <1>4 DEF GoodEscapes, takes
<1>6. PICK f : /\ f[0] = c /\ \A i \in 0..n : f[i] \in Cache
               /\ \A i \in 1..n : f[i] = Escape(f[i - 1], esc[i][1], esc[i][2])
               /\ Escapes(c, esc) = f[n]
  <2>1. c \in Cache
    BY DEF Accounts
  <2> QED BY <1>1, <2>1, EscapesRun
<1> HIDE DEF n, T
<1> DEFINE Good(x, i) == /\ x.out => bits < used + T(n)
                         /\ ~x.out => /\ Accounts(x, bits, used + T(i), min)
                                      /\ x.left >= 0 /\ x.n = c.n
           X == {i \in 0..n : Good(f[i], i)}
<1>7. 0 \in X
  BY <1>1, <1>3, <1>6
<1>8. ASSUME NEW i \in 1..n, i - 1 \in X
      PROVE  i \in X
  <2>1. i - 1 \in 0..n /\ i \in 0..n /\ Good(f[i - 1], i - 1) /\ n \in 0..n
    BY <1>1, <1>8
  <2>2. /\ T(i) = T(i - 1) + esc[i][2] /\ T(i - 1) \in Int /\ T(i) \in Int /\ T(n) \in Int
        /\ esc[i][1] \in Int /\ esc[i][2] \in Nat /\ esc[i][2] <= esc[i][1]
        /\ esc[i][1] <= T(n) - T(i - 1)
        /\ f[i] = Escape(f[i - 1], esc[i][1], esc[i][2])
    BY <1>1, <1>3, <1>5, <1>6, <2>1
  <2>3. CASE f[i - 1].out
    <3>1. f[i - 1] \in Cache
      BY <1>6, <2>1
    <3>2. f[i] = [f[i - 1] EXCEPT !.out = TRUE]
      BY <2>2, <2>3 DEF Escape
    <3>3. f[i].out
      BY <3>1, <3>2 DEF Cache
    <3> QED BY <2>1, <2>3, <3>3
  <2>4. CASE ~f[i - 1].out
    <3> DEFINE u == used + T(i - 1)
    <3>1. u \in Int /\ u + esc[i][2] = used + T(i)
      BY <2>2
    <3>2. Accounts(f[i - 1], bits, u, min) /\ f[i - 1].left >= 0 /\ f[i - 1].n = c.n
      BY <2>1, <2>4
    <3> HIDE DEF u
    <3>3. /\ f[i].n = f[i - 1].n
          /\ f[i].out => bits - u < esc[i][1]
          /\ ~f[i].out => Accounts(f[i], bits, u + esc[i][2], min) /\ f[i].left >= 0
      BY <2>2, <2>4, <3>1, <3>2, EscapeAccounts
    <3>4. f[i].out => bits < used + T(n)
      BY <2>2, <3>1, <3>3 DEF u
    <3> QED BY <2>1, <3>1, <3>2, <3>3, <3>4
  <2> QED BY <2>3, <2>4
<1>9. \A i \in 0..n : i \in X
  <2> HIDE DEF X
  <2> QED BY <1>1, <1>7, <1>8, AfterEachBlock
<1>10. Good(f[n], n)
  BY <1>1, <1>9
<1> QED BY <1>4, <1>6, <1>10 DEF n

\* Escapes do not find again what has run out.
LEMMA EscapesStayOut ==
  ASSUME NEW c \in Cache, c.out, NEW esc \in Seq(Int \X Nat)
  PROVE  Escapes(c, esc).out
<1> DEFINE n == Len(esc)
<1>1. PICK f : /\ f[0] = c /\ \A i \in 0..n : f[i] \in Cache
               /\ \A i \in 1..n : f[i] = Escape(f[i - 1], esc[i][1], esc[i][2])
               /\ Escapes(c, esc) = f[n]
  BY EscapesRun
<1>2. n \in Nat
  OBVIOUS
<1> HIDE DEF n
<1> DEFINE X == {i \in 0..n : f[i].out}
<1>3. 0 \in X
  BY <1>1, <1>2
<1>4. ASSUME NEW i \in 1..n, i - 1 \in X
      PROVE  i \in X
  <2>1. i - 1 \in 0..n /\ i \in 0..n /\ f[i - 1].out
    BY <1>2, <1>4
  <2>2. f[i - 1] \in Cache /\ f[i] = Escape(f[i - 1], esc[i][1], esc[i][2])
    BY <1>1, <2>1
  <2>3. f[i] = [f[i - 1] EXCEPT !.out = TRUE]
    BY <2>1, <2>2 DEF Escape
  <2>4. f[i].out
    BY <2>2, <2>3 DEF Cache
  <2> QED BY <2>1, <2>4
<1>5. \A i \in 0..n : i \in X
  <2> HIDE DEF X
  <2> QED BY <1>2, <1>3, <1>4, AfterEachBlock
<1> QED BY <1>1, <1>2, <1>5

\* The bits of a word.
LEMMA WordLength ==
  ASSUME NEW min \in 8..16, NEW w, IsWord(w, min)
  PROVE  /\ Append(w.skips, w.len) \in Seq(1..min) /\ Append(w.skips, w.len) \in Seq(Int)
         /\ Len(Append(w.skips, w.len)) > 0
         /\ (w.skips = <<>> => Len(Append(w.skips, w.len)) = 1)
         /\ w.esc \in Seq(Int \X Nat)
         /\ Total(Append(w.skips, w.len)) \in Int /\ Total(Append(w.skips, w.len)) > 0
         /\ Total(Takes(w.esc)) \in Nat
         /\ WordBits(w) = Total(Append(w.skips, w.len)) + Total(Takes(w.esc))
<1> DEFINE skips == w.skips
           len == w.len
           esc == w.esc
           lens == Append(skips, len)
           takes == Takes(esc)
<1>1. skips \in Seq(1..min) /\ len \in 1..min /\ len \in Int /\ skips \in Seq(Int)
      /\ skips \in Seq(Nat) /\ esc \in Seq(Int \X Nat)
  BY DEF IsWord, GoodEscapes
<1> HIDE DEF skips, len, esc
<1>2. /\ lens \in Seq(1..min) /\ lens \in Seq(Int) /\ Len(lens) > 0
      /\ (skips = <<>> => Len(lens) = 1)
  BY <1>1
<1>3. Total(lens) = Total(skips) + len
  BY <1>1, TotalAppends
<1>4. Total(skips) \in Int /\ Total(skips) >= 0
  <2> DEFINE n == Len(skips)
  <2>1. n \in Nat /\ 0 \in 0..n /\ n \in 0..n
    BY <1>1
  <2>2. Sums(skips)[0] = 0 /\ Sums(skips) \in [0..n -> Int]
    BY <1>1, SumsRun
  <2>3. \A k \in 0..n : Sums(skips)[0] <= Sums(skips)[k]
    BY <1>1, <2>1, SumsGrow
  <2> HIDE DEF n
  <2>4. Sums(skips)[n] \in Int /\ Sums(skips)[n] >= 0
    BY <2>1, <2>2, <2>3
  <2> QED BY <2>4 DEF Total, n
<1>5. takes \in Seq(Nat) /\ takes \in Seq(Int)
  <2> DEFINE n == Len(esc)
  <2>1. n \in Nat /\ takes = [i \in 1..n |-> esc[i][2]] /\ \A i \in 1..n : esc[i][2] \in Nat
    BY <1>1 DEF Takes
  <2> HIDE DEF n, takes
  <2>2. takes \in [1..n -> Nat]
    BY <2>1
  <2>3. takes \in Seq(Nat)
    BY <2>1, <2>2
  <2> QED BY <2>3
<1> HIDE DEF takes, lens
<1>6. Total(takes) \in Nat
  <2> DEFINE n == Len(takes)
  <2>1. n \in Nat /\ 0 \in 0..n /\ n \in 0..n
    BY <1>5
  <2>2. Sums(takes)[0] = 0 /\ Sums(takes) \in [0..n -> Int]
    BY <1>5, SumsRun
  <2>3. \A k \in 0..n : Sums(takes)[0] <= Sums(takes)[k]
    BY <1>5, <2>1, SumsGrow
  <2> HIDE DEF n
  <2>4. Sums(takes)[n] \in Int /\ Sums(takes)[n] >= 0
    BY <2>1, <2>2, <2>3
  <2> QED BY <2>4 DEF Total, n
<1>7. WordBits(w) = Total(skips) + len + Total(takes)
  BY DEF WordBits, takes, Takes, skips, len, esc
<1>8. Total(lens) \in Int /\ Total(lens) > 0 /\ WordBits(w) = Total(lens) + Total(takes)
  BY <1>1, <1>3, <1>4, <1>6, <1>7
<1> QED BY <1>1, <1>2, <1>6, <1>8 DEF lens, takes, skips, len, esc

\* A code word that fits is decoded and its bits are counted; one of one look-up
\* that does not fit is refused.
LEMMA WordAccounts ==
  ASSUME NEW min \in 8..16, NEW bits \in Int, NEW used \in Int, NEW c,
         Accounts(c, bits, used, min), used <= bits, ~c.out,
         NEW w, IsWord(w, min)
  PROVE  LET r == CodeWord(c, w, min)
             all == used + WordBits(w)
         IN  /\ all <= bits => ~r.out /\ Accounts(r, bits, all, min) /\ r.n = c.n + 1
             /\ all > bits /\ w.skips = <<>> => r.out /\ r.n = c.n
<1> DEFINE lens == Append(w.skips, w.len)
           esc == w.esc
           looked == Lookups(c, lens, min)
           done == Escapes(looked, esc)
           r == CodeWord(c, w, min)
           a == Total(lens)
           b == Total(Takes(esc))
           all == used + a + b
<1>1. /\ lens \in Seq(1..min) /\ lens \in Seq(Int) /\ Len(lens) > 0
      /\ (w.skips = <<>> => Len(lens) = 1)
      /\ a \in Int /\ b \in Nat /\ WordBits(w) = a + b
      /\ esc \in Seq(Int \X Nat)
  BY WordLength
<1>2. GoodEscapes(esc) /\ c \in Cache
  BY DEF IsWord, Accounts
<1>3. looked \in Cache /\ done \in Cache /\ r \in Cache
  <2>1. min \in Int
    OBVIOUS
  <2> QED BY <1>1, <1>2, <2>1, WordType
<1>4. r = IF done.out \/ done.cached < done.pad
          THEN [c EXCEPT !.out = TRUE] ELSE [done EXCEPT !.n = @ + 1]
  BY DEF CodeWord
<1> HIDE DEF lens, esc
<1>5. /\ used + a <= bits => ~looked.out
      /\ used + a <= bits \/ (Len(lens) = 1 /\ ~looked.out) =>
           Accounts(looked, bits, used + a, min) /\ looked.left >= 0 /\ looked.n = c.n
  <2>1. /\ used + Total(lens) <= bits => ~looked.out
        /\ Len(lens) = 1 /\ looked.out => bits < used + Total(lens)
        /\ used + Total(lens) <= bits \/ (Len(lens) = 1 /\ ~looked.out) =>
             /\ Accounts(looked, bits, used + Total(lens), min)
             /\ looked.left >= 0 /\ looked.n = c.n
    <3>1. AreLookups(lens, min)
      BY <1>1 DEF AreLookups
    <3> QED BY <3>1, LookupsAccount
  <2> HIDE DEF looked
  <2> QED BY <2>1
<1> HIDE DEF looked, r, a
<1>6. ASSUME Accounts(looked, bits, used + a, min), looked.left >= 0, ~looked.out
      PROVE  /\ done.out => bits < all
             /\ ~done.out => Accounts(done, bits, all, min) /\ done.left >= 0
                             /\ done.n = looked.n
  <2> DEFINE u == used + a
  <2>1. u \in Int /\ all = u + b
    BY <1>1
  <2>2. Accounts(looked, bits, u, min)
    BY <1>6
  <2> HIDE DEF u
  <2>3. /\ done.out => bits < u + b
        /\ ~done.out => Accounts(done, bits, u + b, min) /\ done.left >= 0
                        /\ done.n = looked.n
    BY <1>2, <1>6, <2>1, <2>2, EscapesAccount
  <2> HIDE DEF all, done, b
  <2> QED BY <2>1, <2>3
<1> HIDE DEF done, b
<1>7. used + WordBits(w) = all /\ all \in Int
  BY <1>1
<1>8. ASSUME all <= bits
      PROVE  ~r.out /\ Accounts(r, bits, all, min) /\ r.n = c.n + 1
  <2>1. used + a <= bits
    BY <1>1, <1>8
  <2>2. /\ ~done.out /\ Accounts(done, bits, all, min) /\ done.n = c.n
    BY <1>5, <1>6, <1>7, <1>8, <2>1
  <2>3. /\ done.cached \in Int /\ done.left \in Int /\ done.pad \in Int /\ done.n \in Int
        /\ done.cached + done.left - done.pad = bits - all
        /\ \/ done.pad = 0 /\ done.cached >= 0 /\ (done.left >= 0 \/ done.cached < min)
           \/ done.pad = min /\ done.left = 0
    BY <1>3, <2>2, CacheFields DEF Accounts
  <2> HIDE DEF all
  <2>4. done.cached >= done.pad
    BY <1>7, <1>8, <2>3
  <2>5. r = [done EXCEPT !.n = @ + 1]
    BY <1>4, <2>2, <2>3, <2>4
  <2>6. /\ r.cached = done.cached /\ r.left = done.left /\ r.pad = done.pad
        /\ r.n = done.n + 1 /\ ~r.out
    BY <1>3, <2>2, <2>5 DEF Cache
  <2> QED BY <1>3, <2>2, <2>3, <2>6 DEF Accounts
<1>9. ASSUME all > bits, w.skips = <<>>
      PROVE  r.out /\ r.n = c.n
  <2>1. done.out \/ done.cached < done.pad
    <3>1. CASE looked.out
      BY <1>1, <1>3, <3>1, EscapesStayOut DEF done
    <3>2. CASE ~looked.out
      <4>1. Len(lens) = 1
        BY <1>1, <1>9
      <4>2. ~done.out => Accounts(done, bits, all, min) /\ done.left >= 0
        BY <1>5, <1>6, <3>2, <4>1
      <4>3. ASSUME ~done.out
            PROVE  done.cached < done.pad
        <5>1. /\ done.cached \in Int /\ done.left \in Int /\ done.pad \in Int
              /\ done.cached + done.left - done.pad = bits - all /\ done.left >= 0
          BY <1>3, <4>2, <4>3, CacheFields DEF Accounts
        <5> HIDE DEF all
        <5> QED BY <1>7, <1>9, <5>1
      <4> QED BY <4>3
    <3> QED BY <3>1, <3>2
  <2>2. r = [c EXCEPT !.out = TRUE]
    BY <1>4, <2>1
  <2> QED BY <1>2, <2>2 DEF Cache
<1> QED BY <1>7, <1>8, <1>9 DEF r

-----------------------------------------------------------------------------
(* The loops over the code words. *)

\* Code words whose look-ups take at most min bits each.
AreWords(words, min) ==
  words \in Seq({w \in [skips : Seq(1..min), len : 1..min, esc : Seq(Int \X Nat)] :
                  GoodEscapes(w.esc)})
Simple(words) == \A i \in DOMAIN words : words[i].skips = <<>>
Lengths(words) == [i \in DOMAIN words |-> WordBits(words[i])]

\* Each of them is one.
LEMMA EachIsWord ==
  ASSUME NEW min, NEW words, AreWords(words, min)
  PROVE  /\ Len(words) \in Nat /\ DOMAIN words = 1..Len(words)
         /\ \A i \in 1..Len(words) : IsWord(words[i], min)
<1> DEFINE W == {w \in [skips : Seq(1..min), len : 1..min, esc : Seq(Int \X Nat)] :
                  GoodEscapes(w.esc)}
<1>1. words \in Seq(W)
  BY DEF AreWords
<1>2. \A w \in W : IsWord(w, min)
  BY DEF IsWord
<1> HIDE DEF W
<1>3. /\ Len(words) \in Nat /\ DOMAIN words = 1..Len(words)
      /\ \A i \in 1..Len(words) : words[i] \in W
  BY <1>1
<1> QED BY <1>2, <1>3

\* Sums of their lengths.
LEMMA LengthsAdd ==
  ASSUME NEW min \in 8..16, NEW words, AreWords(words, min)
  PROVE  LET n == Len(words)
             T(i) == Sums(Lengths(words))[i]
         IN  /\ n \in Nat /\ Lengths(words) \in Seq(Int) /\ Len(Lengths(words)) = n
             /\ AllBits(words) = T(n)
             /\ T(0) = 0 /\ \A i \in 0..n : T(i) \in Nat
             /\ \A i \in 1..n : T(i) = T(i - 1) + WordBits(words[i])
             /\ \A i \in 1..n : WordBits(words[i]) \in Nat /\ WordBits(words[i]) > 0
             /\ \A i \in 0..n : \A j \in i..n : T(i) <= T(j)
<1> DEFINE n == Len(words)
           lens == Lengths(words)
           T(i) == Sums(lens)[i]
<1>1. n \in Nat /\ DOMAIN words = 1..n
  BY EachIsWord
<1>2. ASSUME NEW i \in 1..n
      PROVE  WordBits(words[i]) \in Nat /\ WordBits(words[i]) > 0
  <2> DEFINE w == words[i]
             a == Total(Append(w.skips, w.len))
             b == Total(Takes(w.esc))
  <2>1. IsWord(w, min)
    BY EachIsWord
  <2> HIDE DEF w
  <2>2. a \in Int /\ a > 0 /\ b \in Nat /\ WordBits(w) = a + b
    BY <2>1, WordLength
  <2> HIDE DEF a, b
  <2>3. WordBits(w) \in Nat /\ WordBits(w) > 0
    BY <2>2
  <2> QED BY <2>3 DEF w
<1>3. lens = [i \in 1..n |-> WordBits(words[i])]
  BY <1>1 DEF Lengths
<1>4. AllBits(words) = Total(lens)
  BY DEF AllBits, Lengths
<1> HIDE DEF n, lens
<1>5. lens \in [1..n -> Nat] /\ \A i \in 1..n : lens[i] = WordBits(words[i])
  BY <1>2, <1>3
<1>6. lens \in Seq(Nat) /\ lens \in Seq(Int) /\ Len(lens) = n
  BY <1>1, <1>5
<1>7. /\ Sums(lens)[0] = 0 /\ Sums(lens) \in [0..n -> Int]
      /\ \A i \in 1..n : Sums(lens)[i] = Sums(lens)[i - 1] + lens[i]
  BY <1>6, SumsRun
<1>8. \A i \in 0..n : \A j \in i..n : T(i) <= T(j)
  <2>1. \A i \in 0..Len(lens) : \A j \in i..Len(lens) : Sums(lens)[i] <= Sums(lens)[j]
    BY <1>6, SumsGrow
  <2> QED BY <1>6, <2>1
<1>9. \A i \in 0..n : T(i) \in Nat
  <2> TAKE i \in 0..n
  <2>1. 0 \in 0..n /\ i \in 0..n /\ T(0) <= T(i)
    BY <1>1, <1>8
  <2>2. Sums(lens)[i] \in Int
    BY <1>7
  <2> QED BY <1>7, <2>1, <2>2
<1>10. AllBits(words) = T(n)
  BY <1>4, <1>6 DEF Total
<1>11. \A i \in 1..n : T(i) = T(i - 1) + WordBits(words[i])
  BY <1>5, <1>7
<1> QED BY <1>1, <1>2, <1>6, <1>7, <1>8, <1>9, <1>10, <1>11 DEF n, lens

\* After the words, or the first of them that was refused.
LEMMA WordsAccount ==
  ASSUME NEW min \in 8..16, NEW bits \in Nat, NEW off \in 0..7,
         NEW words, AreWords(words, min)
  PROVE  LET c == CodeWords(words, bits, off, min)
             n == Len(words)
             T(i) == Sums(Lengths(words))[i]
         IN  /\ c \in Cache
             /\ T(n) <= bits => ~c.out /\ Accounts(c, bits, T(n), min)
             /\ Simple(words) =>
                  /\ c.n \in 0..n /\ T(c.n) <= bits
                  /\ T(n) > bits => c.out /\ c.n < n /\ T(c.n + 1) > bits
                  /\ T(n) <= bits => c.n = n
<1> DEFINE n == Len(words)
           T(i) == Sums(Lengths(words))[i]
<1>1. /\ n \in Nat /\ T(0) = 0 /\ \A i \in 0..n : T(i) \in Nat
      /\ \A i \in 1..n : T(i) = T(i - 1) + WordBits(words[i])
      /\ \A i \in 1..n : WordBits(words[i]) \in Nat
  BY LengthsAdd
<1>2. \A i \in 1..n : IsWord(words[i], min)
  BY EachIsWord
<1>3. \A i \in 1..n : Simple(words) => words[i].skips = <<>>
  BY EachIsWord DEF Simple
<1>4. PICK f : /\ f[0] = StartCache(bits, off) /\ \A i \in 0..n : f[i] \in Cache
               /\ \A i \in 1..n : f[i] = CodeWord(f[i - 1], words[i], min)
               /\ CodeWords(words, bits, off, min) = f[n]
  <2>1. bits \in Int /\ min \in Int
    OBVIOUS
  <2>2. ASSUME NEW i \in 1..n
        PROVE  /\ Append(words[i].skips, words[i].len) \in Seq(Int)
               /\ words[i].esc \in Seq(Int \X Nat)
    <3> DEFINE w == words[i]
    <3>1. IsWord(w, min)
      BY <1>2
    <3> HIDE DEF w
    <3>2. Append(w.skips, w.len) \in Seq(Int) /\ w.esc \in Seq(Int \X Nat)
      BY <3>1, WordLength
    <3> QED BY <3>2 DEF w
  <2> QED BY <1>1, <2>1, <2>2, WordsRun
<1> HIDE DEF n, T
<1> DEFINE Fit(i) == T(i) <= bits => /\ ~f[i].out /\ Accounts(f[i], bits, T(i), min)
                                     /\ f[i].n = i
           Misfit(i) == /\ f[i].n \in 0..i /\ T(f[i].n) <= bits
                        /\ T(i) > bits => f[i].out /\ f[i].n < i /\ T(f[i].n + 1) > bits
           X == {i \in 0..n : Fit(i) /\ (Simple(words) => Misfit(i))}
<1>5. 0 \in X
  <2> DEFINE k == (8 - off) % 8
             c == StartCache(bits, off)
  <2>1. k \in 0..7
    OBVIOUS
  <2>2. c = [cached |-> k, left |-> bits - k, pad |-> 0, n |-> 0, out |-> FALSE]
    BY DEF StartCache
  <2> HIDE DEF k
  <2>3. /\ c \in Cache /\ c.cached = k /\ c.left = bits - k /\ c.pad = 0 /\ c.n = 0 /\ ~c.out
    BY <2>1, <2>2 DEF Cache
  <2> HIDE DEF c
  <2>4. Accounts(c, bits, T(0), min)
    BY <1>1, <2>1, <2>3 DEF Accounts
  <2>5. f[0] = c
    BY <1>4 DEF c
  <2>6. Fit(0) /\ Misfit(0)
    BY <1>1, <2>3, <2>4, <2>5
  <2> HIDE DEF Fit, Misfit
  <2> QED BY <1>1, <2>6
<1>6. ASSUME NEW i \in 1..n, i - 1 \in X
      PROVE  i \in X
  <2> DEFINE w == words[i]
             x == f[i - 1]
             y == f[i]
  <2>1. i - 1 \in 0..n /\ i \in 0..n /\ Fit(i - 1) /\ (Simple(words) => Misfit(i - 1))
    BY <1>1, <1>6
  <2>2. /\ T(i) = T(i - 1) + WordBits(w) /\ T(i - 1) \in Nat /\ T(i) \in Nat
        /\ WordBits(w) \in Nat
        /\ y = CodeWord(x, w, min) /\ IsWord(w, min) /\ x \in Cache
        /\ (Simple(words) => w.skips = <<>>)
    BY <1>1, <1>2, <1>3, <1>4, <2>1
  <2>3. CASE T(i - 1) <= bits
    <3> DEFINE u == T(i - 1)
    <3>1. Accounts(x, bits, u, min) /\ u <= bits /\ ~x.out /\ x.n = i - 1
      BY <2>1, <2>3
    <3>2. u \in Int /\ bits \in Int
      BY <2>2
    <3> HIDE DEF w, x, u
    <3> DEFINE z == CodeWord(x, w, min)
    <3>3. /\ u + WordBits(w) <= bits => /\ ~z.out /\ Accounts(z, bits, u + WordBits(w), min)
                                        /\ z.n = x.n + 1
          /\ u + WordBits(w) > bits /\ w.skips = <<>> => z.out /\ z.n = x.n
      <4>1. IsWord(w, min)
        BY <2>2
      <4>2. Accounts(x, bits, u, min) /\ u <= bits /\ ~x.out
        BY <3>1
      <4> QED BY <3>2, <4>1, <4>2, WordAccounts
    <3> HIDE DEF z, y
    <3>4. y = z /\ u + WordBits(w) = T(i)
      BY <2>2 DEF z, u
    <3>5. T(i) <= bits => ~y.out /\ Accounts(y, bits, T(i), min) /\ y.n = i
      BY <3>1, <3>3, <3>4
    <3>6. T(i) > bits /\ w.skips = <<>> => y.out /\ y.n = i - 1
      BY <3>1, <3>3, <3>4
    <3>7. Fit(i)
      BY <3>5 DEF y
    <3>8. Simple(words) => Misfit(i)
      <4> SUFFICES ASSUME Simple(words)
                   PROVE  y.n \in 0..i /\ T(y.n) <= bits
                          /\ (T(i) > bits => y.out /\ y.n < i /\ T(y.n + 1) > bits)
        BY DEF y
      <4>1. CASE T(i) <= bits
        BY <2>2, <3>5, <4>1
      <4>2. CASE T(i) > bits
        <5>1. y.out /\ y.n = i - 1 /\ y.n + 1 = i
          BY <2>2, <3>6, <4>2
        <5> QED BY <2>3, <4>2, <5>1
      <4> QED BY <2>2, <4>1, <4>2
    <3> HIDE DEF Fit, Misfit
    <3> QED BY <2>1, <3>7, <3>8
  <2>4. CASE T(i - 1) > bits
    <3>1. T(i) > bits
      BY <2>2, <2>4
    <3>2. Fit(i)
      BY <2>2, <3>1
    <3>3. Simple(words) => Misfit(i)
      <4> SUFFICES ASSUME Simple(words)
                   PROVE  Misfit(i)
        OBVIOUS
      <4>1. /\ x.n \in 0..(i - 1) /\ T(x.n) <= bits /\ x.out /\ x.n < i - 1
            /\ T(x.n + 1) > bits
        BY <2>1, <2>4
      <4>2. y = [x EXCEPT !.out = TRUE]
        BY <2>2, <4>1 DEF CodeWord
      <4> HIDE DEF x, y
      <4>3. y.n = x.n /\ y.out
        BY <2>2, <4>2 DEF Cache
      <4>4. y.n \in 0..i /\ T(y.n) <= bits /\ y.n < i /\ T(y.n + 1) > bits
        BY <4>1, <4>3
      <4> QED BY <4>3, <4>4 DEF y
    <3> HIDE DEF Fit, Misfit
    <3> QED BY <2>1, <3>2, <3>3
  <2> QED BY <2>2, <2>3, <2>4
<1>7. \A i \in 0..n : i \in X
  <2> HIDE DEF X
  <2> QED BY <1>1, <1>5, <1>6, AfterEachBlock
<1> DEFINE c == CodeWords(words, bits, off, min)
<1>8. c = f[n] /\ c \in Cache /\ Fit(n) /\ (Simple(words) => Misfit(n))
  BY <1>1, <1>4, <1>7
<1> HIDE DEF c
<1>9. /\ T(n) <= bits => ~c.out /\ Accounts(c, bits, T(n), min) /\ c.n = n
      /\ Simple(words) =>
           /\ c.n \in 0..n /\ T(c.n) <= bits
           /\ T(n) > bits => c.out /\ c.n < n /\ T(c.n + 1) > bits
  BY <1>8
<1> QED BY <1>8, <1>9 DEF c, n, T

\* DecodeHuffmanPairs, for words of any number: those that fit are accepted and
\* the bits used are their own, in whatever pieces the cache was filled; without
\* words of several look-ups nothing else is accepted.
THEOREM PairsCountBits ==
  ASSUME NEW words, AreWords(words, 11), NEW bits \in Nat, NEW off \in 0..7
  PROVE  /\ Fits(words, bits) => DecodeHuffmanPairs(words, bits, off) = AllBits(words)
         /\ Simple(words) /\ ~Fits(words, bits) =>
              DecodeHuffmanPairs(words, bits, off) = -1
<1> DEFINE n == Len(words)
           T(i) == Sums(Lengths(words))[i]
           c == CodeWords(words, bits, off, 11)
<1>0. 11 \in 8..16
  OBVIOUS
<1>1. n \in Nat /\ AllBits(words) = T(n) /\ T(0) = 0 /\ T(n) \in Nat
  BY <1>0, LengthsAdd
<1>2. /\ c \in Cache
      /\ T(n) <= bits => ~c.out /\ Accounts(c, bits, T(n), 11)
      /\ Simple(words) /\ T(n) > bits => c.out
  BY <1>0, WordsAccount
<1>3. DecodeHuffmanPairs(words, bits, off) =
        IF words = <<>> THEN 0
        ELSE IF c.out THEN -1 ELSE bits - (c.left + c.cached - c.pad)
  BY DEF DecodeHuffmanPairs
<1>4. words = <<>> => n = 0
  OBVIOUS
<1> HIDE DEF n, T, c
<1>5. T(n) <= bits /\ ~c.out => bits - (c.left + c.cached - c.pad) = T(n)
  BY <1>1, <1>2, CacheFields DEF Accounts
<1>6. CASE words = <<>>
  <2>1. T(n) = 0
    BY <1>1, <1>4, <1>6
  <2> QED BY <1>1, <1>3, <1>6, <2>1 DEF Fits
<1>7. CASE words # <<>>
  BY <1>1, <1>2, <1>3, <1>5, <1>7 DEF Fits
<1> QED BY <1>6, <1>7

\* DecodeHuffmanQuads, for words of any number: it stops behind the last one that
\* fits.
THEOREM QuadsStopInTime ==
  ASSUME NEW words, AreWords(words, 10), Simple(words), NEW bits \in Nat, NEW off \in 0..7
  PROVE  DecodeHuffmanQuads(words, bits, off) =
           4 * Max({k \in 0..Len(words) : Fits(SubSeq(words, 1, k), bits)})
<1> DEFINE n == Len(words)
           T(i) == Sums(Lengths(words))[i]
           c == CodeWords(words, bits, off, 10)
           K == {k \in 0..n : Fits(SubSeq(words, 1, k), bits)}
<1>0. 10 \in 8..16
  OBVIOUS
<1>1. /\ n \in Nat /\ Lengths(words) \in Seq(Int) /\ Len(Lengths(words)) = n
      /\ T(0) = 0 /\ \A i \in 0..n : T(i) \in Nat
      /\ \A i \in 1..n : T(i) = T(i - 1) + WordBits(words[i])
      /\ \A i \in 1..n : WordBits(words[i]) \in Nat /\ WordBits(words[i]) > 0
      /\ \A i \in 0..n : \A j \in i..n : T(i) <= T(j)
  BY <1>0, LengthsAdd
<1>2. /\ c.n \in 0..n /\ T(c.n) <= bits
      /\ T(n) > bits => c.n < n /\ T(c.n + 1) > bits
      /\ T(n) <= bits => c.n = n
  <2>1. Simple(words) =>
          /\ c.n \in 0..n /\ T(c.n) <= bits
          /\ T(n) > bits => c.out /\ c.n < n /\ T(c.n + 1) > bits
          /\ T(n) <= bits => c.n = n
    BY <1>0, WordsAccount
  <2> HIDE DEF c, n, T
  <2> QED BY <2>1
<1>3. DecodeHuffmanQuads(words, bits, off) = IF bits <= 0 THEN 0 ELSE 4 * c.n
  BY DEF DecodeHuffmanQuads
<1> HIDE DEF c
<1>4. ASSUME NEW k \in 0..n
      PROVE  Fits(SubSeq(words, 1, k), bits) <=> T(k) <= bits
  <2> DEFINE sub == SubSeq(words, 1, k)
             all == Lengths(words)
             lens == Lengths(sub)
  <2>1. PICK W : words \in Seq(W)
    BY DEF AreWords
  <2>2. /\ sub \in Seq(W) /\ Len(sub) = k /\ DOMAIN sub = 1..k
        /\ \A i \in 1..k : sub[i] = words[i]
    BY <1>1, <2>1
  <2>3. DOMAIN words = 1..n
    BY <2>1
  <2> HIDE DEF sub
  <2>4. /\ lens = [i \in 1..k |-> WordBits(words[i])]
        /\ all = [i \in 1..n |-> WordBits(words[i])]
    BY <2>2, <2>3 DEF Lengths
  <2>5. AllBits(sub) = Total(lens)
    BY DEF AllBits, Lengths
  <2>6. lens \in Seq(Int) /\ Len(lens) = k /\ \A i \in 1..k : lens[i] = all[i]
    <3> HIDE DEF lens, all, n
    <3>1. k \in Nat /\ \A i \in 1..k : i \in 1..n
      BY <1>1
    <3>2. lens \in [1..k -> Int]
      BY <1>1, <2>4, <3>1
    <3>3. \A i \in 1..k : lens[i] = all[i]
      BY <2>4, <3>1
    <3> QED BY <3>1, <3>2, <3>3
  <2> HIDE DEF lens
  <2>7. Sums(lens)[k] = T(k)
    <3> HIDE DEF all, n
    <3>1. k \in Nat /\ k <= Len(lens) /\ k <= Len(all)
      BY <1>1, <2>6 DEF all
    <3>2. all \in Seq(Int)
      BY <1>1 DEF all
    <3>3. Sums(lens)[k] = Sums(all)[k]
      BY <2>6, <3>1, <3>2, SumsAgree
    <3> QED BY <3>3 DEF all
  <2>8. AllBits(sub) = T(k)
    BY <2>5, <2>6, <2>7 DEF Total
  <2> QED BY <2>8 DEF Fits, sub
<1> HIDE DEF n, T
<1> DEFINE m == c.n
<1>5. /\ m \in 0..n /\ T(m) <= bits
      /\ T(n) > bits => m < n /\ T(m + 1) > bits
      /\ T(n) <= bits => m = n
  BY <1>2
<1> HIDE DEF m
<1>6. m \in K /\ \A k \in K : k <= m
  <2>1. m \in K
    BY <1>5, <1>4
  <2>2. ASSUME NEW k \in K, k > m
        PROVE  FALSE
    <3>1. k \in 0..n /\ T(k) <= bits
      BY <1>4
    <3>2. m < n /\ m \in Nat
      BY <1>1, <1>5, <2>2, <3>1
    <3>3. T(n) > bits /\ T(m + 1) > bits
      BY <1>1, <1>5, <3>2
    <3>4. m + 1 \in 0..n /\ k \in (m + 1)..n
      BY <1>1, <1>5, <2>2, <3>1, <3>2
    <3>5. T(m + 1) <= T(k)
      BY <1>1, <3>4
    <3>6. T(m + 1) \in Nat /\ T(k) \in Nat
      BY <1>1, <3>1, <3>4
    <3> QED BY <3>1, <3>3, <3>5, <3>6
  <2>3. \A k \in K : k \in Int /\ m \in Int
    BY <1>1, <1>5
  <2> QED BY <2>1, <2>2, <2>3
<1>7. Max(K) = m
  <2>1. K \in SUBSET (0..n) /\ K # {}
    BY <1>6
  <2> HIDE DEF K
  <2>2. Max(K) \in K /\ \A y \in K : y <= Max(K)
    BY <1>1, <2>1, GreatestOf
  <2>3. Max(K) <= m /\ m <= Max(K) /\ Max(K) \in Int /\ m \in Int
    <3>1. Max(K) \in 0..n /\ m \in 0..n
      BY <1>5, <2>1, <2>2
    <3>2. Max(K) <= m /\ m <= Max(K)
      BY <1>6, <2>2
    <3> QED BY <1>1, <3>1, <3>2
  <2> QED BY <2>3
<1>8. bits <= 0 => m = 0
  <2> SUFFICES ASSUME bits <= 0, m # 0
               PROVE  FALSE
    OBVIOUS
  <2>1. 1 \in 0..n /\ 1 \in 1..n /\ m \in 1..n /\ m \in 0..n
    BY <1>1, <1>5
  <2>2. T(1) = T(1 - 1) + WordBits(words[1]) /\ WordBits(words[1]) > 0
        /\ WordBits(words[1]) \in Nat
    BY <1>1, <2>1
  <2>3. T(1) <= T(m) /\ T(m) \in Nat
    BY <1>1, <2>1
  <2> QED BY <1>1, <1>5, <2>2, <2>3
<1> QED BY <1>3, <1>7, <1>8 DEF n, m

\* The words that LoopsAgree is about are such words.
LEMMA SimpleWordsAreWords ==
  ASSUME NEW w \in SimpleWords
  PROVE  /\ IsWord(w, 11) /\ w.skips = <<>>
         /\ w \in [skips : Seq(1..11), len : 1..11, esc : Seq(Int \X Nat)]
         /\ (w.esc = <<>> /\ w.len <= 10 =>
               w \in [skips : Seq(1..10), len : 1..10, esc : Seq(Int \X Nat)])
<1>1. /\ w.skips = <<>> /\ w.len \in 1..11
      /\ w.esc \in {<<>>, << <<2, 2>> >>, << <<15, 15>> >>, << <<15, 14>>, <<14, 14>> >>}
      /\ w = [skips |-> w.skips, len |-> w.len, esc |-> w.esc]
  BY DEF SimpleWords
<1> DEFINE esc == w.esc
<1>2. GoodEscapes(esc)
  <2>1. CASE esc = <<>>
    BY <2>1 DEF GoodEscapes
  <2>2. ASSUME NEW need \in Nat, esc = << <<need, need>> >>
        PROVE  GoodEscapes(esc)
    <3>1. esc \in Seq(Int \X Nat) /\ Len(esc) = 1 /\ esc[1] = <<need, need>>
      BY <2>2
    <3>2. Takes(esc) \in Seq(Int) /\ Len(Takes(esc)) = 1 /\ Takes(esc)[1] = need
      BY <2>2 DEF Takes
    <3>3. Sums(Takes(esc))[0] = 0 /\ Sums(Takes(esc))[1] = Sums(Takes(esc))[1 - 1] + need
      BY <3>2, SumsRun
    <3>4. Total(Takes(esc)) = need
      BY <3>2, <3>3 DEF Total
    <3>5. \A i \in 1..Len(esc) : i = 1
      BY <3>1
    <3> HIDE DEF esc
    <3> QED BY <3>1, <3>3, <3>4, <3>5 DEF GoodEscapes
  <2>3. CASE esc = << <<15, 14>>, <<14, 14>> >>
    <3>1. esc \in Seq(Int \X Nat) /\ Len(esc) = 2 /\ esc[1] = <<15, 14>>
          /\ esc[2] = <<14, 14>>
      BY <2>3
    <3>2. Takes(esc) \in Seq(Int) /\ Len(Takes(esc)) = 2 /\ Takes(esc)[1] = 14
          /\ Takes(esc)[2] = 14
      BY <2>3 DEF Takes
    <3>3. /\ Sums(Takes(esc))[0] = 0
          /\ Sums(Takes(esc))[1] = Sums(Takes(esc))[1 - 1] + 14
          /\ Sums(Takes(esc))[2] = Sums(Takes(esc))[2 - 1] + 14
      BY <3>2, SumsRun
    <3>4. Sums(Takes(esc))[1] = 14 /\ Total(Takes(esc)) = 28
      BY <3>2, <3>3 DEF Total
    <3>5. \A i \in 1..Len(esc) : i = 1 \/ i = 2
      BY <3>1
    <3> HIDE DEF esc
    <3> QED BY <3>1, <3>3, <3>4, <3>5 DEF GoodEscapes
  <2> QED BY <1>1, <2>1, <2>2, <2>3
<1>3. esc \in Seq(Int \X Nat)
  BY <1>2 DEF GoodEscapes
<1>4. <<>> \in Seq(1..11) /\ <<>> \in Seq(1..10)
  OBVIOUS
<1>5. IsWord(w, 11)
  BY <1>1, <1>2, <1>4 DEF IsWord
<1> HIDE DEF esc
<1>6. w \in [skips : Seq(1..11), len : 1..11, esc : Seq(Int \X Nat)]
  BY <1>1, <1>3, <1>4 DEF esc
<1>7. ASSUME w.len <= 10
      PROVE  w \in [skips : Seq(1..10), len : 1..10, esc : Seq(Int \X Nat)]
  <2>1. w.len \in 1..10
    BY <1>1, <1>7
  <2> QED BY <1>1, <1>3, <1>4, <2>1 DEF esc
<1> QED BY <1>1, <1>5, <1>6, <1>7

\* The loops of huffman.c, with their cache of a few bytes and its padding, come
\* to the same as a decoder that counts bits, as PairsCountBits and
\* QuadsStopInTime say for any number of words and bits.
THEOREM CodeWordsFitHolds == Spec => []CodeWordsFit
<1>1. LoopsAgree
  <2> SUFFICES ASSUME NEW words \in BoundedSeq(SimpleWords, 2), NEW bits \in 0..60,
                      NEW off \in 0..7
               PROVE  /\ DecodeHuffmanPairs(words, bits, off) =
                           IF Fits(words, bits) THEN AllBits(words) ELSE -1
                      /\ (\A i \in DOMAIN words :
                            words[i].esc = <<>> /\ words[i].len <= 10) =>
                           DecodeHuffmanQuads(words, bits, off) =
                             4 * Max({k \in 0..Len(words) : Fits(SubSeq(words, 1, k), bits)})
    BY DEF LoopsAgree
  <2> DEFINE W(min) == [skips : Seq(1..min), len : 1..min, esc : Seq(Int \X Nat)]
  <2>1. PICK n \in 0..2 : words \in [1..n -> SimpleWords]
    BY DEF BoundedSeq, SeqOf
  <2>2. Len(words) = n /\ DOMAIN words = 1..n /\ \A i \in 1..n : words[i] \in SimpleWords
    BY <2>1
  <2>3. \A i \in 1..n : IsWord(words[i], 11) /\ words[i].skips = <<>>
                        /\ words[i] \in W(11)
                        /\ (words[i].esc = <<>> /\ words[i].len <= 10 => words[i] \in W(10))
    BY <2>2, SimpleWordsAreWords
  <2>4. Simple(words)
    BY <2>2, <2>3 DEF Simple
  <2>5. \A i \in 1..n : GoodEscapes(words[i].esc)
    BY <2>3 DEF IsWord
  <2>6. ASSUME NEW X, \A i \in 1..n : words[i] \in X
        PROVE  words \in Seq(X)
    BY <2>1, <2>6
  <2>7. AreWords(words, 11)
    <3> DEFINE X == {w \in W(11) : GoodEscapes(w.esc)}
    <3>1. \A i \in 1..n : words[i] \in X
      BY <2>3, <2>5
    <3> HIDE DEF X
    <3>2. words \in Seq(X)
      BY <2>6, <3>1
    <3> QED BY <3>2 DEF AreWords, X
  <2>8. ASSUME \A i \in DOMAIN words : words[i].esc = <<>> /\ words[i].len <= 10
        PROVE  AreWords(words, 10)
    <3> DEFINE X == {w \in W(10) : GoodEscapes(w.esc)}
    <3>1. \A i \in 1..n : words[i] \in X
      BY <2>2, <2>3, <2>5, <2>8
    <3> HIDE DEF X
    <3>2. words \in Seq(X)
      BY <2>6, <3>1
    <3> QED BY <3>2 DEF AreWords, X
  <2>9. bits \in Nat
    OBVIOUS
  <2>10. DecodeHuffmanPairs(words, bits, off) = IF Fits(words, bits) THEN AllBits(words) ELSE -1
    BY <2>4, <2>7, <2>9, PairsCountBits
  <2> QED BY <2>4, <2>8, <2>9, <2>10, QuadsStopInTime
<1>2. CodeWordsFit
  BY <1>1 DEF CodeWordsFit
<1> QED BY <1>2, PTL

=============================================================================
