----------------------------- MODULE BitReader ------------------------------
(***************************************************************************)
(* How the decoder takes bits from a buffer: GetBits (bitstream.c), with a *)
(* cache of four bytes, and the loops of huffman.c, which keep a cache of  *)
(* their own and find out only afterwards that they ran out of bits.  Bits *)
(* are represented by their positions, code words by their lengths: what   *)
(* the tables of hufftabs.c make of them is left out.                      *)
(***************************************************************************)
EXTENDS Mp3Tables

\* SetBitstreamPointer: a reader at the start of nBytes bytes.
SetBitstreamPointer(nBytes) == [ptr |-> 0, cache |-> <<>>, left |-> nBytes, data |-> <<>>]

\* RefillBitstreamCache: four bytes, or what is left.
RefillBitstreamCache(bsi) ==
  LET n == IF bsi.left >= 4 THEN 4 ELSE bsi.left
  IN  [bsi EXCEPT !.cache = [i \in 1..(8 * n) |-> 8 * bsi.ptr + i - 1],
                  !.ptr = @ + n, !.left = @ - n]

\* (mutant: the bits taken after a refill stay in the cache)
GetBitsTwice(bsi, nBits) ==
  LET low == nBits - Len(bsi.cache)
      new == RefillBitstreamCache(bsi)
  IN  IF low <= 0
      THEN [bsi EXCEPT !.cache = SubSeq(@, nBits + 1, Len(@)),
                       !.data = @ \o SubSeq(bsi.cache, 1, nBits)]
      ELSE [new EXCEPT !.data = @ \o bsi.cache \o SubSeq(new.cache, 1, low)]

\* GetBits, within the buffer; data collects what it returned.
GetBits(bsi, nBits) ==
  LET low == nBits - Len(bsi.cache)
      new == RefillBitstreamCache(bsi)
  IN  IF low <= 0
      THEN [bsi EXCEPT !.cache = SubSeq(@, nBits + 1, Len(@)),
                       !.data = @ \o SubSeq(bsi.cache, 1, nBits)]
      ELSE [new EXCEPT !.cache = SubSeq(@, low + 1, Len(@)),
                       !.data = @ \o bsi.cache \o SubSeq(new.cache, 1, low)]

\* Several fields.  (The set makes TLC evaluate bsi before it goes on.)
GetFields(bsi, widths) ==
  CHOOSE r \in {FoldLeft(GetBits, b, widths) : b \in {bsi}} : TRUE

CalcBitsUsed(bsi) == 8 * bsi.ptr - Len(bsi.cache)

-----------------------------------------------------------------------------
(* The cache of DecodeHuffmanPairs (min = 11) and DecodeHuffmanQuads       *)
(* (min = 10).  A code word is a record of skips, the bits taken by the    *)
(* look-ups that only lead to another table, len, the bits of the last     *)
(* look-up and of plain signs, and esc: for each of x and y that is        *)
(* escaped the bits that must be there and the bits it takes.              *)

\* The sums of the first 0, 1, 2... elements.
Sums(s) ==
  LET sum[n \in 0..Len(s)] == IF n = 0 THEN 0 ELSE sum[n - 1] + s[n]
  IN  sum

Total(s) == Sums(s)[Len(s)]

\* The partial byte at bitOffset is in the cache when the loop starts.
StartCache(bits, bitOffset) ==
  LET c == (8 - bitOffset) % 8
  IN  [cached |-> c, left |-> bits - c, pad |-> 0, n |-> 0, out |-> FALSE]

\* Two bytes, or the rest and min bits of padding.
Refill(c, min) ==
  IF c.left >= 16
  THEN [c EXCEPT !.cached = @ + 16, !.left = @ - 16]
  ELSE IF c.cached + c.left <= 0
  THEN [c EXCEPT !.out = TRUE]
  ELSE [c EXCEPT !.cached = @ + c.left + min, !.left = 0, !.pad = min]

\* One look-up, which takes bits from a cache of at least min bits.
Lookup(c, bits, min) ==
  LET d == IF c.cached < min THEN Refill(c, min) ELSE c
  IN  IF c.out \/ d.out THEN [d EXCEPT !.out = TRUE] ELSE [d EXCEPT !.cached = @ - bits]

\* (mutant: the bits loaded past the end are not given back)
EscapeKeepsExcess(c, need, bits) ==
  LET k == IF c.cached >= need THEN 0 ELSE (need - c.cached + 7) \div 8
  IN  IF c.out \/ c.cached + c.left < need
      THEN [c EXCEPT !.out = TRUE]
      ELSE [c EXCEPT !.cached = @ + 8 * k - bits, !.left = Max({@ - 8 * k, 0})]

\* An escaped value: need bits must be there, byte by byte; bytes loaded past
\* the end of the data are given back.
Escape(c, need, bits) ==
  LET k    == IF c.cached >= need THEN 0 ELSE (need - c.cached + 7) \div 8
      left == c.left - 8 * k
  IN  IF c.out \/ c.cached + c.left < need
      THEN [c EXCEPT !.out = TRUE]
      ELSE [c EXCEPT !.cached = @ + 8 * k + (IF left < 0 THEN left ELSE 0) - bits,
                     !.left = Max({left, 0})]

\* The look-ups of a code word, and its escaped values.
Lookups(c, bits, min) ==
  LET after[n \in 0..Len(bits)] ==
        IF n = 0 THEN c ELSE Lookup(after[n - 1], bits[n], min)
  IN  after[Len(bits)]

Escapes(c, esc) ==
  LET after[n \in 0..Len(esc)] ==
        IF n = 0 THEN c ELSE Escape(after[n - 1], esc[n][1], esc[n][2])
  IN  after[Len(esc)]

\* One code word.  A loop that has used padding has run out of bits.
CodeWord(c, w, min) ==
  LET done == Escapes(Lookups(c, Append(w.skips, w.len), min), w.esc)
  IN  IF c.out \/ done.out \/ done.cached < done.pad
      THEN [c EXCEPT !.out = TRUE]
      ELSE [done EXCEPT !.n = @ + 1]

CodeWords(words, bits, bitOffset, min) ==
  LET after[n \in 0..Len(words)] ==
        IF n = 0 THEN StartCache(bits, bitOffset)
        ELSE CodeWord(after[n - 1], words[n], min)
  IN  after[Len(words)]

\* DecodeHuffmanPairs: the bits used, -1 when they do not suffice.
DecodeHuffmanPairs(words, bits, bitOffset) ==
  LET c == CodeWords(words, bits, bitOffset, 11)
  IN  IF words = <<>> THEN 0
      ELSE IF c.out THEN -1 ELSE bits - (c.left + c.cached - c.pad)

\* DecodeHuffmanQuads: four lines for each code word that is complete.
DecodeHuffmanQuads(words, bits, bitOffset) ==
  IF bits <= 0 THEN 0 ELSE 4 * CodeWords(words, bits, bitOffset, 10).n

-----------------------------------------------------------------------------
\* What a decoder without a cache does.
WordBits(w) ==
  Total(w.skips) + w.len + Total([i \in DOMAIN w.esc |-> w.esc[i][2]])

AllBits(words) == Total([i \in DOMAIN words |-> WordBits(words[i])])

Fits(words, bits) == AllBits(words) <= bits

\* Code words of one look-up, with and without escapes; the longest of
\* hufftabs.c have 9 bits and two signs, the longest linbits are 13.
SimpleWords ==
  [skips : {<<>>}, len : {1, 5, 11}, esc : {<<>>}]
    \cup [skips : {<<>>}, len : {4, 10}, esc : {<< <<2, 2>> >>, << <<15, 15>> >>, << <<15, 14>>, <<14, 14>> >>}]

\* The cached loops against a decoder that counts bits, for every number of bits
\* and every bit offset at which the data may start.
LoopsAgree ==
  \A words \in BoundedSeq(SimpleWords, 2), bits \in 0..60, off \in 0..7 :
    /\ DecodeHuffmanPairs(words, bits, off) =
         IF Fits(words, bits) THEN AllBits(words) ELSE -1
    /\ (\A i \in DOMAIN words : words[i].esc = <<>> /\ words[i].len <= 10) =>
         DecodeHuffmanQuads(words, bits, off) =
           4 * Max({k \in 0..Len(words) : Fits(SubSeq(words, 1, k), bits)})

\* All bits of the side information, for every choice of window switching.
SideInfoIsRead ==
  \A ver \in Versions, chans \in 1..2 :
    \A switched \in [1..(chans * Granules(ver)) -> BOOLEAN] :
      LET nBytes == sideBytesTab[ver][chans]
          bsi == FoldLeft(GetFields, SetBitstreamPointer(nBytes),
                          SideFields(ver, chans, switched))
      IN  /\ bsi.data = [i \in 1..(8 * nBytes) |-> i - 1]
          /\ CalcBitsUsed(bsi) \div 8 = nBytes

\* slotTab, and the frames that it gives with a reservoir of 511 bytes.
SlotsFit ==
  \A ver \in Versions, sr \in 1..3, br \in 1..14 :
    /\ slotTab[ver][sr][br] = (72 * Granules(ver) * 1000 * bitrateTab[ver][br])
                                \div samplerateTab[ver][sr]
    /\ \A chans \in 1..2, crc, pad \in BOOLEAN :
         LET n == Slots(ver, chans, sr, br, crc, pad)
         IN  0 <= n /\ n + 511 <= 1940
=============================================================================
