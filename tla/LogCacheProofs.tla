--------------------------- MODULE LogCacheProofs ---------------------------
(***************************************************************************)
(* Proofs about LogCache, for every size of the cache and every number of  *)
(* tags.  heap_bubble_down is a loop; what is proved of it is what its     *)
(* path through the heap looks like (PathProperties): a chain in which     *)
(* each entry is the smaller child of the one before and that ends in one  *)
(* leaf.  From this follow the order of the heap, which the assertions of  *)
(* log.c test, and that no tag is lost or doubled on the way.              *)
(***************************************************************************)
EXTENDS LogCache, SequenceTheorems, WellFoundedInduction, TLAPS

-----------------------------------------------------------------------------
\* The parent of entry k, at index k div 2.
LEMMA Half ==
  ASSUME NEW k \in Nat
  PROVE  /\ k \div 2 \in Nat
         /\ 2 * (k \div 2) <= k /\ k <= 2 * (k \div 2) + 1
OBVIOUS

\* The children of an inner entry are entries, and Next2 is one of them.
LEMMA Children ==
  ASSUME NEW c, NEW k \in 1..CacheSize, k <= CacheSize \div 2
  PROVE  /\ Next2(c, k) \in {2 * k, 2 * k + 1}
         /\ Next2(c, k) \in 1..CacheSize
         /\ Next2(c, k) \div 2 = k
<1>1. Next2(c, k) \in {2 * k, 2 * k + 1}
  BY DEF Next2
<1>2. 2 * k + 1 <= CacheSize
  BY CacheSizeAssumption
<1>3. (2 * k) \div 2 = k /\ (2 * k + 1) \div 2 = k
  OBVIOUS
<1> QED
  BY <1>1, <1>2, <1>3, CacheSizeAssumption

\* The path of heap_bubble_down from entry i is a chain: it goes on from each
\* inner entry, an entry other than i was reached from its parent, and two
\* entries of it are never on the same level.
LEMMA PathProperties ==
  ASSUME NEW c, NEW i \in 1..CacheSize
  PROVE  /\ i \in Path(c, i) /\ Path(c, i) \subseteq i..CacheSize
         /\ \A k \in Path(c, i) : k <= CacheSize \div 2 => Next2(c, k) \in Path(c, i)
         /\ \A k \in Path(c, i) \ {i} :
              k \div 2 \in Path(c, i) /\ k = Next2(c, k \div 2)
         /\ \A a, b \in Path(c, i) : a < b => 2 * a <= b
<1> DEFINE P == Path(c, i)
<1>1. i \in P /\ P \subseteq i..CacheSize
  BY CacheSizeAssumption DEF Path
<1>2. ASSUME NEW S \in SUBSET (i..CacheSize), i \in S, Closed(c, S)
      PROVE  P \subseteq S
  BY <1>2 DEF Path
<1>3. ASSUME NEW k \in P, k <= CacheSize \div 2
      PROVE  Next2(c, k) \in P
  <2>1. k \in 1..CacheSize /\ k >= i
    BY <1>1
  <2>2. Next2(c, k) \in i..CacheSize
    BY <1>3, <2>1, Children
  <2>3. ASSUME NEW S \in SUBSET (i..CacheSize), i \in S, Closed(c, S)
        PROVE  Next2(c, k) \in S
    BY <1>2, <1>3, <2>3 DEF Closed
  <2> QED
    BY <2>2, <2>3 DEF Path
<1>4. ASSUME NEW k \in P, k # i
      PROVE  k \div 2 \in P /\ k = Next2(c, k \div 2)
  <2> DEFINE S == {m \in P : m = i \/ (m \div 2 \in P /\ m = Next2(c, m \div 2))}
  <2>1. S \in SUBSET (i..CacheSize) /\ i \in S
    BY <1>1
  <2>2. Closed(c, S)
    <3> SUFFICES ASSUME NEW m \in S, m <= CacheSize \div 2
                 PROVE  Next2(c, m) \in S
      BY DEF Closed
    <3>1. m \in P /\ m \in 1..CacheSize
      BY <1>1
    <3>2. Next2(c, m) \in P /\ Next2(c, m) \div 2 = m
      BY <1>3, <3>1, Children
    <3> QED
      BY <3>1, <3>2
  <2> HIDE DEF S
  <2>3. k \in S
    BY <1>2, <2>1, <2>2
  <2> QED
    BY <1>4, <2>3 DEF S
<1>5. ASSUME NEW a \in P, NEW b \in P, a < b
      PROVE  2 * a <= b
  <2> DEFINE S == {m \in P : \A x \in P : x < m => 2 * x <= m}
  <2>1. S \in SUBSET (i..CacheSize) /\ i \in S
    BY <1>1
  <2>2. Closed(c, S)
    <3> SUFFICES ASSUME NEW m \in S, m <= CacheSize \div 2,
                        NEW x \in P, x < Next2(c, m)
                 PROVE  2 * x <= Next2(c, m)
      BY <1>3 DEF Closed
    <3>1. m \in P /\ m \in i..CacheSize /\ m \in 1..CacheSize /\ x \in i..CacheSize
      BY <1>1
    <3>2. Next2(c, m) \in {2 * m, 2 * m + 1}
      BY <3>1, Children
    <3>3. CASE x <= m
      BY <3>1, <3>2, <3>3
    <3>4. CASE x > m
      <4>1. x # i
        BY <3>1, <3>4
      <4>2. x \div 2 \in P /\ x = Next2(c, x \div 2)
        BY <1>4, <4>1
      <4>3. x \div 2 # m
        <5>1. x # Next2(c, m)
          BY <3>1, <3>2
        <5> QED
          BY <4>2, <5>1
      <4>4. x \div 2 < m
        BY <3>1, <3>2, <4>3, Half
      <4>5. 2 * (x \div 2) <= m
        BY <4>2, <4>4
      <4>6. m # i /\ m \div 2 = x \div 2
        <5>1. x = m + 1 /\ 2 * (x \div 2) = m
          BY <3>1, <3>4, <4>5, Half
        <5>2. x \div 2 \in i..CacheSize
          BY <1>1, <4>2
        <5> QED
          BY <3>1, <5>1, <5>2
      <4>7. m = Next2(c, m \div 2)
        BY <1>4, <3>1, <4>6
      <4> QED
        BY <3>1, <3>4, <4>2, <4>6, <4>7
    <3> QED
      BY <3>1, <3>3, <3>4
  <2> HIDE DEF S
  <2>3. b \in S
    BY <1>2, <2>1, <2>2
  <2> QED
    BY <1>5, <2>3 DEF S
<1> QED
  BY <1>1, <1>3, <1>4, <1>5

\* The entry of c that heap_bubble_down leaves at k.
From(c, i, k) ==
  IF k \notin Path(c, i) THEN k
  ELSE IF k <= CacheSize \div 2 THEN Next2(c, k) ELSE i

\* heap_bubble_down moves entries, and none is at two places afterwards.
LEMMA BubbleMoves ==
  ASSUME NEW c, DOMAIN c = 1..CacheSize, NEW i \in 1..CacheSize
  PROVE  /\ DOMAIN BubbleDown(c, i) = 1..CacheSize
         /\ \A k \in 1..CacheSize :
              /\ From(c, i, k) \in 1..CacheSize
              /\ BubbleDown(c, i)[k] = c[From(c, i, k)]
         /\ \A j, k \in 1..CacheSize : From(c, i, j) = From(c, i, k) => j = k
<1> DEFINE P == Path(c, i)
<1>1. /\ i \in P /\ P \subseteq i..CacheSize
      /\ \A k \in P : k <= CacheSize \div 2 => Next2(c, k) \in P
      /\ \A a, b \in P : a < b => 2 * a <= b
  BY PathProperties
<1>2. DOMAIN BubbleDown(c, i) = 1..CacheSize
  BY DEF BubbleDown
<1>3. ASSUME NEW k \in 1..CacheSize
      PROVE  /\ From(c, i, k) \in 1..CacheSize
             /\ BubbleDown(c, i)[k] = c[From(c, i, k)]
  <2>1. k <= CacheSize \div 2 => Next2(c, k) \in 1..CacheSize
    BY Children
  <2> QED
    BY <2>1 DEF From, BubbleDown
<1>4. ASSUME NEW j \in 1..CacheSize, NEW k \in 1..CacheSize,
             From(c, i, j) = From(c, i, k), j \in P
      PROVE  j = k
  <2>1. From(c, i, j) \in P /\ From(c, i, k) \in P
    BY <1>1, <1>4 DEF From
  <2>2. k \in P
    BY <2>1 DEF From
  <2>3. CASE j <= CacheSize \div 2 /\ k <= CacheSize \div 2
    BY <1>4, <2>2, <2>3, Children DEF From
  <2>4. CASE ~(j <= CacheSize \div 2) /\ ~(k <= CacheSize \div 2)
    <3>1. ~(j < k) /\ ~(k < j)
      BY <1>1, <1>4, <2>2, <2>4, CacheSizeAssumption
    <3> QED
      BY <3>1
  <2>5. ASSUME NEW m \in P, m <= CacheSize \div 2
        PROVE  Next2(c, m) # i
    <3>1. m \in i..CacheSize
      BY <1>1
    <3>2. Next2(c, m) \in {2 * m, 2 * m + 1}
      BY <2>5, <3>1, Children
    <3> QED
      BY <3>1, <3>2
  <2> QED
    BY <1>4, <2>2, <2>3, <2>4, <2>5 DEF From
<1>5. ASSUME NEW j \in 1..CacheSize, NEW k \in 1..CacheSize,
             From(c, i, j) = From(c, i, k)
      PROVE  j = k
  BY <1>4, <1>5 DEF From
<1> QED
  BY <1>2, <1>3, <1>5

\* The parent of each entry is older.
Ordered(c) ==
  \A k \in DOMAIN c \ {1} : c[k \div 2].generation < c[k].generation

\* No two entries were looked up last in the same call.
Distinct(c) ==
  \A j, k \in DOMAIN c : c[j].generation = c[k].generation => j = k

Generations(c) == \A k \in DOMAIN c : c[k].generation \in Nat

\* What the loop is for: when an entry of an ordered heap has become the newest,
\* heap_bubble_down restores the order.
LEMMA BubbleOrders ==
  ASSUME NEW s, NEW c, DOMAIN s = 1..CacheSize, DOMAIN c = 1..CacheSize,
         Generations(s), Generations(c), Ordered(s), Distinct(c),
         NEW i \in 1..CacheSize,
         \A k \in 1..CacheSize \ {i} : c[k] = s[k] /\ c[k].generation < c[i].generation
  PROVE  Ordered(BubbleDown(c, i))
<1> DEFINE P == Path(c, i)
           d == BubbleDown(c, i)
<1>1. /\ i \in P /\ P \subseteq i..CacheSize
      /\ \A k \in P : k <= CacheSize \div 2 => Next2(c, k) \in P
      /\ \A k \in P \ {i} : k \div 2 \in P /\ k = Next2(c, k \div 2)
  BY PathProperties
<1>2. SUFFICES ASSUME NEW k \in 1..CacheSize, k # 1
               PROVE  d[k \div 2].generation < d[k].generation
  BY BubbleMoves DEF Ordered
<1> DEFINE p == k \div 2
<1>3. p \in 1..CacheSize /\ p <= CacheSize \div 2 /\ k \in {2 * p, 2 * p + 1} /\ p < k
  <2> DEFINE h == CacheSize \div 2
  <2>1. CacheSize \in Nat /\ k \in Nat /\ k >= 2 /\ k <= CacheSize
    BY <1>2, CacheSizeAssumption
  <2>2. /\ p \in Nat /\ 2 * p <= k /\ k <= 2 * p + 1
        /\ h \in Nat /\ CacheSize <= 2 * h + 1
    BY <2>1, Half
  <2> HIDE DEF p, h
  <2>3. p \in 1..CacheSize /\ p <= h /\ p < k /\ (k = 2 * p \/ k = 2 * p + 1)
    BY <2>1, <2>2
  <2> QED
    BY <2>3 DEF h
<1>4. s[p].generation < s[k].generation
  BY <1>2 DEF Ordered
<1>5. /\ d[k] = c[From(c, i, k)] /\ d[p] = c[From(c, i, p)]
      /\ From(c, i, k) \in 1..CacheSize /\ From(c, i, p) \in 1..CacheSize
  BY <1>3, BubbleMoves
<1> HIDE DEF p
<1> SUFFICES d[p].generation < d[k].generation
  BY DEF p
<1>6. CASE k \notin P /\ p \notin P
  BY <1>1, <1>3, <1>4, <1>5, <1>6 DEF From
<1>7. CASE k \notin P /\ p \in P
  <2>1. From(c, i, p) = Next2(c, p) /\ From(c, i, k) = k
    BY <1>3, <1>7 DEF From
  <2>2. Next2(c, p) # k
    BY <1>1, <1>3, <1>7
  <2>3. 2 * p \in 1..CacheSize /\ 2 * p + 1 \in 1..CacheSize
    BY <1>3, CacheSizeAssumption
  <2>4. c[2 * p].generation # c[2 * p + 1].generation
    BY <2>3 DEF Distinct
  <2>5. c[2 * p].generation \in Nat /\ c[2 * p + 1].generation \in Nat
    BY <2>3 DEF Generations
  <2>6. c[Next2(c, p)].generation < c[k].generation
    <3>1. CASE k = 2 * p
      BY <2>2, <2>4, <2>5, <3>1 DEF Next2
    <3>2. CASE k = 2 * p + 1
      BY <2>2, <3>2 DEF Next2
    <3> QED
      BY <1>3, <3>1, <3>2
  <2> QED
    BY <1>5, <2>1, <2>6
<1>8. CASE k \in P /\ p \notin P
  <2>1. k = i /\ From(c, i, p) = p
    BY <1>1, <1>8 DEF From, p
  <2>2. CASE k <= CacheSize \div 2
    <3>1. Next2(c, k) \in 1..CacheSize /\ Next2(c, k) \div 2 = k /\ Next2(c, k) # 1
      BY <2>2, Children
    <3>2. s[k].generation < s[Next2(c, k)].generation
      BY <3>1 DEF Ordered
    <3>3. Next2(c, k) # k
      BY <3>1
    <3>4. c[p] = s[p] /\ c[Next2(c, k)] = s[Next2(c, k)]
      BY <1>3, <2>1, <3>1, <3>3
    <3>5. /\ s[p].generation \in Nat /\ s[k].generation \in Nat
          /\ s[Next2(c, k)].generation \in Nat
      BY <1>3, <3>1 DEF Generations
    <3>6. From(c, i, k) = Next2(c, k)
      BY <1>8, <2>2 DEF From
    <3> QED
      BY <1>4, <1>5, <2>1, <3>2, <3>4, <3>5, <3>6
  <2>3. CASE ~(k <= CacheSize \div 2)
    BY <1>3, <1>5, <1>8, <2>1, <2>3 DEF From
  <2> QED
    BY <2>2, <2>3
<1>9. CASE k \in P /\ p \in P
  <2>1. k # i
    BY <1>1, <1>3, <1>9
  <2>2. From(c, i, p) = k
    BY <1>1, <1>3, <1>9, <2>1 DEF From, p
  <2>3. CASE k <= CacheSize \div 2
    <3>1. Next2(c, k) \in 1..CacheSize /\ Next2(c, k) \div 2 = k /\ Next2(c, k) # 1
      BY <2>3, Children
    <3>2. s[k].generation < s[Next2(c, k)].generation
      BY <3>1 DEF Ordered
    <3>3. Next2(c, k) # i
      BY <1>1, <1>9, <2>1, <3>1, Half
    <3>4. From(c, i, k) = Next2(c, k)
      BY <1>9, <2>3 DEF From
    <3>5. c[k] = s[k] /\ c[Next2(c, k)] = s[Next2(c, k)]
      BY <2>1, <3>1, <3>3
    <3> QED
      BY <1>5, <2>2, <3>2, <3>4, <3>5
  <2>4. CASE ~(k <= CacheSize \div 2)
    <3>1. From(c, i, k) = i
      BY <1>9, <2>4 DEF From
    <3>2. c[k].generation < c[i].generation
      BY <2>1
    <3> QED
      BY <1>5, <2>2, <3>1, <3>2
  <2> QED
    BY <2>3, <2>4
<1> QED
  BY <1>6, <1>7, <1>8, <1>9

-----------------------------------------------------------------------------
\* What both kinds of lookup do to a full cache s: one entry is replaced by e,
\* which has the next generation m, and bubbles down.
LEMMA Replacement ==
  ASSUME NEW s \in Seq(Entry), Len(s) = CacheSize, NEW m \in Nat,
         Ordered(s), Distinct(s), \A k \in 1..CacheSize : s[k].generation < m,
         NEW i \in 1..CacheSize, NEW e \in Entry, e.generation = m,
         NEW c, DOMAIN c = 1..CacheSize,
         \A k \in 1..CacheSize : c[k] = IF k = i THEN e ELSE s[k]
  PROVE  /\ BubbleDown(c, i) \in Seq(Entry) /\ Len(BubbleDown(c, i)) = CacheSize
         /\ Ordered(BubbleDown(c, i)) /\ Distinct(BubbleDown(c, i))
         /\ \A k \in 1..CacheSize : BubbleDown(c, i)[k].generation < m + 1
<1> DEFINE d == BubbleDown(c, i)
<1>1. /\ DOMAIN s = 1..CacheSize /\ \A k \in 1..CacheSize : s[k] \in Entry
  OBVIOUS
<1>2. /\ \A k \in 1..CacheSize : c[k] \in Entry
      /\ Generations(s) /\ Generations(c)
  BY <1>1 DEF Generations, Entry
<1>3. Distinct(c)
  BY <1>1, <1>2 DEF Distinct, Generations
<1>4. \A k \in 1..CacheSize \ {i} : c[k] = s[k] /\ c[k].generation < c[i].generation
  BY <1>1
<1>5. Ordered(d)
  BY <1>1, <1>2, <1>3, <1>4, BubbleOrders
<1>6. /\ DOMAIN d = 1..CacheSize
      /\ \A k \in 1..CacheSize : From(c, i, k) \in 1..CacheSize /\ d[k] = c[From(c, i, k)]
      /\ \A j, k \in 1..CacheSize : From(c, i, j) = From(c, i, k) => j = k
  BY <1>1, BubbleMoves
<1>7. \A k \in 1..CacheSize :
        /\ d[k] \in Entry
        /\ d[k].generation = m \/ d[k].generation < m
  BY <1>1, <1>2, <1>6
<1>8. d = [k \in 1..CacheSize |-> d[k]]
  BY <1>6 DEF BubbleDown
<1> HIDE DEF d
<1>9. d \in Seq(Entry) /\ Len(d) = CacheSize
  <2>1. d \in [1..CacheSize -> Entry] /\ CacheSize \in Nat
    BY <1>6, <1>7, <1>8, CacheSizeAssumption
  <2>2. d \in Seq(Entry)
    BY <2>1, SeqDef
  <2> QED
    BY <1>6, <2>1, <2>2, LenProperties
<1>10. Distinct(d)
  <2>1. ASSUME NEW j \in 1..CacheSize, NEW k \in 1..CacheSize, d[j].generation = d[k].generation
        PROVE  j = k
    <3>1. c[From(c, i, j)].generation = c[From(c, i, k)].generation
      BY <1>6, <2>1
    <3>2. From(c, i, j) = From(c, i, k)
      BY <1>3, <1>6, <3>1 DEF Distinct
    <3> QED
      BY <1>6, <3>2
  <2> QED
    BY <1>6, <2>1 DEF Distinct
<1>11. ASSUME NEW k \in 1..CacheSize
       PROVE  d[k].generation < m + 1
  <2>1. d[k].generation = m \/ d[k].generation < m
    BY <1>6, <1>7
  <2>2. d[k].generation \in Nat
    BY <1>7 DEF Entry
  <2> QED
    BY <2>1, <2>2
<1> QED
  BY <1>5, <1>9, <1>10, <1>11 DEF d

\* A new entry behind the last one of a cache that is not full: it is newer than
\* all others, so newer than its parent.
LEMMA Appended ==
  ASSUME NEW s \in Seq(Entry), NEW m \in Nat,
         Ordered(s), Distinct(s), \A k \in 1..Len(s) : s[k].generation < m,
         NEW e \in Entry, e.generation = m
  PROVE  LET d == Append(s, e)
         IN  /\ d \in Seq(Entry) /\ Len(d) = Len(s) + 1
             /\ Ordered(d) /\ Distinct(d)
             /\ \A k \in 1..Len(d) : d[k].generation < m + 1
<1> DEFINE d == Append(s, e)
<1>1. /\ d \in Seq(Entry) /\ Len(d) = Len(s) + 1
      /\ \A k \in 1..Len(s) : d[k] = s[k]
      /\ d[Len(s) + 1] = e
  OBVIOUS
<1>2. Len(s) \in Nat /\ DOMAIN s = 1..Len(s) /\ DOMAIN d = 1..(Len(s) + 1)
  BY <1>1
<1> HIDE DEF d
<1>3. \A k \in DOMAIN d : d[k].generation \in Nat
  <2>1. \A k \in DOMAIN d : d[k] \in Entry
    BY <1>1, <1>2
  <2> QED
    BY <2>1 DEF Entry
<1>4. ASSUME NEW k \in DOMAIN d \ {1}
      PROVE  d[k \div 2].generation < d[k].generation
  <2>1. k \div 2 \in 1..Len(s) /\ k \div 2 < k
    BY <1>2, Half
  <2>2. CASE k \in 1..Len(s)
    BY <1>1, <1>2, <2>1, <2>2 DEF Ordered
  <2>3. CASE k = Len(s) + 1
    BY <1>1, <2>1, <2>3
  <2> QED
    BY <1>2, <2>2, <2>3
<1>5. Distinct(d)
  <2> SUFFICES ASSUME NEW j \in 1..(Len(s) + 1), NEW k \in 1..(Len(s) + 1),
                      d[j].generation = d[k].generation
               PROVE  j = k
    BY <1>2 DEF Distinct
  <2>1. CASE j \in 1..Len(s) /\ k \in 1..Len(s)
    BY <1>1, <1>2, <2>1 DEF Distinct
  <2>2. CASE j = Len(s) + 1 /\ k \in 1..Len(s)
    BY <1>1, <1>2, <1>3, <2>2
  <2>3. CASE j \in 1..Len(s) /\ k = Len(s) + 1
    BY <1>1, <1>2, <1>3, <2>3
  <2> QED
    BY <1>2, <2>1, <2>2, <2>3
<1>6. \A k \in 1..Len(d) : d[k].generation < m + 1
  BY <1>1, <1>2, <1>3
<1> QED
  BY <1>1, <1>4, <1>5, <1>6 DEF Ordered, d

-----------------------------------------------------------------------------
\* What a search of the list gives for each tag.
Levels == [t \in Tag |-> Uncached(t)]

\* No other address holds the text of tag t.
Sole(t) == \A u \in Tag \ {t} : Text[u] # Text[t]

\* A cache c that has each tag once, and the levels lv.
Current(c, lv) ==
  /\ \A j, k \in DOMAIN c : c[j].tag = c[k].tag => j = k
  /\ \A k \in DOMAIN c : Sole(c[k].tag) => c[k].level = lv[c[k].tag]

\* CachedIsCurrent, said of positions.
LEMMA CurrentIff ==
  ASSUME TypeOK
  PROVE  CachedIsCurrent <=> Current(s_log_cache, Levels)
<1>1. \A i \in DOMAIN s_log_cache : s_log_cache[i].tag \in Tag
  <2>1. \A i \in DOMAIN s_log_cache : s_log_cache[i] \in Entry
    BY DEF TypeOK
  <2> QED
    BY <2>1 DEF Entry
<1>2. \A i \in DOMAIN s_log_cache : Uncached(s_log_cache[i].tag) = Levels[s_log_cache[i].tag]
  BY <1>1 DEF Levels
<1> QED
  BY <1>1, <1>2 DEF CachedIsCurrent, Current, Cached, Sole

\* The moves of heap_bubble_down leave the cache current.
LEMMA BubbleKeepsCurrent ==
  ASSUME NEW c, DOMAIN c = 1..CacheSize, NEW i \in 1..CacheSize, NEW lv, Current(c, lv)
  PROVE  Current(BubbleDown(c, i), lv)
<1> DEFINE d == BubbleDown(c, i)
<1>1. /\ DOMAIN d = 1..CacheSize
      /\ \A k \in 1..CacheSize : From(c, i, k) \in 1..CacheSize /\ d[k] = c[From(c, i, k)]
      /\ \A j, k \in 1..CacheSize : From(c, i, j) = From(c, i, k) => j = k
  BY BubbleMoves
<1> HIDE DEF d
<1>2. Current(d, lv)
  BY <1>1 DEF Current
<1> QED
  BY <1>2 DEF d

\* The inductive invariant.  The order of the heap is kept only if no generation
\* was handed out twice: of two children of the same age the loop takes the
\* right one and would put it above an entry that is not younger.
IInv ==
  /\ TypeOK
  /\ HeapOrder
  /\ Distinct(s_log_cache)
  /\ CachedIsCurrent

LEMMA HeapOrderIff ==
  ASSUME TypeOK
  PROVE  HeapOrder <=> /\ \A k \in 1..Len(s_log_cache) : s_log_cache[k].generation < max_generation
                       /\ Ordered(s_log_cache)
BY DEF TypeOK, HeapOrder, Ordered

\* A lookup that finds the tag.
LEMMA HitKeepsInvariant ==
  ASSUME IInv, NEW t \in Tag, Hit(t), UNCHANGED <<s_log_tags, default_level>>
  PROVE  IInv'
<1>1. PICK i \in Cached(t) :
        /\ s_log_cache' = IF Full
                            THEN BubbleDown([s_log_cache EXCEPT ![i].generation = max_generation], i)
                            ELSE s_log_cache
        /\ max_generation' = IF Full THEN max_generation + 1 ELSE max_generation
  BY DEF Hit
<1> DEFINE s == s_log_cache
           m == max_generation
           e == [s[i] EXCEPT !.generation = m]
           c == [s EXCEPT ![i] = e]
<1>2. /\ s \in Seq(Entry) /\ Len(s) <= CacheSize /\ m \in Nat
      /\ i \in 1..Len(s) /\ s[i] \in Entry
      /\ DOMAIN s = 1..Len(s)
  BY DEF IInv, TypeOK, Cached
<1>3. e \in Entry /\ e.generation = m /\ e.tag = s[i].tag /\ e.level = s[i].level
  BY <1>2 DEF Entry
<1>4. Levels' = Levels
  BY DEF Levels, Uncached
<1>5. CASE ~Full
  <2>1. UNCHANGED vars
    BY <1>1, <1>5 DEF vars
  <2> QED
    BY <2>1 DEF vars, IInv, TypeOK, HeapOrder, Distinct, CachedIsCurrent, Cached, Uncached
<1>6. CASE Full
  <2>1. s_log_cache' = BubbleDown(c, i) /\ max_generation' = m + 1
    BY <1>1, <1>6
  <2>2. Len(s) = CacheSize
    BY <1>6 DEF Full
  <2>3. /\ Ordered(s) /\ Distinct(s) /\ \A k \in 1..CacheSize : s[k].generation < m
        /\ Current(s, Levels)
    BY <2>2, HeapOrderIff, CurrentIff DEF IInv
  <2> HIDE DEF e
  <2>4. i \in 1..CacheSize /\ DOMAIN c = 1..CacheSize
        /\ \A k \in 1..CacheSize : c[k] = IF k = i THEN e ELSE s[k]
    BY <1>2, <2>2
  <2> HIDE DEF c
  <2>5. /\ BubbleDown(c, i) \in Seq(Entry) /\ Len(BubbleDown(c, i)) = CacheSize
        /\ Ordered(BubbleDown(c, i)) /\ Distinct(BubbleDown(c, i))
        /\ \A k \in 1..CacheSize : BubbleDown(c, i)[k].generation < m + 1
    BY <1>2, <1>3, <2>2, <2>3, <2>4, Replacement
  <2>6. Current(c, Levels)
    BY <1>2, <1>3, <2>2, <2>3, <2>4 DEF Current
  <2>7. Current(BubbleDown(c, i), Levels)
    BY <2>4, <2>6, BubbleKeepsCurrent
  <2>8. TypeOK'
    BY <1>2, <2>1, <2>5 DEF IInv, TypeOK
  <2>9. HeapOrder'
    BY <2>1, <2>5, <2>8 DEF HeapOrder, Ordered, TypeOK
  <2>10. CachedIsCurrent'
    <3>1. Current(s_log_cache, Levels)'
      BY <1>4, <2>1, <2>7 DEF Current, Sole
    <3> QED
      BY <2>8, <3>1, CurrentIff, PTL
  <2> QED
    BY <2>1, <2>5, <2>8, <2>9, <2>10 DEF IInv, Distinct
<1> QED
  BY <1>5, <1>6

\* A lookup that does not find the tag.
LEMMA MissKeepsInvariant ==
  ASSUME IInv, NEW t \in Tag, Cached(t) = {}, AddToCache(t),
         max_generation' = max_generation + 1, UNCHANGED <<s_log_tags, default_level>>
  PROVE  IInv'
<1> DEFINE s == s_log_cache
           m == max_generation
           e == [tag |-> t, level |-> Uncached(t), generation |-> m]
           c == [s EXCEPT ![1] = e]
<1>1. /\ s \in Seq(Entry) /\ Len(s) <= CacheSize /\ Len(s) \in Nat /\ m \in Nat
      /\ DOMAIN s = 1..Len(s)
  BY DEF IInv, TypeOK
<1>2. e \in Entry /\ e.generation = m /\ e.tag = t /\ e.level = Levels[t]
  <2>1. Uncached(t) \in Level
    BY DEF IInv, TypeOK, Uncached
  <2> QED
    BY <1>1, <2>1 DEF Entry, Levels
<1>3. Levels' = Levels
  BY DEF Levels, Uncached
<1>4. /\ Ordered(s) /\ Distinct(s) /\ \A k \in 1..Len(s) : s[k].generation < m
      /\ Current(s, Levels)
      /\ \A k \in 1..Len(s) : s[k].tag # t
  BY <1>1, HeapOrderIff, CurrentIff DEF IInv, Cached
<1>5. s_log_cache' = IF Full THEN BubbleDown(c, 1) ELSE Append(s, e)
  BY DEF AddToCache
<1> HIDE DEF e
<1>6. CASE ~Full
  <2> DEFINE d == Append(s, e)
  <2>1. s_log_cache' = d /\ Len(s) < CacheSize
    <3>1. Len(s) # CacheSize
      BY <1>6 DEF Full
    <3>2. Len(s) <= CacheSize /\ Len(s) \in Nat /\ CacheSize \in Nat
      BY <1>1, CacheSizeAssumption
    <3>3. Len(s) < CacheSize
      BY <3>1, <3>2
    <3> QED
      BY <1>5, <1>6, <3>3
  <2>2. /\ d \in Seq(Entry) /\ Len(d) = Len(s) + 1
        /\ Ordered(d) /\ Distinct(d)
        /\ \A k \in 1..Len(d) : d[k].generation < m + 1
    BY <1>1, <1>2, <1>4, Appended
  <2>3. /\ DOMAIN d = 1..(Len(s) + 1)
        /\ \A k \in 1..Len(s) : d[k] = s[k]
        /\ d[Len(s) + 1] = e
    BY <1>1, <1>2
  <2> HIDE DEF d
  <2>4. Current(d, Levels)
    BY <1>1, <1>2, <1>4, <2>3 DEF Current
  <2>5. TypeOK'
    BY <1>1, <2>1, <2>2, CacheSizeAssumption DEF IInv, TypeOK
  <2>6. HeapOrder'
    BY <2>1, <2>2, <2>5 DEF HeapOrder, Ordered, TypeOK
  <2>7. CachedIsCurrent'
    <3>1. Current(s_log_cache, Levels)'
      BY <1>3, <2>1, <2>4 DEF Current, Sole
    <3> QED
      BY <2>5, <3>1, CurrentIff, PTL
  <2> QED
    BY <2>1, <2>2, <2>5, <2>6, <2>7 DEF IInv, Distinct
<1>7. CASE Full
  <2>1. s_log_cache' = BubbleDown(c, 1) /\ Len(s) = CacheSize /\ 1 \in 1..CacheSize
    BY <1>5, <1>7, CacheSizeAssumption DEF Full
  <2>2. DOMAIN c = 1..CacheSize /\ \A k \in 1..CacheSize : c[k] = IF k = 1 THEN e ELSE s[k]
    BY <1>1, <2>1
  <2> HIDE DEF c
  <2>3. /\ BubbleDown(c, 1) \in Seq(Entry) /\ Len(BubbleDown(c, 1)) = CacheSize
        /\ Ordered(BubbleDown(c, 1)) /\ Distinct(BubbleDown(c, 1))
        /\ \A k \in 1..CacheSize : BubbleDown(c, 1)[k].generation < m + 1
    BY <1>1, <1>2, <1>4, <2>1, <2>2, Replacement
  <2>4. Current(c, Levels)
    BY <1>1, <1>2, <1>4, <2>1, <2>2 DEF Current
  <2>5. Current(BubbleDown(c, 1), Levels)
    BY <2>1, <2>2, <2>4, BubbleKeepsCurrent
  <2>6. TypeOK'
    BY <1>1, <2>1, <2>3 DEF IInv, TypeOK
  <2>7. HeapOrder'
    BY <2>1, <2>3, <2>6 DEF HeapOrder, Ordered, TypeOK
  <2>8. CachedIsCurrent'
    <3>1. Current(s_log_cache, Levels)'
      BY <1>3, <2>1, <2>5 DEF Current, Sole
    <3> QED
      BY <2>6, <3>1, CurrentIff, PTL
  <2> QED
    BY <2>1, <2>3, <2>6, <2>7, <2>8 DEF IInv, Distinct
<1> QED
  BY <1>6, <1>7

\* A level is set: in the list, and in the first cached entry with this text,
\* which is the only one if the text is at one address.
LEMMA LevelSetKeepsInvariant ==
  ASSUME IInv, NEW x \in Settable, NEW l \in Level, LevelSet(x, l)
  PROVE  IInv'
<1> DEFINE s == s_log_cache
<1>1. /\ s \in Seq(Entry) /\ Len(s) <= CacheSize /\ Len(s) \in Nat
      /\ DOMAIN s = 1..Len(s) /\ \A k \in 1..Len(s) : s[k] \in Entry
      /\ Current(s, Levels)
  BY CurrentIff DEF IInv, TypeOK
<1>2. /\ DOMAIN s_log_cache' = 1..Len(s)
      /\ \A k \in 1..Len(s) :
           /\ s_log_cache'[k] \in Entry
           /\ s_log_cache'[k].tag = s[k].tag
           /\ s_log_cache'[k].generation = s[k].generation
           /\ s_log_cache'[k].level = IF k \in FirstWithText(x) THEN l ELSE s[k].level
  BY <1>1 DEF LevelSet, Entry
<1>3. s_log_cache' \in Seq(Entry) /\ Len(s_log_cache') = Len(s)
  <2>1. s_log_cache' \in [1..Len(s) -> Entry]
    BY <1>1, <1>2 DEF LevelSet
  <2>2. s_log_cache' \in Seq(Entry)
    BY <1>1, <2>1, SeqDef
  <2> QED
    BY <1>1, <1>2, <2>2, LenProperties
<1>4. s_log_tags' = [s_log_tags EXCEPT ![x] = l] /\ UNCHANGED <<default_level, max_generation>>
  BY DEF LevelSet
<1>5. TypeOK'
  BY <1>1, <1>3, <1>4 DEF IInv, TypeOK
<1>6. HeapOrder' /\ Distinct(s_log_cache)'
  BY <1>1, <1>2, <1>4, Half DEF IInv, TypeOK, HeapOrder, Distinct
<1>7. \A t \in Tag : Levels'[t] = IF Text[t] = x THEN l ELSE Levels[t]
  BY <1>4, LevelAssumption DEF IInv, TypeOK, Levels, Uncached
<1>8. ASSUME NEW k \in 1..Len(s), Sole(s[k].tag)
      PROVE  s_log_cache'[k].level = Levels'[s[k].tag]
  <2>1. s[k].tag \in Tag
    BY <1>1 DEF Entry
  <2>2. CASE Text[s[k].tag] = x
    <3>1. ASSUME NEW j \in 1..(k - 1)
          PROVE  Text[s[j].tag] # x
      <4>1. j \in 1..Len(s) /\ j # k
        BY <1>1
      <4>2. s[j].tag \in Tag /\ s[j].tag # s[k].tag
        BY <1>1, <4>1 DEF Current, Entry
      <4> QED
        BY <1>8, <2>2, <4>2 DEF Sole
    <3>2. k \in FirstWithText(x)
      BY <1>1, <2>2, <3>1 DEF FirstWithText
    <3> QED
      BY <1>2, <1>7, <2>1, <2>2, <3>2
  <2>3. CASE Text[s[k].tag] # x
    <3>1. k \notin FirstWithText(x)
      BY <2>3 DEF FirstWithText
    <3>2. s_log_cache'[k].level = s[k].level
      BY <1>2, <3>1
    <3>3. s[k].level = Levels[s[k].tag]
      BY <1>1, <1>8 DEF Current
    <3> QED
      BY <1>7, <2>1, <2>3, <3>2, <3>3
  <2> QED
    BY <2>2, <2>3
<1>9. CachedIsCurrent'
  <2>1. Current(s_log_cache, Levels)'
    BY <1>1, <1>2, <1>8 DEF Current, Sole
  <2> QED
    BY <1>5, <2>1, CurrentIff, PTL
<1> QED
  BY <1>5, <1>6, <1>9 DEF IInv

\* The invariant of the log cache.
THEOREM LogCacheInvariance == Spec => []IInv
<1>1. Init => IInv
  <2> SUFFICES ASSUME Init
               PROVE  IInv
    OBVIOUS
  <2>1. s_log_cache = <<>> /\ DOMAIN s_log_cache = {} /\ Len(s_log_cache) = 0
    BY DEF Init
  <2>2. TypeOK
    BY <2>1, CacheSizeAssumption, LevelAssumption DEF Init, TypeOK
  <2> QED
    BY <2>1, <2>2 DEF IInv, HeapOrder, Distinct, CachedIsCurrent
<1>2. IInv /\ [Next]_vars => IInv'
  <2> SUFFICES ASSUME IInv, [Next]_vars
               PROVE  IInv'
    OBVIOUS
  <2>1. ASSUME NEW t \in Tag, LevelGet(t)
        PROVE  IInv'
    BY <2>1, HitKeepsInvariant, MissKeepsInvariant DEF LevelGet
  <2>2. ASSUME NEW l \in Level, LevelSetAll(l)
        PROVE  IInv'
    <3>1. s_log_cache' = <<>> /\ DOMAIN s_log_cache' = {} /\ Len(s_log_cache') = 0
      BY <2>2 DEF LevelSetAll
    <3>2. TypeOK'
      BY <2>2, <3>1, CacheSizeAssumption DEF LevelSetAll, IInv, TypeOK
    <3> QED
      BY <3>1, <3>2 DEF IInv, HeapOrder, Distinct, CachedIsCurrent
  <2>3. ASSUME NEW x \in Settable, NEW l \in Level, LevelSet(x, l)
        PROVE  IInv'
    BY <2>3, LevelSetKeepsInvariant
  <2>4. CASE UNCHANGED vars
    BY <2>4 DEF vars, IInv, TypeOK, HeapOrder, Distinct, CachedIsCurrent, Cached, Uncached
  <2> QED
    BY <2>1, <2>2, <2>3, <2>4 DEF Next
<1> QED
  BY <1>1, <1>2, PTL DEF Spec

\* The assertions of get_cached_log_level and esp_log_level_set hold for a cache
\* of any size.
THEOREM HeapOrderHolds == Spec => []HeapOrder
BY LogCacheInvariance, PTL DEF IInv

\* A level that was set is never hidden by the cache.
THEOREM CachedIsCurrentHolds == Spec => []CachedIsCurrent
BY LogCacheInvariance, PTL DEF IInv

-----------------------------------------------------------------------------
\* The first entry of an ordered heap is older than all others: an entry for
\* which this fails has a parent for which it fails.
LEMMA FirstIsOldest ==
  ASSUME NEW c, NEW n \in Nat, DOMAIN c = 1..n, Generations(c), Ordered(c)
  PROVE  \A k \in 2..n : c[1].generation < c[k].generation
<1> DEFINE T == {k \in Nat : k \in 2..n /\ ~(c[1].generation < c[k].generation)}
<1>1. SUFFICES ASSUME T # {}
               PROVE  FALSE
  OBVIOUS
<1>2. PICK k \in T : \A j \in T : ~(<<j, k>> \in OpToRel(<, Nat))
  <2>1. PICK x \in T : TRUE
    BY <1>1
  <2>2. T \subseteq Nat /\ x \in T
    OBVIOUS
  <2> HIDE DEF T
  <2> QED
    BY <2>2, NatLessThanWellFounded, WFMin
<1>3. k \in 2..n /\ ~(c[1].generation < c[k].generation)
  OBVIOUS
<1>4. k \div 2 \in 1..n /\ k \div 2 < k /\ c[k \div 2].generation < c[k].generation
  <2>1. k \div 2 \in 1..n /\ k \div 2 < k
    BY <1>3, Half
  <2>2. k \in DOMAIN c \ {1}
    BY <1>3
  <2> QED
    BY <2>1, <2>2 DEF Ordered
<1>5. k \div 2 \notin T
  BY <1>2, <1>4 DEF OpToRel
<1>6. k \div 2 = 1 \/ c[1].generation < c[k \div 2].generation
  BY <1>4, <1>5
<1> QED
  BY <1>3, <1>4, <1>6 DEF Generations

\* Bubbling down loses no entry: each one is found somewhere afterwards.
LEMMA BubbleLosesNothing ==
  ASSUME NEW c, DOMAIN c = 1..CacheSize, NEW i \in 1..CacheSize, NEW j \in 1..CacheSize
  PROVE  \E k \in 1..CacheSize : BubbleDown(c, i)[k] = c[j]
<1> DEFINE P == Path(c, i)
<1>1. /\ i \in P /\ P \subseteq i..CacheSize
      /\ \A k \in P : k <= CacheSize \div 2 => Next2(c, k) \in P
      /\ \A k \in P \ {i} : k \div 2 \in P /\ k = Next2(c, k \div 2)
  BY PathProperties
<1>2. \A k \in 1..CacheSize : BubbleDown(c, i)[k] = c[From(c, i, k)]
  BY BubbleMoves
<1> SUFFICES \E k \in 1..CacheSize : From(c, i, k) = j
  BY <1>2
<1>3. CASE j \notin P
  BY <1>3 DEF From
<1>4. CASE j \in P /\ j # i
  <2>1. j \div 2 \in 1..CacheSize /\ j \div 2 <= CacheSize \div 2
    BY <1>1, <1>4, Half, CacheSizeAssumption
  <2> QED
    BY <1>1, <1>4, <2>1 DEF From
<1>5. CASE j = i
  <2> DEFINE T == {d \in Nat : CacheSize - d \in P}
  <2>1. CacheSize - i \in T
    BY <1>1, CacheSizeAssumption
  <2>2. PICK d \in T : \A x \in T : ~(<<x, d>> \in OpToRel(<, Nat))
    <3>1. PICK y \in T : TRUE
      BY <2>1
    <3>2. T \subseteq Nat /\ y \in T
      OBVIOUS
    <3> HIDE DEF T
    <3> QED
      BY <3>2, NatLessThanWellFounded, WFMin
  <2> DEFINE k == CacheSize - d
  <2>3. k \in P /\ k \in 1..CacheSize /\ d \in Nat
    BY <1>1
  <2>4. ~(k <= CacheSize \div 2)
    <3> SUFFICES ASSUME k <= CacheSize \div 2
                 PROVE  FALSE
      OBVIOUS
    <3>1. Next2(c, k) \in P /\ Next2(c, k) \in {2 * k, 2 * k + 1} /\ Next2(c, k) \in 1..CacheSize
      BY <1>1, <2>3, Children
    <3>2. CacheSize - Next2(c, k) \in T /\ CacheSize - Next2(c, k) < d
      BY <2>3, <3>1, CacheSizeAssumption
    <3> QED
      BY <2>1, <2>2, <3>2 DEF OpToRel
  <2>5. From(c, i, k) = i
    BY <2>3, <2>4 DEF From
  <2> QED
    BY <1>5, <2>3, <2>5
<1> QED
  BY <1>3, <1>4, <1>5

\* So the tags stay the same.
LEMMA BubbleKeepsTags ==
  ASSUME NEW c, DOMAIN c = 1..CacheSize, NEW i \in 1..CacheSize
  PROVE  /\ DOMAIN BubbleDown(c, i) = 1..CacheSize
         /\ \A x : (\E k \in 1..CacheSize : x = BubbleDown(c, i)[k].tag)
                   <=> (\E k \in 1..CacheSize : x = c[k].tag)
<1> DEFINE d == BubbleDown(c, i)
           src(k) == From(c, i, k)
<1>1. /\ DOMAIN d = 1..CacheSize
      /\ \A k \in 1..CacheSize : src(k) \in 1..CacheSize /\ d[k] = c[src(k)]
  BY BubbleMoves
<1>2. \A j \in 1..CacheSize : \E k \in 1..CacheSize : d[k] = c[j]
  BY BubbleLosesNothing
<1> HIDE DEF d, src
<1>3. \A x : (\E k \in 1..CacheSize : x = d[k].tag) <=> (\E k \in 1..CacheSize : x = c[k].tag)
  <2>1. ASSUME NEW x, NEW k \in 1..CacheSize, x = d[k].tag
        PROVE  \E j \in 1..CacheSize : x = c[j].tag
    BY <1>1, <2>1
  <2>2. ASSUME NEW x, NEW j \in 1..CacheSize, x = c[j].tag
        PROVE  \E k \in 1..CacheSize : x = d[k].tag
    BY <1>2, <2>2
  <2> QED
    BY <2>1, <2>2
<1> QED
  BY <1>1, <1>3 DEF d

CachedTags == {s_log_cache[i].tag : i \in DOMAIN s_log_cache}

\* A lookup leaves every tag in the cache and adds its own, but when it misses in
\* a full cache it takes out one tag: that of the oldest entry.
LookupKeepsTags ==
  \A t \in Tag :
    LevelGet(t) =>
      IF Full /\ Cached(t) = {}
      THEN \E i \in DOMAIN s_log_cache :
             /\ \A j \in DOMAIN s_log_cache \ {i} :
                  s_log_cache[i].generation < s_log_cache[j].generation
             /\ CachedTags' = (CachedTags \ {s_log_cache[i].tag}) \cup {t}
      ELSE CachedTags' = CachedTags \cup {t}

\* The entry that add_to_cache overwrites is the one looked up longest ago, and
\* no other one is lost by a lookup, in a cache of any size.
THEOREM OldestIsReplaced == Spec => [][LookupKeepsTags]_vars
<1>1. ASSUME IInv, NEW t \in Tag, LevelGet(t)
      PROVE  IF Full /\ Cached(t) = {}
             THEN \E i \in DOMAIN s_log_cache :
                    /\ \A j \in DOMAIN s_log_cache \ {i} :
                         s_log_cache[i].generation < s_log_cache[j].generation
                    /\ CachedTags' = (CachedTags \ {s_log_cache[i].tag}) \cup {t}
             ELSE CachedTags' = CachedTags \cup {t}
  <2> DEFINE s == s_log_cache
  <2>1. /\ s \in Seq(Entry) /\ Len(s) <= CacheSize /\ Len(s) \in Nat
        /\ DOMAIN s = 1..Len(s)
        /\ Ordered(s) /\ Current(s, Levels) /\ Generations(s)
    <3>1. \A k \in DOMAIN s : s[k] \in Entry
      BY <1>1 DEF IInv, TypeOK
    <3>2. Generations(s)
      BY <3>1 DEF Generations, Entry
    <3> QED
      BY <1>1, <3>2, HeapOrderIff, CurrentIff DEF IInv, TypeOK
  <2>2. CASE Hit(t)
    <3>1. PICK i \in Cached(t) :
            s_log_cache' = IF Full
                            THEN BubbleDown([s EXCEPT ![i].generation = max_generation], i)
                            ELSE s
      BY <2>2 DEF Hit
    <3>2. i \in 1..Len(s) /\ s[i].tag = t /\ Cached(t) # {}
      BY <2>1 DEF Cached
    <3>3. CASE ~Full
      BY <2>1, <3>1, <3>2, <3>3 DEF CachedTags
    <3>4. CASE Full
      <4> DEFINE c == [s EXCEPT ![i].generation = max_generation]
      <4>1. /\ Len(s) = CacheSize /\ i \in 1..CacheSize /\ DOMAIN c = 1..CacheSize
            /\ \A k \in 1..CacheSize : c[k].tag = s[k].tag
        BY <2>1, <3>2, <3>4 DEF Full, Entry
      <4>2. s_log_cache' = BubbleDown(c, i)
        BY <3>1, <3>4
      <4> HIDE DEF c
      <4>3. CachedTags' = {c[k].tag : k \in 1..CacheSize}
        <5>1. /\ DOMAIN s_log_cache' = 1..CacheSize
              /\ \A x : (\E k \in 1..CacheSize : x = s_log_cache'[k].tag)
                        <=> (\E k \in 1..CacheSize : x = c[k].tag)
          <6>1. i \in 1..CacheSize /\ DOMAIN c = 1..CacheSize
            BY <4>1
          <6>2. /\ DOMAIN BubbleDown(c, i) = 1..CacheSize
                /\ \A x : (\E k \in 1..CacheSize : x = BubbleDown(c, i)[k].tag)
                          <=> (\E k \in 1..CacheSize : x = c[k].tag)
            BY <6>1, BubbleKeepsTags, Zenon
          <6> QED
            BY <4>2, <6>2
        <5>2. CachedTags' = {s_log_cache'[k].tag : k \in 1..CacheSize}
          BY <5>1 DEF CachedTags
        <5>3. \A x : x \in CachedTags' <=> \E k \in 1..CacheSize : x = c[k].tag
          BY <5>1, <5>2
        <5> QED
          BY <5>3
      <4>4. CachedTags' = CachedTags
        <5>1. CachedTags = {s[k].tag : k \in 1..CacheSize}
          BY <2>1, <4>1 DEF CachedTags
        <5> QED
          BY <4>1, <4>3, <5>1
      <4> QED
        BY <2>1, <3>2, <4>4 DEF CachedTags
    <3> QED
      BY <3>3, <3>4
  <2>3. CASE Cached(t) = {} /\ AddToCache(t)
    <3> DEFINE e == [tag |-> t, level |-> Uncached(t), generation |-> max_generation]
    <3>1. s_log_cache' = IF Full THEN BubbleDown([s EXCEPT ![1] = e], 1) ELSE Append(s, e)
      BY <2>3 DEF AddToCache
    <3>2. e.tag = t
      OBVIOUS
    <3> HIDE DEF e
    <3>3. CASE ~Full
      <4>1. /\ DOMAIN s_log_cache' = 1..(Len(s) + 1)
            /\ \A k \in 1..Len(s) : s_log_cache'[k] = s[k]
            /\ s_log_cache'[Len(s) + 1] = e
        BY <2>1, <3>1, <3>3
      <4>2. CachedTags' = CachedTags \cup {t}
        BY <2>1, <3>2, <4>1 DEF CachedTags
      <4> QED
        BY <3>3, <4>2
    <3>4. CASE Full
      <4> DEFINE c == [s EXCEPT ![1] = e]
      <4>1. /\ Len(s) = CacheSize /\ 1 \in 1..CacheSize /\ DOMAIN c = 1..CacheSize
            /\ \A k \in 1..CacheSize : c[k].tag = IF k = 1 THEN t ELSE s[k].tag
        BY <2>1, <3>2, <3>4, CacheSizeAssumption DEF Full
      <4>2. s_log_cache' = BubbleDown(c, 1)
        BY <3>1, <3>4
      <4> HIDE DEF c
      <4>3. CachedTags' = {c[k].tag : k \in 1..CacheSize}
        <5>1. /\ DOMAIN s_log_cache' = 1..CacheSize
              /\ \A x : (\E k \in 1..CacheSize : x = s_log_cache'[k].tag)
                        <=> (\E k \in 1..CacheSize : x = c[k].tag)
          <6>1. 1 \in 1..CacheSize /\ DOMAIN c = 1..CacheSize
            BY <4>1
          <6>2. /\ DOMAIN BubbleDown(c, 1) = 1..CacheSize
                /\ \A x : (\E k \in 1..CacheSize : x = BubbleDown(c, 1)[k].tag)
                          <=> (\E k \in 1..CacheSize : x = c[k].tag)
            BY <6>1, BubbleKeepsTags, Zenon
          <6> QED
            BY <4>2, <6>2
        <5>2. CachedTags' = {s_log_cache'[k].tag : k \in 1..CacheSize}
          BY <5>1 DEF CachedTags
        <5>3. \A x : x \in CachedTags' <=> \E k \in 1..CacheSize : x = c[k].tag
          BY <5>1, <5>2
        <5> QED
          BY <5>3
      <4>4. CachedTags' = (CachedTags \ {s[1].tag}) \cup {t}
        <5>1. \A k \in 1..CacheSize : k # 1 => s[k].tag # s[1].tag
          BY <2>1, <4>1 DEF Current
        <5>2. CachedTags = {s[k].tag : k \in 1..CacheSize}
          BY <2>1, <4>1 DEF CachedTags
        <5> QED
          BY <4>1, <4>3, <5>1, <5>2
      <4>5. \A k \in DOMAIN s \ {1} : s[1].generation < s[k].generation
        BY <2>1, FirstIsOldest
      <4> QED
        BY <2>1, <3>4, <2>3, <4>1, <4>4, <4>5
    <3> QED
      BY <3>3, <3>4
  <2> QED
    BY <1>1, <2>2, <2>3 DEF LevelGet
<1>2. IInv => LookupKeepsTags
  BY <1>1 DEF LookupKeepsTags
<1> QED
  BY <1>2, LogCacheInvariance, PTL
=============================================================================
