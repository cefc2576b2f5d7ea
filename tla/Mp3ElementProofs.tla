-------------------------- MODULE Mp3ElementProofs --------------------------
(***************************************************************************)
(* A clean stream plays to its last complete frame and no frame is put out *)
(* twice or out of order, for all streams, at a constant or a variable     *)
(* bitrate, in whatever pieces they are read, and every size of the buffer *)
(* and of the guess.                                                       *)
(*                                                                         *)
(* The invariant relates the window to the stream (Playing): the window    *)
(* holds the bytes of the stream that follow the Gone(s) ones before it,   *)
(* but for the first w, which are left from another stream or were wiped   *)
(* and do not look like a frame.  IsNext says that no frame was passed     *)
(* over, and Roomy that what process takes a frame to need is enough, and  *)
(* is within the window.                                                   *)
(***************************************************************************)
EXTENDS Mp3Element, SequenceTheorems, FiniteSetTheorems, WellFoundedInduction, TLAPS

-----------------------------------------------------------------------------
(* Numbers. *)

\* Min picks the least of some natural numbers.
LEMMA LeastOf ==
  ASSUME NEW X \in SUBSET Nat, X # {}
  PROVE  Min(X) \in X /\ \A y \in X : Min(X) <= y
<1>1. PICK x \in X : \A y \in X : ~(<<y, x>> \in OpToRel(<, Nat))
  BY NatLessThanWellFounded, WFMin
<1>2. \A y \in X : x <= y
  <2> SUFFICES ASSUME NEW y \in X, y < x
               PROVE  FALSE
    OBVIOUS
  <2>1. <<y, x>> \in OpToRel(<, Nat)
    BY DEF OpToRel
  <2> QED
    BY <1>1, <2>1
<1> QED
  BY <1>2 DEF Min

\* What holds of 0, and of i when it holds of i - 1, holds up to n.
LEMMA UpTo ==
  ASSUME NEW n \in Nat, NEW X, 0 \in X, \A i \in 1..n : i - 1 \in X => i \in X
  PROVE  \A i \in 0..n : i \in X
<1> DEFINE Y == {i \in 0..n : i \notin X}
<1> SUFFICES ASSUME Y # {}
             PROVE  FALSE
  OBVIOUS
<1>1. Y \in SUBSET Nat
  OBVIOUS
<1>2. Min(Y) \in Y /\ \A i \in Y : Min(Y) <= i
  <2> HIDE DEF Y
  <2> QED BY <1>1, LeastOf
<1> DEFINE y == Min(Y)
<1>3. y \in 0..n /\ y \notin X /\ \A i \in Y : y <= i
  BY <1>2
<1> HIDE DEF y
<1>4. y \in 1..n /\ y - 1 \in 0..n
  BY <1>3
<1>5. y - 1 \in X
  BY <1>3, <1>4
<1> QED BY <1>3, <1>4, <1>5

-----------------------------------------------------------------------------
(* Where the frames of a stream are. *)

Cell == {Junk} \cup (Nat \X Nat \X {l \in Nat : l >= HeadLen} \X Nat)

\* The sizes of the frames.
LEMMA FrameLens ==
  ASSUME NEW s \in Streams
  PROVE  /\ s.tag \in Nat /\ Len(s.pads) \in Nat \ {0}
         /\ DOMAIN s.pads = 1..Len(s.pads)
         /\ Len(s.sizes) = Len(s.pads) /\ DOMAIN s.sizes = 1..Len(s.pads)
         /\ \A f \in 1..Len(s.pads) :
              /\ s.sizes[f] \in Nat
              /\ FrameLen(s, f) \in Nat /\ FrameLen(s, f) >= HeadLen
         /\ s.cut \in 0..(FrameLen(s, Len(s.pads)) - 1)
<1>1. /\ s.tag \in Nat /\ s.ver \in {1, 2}
      /\ s.pads \in Seq({0, 1}) /\ Len(s.pads) > 0
      /\ s.sizes \in Seq(Nat) /\ Len(s.sizes) = Len(s.pads)
      /\ \A f \in DOMAIN s.sizes : s.sizes[f] \div s.ver >= HeadLen
  BY StreamsAssumption
<1>2. HeadLen \in Nat
  BY Mp3Assumption
<1>3. /\ Len(s.pads) \in Nat \ {0} /\ DOMAIN s.pads = 1..Len(s.pads)
      /\ DOMAIN s.sizes = 1..Len(s.pads)
      /\ \A f \in 1..Len(s.pads) : s.pads[f] \in {0, 1} /\ s.sizes[f] \in Nat
  BY <1>1
<1>4. \A f \in 1..Len(s.pads) : s.sizes[f] \div s.ver \in Int
  <2>1. CASE s.ver = 1
    BY <1>3, <2>1
  <2>2. CASE s.ver = 2
    BY <1>3, <2>2
  <2> QED BY <1>1, <2>1, <2>2
<1>5. \A f \in 1..Len(s.pads) : FrameLen(s, f) \in Nat /\ FrameLen(s, f) >= HeadLen
  <2> TAKE f \in 1..Len(s.pads)
  <2> DEFINE b == s.sizes[f] \div s.ver
  <2>1. b \in Int
    BY <1>4
  <2>2. b >= HeadLen /\ FrameLen(s, f) = b + s.pads[f]
    BY <1>1, <1>3 DEF FrameLen
  <2> HIDE DEF b
  <2>3. s.pads[f] \in {0, 1}
    BY <1>3
  <2> QED BY <1>2, <2>1, <2>2, <2>3
<1>6. s.cut \in 0..(FrameLen(s, Len(s.pads)) - 1)
  <2>1. s.cut \in 0..(s.sizes[Len(s.pads)] \div s.ver + s.pads[Len(s.pads)] - 1)
    BY StreamsAssumption, Zenon
  <2> DEFINE b == s.sizes[Len(s.pads)] \div s.ver
  <2>2. FrameLen(s, Len(s.pads)) = b + s.pads[Len(s.pads)]
    BY DEF FrameLen
  <2>3. Len(s.pads) \in 1..Len(s.pads)
    BY <1>3
  <2>4. b \in Int
    BY <1>4, <2>3
  <2>5. s.pads[Len(s.pads)] \in {0, 1}
    BY <1>3, <2>3
  <2> HIDE DEF b
  <2>6. b + (s.pads[Len(s.pads)] - 1) = FrameLen(s, Len(s.pads)) - 1
    BY <2>2, <2>4, <2>5
  <2> QED BY <2>1, <2>6 DEF b
<1> QED BY <1>1, <1>3, <1>5, <1>6

\* One frame further: the function that adds up the frames exists, as it does up to
\* each of them.
LEMMA BeforeNext ==
  ASSUME NEW s \in Streams
  PROVE  /\ Before(s, 1) = s.tag
         /\ \A f \in 1..(Len(s.pads) + 1) : Before(s, f) \in Nat
         /\ \A f \in 1..Len(s.pads) : Before(s, f + 1) = Before(s, f) + FrameLen(s, f)
<1> DEFINE n == Len(s.pads)
           L(g) == FrameLen(s, g)
           AddsUp(b, i) == b = [g \in 0..i |-> IF g = 0 THEN s.tag ELSE b[g - 1] + L(g)]
           X == {i \in 0..n : \E b : AddsUp(b, i)}
           upTo == CHOOSE b : AddsUp(b, n)
<1>1. n \in Nat /\ s.tag \in Nat /\ \A f \in 1..n : L(f) \in Nat
  BY FrameLens
<1>2. \A f : Before(s, f) = upTo[f - 1]
  BY DEF Before
<1> HIDE DEF n, L
<1>3. 0 \in X
  <2> DEFINE b == [g \in 0..0 |-> s.tag]
  <2>1. \A g \in 0..0 : g = 0
    OBVIOUS
  <2>2. b = [g \in 0..0 |-> IF g = 0 THEN s.tag ELSE b[g - 1] + L(g)]
    BY <2>1
  <2> HIDE DEF b
  <2> QED BY <1>1, <2>2
<1>4. ASSUME NEW i \in 1..n, i - 1 \in X
      PROVE  i \in X
  <2>1. PICK b : AddsUp(b, i - 1)
    BY <1>4
  <2> DEFINE c == [g \in 0..i |-> IF g = i THEN b[i - 1] + L(i) ELSE b[g]]
  <2>2. ASSUME NEW g \in 0..i
        PROVE  c[g] = IF g = 0 THEN s.tag ELSE c[g - 1] + L(g)
    <3>1. CASE g = i
      <4>1. i - 1 \in 0..i /\ i - 1 # i /\ i # 0
        BY <1>1
      <4> QED BY <3>1, <4>1
    <3>2. CASE g # i
      <4>1. g \in 0..(i - 1)
        BY <1>1, <3>2
      <4>2. c[g] = b[g] /\ b[g] = IF g = 0 THEN s.tag ELSE b[g - 1] + L(g)
        BY <2>1, <3>2, <4>1
      <4>3. g # 0 => g - 1 \in 0..i /\ g - 1 # i
        BY <1>1, <4>1
      <4> QED BY <4>2, <4>3
    <3> QED BY <3>1, <3>2
  <2>3. c = [g \in 0..i |-> c[g]]
    OBVIOUS
  <2> HIDE DEF c
  <2>4. AddsUp(c, i)
    BY <2>2, <2>3
  <2>5. i \in 0..n
    BY <1>1
  <2> HIDE DEF AddsUp
  <2> QED BY <2>4, <2>5
<1>5. n \in X
  <2> HIDE DEF X
  <2>1. \A i \in 0..n : i \in X
    BY <1>1, <1>3, <1>4, UpTo
  <2> QED BY <1>1, <2>1
<1>6. AddsUp(upTo, n)
  <2>1. \E b : AddsUp(b, n)
    BY <1>5
  <2> HIDE DEF AddsUp
  <2> QED BY <2>1
<1> HIDE DEF upTo
<1>7. \A g \in 0..n : upTo[g] = IF g = 0 THEN s.tag ELSE upTo[g - 1] + L(g)
  BY <1>6
<1>8. upTo[0] = s.tag /\ \A f \in 1..n : upTo[f] = upTo[f - 1] + L(f)
  BY <1>1, <1>7
<1> HIDE DEF X, AddsUp
<1>9. \A i \in 0..n : upTo[i] \in Nat
  <2> DEFINE Y == {i \in 0..n : upTo[i] \in Nat}
  <2>1. 0 \in Y
    BY <1>1, <1>8
  <2>2. ASSUME NEW i \in 1..n, i - 1 \in Y
        PROVE  i \in Y
    BY <1>1, <1>8, <2>2
  <2> HIDE DEF Y
  <2>3. \A i \in 0..n : i \in Y
    BY <1>1, <2>1, <2>2, UpTo
  <2> QED BY <2>3 DEF Y
<1>10. \A f \in 1..(n + 1) : Before(s, f) \in Nat
  BY <1>1, <1>2, <1>9
<1>11. \A f \in 1..n : Before(s, f + 1) = Before(s, f) + L(f)
  <2> TAKE f \in 1..n
  <2>1. f + 1 - 1 = f
    BY <1>1
  <2> QED BY <1>2, <1>8, <2>1
<1>12. Before(s, 1) = s.tag
  BY <1>2, <1>8
<1> QED BY <1>10, <1>11, <1>12 DEF n, L

\* Frames follow one another.
LEMMA BeforeGrows ==
  ASSUME NEW s \in Streams
  PROVE  /\ \A f \in 1..(Len(s.pads) + 1) : \A g \in f..(Len(s.pads) + 1) :
              Before(s, f) <= Before(s, g)
         /\ \A f \in 1..Len(s.pads) : \A g \in (f + 1)..(Len(s.pads) + 1) :
              Before(s, f) + FrameLen(s, f) <= Before(s, g)
<1> DEFINE n == Len(s.pads)
<1>1. n \in Nat /\ \A f \in 1..n : FrameLen(s, f) \in Nat
  BY FrameLens
<1>2. /\ \A f \in 1..(n + 1) : Before(s, f) \in Nat
      /\ \A f \in 1..n : Before(s, f + 1) = Before(s, f) + FrameLen(s, f)
  BY BeforeNext
<1> HIDE DEF n
<1>3. ASSUME NEW f \in 1..(n + 1), NEW g \in f..(n + 1)
      PROVE  Before(s, f) <= Before(s, g)
  <2> DEFINE m == n + 1 - f
             X == {k \in 0..m : Before(s, f) <= Before(s, f + k)}
  <2>1. m \in Nat /\ f \in Nat
    BY <1>1
  <2>2. 0 \in X
    BY <1>2, <2>1
  <2>3. ASSUME NEW k \in 1..m, k - 1 \in X
        PROVE  k \in X
    <3>1. f + (k - 1) \in 1..n /\ f + (k - 1) + 1 = f + k /\ f + k \in 1..(n + 1)
      BY <1>1, <2>1
    <3>2. Before(s, f + k) = Before(s, f + (k - 1)) + FrameLen(s, f + (k - 1))
      BY <1>2, <3>1
    <3>3. /\ Before(s, f) <= Before(s, f + (k - 1)) /\ FrameLen(s, f + (k - 1)) \in Nat
          /\ Before(s, f) \in Nat /\ Before(s, f + (k - 1)) \in Nat
      BY <1>1, <1>2, <2>3, <3>1
    <3>4. Before(s, f) <= Before(s, f + k)
      BY <3>2, <3>3
    <3> QED BY <2>1, <3>4
  <2>4. \A k \in 0..m : k \in X
    <3> HIDE DEF X, m
    <3> QED BY <2>1, <2>2, <2>3, UpTo
  <2>5. g - f \in 0..m /\ f + (g - f) = g
    BY <1>1, <2>1
  <2>6. g - f \in X
    <3> HIDE DEF X, m
    <3> QED BY <2>4, <2>5
  <2> HIDE DEF m
  <2>7. Before(s, f) <= Before(s, f + (g - f))
    BY <2>6
  <2> QED BY <2>5, <2>7
<1>4. ASSUME NEW f \in 1..n, NEW g \in (f + 1)..(n + 1)
      PROVE  Before(s, f) + FrameLen(s, f) <= Before(s, g)
  <2>1. f + 1 \in 1..(n + 1)
    BY <1>1
  <2>2. Before(s, f + 1) <= Before(s, g)
    BY <1>3, <2>1
  <2> QED BY <1>2, <2>2
<1> QED BY <1>3, <1>4 DEF n

\* The cells of a stream: the bytes before the first frame, and those of the
\* frames, as far as they are not cut off.
LEMMA CellsAre ==
  ASSUME NEW s \in Streams, NEW first \in Nat
  PROVE  LET c == Cells(s, first)
             k == Len(s.pads)
         IN  /\ c \in Seq(Cell) /\ Len(c) = Before(s, k + 1) - s.cut
             /\ Before(s, k) < Len(c) /\ s.tag < Len(c)
             /\ \A i \in 1..Len(c) : i <= s.tag => c[i] = Junk
             /\ \A f \in 1..k : \A i \in 1..FrameLen(s, f) : Before(s, f) + i <= Len(c) =>
                  c[Before(s, f) + i] = <<first + f - 1, i, FrameLen(s, f), s.sizes[f]>>
             /\ \A i \in 1..Len(c) : i > s.tag =>
                  \E f \in 1..k : i \in (Before(s, f) + 1)..(Before(s, f) + FrameLen(s, f))
<1> DEFINE k == Len(s.pads)
           c == Cells(s, first)
           n == Before(s, k + 1) - s.cut
           In(i, f) == i \in (Before(s, f) + 1)..(Before(s, f) + FrameLen(s, f))
<1>1. /\ k \in Nat \ {0} /\ s.tag \in Nat /\ DOMAIN s.pads = 1..k
      /\ \A f \in 1..k : FrameLen(s, f) \in Nat /\ FrameLen(s, f) >= HeadLen
      /\ s.cut \in 0..(FrameLen(s, k) - 1)
  BY FrameLens
<1>2. /\ Before(s, 1) = s.tag
      /\ \A f \in 1..(k + 1) : Before(s, f) \in Nat
      /\ \A f \in 1..k : Before(s, f + 1) = Before(s, f) + FrameLen(s, f)
  BY BeforeNext
<1>3. /\ \A f \in 1..(k + 1) : \A g \in f..(k + 1) : Before(s, f) <= Before(s, g)
     
      /\ \A f \in 1..k : \A g \in (f + 1)..(k + 1) : Before(s, f) + FrameLen(s, f) <= Before(s, g)
  BY BeforeGrows
<1>4. c = [i \in 1..n |-> IF i <= s.tag THEN Junk
                          ELSE <<first + FrameOf(s, i) - 1, i - Before(s, FrameOf(s, i)),
                                 FrameLen(s, FrameOf(s, i)), s.sizes[FrameOf(s, i)]>>]
  BY DEF Cells
<1>5. \A i : FrameOf(s, i) = CHOOSE f \in 1..k : In(i, f)
  BY <1>1 DEF FrameOf
<1> HIDE DEF k, c
<1>6. n \in Nat /\ Before(s, k) < n /\ s.tag < n /\ n <= Before(s, k + 1)
  <2>1. k \in 1..k /\ k \in 1..(k + 1) /\ 1 \in 1..(k + 1) /\ k + 1 \in 1..(k + 1)
    BY <1>1
  <2>2. Before(s, k + 1) = Before(s, k) + FrameLen(s, k)
    BY <1>2, <2>1
  <2>3. s.tag <= Before(s, k)
    BY <1>2, <1>3, <2>1
  <2>4. Before(s, k) \in Nat /\ Before(s, k + 1) \in Nat /\ FrameLen(s, k) \in Nat
    BY <1>1, <1>2, <2>1
  <2> QED BY <1>1, <2>2, <2>3, <2>4
<1> HIDE DEF n
<1>7. ASSUME NEW i \in 1..n, i > s.tag
      PROVE  \E f \in 1..k : In(i, f)
  <2> DEFINE X == {m \in 0..k : i <= Before(s, m + 1) => \E f \in 1..k : In(i, f)}
  <2>1. 0 \in X
    BY <1>1, <1>2, <1>6, <1>7
  <2>2. ASSUME NEW m \in 1..k, m - 1 \in X
        PROVE  m \in X
    <3>1. m - 1 + 1 = m /\ m \in 0..k /\ m \in 1..(k + 1)
      BY <1>1
    <3>2. CASE i <= Before(s, m)
      BY <2>2, <3>1, <3>2
    <3>3. CASE ~(i <= Before(s, m))
      <4>1. Before(s, m + 1) = Before(s, m) + FrameLen(s, m) /\ Before(s, m) \in Nat
            /\ FrameLen(s, m) \in Nat
        BY <1>1, <1>2, <3>1
      <4>2. i <= Before(s, m + 1) => In(i, m)
        BY <1>6, <3>3, <4>1
      <4> QED BY <3>1, <4>2
    <3> QED BY <3>2, <3>3
  <2>3. \A m \in 0..k : m \in X
    <3> HIDE DEF X
    <3> QED BY <1>1, <2>1, <2>2, UpTo
  <2>4. k \in X
    <3> HIDE DEF X
    <3> QED BY <1>1, <2>3
  <2> HIDE DEF In
  <2>5. i <= Before(s, k + 1)
    <3>1. k + 1 \in 1..(k + 1)
      BY <1>1
    <3>2. Before(s, k + 1) \in Nat
      BY <1>2, <3>1
    <3> QED BY <1>6, <3>2
  <2> QED BY <2>4, <2>5
<1>8. ASSUME NEW f \in 1..k, NEW g \in 1..k, NEW i \in Int, In(i, f), In(i, g)
      PROVE  f = g
  <2>1. /\ Before(s, f) \in Nat /\ Before(s, g) \in Nat /\ FrameLen(s, f) \in Nat
        /\ FrameLen(s, g) \in Nat
    <3>1. f \in 1..(k + 1) /\ g \in 1..(k + 1)
      BY <1>1
    <3> QED BY <1>1, <1>2, <3>1
  <2>2. f < g => Before(s, f) + FrameLen(s, f) <= Before(s, g)
    BY <1>1, <1>3
  <2>3. g < f => Before(s, g) + FrameLen(s, g) <= Before(s, f)
    BY <1>1, <1>3
  <2>4. ~(f < g)
    BY <1>8, <2>1, <2>2
  <2>5. ~(g < f)
    BY <1>8, <2>1, <2>3
  <2> QED BY <1>1, <2>4, <2>5
<1>9. ASSUME NEW i \in Int, NEW f \in 1..k, In(i, f)
      PROVE  FrameOf(s, i) = f
  <2> HIDE DEF In
  <2> QED BY <1>5, <1>8, <1>9
<1>10. ASSUME NEW i \in 1..n
       PROVE  c[i] \in Cell
  <2>1. CASE i <= s.tag
    BY <1>4, <2>1 DEF Cell
  <2>2. CASE ~(i <= s.tag)
    <3>1. i > s.tag
      BY <1>1, <1>6, <2>2
    <3>2. PICK f \in 1..k : In(i, f)
      BY <1>7, <3>1
    <3>3. FrameOf(s, i) = f
      BY <1>6, <1>9, <3>2
    <3>4. c[i] = <<first + f - 1, i - Before(s, f), FrameLen(s, f), s.sizes[f]>>
      <4> HIDE DEF In
      <4> QED BY <1>4, <2>2, <3>3
    <3>5. Before(s, f) \in Nat /\ FrameLen(s, f) \in Nat /\ FrameLen(s, f) >= HeadLen
      BY <1>1, <1>2
    <3>6. first + f - 1 \in Nat /\ i - Before(s, f) \in Nat
      BY <1>1, <1>6, <3>2, <3>5
    <3>7. FrameLen(s, f) \in {l \in Nat : l >= HeadLen} /\ s.sizes[f] \in Nat
      BY <3>5, FrameLens DEF k
    <3> QED BY <3>4, <3>6, <3>7 DEF Cell
  <2> QED BY <2>1, <2>2
<1>11. c \in Seq(Cell) /\ Len(c) = n
  <2>1. DOMAIN c = 1..n /\ c = [i \in 1..n |-> c[i]]
    BY <1>4
  <2>2. c \in [1..n -> Cell]
    BY <1>10, <2>1
  <2> QED BY <1>6, <2>2
<1>12. ASSUME NEW i \in 1..n, i <= s.tag
       PROVE  c[i] = Junk
  BY <1>4, <1>12
<1>13. ASSUME NEW f \in 1..k, NEW j \in 1..FrameLen(s, f), Before(s, f) + j <= n
       PROVE  c[Before(s, f) + j] = <<first + f - 1, j, FrameLen(s, f), s.sizes[f]>>
  <2> DEFINE i == Before(s, f) + j
  <2>1. /\ Before(s, f) \in Nat /\ FrameLen(s, f) \in Nat
        /\ 1 \in 1..(k + 1) /\ f \in 1..(k + 1)
    BY <1>1, <1>2
  <2>2. s.tag <= Before(s, f)
    BY <1>2, <1>3, <2>1
  <2>3. i \in 1..n /\ i > s.tag /\ In(i, f) /\ i - Before(s, f) = j
    <3> DEFINE a == Before(s, f)
               l == FrameLen(s, f)
    <3>1. a \in Nat /\ l \in Nat /\ j \in 1..l /\ a + j <= n /\ s.tag <= a
      BY <1>13, <2>1, <2>2
    <3> HIDE DEF a, l
    <3>2. a + j \in 1..n /\ a + j > s.tag /\ (a + j) - a = j
      BY <1>1, <1>6, <3>1
    <3>3. a + j \in (a + 1)..(a + l)
      BY <3>1
    <3> QED BY <3>2, <3>3 DEF a, l
  <2> HIDE DEF i, In
  <2>4. FrameOf(s, i) = f
    BY <1>6, <1>9, <2>3
  <2>5. c[i] = <<first + f - 1, i - Before(s, f), FrameLen(s, f), s.sizes[f]>>
    <3>1. ~(i <= s.tag)
      BY <1>1, <1>6, <2>3
    <3> QED BY <1>4, <2>3, <2>4, <3>1
  <2> QED BY <2>3, <2>5 DEF i
<1> QED BY <1>6, <1>7, <1>11, <1>12, <1>13 DEF k, c, n

\* What looks like the beginning of a frame in a stream is one.
LEMMA HeadersAre ==
  ASSUME NEW s \in Streams, NEW first \in Nat, NEW i \in 1..Len(Cells(s, first)),
         Cells(s, first)[i][2] = 1
  PROVE  \E f \in 1..Len(s.pads) : i = Before(s, f) + 1
<1> DEFINE c == Cells(s, first)
           k == Len(s.pads)
<1>1. /\ i <= s.tag => c[i] = Junk
      /\ \A f \in 1..k : \A j \in 1..FrameLen(s, f) : Before(s, f) + j <= Len(c) =>
           c[Before(s, f) + j] = <<first + f - 1, j, FrameLen(s, f), s.sizes[f]>>
      /\ i > s.tag => \E f \in 1..k : i \in (Before(s, f) + 1)..(Before(s, f) + FrameLen(s, f))
  BY CellsAre
<1>2. s.tag \in Nat /\ i \in Nat /\ i <= Len(c) /\ c[i][2] = 1
  BY <1>1, FrameLens
<1> HIDE DEF c, k
<1>3. i > s.tag
  <2> SUFFICES ASSUME i <= s.tag
               PROVE  FALSE
    BY <1>2
  <2>1. c[i] = Junk
    BY <1>1
  <2>2. c[i][2] = 0
    BY <2>1 DEF Junk
  <2> QED BY <1>2, <2>2
<1>4. PICK f \in 1..k : i \in (Before(s, f) + 1)..(Before(s, f) + FrameLen(s, f))
  BY <1>1, <1>3
<1>5. Before(s, f) \in Nat /\ FrameLen(s, f) \in Nat
  BY BeforeNext, FrameLens DEF k
<1> DEFINE j == i - Before(s, f)
<1>6. j \in 1..FrameLen(s, f) /\ Before(s, f) + j = i
  <2> DEFINE a == Before(s, f)
             l == FrameLen(s, f)
  <2>1. a \in Nat /\ l \in Nat /\ i \in (a + 1)..(a + l) /\ i \in Nat
    BY <1>2, <1>4, <1>5
  <2> HIDE DEF a, l
  <2>2. i - a \in 1..l /\ a + (i - a) = i
    BY <2>1
  <2> QED BY <2>2 DEF a, l
<1> HIDE DEF j
<1>7. c[i] = <<first + f - 1, j, FrameLen(s, f), s.sizes[f]>>
  BY <1>1, <1>2, <1>6
<1>8. j = 1
  BY <1>2, <1>7
<1> QED BY <1>6, <1>8 DEF k

-----------------------------------------------------------------------------
(* The window of bytes that are still to be looked at. *)

\* From w on, the rest bytes of b behind ptr are bytes of c, of which q are before
\* the window; nothing before w looks like a frame.
IsWindow(c, b, ptr, rest, q, w) ==
  /\ rest \in 0..BufLen /\ ptr \in 0..(BufLen - rest)
  /\ q \in Int /\ w \in 0..rest /\ q + w >= 0 /\ q + rest <= Len(c)
  /\ \A j \in 1..w : b[ptr + j][2] # 1
  /\ \A j \in (w + 1)..rest : b[ptr + j] = c[q + j]
  /\ ptr > 0 => b[ptr][2] # 1

\* The frames whose first two bytes are in the window.
Heads(s, rest, q, w) ==
  {f \in 1..Len(s.pads) : Before(s, f) >= q + w /\ Before(s, f) + 2 <= q + rest}

\* Where a frame is in the window.
LEMMA FrameInWindow ==
  ASSUME NEW s \in Streams, NEW first \in Nat,
         NEW ptr, NEW rest, NEW q, NEW w,
         IsWindow(Cells(s, first), in_buffer, ptr, rest, q, w),
         NEW f \in 1..Len(s.pads), NEW o \in w..rest, q + o = Before(s, f),
         NEW i \in 1..FrameLen(s, f), o + i <= rest
  PROVE  /\ At(ptr + o + i - 1) = <<first + f - 1, i, FrameLen(s, f), s.sizes[f]>>
         /\ in_buffer[ptr + o + i] = <<first + f - 1, i, FrameLen(s, f), s.sizes[f]>>
<1> DEFINE c == Cells(s, first)
<1>1. /\ rest \in 0..BufLen /\ ptr \in 0..(BufLen - rest)
      /\ q \in Int /\ w \in 0..rest /\ q + w >= 0 /\ q + rest <= Len(c)
      /\ \A j \in (w + 1)..rest : in_buffer[ptr + j] = c[q + j]
  BY DEF IsWindow
<1>2. Before(s, f) + i <= Len(c) =>
        c[Before(s, f) + i] = <<first + f - 1, i, FrameLen(s, f), s.sizes[f]>>
  BY CellsAre
<1>3. c \in Seq(Cell)
  BY CellsAre
<1>4. Before(s, f) \in Nat /\ FrameLen(s, f) \in Nat /\ BufLen \in Nat
  BY BeforeNext, FrameLens, Mp3Assumption
<1> HIDE DEF c
<1>5. o + i \in (w + 1)..rest /\ q + (o + i) = Before(s, f) + i /\ Before(s, f) + i <= Len(c)
  BY <1>1, <1>3, <1>4
<1>6. in_buffer[ptr + (o + i)] = <<first + f - 1, i, FrameLen(s, f), s.sizes[f]>>
  BY <1>1, <1>2, <1>3, <1>5
<1>7. /\ ptr + o + i - 1 \in 0..(BufLen - 1) /\ ptr + o + i - 1 + 1 = ptr + (o + i)
      /\ ptr + o + i = ptr + (o + i)
  <2>1. o \in Int /\ i \in Int /\ ptr \in Int /\ rest \in Int /\ o + i >= 1 /\ o + i <= rest
    BY <1>1, <1>4, <1>5
  <2>2. ptr >= 0 /\ ptr + rest <= BufLen
    BY <1>1, <1>4
  <2> QED BY <1>4, <2>1, <2>2
<1> QED BY <1>6, <1>7 DEF At

\* MP3FindSyncWord finds the first of the frames.
LEMMA SyncIs ==
  ASSUME NEW s \in Streams, NEW first \in Nat,
         NEW ptr, NEW rest, NEW q, NEW w,
         IsWindow(Cells(s, first), in_buffer, ptr, rest, q, w)
  PROVE  LET o == MP3FindSyncWord(ptr, rest)
         IN  \/ o = -1 /\ Heads(s, rest, q, w) = {}
             \/ /\ o \in w..(rest - 2)
                /\ \E f \in Heads(s, rest, q, w) :
                     /\ q + o = Before(s, f)
                     /\ \A g \in Heads(s, rest, q, w) : Before(s, f) <= Before(s, g)
<1> DEFINE c == Cells(s, first)
           o == MP3FindSyncWord(ptr, rest)
           heads == Heads(s, rest, q, w)
           found == {i \in 0..(rest - 2) : At(ptr + i)[2] = 1 /\ At(ptr + i + 1)[2] \in {1, 2}}
<1>1. /\ rest \in 0..BufLen /\ ptr \in 0..(BufLen - rest)
      /\ q \in Int /\ w \in 0..rest /\ q + w >= 0 /\ q + rest <= Len(c)
      /\ \A j \in 1..w : in_buffer[ptr + j][2] # 1
      /\ \A j \in (w + 1)..rest : in_buffer[ptr + j] = c[q + j]
  BY DEF IsWindow
<1>2. BufLen \in Nat /\ HeadLen \in Nat /\ HeadLen > 1
  BY Mp3Assumption
<1>3. c \in Seq(Cell)
  BY CellsAre
<1>4. /\ \A f \in 1..Len(s.pads) : Before(s, f) \in Nat
      /\ \A f \in 1..Len(s.pads) : FrameLen(s, f) \in Nat /\ FrameLen(s, f) >= HeadLen
  BY BeforeNext, FrameLens
<1>5. ASSUME NEW i \in found
      PROVE  i \in w..(rest - 2) /\ \E f \in heads : q + i = Before(s, f)
  <2>1. /\ i \in 0..(rest - 2) /\ At(ptr + i)[2] = 1
        /\ ptr + i \in 0..(BufLen - 1) /\ ptr + i + 1 = ptr + (i + 1) /\ i + 1 \in 1..rest
    BY <1>1, <1>2
  <2>2. in_buffer[ptr + (i + 1)][2] = 1
    BY <2>1 DEF At
  <2>3. i + 1 \in (w + 1)..rest
    <3>1. i + 1 \notin 1..w
      BY <1>1, <2>2
    <3> QED BY <1>1, <2>1, <3>1
  <2>4. c[q + (i + 1)][2] = 1 /\ q + (i + 1) \in 1..Len(c)
    <3> DEFINE j == i + 1
    <3>1. j \in (w + 1)..rest /\ in_buffer[ptr + j][2] = 1
      BY <2>2, <2>3
    <3> HIDE DEF j, c
    <3>2. in_buffer[ptr + j] = c[q + j]
      BY <1>1, <3>1
    <3>3. q + j \in 1..Len(c)
      <4>1. Len(c) \in Nat
        BY <1>3
      <4> QED BY <1>1, <3>1, <4>1
    <3> QED BY <3>1, <3>2, <3>3 DEF j
  <2>5. PICK f \in 1..Len(s.pads) : q + (i + 1) = Before(s, f) + 1
    BY <2>4, HeadersAre
  <2>6. Before(s, f) \in Nat
    BY <1>4
  <2> HIDE DEF c
  <2>7. i \in w..(rest - 2) /\ q + i = Before(s, f)
    BY <1>1, <2>1, <2>3, <2>5, <2>6
  <2>8. Before(s, f) >= q + w /\ Before(s, f) + 2 <= q + rest
    BY <1>1, <2>7
  <2> QED BY <2>7, <2>8 DEF Heads
<1>6. ASSUME NEW f \in heads
      PROVE  Before(s, f) - q \in found
  <2> DEFINE i == Before(s, f) - q
  <2>1. f \in 1..Len(s.pads) /\ Before(s, f) >= q + w /\ Before(s, f) + 2 <= q + rest
    BY DEF Heads
  <2>2. Before(s, f) \in Nat /\ FrameLen(s, f) \in Nat /\ FrameLen(s, f) >= 2
    BY <1>2, <1>4, <2>1
  <2>3. /\ i \in 0..(rest - 2) /\ i \in w..rest /\ q + i = Before(s, f) /\ i + 1 <= rest
        /\ i + 2 <= rest /\ 1 \in 1..FrameLen(s, f) /\ 2 \in 1..FrameLen(s, f)
    <3> DEFINE a == Before(s, f)
               l == FrameLen(s, f)
    <3>1. a \in Nat /\ l \in Nat /\ l >= 2 /\ a >= q + w /\ a + 2 <= q + rest
      BY <2>1, <2>2
    <3> HIDE DEF a, l
    <3>2. rest \in Int /\ q \in Int /\ w \in Int /\ w >= 0
      BY <1>1, <1>2
    <3>3. /\ a - q \in 0..(rest - 2) /\ a - q \in w..rest /\ q + (a - q) = a
          /\ a - q + 1 <= rest /\ a - q + 2 <= rest
      BY <3>1, <3>2
    <3>4. 1 \in 1..l /\ 2 \in 1..l
      BY <3>1
    <3> QED BY <3>3, <3>4 DEF a, l
  <2> HIDE DEF i
  <2>4. At(ptr + i + 1 - 1) = <<first + f - 1, 1, FrameLen(s, f), s.sizes[f]>>
    BY <2>1, <2>3, FrameInWindow
  <2>5. At(ptr + i + 2 - 1) = <<first + f - 1, 2, FrameLen(s, f), s.sizes[f]>>
    BY <2>1, <2>3, FrameInWindow
  <2>6. ptr + i + 1 - 1 = ptr + i /\ ptr + i + 2 - 1 = ptr + i + 1
    BY <1>1, <2>3
  <2>7. At(ptr + i)[2] = 1 /\ At(ptr + i + 1)[2] = 2
    BY <2>4, <2>5, <2>6
  <2> QED BY <2>3, <2>7 DEF i
<1>7. o = IF found = {} THEN -1 ELSE Min(found)
  BY DEF MP3FindSyncWord
<1>8. CASE found = {}
  <2>1. heads = {}
    <3> HIDE DEF found, heads
    <3> QED BY <1>6, <1>8
  <2> QED BY <1>7, <1>8, <2>1
<1>9. CASE found # {}
  <2>1. found \in SUBSET Nat
    BY <1>1
  <2> HIDE DEF found, heads
  <2>2. o \in found /\ \A i \in found : o <= i
    <3>1. o = Min(found)
      BY <1>7, <1>9
    <3> HIDE DEF o
    <3> QED BY <1>9, <2>1, <3>1, LeastOf
  <2> HIDE DEF o
  <2>3. o \in w..(rest - 2) /\ \E f \in heads : q + o = Before(s, f)
    BY <1>5, <2>2
  <2>4. ASSUME NEW g \in heads
        PROVE  q + o <= Before(s, g)
    <3>1. o <= Before(s, g) - q
      BY <1>6, <2>2
    <3>2. Before(s, g) \in Nat
      <4>1. g \in 1..Len(s.pads)
        BY DEF heads, Heads
      <4> QED BY <1>4, <4>1
    <3>3. o \in Int
      BY <2>1, <2>2
    <3> QED BY <1>1, <3>1, <3>2, <3>3
  <2>5. PICK f \in heads : q + o = Before(s, f)
    BY <2>3
  <2>6. \A g \in heads : Before(s, f) <= Before(s, g)
    BY <2>4, <2>5
  <2> QED BY <2>3, <2>5, <2>6 DEF o, heads
<1> QED BY <1>8, <1>9

\* MP3Decode at the place that was found: the first of the frames is decoded, and
\* the window goes on behind it, or it is not complete, or there is none.
LEMMA DecodeIs ==
  ASSUME NEW s \in Streams, NEW first \in Nat,
         NEW ptr, NEW rest, NEW q, NEW w,
         IsWindow(Cells(s, first), in_buffer, ptr, rest, q, w),
         NEW o, o = MP3FindSyncWord(ptr, rest),
         NEW d \in MP3Decode(ptr + o, rest - o)
  PROVE  \/ ~d.ok /\ \A f \in Heads(s, rest, q, w) : Before(s, f) + FrameLen(s, f) > q + rest
         \/ /\ d.ok
            /\ \E f \in Heads(s, rest, q, w) :
                 /\ d.frame = first + f - 1 /\ d.size = s.sizes[f]
                 /\ \A g \in Heads(s, rest, q, w) : Before(s, f) <= Before(s, g)
                 /\ d.left = q + rest - (Before(s, f) + FrameLen(s, f))
                 /\ IsWindow(Cells(s, first), in_buffer, d.readPtr, d.left,
                             Before(s, f) + FrameLen(s, f), 0)
<1> DEFINE c == Cells(s, first)
           heads == Heads(s, rest, q, w)
<1>1. /\ rest \in 0..BufLen /\ ptr \in 0..(BufLen - rest)
      /\ q \in Int /\ w \in 0..rest /\ q + w >= 0 /\ q + rest <= Len(c)
      /\ \A j \in (w + 1)..rest : in_buffer[ptr + j] = c[q + j]
      /\ ptr > 0 => in_buffer[ptr][2] # 1
  BY DEF IsWindow
<1>2. BufLen \in Nat /\ HeadLen \in Nat /\ HeadLen > 1
  BY Mp3Assumption
<1>3. /\ \A f \in 1..Len(s.pads) : Before(s, f) \in Nat
      /\ \A f \in 1..Len(s.pads) : FrameLen(s, f) \in Nat /\ FrameLen(s, f) >= HeadLen
      /\ Len(s.pads) \in Nat
  BY BeforeNext, FrameLens
<1>4. \/ o = -1 /\ heads = {}
      \/ /\ o \in w..(rest - 2)
         /\ \E f \in heads : /\ q + o = Before(s, f)
                             /\ \A g \in heads : Before(s, f) <= Before(s, g)
  BY SyncIs
<1>5. CASE o = -1 /\ heads = {}
  <2>1. At(ptr - 1)[2] # 1
    <3>1. CASE ptr = 0
      BY <1>2, <3>1 DEF At, Junk
    <3>2. CASE ptr > 0
      <4>1. ptr - 1 \in 0..(BufLen - 1) /\ ptr - 1 + 1 = ptr
        BY <1>1, <1>2, <3>2
      <4> QED BY <1>1, <3>2, <4>1 DEF At
    <3> QED BY <1>1, <3>1, <3>2
  <2>2. ptr + o = ptr - 1
    BY <1>1, <1>5
  <2>3. ~HeaderAt(ptr + o)
    BY <2>1, <2>2 DEF HeaderAt
  <2>4. ~d.ok
    BY <2>3 DEF MP3Decode
  <2> QED BY <1>5, <2>4
<1>6. ASSUME o \in w..(rest - 2), NEW f \in heads, q + o = Before(s, f),
             \A g \in heads : Before(s, f) <= Before(s, g)
      PROVE  \/ ~d.ok /\ \A g \in heads : Before(s, g) + FrameLen(s, g) > q + rest
             \/ /\ d.ok /\ d.frame = first + f - 1 /\ d.size = s.sizes[f]
                /\ d.left = q + rest - (Before(s, f) + FrameLen(s, f))
                /\ IsWindow(c, in_buffer, d.readPtr, d.left, Before(s, f) + FrameLen(s, f), 0)
  <2> DEFINE l == FrameLen(s, f)
             p == ptr + o
  <2>1. f \in 1..Len(s.pads) /\ \A g \in heads : g \in 1..Len(s.pads)
    BY DEF heads, Heads
  <2>2. l \in Nat /\ l >= 2 /\ Before(s, f) \in Nat
    BY <1>2, <1>3, <2>1
  <2>3. /\ o \in Int /\ o >= w /\ o + 2 <= rest /\ o \in w..rest /\ p \in Int
        /\ 1 \in 1..l /\ 2 \in 1..l
    <3> HIDE DEF l, c, heads
    <3>1. rest \in Int /\ w \in Int /\ w >= 0 /\ ptr \in Int
      BY <1>1, <1>2
    <3>2. o \in Int /\ o >= w /\ o + 2 <= rest
      BY <1>6, <3>1
    <3> QED BY <2>2, <3>1, <3>2
  <2>4. ASSUME NEW i \in 1..l, o + i <= rest
        PROVE  /\ At(p + i - 1) = <<first + f - 1, i, l, s.sizes[f]>>
               /\ in_buffer[p + i] = <<first + f - 1, i, l, s.sizes[f]>>
    <3> HIDE DEF heads, c
    <3>1. i \in 1..FrameLen(s, f)
      BY DEF l
    <3> HIDE DEF l, p
    <3>2. /\ At(ptr + o + i - 1) = <<first + f - 1, i, FrameLen(s, f), s.sizes[f]>>
          /\ in_buffer[ptr + o + i] = <<first + f - 1, i, FrameLen(s, f), s.sizes[f]>>
      <4>1. f \in 1..Len(s.pads) /\ o \in w..rest /\ q + o = Before(s, f) /\ o + i <= rest
        BY <1>6, <2>1, <2>3, <2>4
      <4> QED BY <3>1, <4>1, FrameInWindow
    <3>3. /\ At(p + i - 1) = At(ptr + o + i - 1) /\ in_buffer[p + i] = in_buffer[ptr + o + i]
      BY DEF p
    <3> QED BY <3>2, <3>3 DEF l
  <2> HIDE DEF l, c, heads
  <2>5. /\ At(p) = <<first + f - 1, 1, l, s.sizes[f]>>
        /\ At(p + 1) = <<first + f - 1, 2, l, s.sizes[f]>>
    <3>1. p + 1 - 1 = p /\ p + 2 - 1 = p + 1 /\ o + 1 <= rest
      BY <1>1, <2>3
    <3>2. /\ At(p + 1 - 1) = <<first + f - 1, 1, l, s.sizes[f]>>
          /\ At(p + 2 - 1) = <<first + f - 1, 2, l, s.sizes[f]>>
      BY <2>3, <2>4, <3>1
    <3> HIDE DEF p
    <3> QED BY <3>1, <3>2
  <2> HIDE DEF p
  <2>6. /\ HeaderAt(p) /\ At(p)[3] = l /\ At(p)[1] = first + f - 1
        /\ At(p)[4] = s.sizes[f]
    BY <2>5 DEF HeaderAt
  <2>7. d \in MP3Decode(p, rest - o)
    BY DEF p
  <2>11. /\ /\ rest \in Int /\ w \in Int /\ w >= 0 /\ ptr \in Int /\ ptr >= 0
         /\ ptr + rest <= BufLen
         /\ q \in Int /\ q + w >= 0 /\ p = ptr + o /\ q + o = Before(s, f) /\ BufLen \in Nat
    BY <1>1, <1>2, <1>6 DEF p
  <2>8. CASE l > rest - o
    <3>1. ~d.ok
      BY <2>6, <2>7, <2>8 DEF MP3Decode
    <3>2. ASSUME NEW g \in heads
          PROVE  Before(s, g) + FrameLen(s, g) > q + rest
      <4>1. Before(s, f) <= Before(s, g) /\ g \in 1..Len(s.pads) /\ Before(s, g) \in Nat
            /\ FrameLen(s, g) \in Nat /\ FrameLen(s, g) >= 2
        BY <1>2, <1>3, <1>6, <2>1
      <4>2. Before(s, f) + l > q + rest
        BY <1>1, <1>6, <2>2, <2>3, <2>8
      <4>3. CASE f = g
        BY <4>2, <4>3 DEF l
      <4>4. CASE f < g
        <5>1. g \in (f + 1)..(Len(s.pads) + 1)
          BY <1>3, <2>1, <4>1, <4>4
        <5>2. Before(s, f) + l <= Before(s, g)
          BY <2>1, <5>1, BeforeGrows DEF l
        <5> QED BY <1>1, <2>2, <4>1, <4>2, <5>2
      <4>5. CASE g < f
        <5>1. f \in (g + 1)..(Len(s.pads) + 1)
          BY <1>3, <2>1, <4>1, <4>5
        <5>2. Before(s, g) + FrameLen(s, g) <= Before(s, f)
          BY <4>1, <5>1, BeforeGrows
        <5> QED BY <2>2, <4>1, <5>2
      <4> QED BY <1>3, <2>1, <4>1, <4>3, <4>4, <4>5
    <3> QED BY <3>1, <3>2
  <2>9. CASE l <= rest - o
    <3>1. Intact(p)
      <4> SUFFICES ASSUME NEW k \in 1..l
                   PROVE  At(p + k - 1) = <<first + f - 1, k, l, s.sizes[f]>>
        BY <2>6 DEF Intact
      <4>1. o + k <= rest
        BY <1>1, <2>2, <2>3, <2>9
      <4> QED BY <2>4, <4>1
    <3>2. d \in [ok : {TRUE}, readPtr : {p + l}, left : {rest - o - l}, frame : {first + f - 1},
               size : {s.sizes[f]}]
      <4>1. ~(l > rest - o)
        BY <1>1, <2>2, <2>3, <2>9
      <4>2. MP3Decode(p, rest - o) =
              [ok : {Intact(p), TRUE}, readPtr : {p + l}, left : {rest - o - l},
               frame : {first + f - 1}, size : {s.sizes[f]}]
        BY <2>6, <3>1, <4>1 DEF MP3Decode
      <4> QED BY <2>7, <3>1, <4>2
    <3>3. d.ok /\ d.readPtr = p + l /\ d.left = rest - o - l /\ d.frame = first + f - 1
          /\ d.size = s.sizes[f]
      BY <3>2
    <3>4. d.left = q + rest - (Before(s, f) + l)
      BY <2>2, <2>3, <2>11, <3>3
    <3>5. IsWindow(c, in_buffer, d.readPtr, d.left, Before(s, f) + l, 0)
      <4> DEFINE p2 == p + l
                 rest2 == rest - o - l
                 q2 == Before(s, f) + l
      <4>1. /\ rest2 \in 0..BufLen /\ p2 \in 0..(BufLen - rest2) /\ p2 > 0
            /\ q2 \in Int /\ q2 >= 0 /\ q2 + rest2 = q + rest
        BY <2>2, <2>3, <2>9, <2>11
      <4>2. ASSUME NEW j \in 1..rest2
            PROVE  in_buffer[p2 + j] = c[q2 + j]
        <5>1. o + l + j \in (w + 1)..rest
          BY <2>2, <2>3, <2>9, <2>11
        <5>2. p2 + j = ptr + (o + l + j) /\ q2 + j = q + (o + l + j)
          BY <2>2, <2>3, <2>11
        <5> QED BY <1>1, <5>1, <5>2
      <4>3. in_buffer[p2][2] # 1
        <5>1. l \in 1..l /\ o + l <= rest
          BY <1>1, <2>2, <2>3, <2>9
        <5>2. in_buffer[p + l] = <<first + f - 1, l, l, s.sizes[f]>>
          BY <2>4, <5>1
        <5> QED BY <2>2, <5>2
      <4>4. d.readPtr = p2 /\ d.left = rest2
        BY <3>3
      <4> HIDE DEF p2, rest2, q2
      <4>5. IsWindow(c, in_buffer, p2, rest2, q2, 0)
        BY <1>1, <4>1, <4>2, <4>3 DEF IsWindow
      <4> QED BY <4>4, <4>5 DEF q2
    <3> QED BY <3>3, <3>4, <3>5 DEF l
  <2>10. l > rest - o \/ l <= rest - o
    BY <1>1, <2>2, <2>3
  <2> QED BY <2>8, <2>9, <2>10
<1>7. CASE o # -1
  <2>1. PICK f \in heads : q + o = Before(s, f) /\ \A g \in heads : Before(s, f) <= Before(s, g)
    BY <1>4, <1>7
  <2>2. o \in w..(rest - 2)
    BY <1>4, <1>7
  <2> HIDE DEF heads, c
  <2>3. \/ ~d.ok /\ \A g \in heads : Before(s, g) + FrameLen(s, g) > q + rest
        \/ /\ d.ok /\ d.frame = first + f - 1 /\ d.size = s.sizes[f]
           /\ d.left = q + rest - (Before(s, f) + FrameLen(s, f))
           /\ IsWindow(c, in_buffer, d.readPtr, d.left, Before(s, f) + FrameLen(s, f), 0)
    BY <1>6, <2>1, <2>2
  <2> QED BY <2>1, <2>3 DEF heads, c
<1>8. o = -1 => heads = {}
  BY <1>1, <1>4
<1> QED BY <1>5, <1>7, <1>8

-----------------------------------------------------------------------------
(* The invariant. *)

Types ==
  /\ src \in Seq(Cell) /\ in_buffer \in [1..BufLen -> Cell]
  /\ last_left \in Int /\ user_data_0 \in Nat
  /\ status \in {"init", "running", "error", "finished", "stopped"}
  /\ pc \in {"read", "decode", "drain"}
  /\ readPtr \in Int /\ left \in Int /\ framesize \in Nat
  /\ out \in Seq(Nat)
  /\ played \in [n : Nat, first : Nat, last : Nat]
  /\ clean \in BOOLEAN /\ fits \in BOOLEAN /\ trouble \subseteq {"timeout", "output", "stop"}

Places ==
  /\ last_left <= BufLen /\ (status = "running" => last_left >= 0)
  /\ pc # "read" => status = "running" /\ left \in 0..BufLen
  /\ pc = "drain" => src = <<>> /\ left < BufLen

\* s is the stream that is played.
Stream(s) ==
  /\ s \in Streams
  /\ played.last = played.first + Len(s.pads) - 1 - (IF s.cut > 0 THEN 1 ELSE 0)

\* The window, and how many bytes of the stream were before it: there are fewer
\* than none when it begins with what was left of another stream.
Ptr     == IF pc = "read" THEN 0 ELSE readPtr
Rest    == IF pc = "read" THEN last_left ELSE left
Gone(s) == Len(Cells(s, played.first)) - Len(src) - Rest

\* What is still to be read.
IsAhead(c, b) == Len(b) <= Len(c) /\ \A i \in 1..Len(b) : b[i] = c[Len(c) - Len(b) + i]

\* The window is behind the frame that was put out last.
IsBehind(s, first, frames, q) ==
  frames # <<>> =>
    \E f \in 1..Len(s.pads) : /\ frames[Len(frames)] = first + f - 1
                              /\ q >= Before(s, f) + FrameLen(s, f)

\* Nothing was lost in between.
IsNext(s, frames, q, w) ==
  /\ frames = <<>> => q + w = 0
  /\ frames # <<>> => /\ w = 0 /\ Len(frames) \in 1..Len(s.pads)
                      /\ q = Before(s, Len(frames) + 1)

\* n bytes are enough for each frame that is still to be put out, and the next
\* one reaches n bytes in the window.
Suffices(s, frames, w, n) ==
  /\ \A f \in (Len(frames) + 1)..Len(s.pads) : FrameLen(s, f) <= n
  /\ n <= BufLen /\ (frames = <<>> => w + s.tag + n <= BufLen)

Roomy(s, w) ==
  /\ Suffices(s, out, w, FrameSize(user_data_0))
  /\ NoneLonger(s)
  /\ pc = "decode" => Suffices(s, out, w, framesize)
  /\ pc = "read" => last_left < BufLen

Playing(s, w) ==
  /\ Stream(s)
  /\ IsAhead(Cells(s, played.first), src)
  /\ IsWindow(Cells(s, played.first), in_buffer, Ptr, Rest, Gone(s), w)
  /\ IsBehind(s, played.first, out, Gone(s))
  /\ "timeout" \notin trouble => IsNext(s, out, Gone(s), w)
  /\ fits /\ trouble = {} => Roomy(s, w)

Undisturbed == clean /\ "output" \notin trouble /\ status = "running"

IInv ==
  /\ Types /\ Places
  /\ Undisturbed => \E s \in Streams, w \in Int : Playing(s, w)
  /\ FramesInSequence /\ CleanStreamPlays

-----------------------------------------------------------------------------
(* Types. *)

\* What MP3FindSyncWord returns.
LEMMA SyncRange ==
  ASSUME NEW from \in Int, NEW n \in Int
  PROVE  MP3FindSyncWord(from, n) \in Int
         /\ (MP3FindSyncWord(from, n) = -1 \/ MP3FindSyncWord(from, n) \in 0..(n - 2))
<1> DEFINE found == {i \in 0..(n - 2) : At(from + i)[2] = 1 /\ At(from + i + 1)[2] \in {1, 2}}
<1>1. MP3FindSyncWord(from, n) = IF found = {} THEN -1 ELSE Min(found)
  BY DEF MP3FindSyncWord
<1>2. found \in SUBSET Nat /\ found \subseteq 0..(n - 2)
  OBVIOUS
<1> HIDE DEF found
<1>3. CASE found = {}
  BY <1>1, <1>3
<1>4. CASE found # {}
  <2>1. Min(found) \in 0..(n - 2)
    BY <1>2, <1>4, LeastOf
  <2>2. MP3FindSyncWord(from, n) = Min(found)
    BY <1>1, <1>4
  <2> QED BY <2>1, <2>2
<1> QED BY <1>3, <1>4

\* The outcomes of MP3Decode.
LEMMA DecodeTypes ==
  ASSUME Types, NEW ptr \in Int, NEW n \in Int, NEW d \in MP3Decode(ptr, n)
  PROVE  /\ d.ok \in BOOLEAN /\ d.readPtr \in Int /\ d.left \in Int /\ d.frame \in Nat
         /\ d.size \in Nat
         /\ d.left <= n /\ (d.ok => d.left >= 0 /\ d.left < n - 1)
<1>1. HeadLen \in Nat /\ HeadLen > 1 /\ BufLen \in Nat
  BY Mp3Assumption
<1>2. At(ptr) \in Cell
  <2>1. CASE ptr \in 0..(BufLen - 1)
    <3>1. ptr + 1 \in 1..BufLen
      BY <1>1, <2>1
    <3> QED BY <2>1, <3>1 DEF Types, At
  <2>2. CASE ptr \notin 0..(BufLen - 1)
    BY <2>2 DEF At, Cell
  <2> QED BY <2>1, <2>2
<1>3. CASE ~HeaderAt(ptr)
  <2>1. d = [ok |-> FALSE, readPtr |-> ptr, left |-> n, frame |-> 0, size |-> 0]
    BY <1>3 DEF MP3Decode
  <2> QED BY <2>1
<1>4. CASE HeaderAt(ptr)
  <2>1. At(ptr)[2] = 1
    BY <1>4 DEF HeaderAt
  <2>2. At(ptr) # Junk
    BY <2>1 DEF Junk
  <2>3. At(ptr) \in Nat \X Nat \X {l \in Nat : l >= HeadLen} \X Nat
    BY <1>2, <2>2 DEF Cell
  <2> DEFINE l == At(ptr)[3]
             x == At(ptr)[1]
             z == At(ptr)[4]
  <2>4. l \in Nat /\ l >= HeadLen /\ x \in Nat /\ z \in Nat
    BY <2>3
  <2> HIDE DEF l, x, z
  <2>5. CASE l > n
    <3>1. d = [ok |-> FALSE, readPtr |-> ptr + HeadLen, left |-> n - HeadLen, frame |-> 0,
              size |-> 0]
      BY <1>4, <2>5 DEF MP3Decode, l
    <3> QED BY <1>1, <3>1
  <2>6. CASE ~(l > n)
    <3>1. d \in [ok : {Intact(ptr), TRUE}, readPtr : {ptr + l}, left : {n - l},
                 frame : {IF Intact(ptr) THEN x ELSE 0}, size : {z}]
      BY <1>4, <2>6 DEF MP3Decode, l, x, z
    <3>2. d.ok \in {Intact(ptr), TRUE} /\ d.readPtr = ptr + l /\ d.left = n - l
          /\ d.frame \in {x, 0} /\ d.size = z
      BY <3>1
    <3>3. Intact(ptr) \in BOOLEAN
      BY DEF Intact
    <3>4. d.ok \in BOOLEAN
      BY <3>2, <3>3, Zenon
    <3>5. d.readPtr \in Int /\ d.left \in Int /\ d.left <= n /\ d.left >= 0 /\ d.left < n - 1
      BY <1>1, <2>4, <2>6, <3>2
    <3> QED BY <2>4, <3>2, <3>4, <3>5
  <2> QED BY <2>5, <2>6
<1> QED BY <1>3, <1>4

\* What is read is there, and has room.
LEMMA ReadFits ==
  ASSUME Types, Places, NEW n \in 1..BufLen, Read(n)
  PROVE  /\ last_left \in 0..BufLen /\ Len(src) \in Nat
         /\ n <= BufLen - last_left /\ n <= Len(src)
<1>1. BufLen \in Nat
  BY Mp3Assumption
<1>2. status = "running" /\ n \in 1..Min({BufLen - last_left, Len(src)})
  BY DEF Read
<1>3. last_left \in 0..BufLen /\ Len(src) \in Nat
  BY <1>1, <1>2 DEF Types, Places
<1> DEFINE X == {BufLen - last_left, Len(src)}
<1>4. X \in SUBSET Nat /\ X # {}
  BY <1>1, <1>3
<1>5. Min(X) \in X /\ \A y \in X : Min(X) <= y
  BY <1>4, LeastOf
<1>6. Min(X) \in Nat /\ Min(X) <= BufLen - last_left /\ Min(X) <= Len(src) /\ n \in 1..Min(X)
  BY <1>2, <1>4, <1>5
<1> HIDE DEF X
<1> QED BY <1>1, <1>3, <1>6

\* The types after a step.
LEMMA TypesNext ==
  ASSUME Types, Places, [Next]_vars
  PROVE  Types' /\ Places'
<1> USE DEF ghosts, locals
<1>1. HeadLen \in Nat /\ HeadLen > 1 /\ BufLen \in Nat
  BY Mp3Assumption
<1>2. \A u \in Nat : FrameSize(u) \in Nat
  BY Mp3Assumption DEF FrameSize
<1>3. Junk \in Cell
  BY DEF Cell
<1>4. ASSUME NEW i \in Int
      PROVE  At(i) \in Cell
  <2>1. CASE i \in 0..(BufLen - 1)
    <3>1. i + 1 \in 1..BufLen
      BY <1>1, <2>1
    <3> QED BY <2>1, <3>1 DEF Types, At
  <2>2. CASE i \notin 0..(BufLen - 1)
    BY <1>3, <2>2 DEF At
  <2> QED BY <2>1, <2>2
<1>5. ASSUME NEW s \in Streams, NEW newBuffer \in BOOLEAN, Open(s, newBuffer)
      PROVE  Types' /\ Places'
  <2>1. /\ status' = "running" /\ pc' = "read" /\ out' = <<>> /\ trouble' = {}
        /\ clean' \in BOOLEAN /\ fits' \in BOOLEAN /\ last_left >= 0 /\ last_left' = last_left
        /\ UNCHANGED <<user_data_0, readPtr, left, framesize>>
        /\ src' = Cells(s, played.last + 1)
        /\ in_buffer' = IF newBuffer THEN [i \in 1..BufLen |-> Junk] ELSE in_buffer
        /\ played' = [n |-> played.n + 1, first |-> played.last + 1,
                      last |-> played.last + 1 + Len(s.pads) - 1 - (IF s.cut > 0 THEN 1 ELSE 0)]
    BY <1>5 DEF Open
  <2>2. played.n \in Nat /\ played.last \in Nat
    BY DEF Types
  <2>3. src' \in Seq(Cell)
    BY <2>1, <2>2, CellsAre
  <2>4. Len(s.pads) \in Nat \ {0}
    BY FrameLens
  <2>5. played' \in [n : Nat, first : Nat, last : Nat]
    <3> DEFINE m == IF s.cut > 0 THEN 1 ELSE 0
               l == played.last + 1 + Len(s.pads) - 1 - m
    <3>1. l \in Nat
      <4>1. m \in 0..1
        OBVIOUS
      <4> HIDE DEF m
      <4> QED BY <2>2, <2>4, <4>1
    <3>2. played.n + 1 \in Nat /\ played.last + 1 \in Nat
      BY <2>2, <2>4
    <3>3. played' = [n |-> played.n + 1, first |-> played.last + 1, last |-> l]
      BY <2>1
    <3> HIDE DEF l
    <3> QED BY <3>1, <3>2, <3>3
  <2>6. in_buffer' \in [1..BufLen -> Cell]
    BY <1>3, <2>1 DEF Types
  <2>7. Types'
    <3>1. out' \in Seq(Nat) /\ trouble' \subseteq {"timeout", "output", "stop"}
      BY <2>1
    <3>2. /\ user_data_0' \in Nat /\ readPtr' \in Int /\ left' \in Int /\ framesize' \in Nat
          /\ last_left' \in Int
      BY <2>1 DEF Types
    <3>3. clean' \in BOOLEAN /\ fits' \in BOOLEAN
      BY <2>1, Zenon
    <3> QED BY <2>1, <2>3, <2>5, <2>6, <3>1, <3>2, <3>3 DEF Types
  <2> QED BY <2>1, <2>7 DEF Places
<1>6. ASSUME NEW n \in 1..BufLen, Read(n)
      PROVE  Types' /\ Places'
  <2>1. /\ status = "running" /\ status' = status /\ pc = "read" /\ pc' = "decode"
        /\ n \in 1..Min({BufLen - last_left, Len(src)})
        /\ in_buffer' = [i \in 1..BufLen |-> IF i \in (last_left + 1)..(last_left + n)
                                             THEN src[i - last_left] ELSE in_buffer[i]]
        /\ src' = SubSeq(src, n + 1, Len(src))
        /\ readPtr' = 0 /\ left' = last_left + n /\ framesize' = FrameSize(user_data_0)
        /\ UNCHANGED <<last_left, user_data_0, out, played, clean, fits, trouble>>
    BY <1>6 DEF Read
  <2>2. /\ last_left \in 0..BufLen /\ src \in Seq(Cell) /\ user_data_0 \in Nat
        /\ Len(src) \in Nat
    BY <1>1, <2>1 DEF Types, Places
  <2>3. n <= BufLen - last_left /\ n <= Len(src)
    BY <1>6, ReadFits
  <2>4. in_buffer' \in [1..BufLen -> Cell]
    <3>1. ASSUME NEW i \in 1..BufLen, i \in (last_left + 1)..(last_left + n)
          PROVE  src[i - last_left] \in Cell
      <4>1. i - last_left \in 1..Len(src)
        BY <1>1, <2>2, <2>3, <3>1
      <4> QED BY <2>2, <4>1
    <3>2. \A i \in 1..BufLen : in_buffer[i] \in Cell
      BY DEF Types
    <3> QED BY <2>1, <3>1, <3>2
  <2>5. src' \in Seq(Cell)
    <3>1. \A i \in (n + 1)..Len(src) : src[i] \in Cell
      BY <2>2
    <3>2. n + 1 \in 1..(Len(src) + 1)
      BY <1>1, <2>2, <2>3
    <3> QED BY <2>1, <2>2, <3>1, <3>2, SubSeqProperties
  <2>6. left' \in 0..BufLen /\ left' \in Int
    BY <1>1, <2>1, <2>2, <2>3
  <2>7. framesize' \in Nat
    BY <1>2, <2>1, <2>2
  <2>8. Types'
    BY <2>1, <2>4, <2>5, <2>6, <2>7 DEF Types
  <2> QED BY <2>1, <2>6, <2>8 DEF Places
<1>7. CASE ReadTimeout
  <2>1. in_buffer' \in [1..BufLen -> Cell]
    BY <1>3, <1>7 DEF ReadTimeout
  <2>2. /\ status = "running" /\ pc = "read" /\ trouble' = trouble \cup {"timeout"}
        /\ UNCHANGED <<src, last_left, user_data_0, status, pc, readPtr, left, framesize,
                       out, played, clean, fits>>
    BY <1>7 DEF ReadTimeout
  <2> QED BY <2>1, <2>2 DEF Types, Places
<1>8. CASE ReadNothing
  BY <1>8 DEF ReadNothing, End, Types, Places
<1>9. CASE ReadAbort
  BY <1>9 DEF ReadAbort, End, Types, Places
<1>10. CASE ReadDone
  <2>1. /\ status = "running" /\ pc = "read" /\ pc' = "drain" /\ src = <<>>
        /\ last_left \in 1..(BufLen - 1) /\ readPtr' = 0 /\ left' = last_left
        /\ UNCHANGED <<src, in_buffer, last_left, user_data_0, status, framesize, out,
                       played, clean, fits, trouble>>
    BY <1>10 DEF ReadDone
  <2>2. left' \in 0..BufLen /\ left' < BufLen
    BY <1>1, <2>1
  <2> QED BY <2>1, <2>2 DEF Types, Places
<1>11. CASE KeepRest
  <2>1. /\ pc = "decode" /\ pc' = "read" /\ last_left' = left
        /\ in_buffer' = [i \in 1..BufLen |-> IF i <= left THEN At(readPtr + i - 1)
                                             ELSE in_buffer[i]]
        /\ UNCHANGED <<src, user_data_0, status, readPtr, left, framesize, out, played,
                       clean, fits, trouble>>
    BY <1>11 DEF KeepRest
  <2>2. \A i \in 1..BufLen : At(readPtr + i - 1) \in Cell
    <3>1. \A i \in 1..BufLen : readPtr + i - 1 \in Int
      BY DEF Types
    <3> QED BY <1>4, <3>1
  <2>3. in_buffer' \in [1..BufLen -> Cell]
    BY <2>1, <2>2 DEF Types
  <2>4. left \in 0..BufLen
    BY <2>1 DEF Places
  <2> QED BY <1>1, <2>1, <2>3, <2>4 DEF Types, Places
<1>12. ASSUME NEW sent \in BOOLEAN, DecodeFrame(sent)
       PROVE  Types' /\ Places'
  <2> DEFINE o == MP3FindSyncWord(readPtr, left)
  <2>1. /\ pc = "decode" /\ o >= 0
        /\ UNCHANGED <<src, in_buffer, last_left, framesize, played, clean, fits>>
    BY <1>12 DEF DecodeFrame
  <2>2. PICK d \in MP3Decode(readPtr + o, left - o) :
          IF ~d.ok
          THEN /\ status' = "error" /\ pc' = "read"
               /\ UNCHANGED <<readPtr, left, user_data_0, out, trouble>>
          ELSE /\ readPtr' = d.readPtr /\ left' = d.left /\ user_data_0' = d.size + 1
               /\ out' = Append(out, d.frame) /\ pc' = (IF sent THEN pc ELSE "read")
               /\ trouble' = (IF sent THEN trouble ELSE trouble \cup {"output"})
               /\ UNCHANGED status
    BY <1>12 DEF DecodeFrame, End
  <2>3. /\ readPtr \in Int /\ left \in Int /\ left \in 0..BufLen /\ status = "running"
        /\ out \in Seq(Nat)
    BY <2>1 DEF Types, Places
  <2>4. o \in Int
    BY <2>3, SyncRange
  <2> HIDE DEF o
  <2>5. readPtr + o \in Int /\ left - o \in Int
    BY <2>3, <2>4
  <2>6. /\ d.ok \in BOOLEAN /\ d.readPtr \in Int /\ d.left \in Int /\ d.frame \in Nat
        /\ d.size \in Nat /\ d.left <= left - o /\ (d.ok => d.left >= 0)
    BY <2>2, <2>5, DecodeTypes
  <2>7. CASE ~d.ok
    BY <2>1, <2>2, <2>7 DEF Types, Places
  <2>8. CASE d.ok
    <3>1. d.left \in 0..BufLen
      BY <1>1, <2>1, <2>3, <2>4, <2>6, <2>8
    <3>2. Append(out, d.frame) \in Seq(Nat)
      BY <2>3, <2>6
    <3>3. /\ readPtr' = d.readPtr /\ left' = d.left /\ user_data_0' = d.size + 1
          /\ out' = Append(out, d.frame) /\ pc' \in {"decode", "read"}
          /\ trouble' \subseteq trouble \cup {"output"}
          /\ UNCHANGED status
      BY <2>1, <2>2, <2>8
    <3>4. d.size + 1 \in Nat
      BY <2>6
    <3>5. Types'
      BY <2>1, <2>3, <2>6, <3>2, <3>3, <3>4 DEF Types
    <3> QED BY <2>1, <2>3, <3>1, <3>3, <3>5 DEF Places
  <2> QED BY <2>6, <2>7, <2>8
<1>13. ASSUME NEW sent \in BOOLEAN, DrainFrame(sent)
       PROVE  Types' /\ Places'
  <2> DEFINE o == MP3FindSyncWord(readPtr, left)
  <2>1. pc = "drain" /\ UNCHANGED <<src, in_buffer, framesize, played, clean, fits>>
    BY <1>13 DEF DrainFrame
  <2>2. PICK d \in MP3Decode(readPtr + o, left - o) :
          /\ readPtr' = d.readPtr /\ left' = d.left
          /\ IF ~d.ok
             THEN /\ last_left' = d.left /\ status' = "finished" /\ pc' = "read"
                  /\ UNCHANGED <<user_data_0, out, trouble>>
             ELSE /\ user_data_0' = d.size + 1
                  /\ out' = Append(out, d.frame) /\ pc' = (IF sent THEN pc ELSE "read")
                  /\ trouble' = (IF sent THEN trouble ELSE trouble \cup {"output"})
                  /\ UNCHANGED <<last_left, status>>
    BY <1>13 DEF DrainFrame, End
  <2>3. readPtr \in Int /\ left \in Int /\ left \in 0..BufLen /\ left < BufLen
        /\ status = "running" /\ out \in Seq(Nat)
        /\ src = <<>>
    BY <2>1 DEF Types, Places
  <2>0. o \in Int /\ (o = -1 \/ o \in 0..(left - 2))
    BY <2>3, SyncRange
  <2> HIDE DEF o
  <2>4. o \in Int /\ o >= -1
    BY <2>0
  <2>5. readPtr + o \in Int /\ left - o \in Int
    BY <2>3, <2>4
  <2>6. /\ d.ok \in BOOLEAN /\ d.readPtr \in Int /\ d.left \in Int /\ d.frame \in Nat
        /\ d.size \in Nat /\ d.left <= left - o /\ (d.ok => d.left >= 0 /\ d.left < left - o - 1)
    BY <2>2, <2>5, DecodeTypes
  <2>7. CASE ~d.ok
    <3>1. d.left <= BufLen
      BY <1>1, <2>3, <2>4, <2>6
    <3> QED BY <2>1, <2>2, <2>6, <2>7, <3>1 DEF Types, Places
  <2>8. CASE d.ok
    <3>1. d.left \in 0..BufLen /\ d.left < BufLen
      BY <1>1, <2>1, <2>3, <2>4, <2>6, <2>8
    <3>2. Append(out, d.frame) \in Seq(Nat)
      BY <2>3, <2>6
    <3>3. /\ readPtr' = d.readPtr /\ left' = d.left /\ user_data_0' = d.size + 1
          /\ out' = Append(out, d.frame) /\ pc' \in {"drain", "read"}
          /\ trouble' \subseteq trouble \cup {"output"}
          /\ UNCHANGED <<last_left, status>>
      BY <2>1, <2>2, <2>8
    <3>4. d.size + 1 \in Nat
      BY <2>6
    <3>5. Types'
      BY <2>1, <2>3, <2>6, <3>2, <3>3, <3>4 DEF Types
    <3> QED BY <2>1, <2>3, <3>1, <3>3, <3>5 DEF Places
  <2> QED BY <2>6, <2>7, <2>8
<1>14. CASE UNCHANGED vars
  BY <1>14 DEF vars, Types, Places
<1>15. Sent \subseteq BOOLEAN
  BY DEF Sent
<1> QED
  BY <1>5, <1>6, <1>7, <1>8, <1>9, <1>10, <1>11, <1>12, <1>13, <1>14, <1>15 DEF Next

-----------------------------------------------------------------------------
(* The next frame. *)

\* When nothing was lost, the first frame in the window is the next one.
LEMMA NextFrame ==
  ASSUME NEW s \in Streams, NEW first \in Nat, NEW frames \in Seq(Nat),
         NEW b, NEW ptr, NEW rest, NEW q, NEW w,
         IsWindow(Cells(s, first), b, ptr, rest, q, w), IsNext(s, frames, q, w)
  PROVE  LET g     == Len(frames) + 1
             heads == Heads(s, rest, q, w)
         IN  /\ g \in 1..(Len(s.pads) + 1) /\ q + w <= Before(s, g)
             /\ heads # {} => g \in heads
             /\ \A f \in heads : (\A h \in heads : Before(s, f) <= Before(s, h)) => f = g
             /\ g <= Len(s.pads) /\ heads = {} => q + rest < Before(s, g) + 2
             /\ g > Len(s.pads) => rest = 0 /\ s.cut = 0
             /\ \A n \in Nat : Suffices(s, frames, w, n) => Before(s, g) - q + n <= BufLen
<1> DEFINE c == Cells(s, first)
           k == Len(s.pads)
           g == Len(frames) + 1
           heads == Heads(s, rest, q, w)
<1>1. /\ rest \in 0..BufLen /\ q \in Int /\ w \in 0..rest /\ q + w >= 0 /\ q + rest <= Len(c)
      /\ BufLen \in Nat
  BY Mp3Assumption DEF IsWindow
<1>2. /\ k \in Nat \ {0} /\ s.tag \in Nat /\ s.cut \in Nat
      /\ \A f \in 1..k : FrameLen(s, f) \in Nat /\ FrameLen(s, f) >= 2
  <2>1. /\ k \in Nat \ {0} /\ s.tag \in Nat /\ s.cut \in 0..(FrameLen(s, k) - 1)
        /\ \A f \in 1..k : FrameLen(s, f) \in Nat /\ FrameLen(s, f) >= HeadLen
    BY FrameLens
  <2>2. HeadLen \in Nat /\ HeadLen > 1
    BY Mp3Assumption
  <2> QED BY <2>1, <2>2
<1>3. /\ Before(s, 1) = s.tag
      /\ \A f \in 1..(k + 1) : Before(s, f) \in Nat
      /\ \A f \in 1..k : Before(s, f + 1) = Before(s, f) + FrameLen(s, f)
  BY BeforeNext
<1>4. /\ \A f \in 1..(k + 1) : \A h \in f..(k + 1) : Before(s, f) <= Before(s, h)
     
      /\ \A f \in 1..k : \A h \in (f + 1)..(k + 1) : Before(s, f) + FrameLen(s, f) <= Before(s, h)
  BY BeforeGrows
<1>5. Len(c) = Before(s, k + 1) - s.cut
  BY CellsAre
<1>6. \A f : f \in heads <=> f \in 1..k /\ Before(s, f) >= q + w /\ Before(s, f) + 2 <= q + rest
  BY DEF Heads
<1> HIDE DEF c, k, heads
<1>7. g \in 1..(k + 1) /\ \/ frames = <<>> /\ g = 1 /\ q + w = 0
                          \/ frames # <<>> /\ g > 1 /\ w = 0 /\ q = Before(s, g)
  <2>1. CASE frames = <<>>
    BY <1>2, <2>1 DEF IsNext
  <2>2. CASE frames # <<>>
    <3>1. w = 0 /\ Len(frames) \in 1..k /\ q = Before(s, Len(frames) + 1)
      BY <2>2 DEF IsNext, k
    <3> QED BY <1>2, <2>2, <3>1
  <2> QED BY <2>1, <2>2
<1> HIDE DEF g
<1>8. Before(s, g) \in Nat /\ q + w <= Before(s, g)
  <2>1. Before(s, g) \in Nat
    BY <1>3, <1>7
  <2> QED BY <1>1, <1>7, <2>1
<1>9. ASSUME NEW f \in heads
      PROVE  f \in g..k /\ Before(s, g) <= Before(s, f) /\ g \in 1..k
  <2>1. f \in 1..k /\ Before(s, f) >= q + w /\ Before(s, f) \in Nat
        /\ FrameLen(s, f) \in Nat /\ FrameLen(s, f) >= 2
    BY <1>2, <1>3, <1>6
  <2>2. f >= g
    <3> SUFFICES ASSUME f < g
                 PROVE  FALSE
      BY <1>2, <1>7, <2>1
    <3>1. w = 0 /\ q = Before(s, g) /\ g \in (f + 1)..(k + 1)
      BY <1>2, <1>7, <2>1
    <3>2. Before(s, f) + FrameLen(s, f) <= Before(s, g)
      BY <1>4, <2>1, <3>1
    <3> QED BY <1>8, <2>1, <3>1, <3>2
  <2>3. f \in g..(k + 1) /\ f \in g..k /\ g \in 1..k
    BY <1>2, <1>7, <2>1, <2>2
  <2> QED BY <1>4, <1>7, <2>3
<1>10. heads # {} => g \in heads
  <2> SUFFICES ASSUME NEW f \in heads
               PROVE  g \in heads
    BY <1>6
  <2>1. Before(s, f) + 2 <= q + rest /\ Before(s, f) \in Nat /\ Before(s, g) <= Before(s, f)
        /\ g \in 1..k
    <3>1. f \in 1..k /\ Before(s, f) + 2 <= q + rest
      BY <1>6
    <3>2. f \in 1..(k + 1)
      BY <1>2, <3>1
    <3>3. Before(s, f) \in Nat
      BY <1>3, <3>2
    <3> QED BY <1>9, <3>1, <3>3
  <2>2. Before(s, g) + 2 <= q + rest
    BY <1>1, <1>8, <2>1
  <2> QED BY <1>1, <1>6, <1>8, <2>1, <2>2
<1>11. ASSUME NEW f \in heads, \A h \in heads : Before(s, f) <= Before(s, h)
       PROVE  f = g
  <2>1. f \in g..k /\ g \in 1..k /\ Before(s, f) <= Before(s, g)
    BY <1>9, <1>10, <1>11
  <2>2. CASE f > g
    <3>1. f \in (g + 1)..(k + 1)
      BY <1>2, <2>1, <2>2
    <3>2. Before(s, g) + FrameLen(s, g) <= Before(s, f)
      BY <1>4, <2>1, <3>1
    <3>3. FrameLen(s, g) \in Nat /\ FrameLen(s, g) >= 2 /\ Before(s, f) \in Nat
      BY <1>2, <1>3, <2>1, <3>1
    <3> QED BY <1>8, <2>1, <3>2, <3>3
  <2> QED BY <1>2, <2>1, <2>2
<1>12. ASSUME g <= k, heads = {}
       PROVE  q + rest < Before(s, g) + 2
  <2>1. g \in 1..k /\ Before(s, g) >= q + w
    BY <1>1, <1>2, <1>7, <1>8, <1>12
  <2>2. ~(Before(s, g) + 2 <= q + rest)
    BY <1>6, <1>12, <2>1
  <2> QED BY <1>1, <1>8, <2>2
<1>13. ASSUME g > k
       PROVE  rest = 0 /\ s.cut = 0
  <2>1. g = k + 1 /\ g > 1
    BY <1>2, <1>7, <1>13
  <2>2. q = Before(s, k + 1)
    BY <1>7, <2>1
  <2>3. q + rest <= Before(s, k + 1) - s.cut
    BY <1>1, <1>5
  <2> QED BY <1>1, <1>2, <2>2, <2>3
<1>14. ASSUME NEW n \in Nat, Suffices(s, frames, w, n)
       PROVE  Before(s, g) - q + n <= BufLen
  <2>1. n <= BufLen /\ (frames = <<>> => w + s.tag + n <= BufLen)
    BY <1>14 DEF Suffices
  <2>2. CASE frames = <<>>
    <3>1. Before(s, g) = s.tag /\ q + w = 0
      BY <1>3, <1>7, <2>2
    <3>2. w \in Int /\ s.tag \in Int /\ w + s.tag + n <= BufLen
      BY <1>1, <1>2, <2>1, <2>2
    <3> QED BY <1>1, <3>1, <3>2
  <2>3. CASE frames # <<>>
    BY <1>1, <1>7, <2>1, <2>3
  <2> QED BY <2>2, <2>3
<1>15. g > k <=> ~(g <= k)
  BY <1>2, <1>7
<1> QED BY <1>7, <1>8, <1>10, <1>11, <1>12, <1>13, <1>14 DEF g, k, heads

\* All frames of a stream were put out when none is left in front of its end.
LEMMA AllFrames ==
  ASSUME NEW s \in Streams, NEW first \in Nat, NEW frames \in Seq(Nat),
         NEW b, NEW ptr, NEW rest, NEW q, NEW w,
         IsWindow(Cells(s, first), b, ptr, rest, q, w), IsNext(s, frames, q, w),
         q + rest = Len(Cells(s, first)),
         \A f \in Heads(s, rest, q, w) : Before(s, f) + FrameLen(s, f) > q + rest
  PROVE  Len(frames) = Len(s.pads) - (IF s.cut > 0 THEN 1 ELSE 0)
<1> DEFINE c == Cells(s, first)
           k == Len(s.pads)
           g == Len(frames) + 1
           heads == Heads(s, rest, q, w)
<1>1. /\ g \in 1..(k + 1) /\ (heads # {} => g \in heads)
      /\ g <= k /\ heads = {} => q + rest < Before(s, g) + 2
      /\ g > k => rest = 0 /\ s.cut = 0
  BY NextFrame
<1>2. /\ k \in Nat \ {0} /\ s.cut \in 0..(FrameLen(s, k) - 1)
      /\ \A f \in 1..k : FrameLen(s, f) \in Nat /\ FrameLen(s, f) >= 2
  <2>1. /\ k \in Nat \ {0} /\ s.cut \in 0..(FrameLen(s, k) - 1)
        /\ \A f \in 1..k : FrameLen(s, f) \in Nat /\ FrameLen(s, f) >= HeadLen
    BY FrameLens
  <2>2. HeadLen \in Nat /\ HeadLen > 1
    BY Mp3Assumption
  <2> QED BY <2>1, <2>2
<1>3. /\ \A f \in 1..(k + 1) : Before(s, f) \in Nat
      /\ \A f \in 1..k : Before(s, f + 1) = Before(s, f) + FrameLen(s, f)
  BY BeforeNext
<1>4. \A f \in 1..(k + 1) : \A h \in f..(k + 1) : Before(s, f) <= Before(s, h)
  BY BeforeGrows
<1>5. Len(c) = Before(s, k + 1) - s.cut /\ Before(s, k) < Len(c) /\ q + rest = Len(c)
  BY CellsAre
<1>6. \A f \in heads : Before(s, f) + FrameLen(s, f) > q + rest
  OBVIOUS
<1> HIDE DEF c, k, heads
<1>7. Len(frames) = g - 1 /\ Len(frames) \in Nat /\ g \in Int
  OBVIOUS
<1> HIDE DEF g
<1>8. s.cut \in Nat /\ FrameLen(s, k) \in Nat
  <2>1. k \in 1..k
    BY <1>2
  <2> QED BY <1>2, <2>1
<1>9. CASE g > k
  <2>1. g = k + 1 /\ s.cut = 0
    BY <1>1, <1>2, <1>9
  <2> QED BY <1>2, <1>7, <2>1 DEF k
<1>10. CASE g <= k
  <2>1. g \in 1..k /\ g + 1 \in 1..(k + 1) /\ Before(s, g) \in Nat /\ FrameLen(s, g) \in Nat
        /\ FrameLen(s, g) >= 2 /\ Before(s, g + 1) = Before(s, g) + FrameLen(s, g)
    BY <1>1, <1>2, <1>3, <1>10
  <2>2. Before(s, k + 1) \in Nat /\ Before(s, k) \in Nat
    BY <1>2, <1>3
  <2>3. Before(s, g) + FrameLen(s, g) > Len(c)
    <3>1. CASE heads = {}
      BY <1>1, <1>5, <1>8, <1>10, <2>1, <2>2, <3>1
    <3>2. CASE heads # {}
      BY <1>1, <1>5, <1>6, <3>2
    <3> QED BY <3>1, <3>2
  <2>4. g = k
    <3> SUFFICES ASSUME g < k
                 PROVE  FALSE
      BY <1>2, <1>10, <2>1
    <3>1. k \in (g + 1)..(k + 1)
      BY <1>2, <2>1
    <3>2. Before(s, g + 1) <= Before(s, k)
      BY <1>4, <2>1, <3>1
    <3> QED BY <1>5, <1>8, <2>1, <2>2, <2>3, <3>2
  <2>5. s.cut > 0
    BY <1>5, <1>8, <2>1, <2>2, <2>3, <2>4
  <2> QED BY <1>2, <1>7, <2>4, <2>5 DEF k
<1> QED BY <1>1, <1>2, <1>9, <1>10

-----------------------------------------------------------------------------
(* Steps of a stream that is played. *)

\* What a step may leave alone.
LEMMA PlayingKept ==
  ASSUME NEW s \in Streams, NEW w \in Int, NEW w2 \in Int, Playing(s, w),
         UNCHANGED <<played, fits, out>>,
         \/ trouble' = trouble
         \/ "timeout" \in trouble' /\ trouble \subseteq trouble',
         IsAhead(Cells(s, played.first), src'),
         IsWindow(Cells(s, played.first), in_buffer', Ptr', Rest', Gone(s)', w2),
         Gone(s)' = Gone(s), w2 = w \/ "timeout" \in trouble',
         fits /\ trouble' = {} => Roomy(s, w2)'
  PROVE  Playing(s, w2)'
<1> DEFINE c == Cells(s, played.first)
<1>1. c' = c
  OBVIOUS
<1>2. Stream(s)'
  BY DEF Playing, Stream
<1>3. IsAhead(c, src')
  OBVIOUS
<1>4. IsWindow(c, in_buffer', Ptr', Rest', Gone(s)', w2)
  OBVIOUS
<1>5. IsBehind(s, played.first', out', Gone(s)')
  BY DEF Playing
<1>6. "timeout" \notin trouble' => IsNext(s, out', Gone(s)', w2)
  BY DEF Playing
<1>7. fits' /\ trouble' = {} => Roomy(s, w2)'
  OBVIOUS
<1> QED BY <1>1, <1>2, <1>3, <1>4, <1>5, <1>6, <1>7 DEF Playing

\* process reads on.
LEMMA PlayingReads ==
  ASSUME Types, Places, NEW s \in Streams, NEW w \in Int, Playing(s, w),
         NEW n \in 1..BufLen, Read(n)
  PROVE  Playing(s, w)'
<1> DEFINE c == Cells(s, played.first)
           q == Gone(s)
<1>1. /\ pc = "read" /\ pc' = "decode"
      /\ in_buffer' = [i \in 1..BufLen |-> IF i \in (last_left + 1)..(last_left + n)
                                           THEN src[i - last_left] ELSE in_buffer[i]]
      /\ src' = SubSeq(src, n + 1, Len(src))
      /\ readPtr' = 0 /\ left' = last_left + n /\ framesize' = FrameSize(user_data_0)
      /\ UNCHANGED <<last_left, user_data_0, out, played, fits, trouble>>
  BY DEF Read, ghosts
<1>2. /\ last_left \in 0..BufLen /\ Len(src) \in Nat /\ BufLen \in Nat
      /\ n <= BufLen - last_left /\ n <= Len(src)
  BY ReadFits, Mp3Assumption
<1>3. Ptr = 0 /\ Rest = last_left /\ Ptr' = 0 /\ Rest' = last_left + n
  BY <1>1 DEF Ptr, Rest
<1>4. Len(src') = Len(src) - n /\ \A i \in 1..(Len(src) - n) : src'[i] = src[n + i]
  <2>1. src \in Seq(Cell) /\ n + 1 \in 1..(Len(src) + 1)
    BY <1>2 DEF Types
  <2>2. \A i \in (n + 1)..Len(src) : src[i] \in Cell
    BY <2>1
  <2>3. /\ Len(SubSeq(src, n + 1, Len(src)))
             = IF n + 1 <= Len(src) THEN Len(src) - (n + 1) + 1 ELSE 0
        /\ \A i \in 1..(Len(src) - (n + 1) + 1) :
             SubSeq(src, n + 1, Len(src))[i] = src[(n + 1) + i - 1]
    BY <2>1, <2>2, SubSeqProperties
  <2>4. \A i \in 1..(Len(src) - n) : (n + 1) + i - 1 = n + i
    BY <1>2
  <2>5. Len(src) - (n + 1) + 1 = Len(src) - n
    BY <1>2
  <2>6. Len(SubSeq(src, n + 1, Len(src))) = Len(src) - n
    <3> DEFINE l == Len(SubSeq(src, n + 1, Len(src)))
               m == Len(src)
    <3>1. l = (IF n + 1 <= m THEN m - (n + 1) + 1 ELSE 0) /\ m \in Nat /\ n <= m /\ n \in Int
      BY <1>2, <2>3
    <3> HIDE DEF l, m
    <3>2. l = m - n
      BY <3>1
    <3> QED BY <3>2 DEF l, m
  <2>7. ASSUME NEW i \in 1..(Len(src) - n)
        PROVE  SubSeq(src, n + 1, Len(src))[i] = src[n + i]
    <3>1. i \in 1..(Len(src) - (n + 1) + 1)
      BY <2>5
    <3> QED BY <2>3, <2>4, <3>1
  <2> QED BY <1>1, <2>6, <2>7
<1>5. c \in Seq(Cell) /\ Len(c) \in Nat
  <2>1. played.first \in Nat
    BY DEF Types
  <2>2. c \in Seq(Cell)
    BY <2>1, CellsAre
  <2> QED BY <2>2
<1>6. q = Len(c) - Len(src) - last_left
  BY <1>3 DEF Gone
<1>7. Gone(s)' = Len(c) - Len(src') - (last_left + n)
  BY <1>1, <1>3 DEF Gone
<1>8. IsAhead(c, src) /\ IsWindow(c, in_buffer, 0, last_left, q, w)
  BY <1>3 DEF Playing
<1> HIDE DEF c, q
<1>9. Gone(s)' = q
  BY <1>2, <1>4, <1>5, <1>6, <1>7
<1>10. IsAhead(c, src')
  <2>1. ASSUME NEW i \in 1..(Len(src) - n)
        PROVE  src'[i] = c[Len(c) - (Len(src) - n) + i]
    <3>1. n + i \in 1..Len(src) /\ Len(c) - Len(src) + (n + i) = Len(c) - (Len(src) - n) + i
      BY <1>2, <1>5
    <3>2. src[n + i] = c[Len(c) - Len(src) + (n + i)]
      BY <1>8, <3>1 DEF IsAhead
    <3> QED BY <1>4, <3>1, <3>2
  <2>2. Len(src) - n <= Len(c)
    BY <1>2, <1>5, <1>8 DEF IsAhead
  <2> QED BY <1>4, <2>1, <2>2 DEF IsAhead
<1>11. IsWindow(c, in_buffer', 0, last_left + n, q, w)
  <2>1. /\ q \in Int /\ w \in 0..last_left /\ q + w >= 0 /\ q + last_left <= Len(c)
        /\ \A j \in 1..w : in_buffer[0 + j][2] # 1
        /\ \A j \in (w + 1)..last_left : in_buffer[0 + j] = c[q + j]
    BY <1>8 DEF IsWindow
  <2>2. /\ last_left + n \in 0..BufLen /\ 0 \in 0..(BufLen - (last_left + n))
        /\ w \in 0..(last_left + n)
    BY <1>2, <2>1
  <2>3. q + (last_left + n) <= Len(c)
    BY <1>2, <1>5, <1>6
  <2>4. ASSUME NEW j \in 1..last_left
        PROVE  in_buffer'[0 + j] = in_buffer[0 + j]
    BY <1>1, <1>2
  <2>5. ASSUME NEW j \in (last_left + 1)..(last_left + n)
        PROVE  in_buffer'[0 + j] = c[q + j]
    <3>1. j \in 1..BufLen /\ 0 + j = j /\ j - last_left \in 1..Len(src)
      BY <1>2
    <3>2. in_buffer'[j] = src[j - last_left]
      BY <1>1, <3>1
    <3>3. src[j - last_left] = c[Len(c) - Len(src) + (j - last_left)]
      BY <1>8, <3>1 DEF IsAhead
    <3>4. Len(c) - Len(src) + (j - last_left) = q + j
      BY <1>2, <1>5, <1>6
    <3> QED BY <3>1, <3>2, <3>3, <3>4
  <2>6. \A j \in 1..w : in_buffer'[0 + j][2] # 1
    <3>1. \A j \in 1..w : j \in 1..last_left
      BY <1>2, <2>1
    <3> QED BY <2>1, <2>4, <3>1
  <2>7. ASSUME NEW j \in (w + 1)..(last_left + n)
        PROVE  in_buffer'[0 + j] = c[q + j]
    <3>1. j \in (w + 1)..last_left \/ j \in (last_left + 1)..(last_left + n)
      BY <1>2, <2>1
    <3>2. j \in (w + 1)..last_left => j \in 1..last_left
      BY <1>2, <2>1
    <3> QED BY <2>1, <2>4, <2>5, <3>1, <3>2
  <2> QED BY <2>1, <2>2, <2>3, <2>6, <2>7 DEF IsWindow
<1>12. ASSUME fits, trouble' = {}
       PROVE  Roomy(s, w)'
  <2>1. Roomy(s, w)
    BY <1>1, <1>12 DEF Playing
  <2> QED BY <1>1, <2>1 DEF Roomy
<1>13. IsWindow(c, in_buffer', Ptr', Rest', Gone(s)', w)
  BY <1>3, <1>9, <1>11
<1> QED BY <1>1, <1>9, <1>10, <1>12, <1>13, PlayingKept DEF c, q

\* A wiped window holds nothing that looks like a frame.
LEMMA PlayingWiped ==
  ASSUME Types, Places, NEW s \in Streams, NEW w \in Int, Playing(s, w), ReadTimeout
  PROVE  Playing(s, last_left)'
<1> DEFINE c == Cells(s, played.first)
           q == Gone(s)
<1>1. /\ pc = "read" /\ status = "running" /\ in_buffer' = [i \in 1..BufLen |-> Junk]
      /\ trouble' = trouble \cup {"timeout"}
      /\ UNCHANGED <<src, last_left, user_data_0, pc, readPtr, left, framesize, out,
                     played, fits>>
  BY DEF ReadTimeout, ghosts, locals
<1>2. last_left \in 0..BufLen /\ BufLen \in Nat
  BY <1>1, Mp3Assumption DEF Types, Places
<1>3. Ptr = 0 /\ Rest = last_left /\ Ptr' = 0 /\ Rest' = last_left /\ Gone(s)' = q
  BY <1>1 DEF Ptr, Rest, Gone
<1>4. IsAhead(c, src) /\ IsWindow(c, in_buffer, 0, last_left, q, w)
  BY <1>3 DEF Playing
<1>5. IsWindow(c, in_buffer', 0, last_left, q, last_left)
  <2>1. q \in Int /\ q + w >= 0 /\ w \in 0..last_left /\ q + last_left <= Len(c)
    BY <1>4 DEF IsWindow
  <2> HIDE DEF c, q
  <2>2. last_left \in 0..last_left /\ q + last_left >= 0 /\ 0 \in 0..(BufLen - last_left)
    BY <1>2, <2>1
  <2>3. \A j \in 1..last_left : in_buffer'[0 + j][2] # 1
    BY <1>1, <1>2 DEF Junk
  <2>4. \A j \in (last_left + 1)..last_left : in_buffer'[0 + j] = c[q + j]
    BY <1>2
  <2> QED BY <1>2, <2>1, <2>2, <2>3, <2>4 DEF IsWindow
<1>6. "timeout" \in trouble' /\ trouble \subseteq trouble' /\ trouble' # {}
  BY <1>1
<1>7. Playing(s, w) /\ IsAhead(c, src')
  BY <1>1, <1>4
<1>8. IsWindow(c, in_buffer', Ptr', Rest', Gone(s)', last_left)
  BY <1>3, <1>5
<1> QED BY <1>1, <1>2, <1>3, <1>6, <1>7, <1>8, PlayingKept DEF c, q

\* What is left at the end of the stream is the window.
LEMMA PlayingDrains ==
  ASSUME Types, Places, NEW s \in Streams, NEW w \in Int, Playing(s, w), ReadDone
  PROVE  Playing(s, w)'
<1>1. /\ pc = "read" /\ pc' = "drain" /\ readPtr' = 0 /\ left' = last_left
      /\ UNCHANGED <<src, in_buffer, last_left, user_data_0, out, played, fits, trouble>>
  BY DEF ReadDone, ghosts
<1>2. Ptr = 0 /\ Rest = last_left /\ Ptr' = 0 /\ Rest' = last_left /\ Gone(s)' = Gone(s)
  BY <1>1 DEF Ptr, Rest, Gone
<1>3. ASSUME fits, trouble' = {}
      PROVE  Roomy(s, w)'
  <2>1. Roomy(s, w)
    BY <1>1, <1>3 DEF Playing
  <2> QED BY <1>1, <2>1 DEF Roomy
<1>4. /\ IsAhead(Cells(s, played.first), src')
      /\ IsWindow(Cells(s, played.first), in_buffer', Ptr', Rest', Gone(s)', w)
  BY <1>1, <1>2 DEF Playing
<1> QED BY <1>1, <1>2, <1>3, <1>4, PlayingKept

\* The window is moved to the front of the buffer; it is never full.
LEMMA PlayingKeeps ==
  ASSUME Types, Places, NEW s \in Streams, NEW w \in Int, Playing(s, w), KeepRest
  PROVE  Playing(s, w)'
<1> DEFINE c == Cells(s, played.first)
           q == Gone(s)
           o == MP3FindSyncWord(readPtr, left)
<1>1. /\ pc = "decode" /\ pc' = "read" /\ last_left' = left
      /\ o < 0 \/ left - o < framesize
      /\ in_buffer' = [i \in 1..BufLen |-> IF i <= left THEN At(readPtr + i - 1)
                                           ELSE in_buffer[i]]
      /\ UNCHANGED <<src, user_data_0, out, played, fits, trouble>>
  BY DEF KeepRest, ghosts
<1>2. /\ left \in 0..BufLen /\ BufLen \in Nat /\ played.first \in Nat /\ out \in Seq(Nat)
      /\ framesize \in Nat
  BY <1>1, Mp3Assumption DEF Types, Places
<1>3. Ptr = readPtr /\ Rest = left /\ Ptr' = 0 /\ Rest' = left /\ Gone(s)' = q
  BY <1>1 DEF Ptr, Rest, Gone
<1>4. IsAhead(c, src) /\ IsWindow(c, in_buffer, readPtr, left, q, w)
  BY <1>3 DEF Playing
<1>5. /\ readPtr \in 0..(BufLen - left)
      /\ q \in Int /\ w \in 0..left /\ q + w >= 0 /\ q + left <= Len(c)
      /\ \A j \in 1..w : in_buffer[readPtr + j][2] # 1
      /\ \A j \in (w + 1)..left : in_buffer[readPtr + j] = c[q + j]
  BY <1>4 DEF IsWindow
<1>6. IsWindow(c, in_buffer', 0, left, q, w)
  <2> HIDE DEF c, q, o
  <2>1. ASSUME NEW j \in 1..left
        PROVE  in_buffer'[0 + j] = in_buffer[readPtr + j]
    <3>1. /\ 0 + j = j /\ j \in 1..BufLen /\ j <= left
          /\ readPtr + j - 1 \in 0..(BufLen - 1) /\ readPtr + j - 1 + 1 = readPtr + j
      BY <1>2, <1>5
    <3>2. At(readPtr + j - 1) = in_buffer[readPtr + j]
      BY <3>1 DEF At
    <3> QED BY <1>1, <3>1, <3>2
  <2>2. \A j \in 1..w : j \in 1..left
    BY <1>2, <1>5
  <2>3. \A j \in (w + 1)..left : j \in 1..left
    BY <1>2, <1>5
  <2>4. 0 \in 0..(BufLen - left)
    BY <1>2
  <2>5. \A j \in 1..w : in_buffer'[0 + j][2] # 1
    BY <1>5, <2>1, <2>2
  <2>6. \A j \in (w + 1)..left : in_buffer'[0 + j] = c[q + j]
    BY <1>5, <2>1, <2>3
  <2> QED BY <1>2, <1>5, <2>4, <2>5, <2>6 DEF IsWindow
<1>7. ASSUME fits, trouble' = {}
      PROVE  Roomy(s, w)'
  <2>1. Roomy(s, w) /\ IsNext(s, out, q, w)
    BY <1>1, <1>7 DEF Playing
  <2>2. Suffices(s, out, w, framesize)
    BY <1>1, <2>1 DEF Roomy
  <2> DEFINE g == Len(out) + 1
             heads == Heads(s, left, q, w)
             k == Len(s.pads)
  <2>3. /\ g \in 1..(k + 1) /\ q + w <= Before(s, g) /\ (heads # {} => g \in heads)
        /\ \A f \in heads : (\A h \in heads : Before(s, f) <= Before(s, h)) => f = g
        /\ g <= k /\ heads = {} => q + left < Before(s, g) + 2
        /\ g > k => left = 0 /\ s.cut = 0
        /\ Before(s, g) - q + framesize <= BufLen
    BY <1>2, <1>4, <2>1, <2>2, NextFrame
  <2>4. \/ o = -1 /\ heads = {}
        \/ /\ o \in w..(left - 2)
           /\ \E f \in heads : /\ q + o = Before(s, f)
                               /\ \A h \in heads : Before(s, f) <= Before(s, h)
    BY <1>2, <1>4, SyncIs
  <2>5. framesize <= BufLen /\ BufLen > 0 /\ (g <= k => framesize >= 2)
    <3>1. /\ k \in Nat \ {0} /\ \A f \in 1..k : FrameLen(s, f) \in Nat /\ FrameLen(s, f) >= HeadLen
      BY FrameLens
    <3>2. framesize <= BufLen /\ \A f \in g..k : FrameLen(s, f) <= framesize
      BY <2>2 DEF Suffices
    <3>3. 1 \in 1..k /\ HeadLen \in Nat /\ HeadLen > 1
      BY <3>1, Mp3Assumption
    <3>4. FrameSize(s.sizes[1] + 1) <= BufLen
      <4>1. 1 \in DOMAIN s.sizes
        BY <3>3, FrameLens
      <4>2. NoneLonger(s)
        BY <2>1 DEF Roomy
      <4> QED BY <4>1, <4>2 DEF NoneLonger
    <3>5. FrameSize(s.sizes[1] + 1) >= 1 /\ FrameSize(s.sizes[1] + 1) \in Nat
      <4>1. s.sizes[1] \in Nat
        BY <3>3, FrameLens
      <4> QED BY <4>1, Mp3Assumption DEF FrameSize
    <3>6. g <= k => g \in g..k /\ g \in 1..k
      BY <2>3, <3>1
    <3>7. BufLen \in Nat /\ framesize \in Int
      BY <1>2
    <3> HIDE DEF g, k
    <3>8. BufLen > 0
      BY <3>4, <3>5, <3>7
    <3>9. ASSUME g <= k
          PROVE  framesize >= 2
      <4>1. FrameLen(s, g) <= framesize /\ FrameLen(s, g) \in Nat /\ FrameLen(s, g) >= HeadLen
        BY <3>1, <3>2, <3>6, <3>9
      <4> QED BY <3>3, <3>7, <4>1
    <3> QED BY <3>2, <3>8, <3>9
  <2>6. /\ g \in Nat /\ k \in Nat /\ Before(s, g) \in Nat
    <3>1. k \in Nat /\ \A f \in 1..(k + 1) : Before(s, f) \in Nat
      BY BeforeNext, FrameLens
    <3> QED BY <2>3, <3>1
  <2> HIDE DEF g, k, heads, c, q, o
  <2>7. left < BufLen
    <3>1. CASE g > k
      BY <1>2, <2>3, <2>5, <3>1
    <3>2. CASE g <= k /\ heads = {}
      BY <1>2, <1>5, <2>3, <2>5, <2>6, <3>2
    <3>3. CASE heads # {}
      <4>1. w \in Int /\ w >= 0
        BY <1>2, <1>5
      <4>2. PICK f \in heads : q + o = Before(s, f) /\ \A h \in heads : Before(s, f) <= Before(s, h)
        BY <2>4, <3>3
      <4>3. o \in w..(left - 2)
        BY <2>4, <3>3
      <4>4. f = g
        BY <2>3, <4>2
      <4>5. o \in Int /\ o >= 0 /\ q + o = Before(s, g)
        BY <1>2, <4>1, <4>2, <4>3, <4>4
      <4>6. left - o < framesize
        BY <1>1, <4>5
      <4> QED BY <1>2, <1>5, <2>3, <2>6, <4>5, <4>6
    <3> QED BY <2>6, <3>1, <3>2, <3>3
  <2> QED BY <1>1, <2>1, <2>7 DEF Roomy
<1>8. IsWindow(c, in_buffer', Ptr', Rest', Gone(s)', w) /\ IsAhead(c, src')
  BY <1>1, <1>3, <1>4, <1>6
<1> QED BY <1>1, <1>3, <1>7, <1>8, PlayingKept DEF c, q

-----------------------------------------------------------------------------
(* Frames that are decoded. *)

\* A frame is put out, and the window goes on behind it.
LEMMA PlayingDecodes ==
  ASSUME Types, Places, NEW s \in Streams, NEW w \in Int, Playing(s, w),
         clean, "output" \notin trouble, FramesInSequence,
         pc \in {"decode", "drain"},
         NEW o, o = MP3FindSyncWord(readPtr, left),
         NEW d \in MP3Decode(readPtr + o, left - o), d.ok,
         pc' = pc, readPtr' = d.readPtr, left' = d.left, user_data_0' = d.size + 1,
         out' = Append(out, d.frame),
         UNCHANGED <<src, in_buffer, framesize, played, fits, trouble>>
  PROVE  Playing(s, 0)' /\ FramesInSequence'
<1> DEFINE c == Cells(s, played.first)
           q == Gone(s)
           k == Len(s.pads)
           heads == Heads(s, left, q, w)
           g == Len(out) + 1
           first == played.first
<1>1. /\ first \in Nat /\ out \in Seq(Nat) /\ BufLen \in Nat
      /\ Len(out) \in Nat /\ framesize \in Nat
  BY Mp3Assumption DEF Types
<1>2. Ptr = readPtr /\ Rest = left /\ Ptr' = d.readPtr /\ Rest' = d.left
  BY DEF Ptr, Rest
<1>3. /\ IsAhead(c, src) /\ IsWindow(c, in_buffer, readPtr, left, q, w)
      /\ IsBehind(s, first, out, q) /\ ("timeout" \notin trouble => IsNext(s, out, q, w))
      /\ fits /\ trouble = {} => Roomy(s, w)
  BY <1>2 DEF Playing
<1>4. PICK f \in heads :
        /\ d.frame = first + f - 1 /\ d.size = s.sizes[f]
        /\ \A h \in heads : Before(s, f) <= Before(s, h)
        /\ d.left = q + left - (Before(s, f) + FrameLen(s, f))
        /\ IsWindow(c, in_buffer, d.readPtr, d.left, Before(s, f) + FrameLen(s, f), 0)
  <2>1. \/ ~d.ok
        \/ \E f \in heads :
             /\ d.frame = first + f - 1 /\ d.size = s.sizes[f]
             /\ \A h \in heads : Before(s, f) <= Before(s, h)
             /\ d.left = q + left - (Before(s, f) + FrameLen(s, f))
             /\ IsWindow(c, in_buffer, d.readPtr, d.left, Before(s, f) + FrameLen(s, f), 0)
    BY <1>1, <1>3, DecodeIs, ZenonT(60)
  <2> HIDE DEF c, q, heads
  <2> QED BY <2>1
<1>5. /\ f \in 1..k /\ Before(s, f) >= q + w /\ k \in Nat
      /\ Before(s, f) \in Nat /\ FrameLen(s, f) \in Nat
      /\ q \in Int /\ w \in 0..left /\ left \in 0..BufLen
  <2>1. f \in 1..k /\ Before(s, f) >= q + w
    BY DEF Heads
  <2> QED BY <1>3, <2>1, BeforeNext, FrameLens DEF IsWindow
<1>6. /\ Before(s, f + 1) = Before(s, f) + FrameLen(s, f)
      /\ \A h \in 1..k : f < h => Before(s, f) + FrameLen(s, f) <= Before(s, h)
      /\ \A h \in 1..k : h < f => Before(s, h) + FrameLen(s, h) <= Before(s, f)
      /\ \A h \in 1..k : h >= f => Before(s, f) <= Before(s, h)
      /\ \A h \in 1..k : Before(s, h) \in Nat /\ FrameLen(s, h) \in Nat
                         /\ FrameLen(s, h) >= HeadLen
      /\ HeadLen \in Nat /\ HeadLen > 1
  <2>1. \A h \in 1..k : f < h => h \in (f + 1)..(k + 1)
    BY <1>5
  <2>2. \A h \in 1..k : h < f => f \in (h + 1)..(k + 1)
    BY <1>5
  <2>3. \A h \in 1..k : h >= f => h \in f..(k + 1)
    BY <1>5
  <2>4. f \in 1..(k + 1)
    BY <1>5
  <2>5. /\ \A x \in 1..(k + 1) : \A y \in x..(k + 1) : Before(s, x) <= Before(s, y)
       
        /\ \A x \in 1..k : \A y \in (x + 1)..(k + 1) : Before(s, x) + FrameLen(s, x) <= Before(s, y)
    BY BeforeGrows
  <2>6. /\ \A h \in 1..(k + 1) : Before(s, h) \in Nat
        /\ \A h \in 1..k : Before(s, h + 1) = Before(s, h) + FrameLen(s, h)
    BY BeforeNext
  <2>7. \A h \in 1..k : h \in 1..(k + 1)
    BY <1>5
  <2>8. /\ \A h \in 1..k : FrameLen(s, h) \in Nat /\ FrameLen(s, h) >= HeadLen
    BY FrameLens
  <2> HIDE DEF k
  <2>9. \A h \in 1..k : Before(s, h) \in Nat
    BY <2>6, <2>7
  <2> QED BY <1>5, <2>1, <2>2, <2>3, <2>4, <2>5, <2>6, <2>8, <2>9, Mp3Assumption
<1> DEFINE q2 == Before(s, f) + FrameLen(s, f)
<1>7. Gone(s)' = q2
  <2>1. q = Len(c) - Len(src) - left
    BY <1>2 DEF Gone
  <2>2. Gone(s)' = Len(c) - Len(src) - d.left
    BY <1>2 DEF Gone
  <2>3. Len(c) \in Nat /\ Len(src) \in Nat
    <3>1. c \in Seq(Cell) /\ src \in Seq(Cell)
      BY <1>1, CellsAre DEF Types
    <3> QED BY <3>1
  <2>4. d.left = q + left - q2
    BY <1>4
  <2>5. q2 \in Int /\ left \in Int
    BY <1>5
  <2> DEFINE lc == Len(c)
             ls == Len(src)
  <2> HIDE DEF c, q, q2, lc, ls
  <2>6. /\ q = lc - ls - left /\ lc \in Int /\ ls \in Int
        /\ Gone(s)' = lc - ls - d.left
    BY <2>1, <2>2, <2>3 DEF lc, ls
  <2> QED BY <2>4, <2>5, <2>6
<1>8. /\ Len(out') = g /\ out' # <<>> /\ out'[g] = first + f - 1
      /\ \A i \in 1..Len(out) : out'[i] = out[i]
  <2>1. first + f - 1 \in Nat
    BY <1>1, <1>5
  <2> QED BY <1>1, <1>4, <2>1
<1>9. "timeout" \notin trouble => f = g
  <2> SUFFICES ASSUME "timeout" \notin trouble
               PROVE  f = g
    OBVIOUS
  <2>1. IsNext(s, out, q, w)
    BY <1>3
  <2>2. \A h \in heads : (\A y \in heads : Before(s, h) <= Before(s, y)) => h = g
    BY <1>1, <1>3, <2>1, NextFrame
  <2> QED BY <1>4, <2>2
<1>10. Stream(s)' /\ played' = played
  BY DEF Playing, Stream
<1>11. IsBehind(s, first, out', q2)
  BY <1>5, <1>8 DEF IsBehind
<1>12. "timeout" \notin trouble => IsNext(s, out', q2, 0)
  <2> HIDE DEF g, k
  <2> SUFFICES ASSUME "timeout" \notin trouble
               PROVE  IsNext(s, out', q2, 0)
    OBVIOUS
  <2>1. f = g
    BY <1>9
  <2> QED BY <1>5, <1>6, <1>8, <2>1 DEF IsNext, k
<1>13. ASSUME fits, trouble = {}
       PROVE  Roomy(s, 0)'
  <2>1. Roomy(s, w)
    BY <1>3, <1>13
  <2> DEFINE u == s.sizes[f] + 1
  <2>1a. f = g
    BY <1>9, <1>13
  <2>2. user_data_0' = u
    BY <1>4
  <2>3. FrameSize(u) <= BufLen /\ \A h \in (f + 1)..k : FrameLen(s, h) <= FrameSize(u)
    <3>1. NoneLonger(s)
      BY <2>1 DEF Roomy
    <3>2. f \in DOMAIN s.sizes /\ Len(s.sizes) = k
      BY <1>5, FrameLens
    <3> QED BY <3>1, <3>2 DEF NoneLonger
  <2>4. \A h \in (Len(out') + 1)..k : FrameLen(s, h) <= FrameSize(u)
    BY <1>8, <2>1a, <2>3
  <2>5. Suffices(s, out', 0, FrameSize(u))
    BY <1>8, <2>3, <2>4 DEF Suffices
  <2>6. pc = "decode" => Suffices(s, out', 0, framesize)
    <3> SUFFICES ASSUME pc = "decode"
                 PROVE  Suffices(s, out', 0, framesize)
      OBVIOUS
    <3>1. Suffices(s, out, w, framesize)
      BY <2>1 DEF Roomy
    <3>2. \A h \in (Len(out') + 1)..k : h \in (Len(out) + 1)..k
      <4>1. Len(out') = Len(out) + 1 /\ Len(out) \in Nat
        BY <1>1, <1>8
      <4> HIDE DEF k, g
      <4> QED BY <1>5, <4>1
    <3> QED BY <1>8, <3>1, <3>2 DEF Suffices
  <2> HIDE DEF u
  <2>7. pc' # "read"
    OBVIOUS
  <2>8. NoneLonger(s)'
    BY <2>1 DEF Roomy, NoneLonger, FrameSize, FrameLen
  <2> QED BY <2>2, <2>5, <2>6, <2>7, <2>8 DEF Roomy
<1>14. Playing(s, 0)'
  <2>1. IsWindow(c, in_buffer', Ptr', Rest', Gone(s)', 0)
    BY <1>2, <1>4, <1>7
  <2>2. c' = c /\ IsAhead(c, src') /\ IsBehind(s, first, out', Gone(s)')
    BY <1>3, <1>7, <1>10, <1>11
  <2>3. "timeout" \notin trouble' => IsNext(s, out', Gone(s)', 0)
    BY <1>7, <1>12
  <2>4. fits' /\ trouble' = {} => Roomy(s, 0)'
    BY <1>13
  <2> HIDE DEF q, q2, g, k, heads
  <2> QED BY <1>10, <2>1, <2>2, <2>3, <2>4 DEF Playing
<1>15. FramesInSequence'
  <2>1. /\ \A i \in 1..(Len(out) - 1) : out[i] < out[i + 1]
        /\ "timeout" \notin trouble => \A i \in DOMAIN out : out[i] = first + i - 1
    BY DEF FramesInSequence
  <2>2. ASSUME NEW i \in 1..Len(out)
        PROVE  out'[i] < out'[i + 1]
    <3>1. CASE i \in 1..(Len(out) - 1)
      <4>1. i + 1 \in 1..Len(out)
        BY <1>1, <3>1
      <4> QED BY <1>8, <2>1, <3>1, <4>1
    <3>2. CASE i = Len(out)
      <4>1. out # <<>> /\ i + 1 = g
        BY <3>2
      <4>2. PICK h \in 1..k : out[Len(out)] = first + h - 1 /\ q >= Before(s, h) + FrameLen(s, h)
        BY <1>3, <4>1 DEF IsBehind
      <4> HIDE DEF q, k, heads, g
      <4>3. Before(s, h) \in Nat /\ FrameLen(s, h) \in Nat /\ FrameLen(s, h) > 1
        BY <1>6
      <4>4. Before(s, h) < Before(s, f)
        BY <1>5, <4>2, <4>3
      <4>5. h < f
        BY <1>5, <1>6, <4>3, <4>4
      <4> QED BY <1>1, <1>5, <1>8, <3>2, <4>1, <4>2, <4>5
    <3> QED BY <1>1, <3>1, <3>2
  <2>3. ASSUME "timeout" \notin trouble, NEW i \in 1..g
        PROVE  out'[i] = first + i - 1
    <3>1. CASE i \in 1..Len(out)
      <4>1. i \in DOMAIN out
        BY <1>1, <3>1
      <4> QED BY <1>8, <2>1, <2>3, <3>1, <4>1
    <3>2. CASE i = g
      BY <1>8, <1>9, <2>3, <3>2
    <3> QED BY <1>1, <3>1, <3>2
  <2>4. DOMAIN out' = 1..g /\ Len(out') - 1 = Len(out)
    <3>1. out' \in Seq(Nat)
      <4>1. d.frame \in Nat
        BY <1>1, <1>4, <1>5
      <4> QED BY <1>1, <4>1
    <3> QED BY <1>1, <1>8, <3>1
  <2> HIDE DEF g
  <2> QED BY <1>10, <2>2, <2>3, <2>4 DEF FramesInSequence
<1> QED BY <1>14, <1>15

-----------------------------------------------------------------------------
(* The beginning and the end of a stream. *)

\* The longest frame is as long as each of them.
LEMMA LongestIs ==
  ASSUME NEW s \in Streams
  PROVE  Longest(s) \in Nat /\ \A f \in 1..Len(s.pads) : FrameLen(s, f) <= Longest(s)
<1> DEFINE n == Before(s, Len(s.pads) + 1)
           X == {FrameLen(s, f) : f \in DOMAIN s.pads}
           D == {e \in 0..n : n - e \in X}
<1>1. /\ Len(s.pads) \in Nat \ {0} /\ DOMAIN s.pads = 1..Len(s.pads)
      /\ \A f \in 1..Len(s.pads) : FrameLen(s, f) \in Nat /\ FrameLen(s, f) <= n
  <2>1. /\ Len(s.pads) \in Nat \ {0} /\ DOMAIN s.pads = 1..Len(s.pads)
        /\ \A f \in 1..Len(s.pads) : FrameLen(s, f) \in Nat
    BY FrameLens
  <2>2. n \in Nat /\ \A f \in 1..Len(s.pads) : Before(s, f) \in Nat
    BY <2>1, BeforeNext
  <2>3. ASSUME NEW f \in 1..Len(s.pads)
        PROVE  FrameLen(s, f) <= n
    <3>1. Len(s.pads) + 1 \in (f + 1)..(Len(s.pads) + 1)
      BY <2>1
    <3>2. Before(s, f) + FrameLen(s, f) <= n
      BY <3>1, BeforeGrows
    <3> HIDE DEF n
    <3> QED BY <2>1, <2>2, <3>2
  <2> QED BY <2>1, <2>3
<1>2. n \in Nat
  <2>1. Len(s.pads) + 1 \in 1..(Len(s.pads) + 1)
    BY <1>1
  <2> QED BY <2>1, BeforeNext
<1> HIDE DEF n
<1>3. \A x \in X : x \in Nat /\ x <= n
  BY <1>1
<1>4. X # {} /\ \A f \in 1..Len(s.pads) : FrameLen(s, f) \in X
  <2>1. 1 \in 1..Len(s.pads)
    BY <1>1
  <2> QED BY <1>1, <2>1
<1> HIDE DEF X
<1>5. D \in SUBSET Nat /\ D # {}
  <2>1. PICK x \in X : TRUE
    BY <1>4
  <2>2. x \in Nat /\ x <= n
    BY <1>3
  <2>3. n - x \in 0..n /\ n - (n - x) = x
    BY <1>2, <2>2
  <2>4. n - x \in D
    BY <2>1, <2>3
  <2> QED BY <1>2, <2>4
<1>6. Min(D) \in D /\ \A e \in D : Min(D) <= e
  <2> HIDE DEF D
  <2> QED BY <1>5, LeastOf
<1> DEFINE m == Min(D)
           x == n - m
<1>7. m \in 0..n /\ x \in X /\ \A e \in D : m <= e
  BY <1>6
<1> HIDE DEF m
<1>8. ASSUME NEW y \in X
      PROVE  y <= x
  <2>1. y \in Nat /\ y <= n
    BY <1>3
  <2>2. n - y \in 0..n /\ n - (n - y) = y
    BY <1>2, <2>1
  <2>3. n - y \in D
    BY <2>2
  <2> HIDE DEF D
  <2>4. m <= n - y
    BY <1>7, <2>3
  <2> QED BY <1>2, <1>7, <2>1, <2>4
<1>9. x \in Nat
  BY <1>3, <1>7
<1> HIDE DEF x
<1>10. Max(X) \in X /\ \A y \in X : Max(X) >= y
  <2>1. \E z \in X : \A y \in X : z >= y
    <3>1. \A y \in X : x >= y
      BY <1>3, <1>8, <1>9
    <3> QED BY <1>7, <3>1
  <2> QED BY <2>1 DEF Max
<1>11. Longest(s) = Max(X)
  BY DEF Longest, X
<1>12. Longest(s) \in Nat /\ \A y \in X : y <= Longest(s)
  BY <1>3, <1>10, <1>11
<1> QED BY <1>4, <1>12

\* A window in which nothing looks like a frame is as good as one that is wiped.
LEMMA PlayingOpens ==
  ASSUME Types, Places, NEW s \in Streams, NEW newBuffer \in BOOLEAN, Open(s, newBuffer),
         clean'
  PROVE  Playing(s, last_left)'
<1> DEFINE c == Cells(s, played'.first)
           marks == {i \in 1..last_left : in_buffer[i][2] = 1}
<1>1. /\ last_left >= 0 /\ pc' = "read" /\ src' = c /\ out' = <<>> /\ trouble' = {}
      /\ in_buffer' = IF newBuffer THEN [i \in 1..BufLen |-> Junk] ELSE in_buffer
      /\ played' = [n |-> played.n + 1, first |-> played.last + 1,
                    last |-> played.last + 1 + Len(s.pads) - 1 - (IF s.cut > 0 THEN 1 ELSE 0)]
      /\ clean' = ((IF newBuffer THEN 0 ELSE Cardinality(marks)) = 0)
      /\ fits' = /\ last_left + s.tag + FrameSize(user_data_0) <= BufLen
                 /\ Longest(s) <= FrameSize(user_data_0)
                 /\ NoneLonger(s)
      /\ UNCHANGED <<last_left, user_data_0>>
  BY DEF Open
<1>2. /\ last_left \in 0..BufLen /\ BufLen \in Nat /\ HeadLen \in Nat /\ HeadLen > 1
      /\ FrameSize(user_data_0) \in Nat
  BY <1>1, Mp3Assumption DEF Types, Places, FrameSize
<1>3. /\ played'.first = played.last + 1 /\ played'.first \in Nat
      /\ played'.last = played'.first + Len(s.pads) - 1 - (IF s.cut > 0 THEN 1 ELSE 0)
  BY <1>1 DEF Types
<1>4. c \in Seq(Cell) /\ Len(c) \in Nat
  <2>1. c \in Seq(Cell)
    BY <1>3, CellsAre
  <2> QED BY <2>1
<1>5. ASSUME NEW j \in 1..last_left
      PROVE  in_buffer'[j][2] # 1
  <2>1. j \in 1..BufLen
    BY <1>2
  <2>2. CASE newBuffer
    BY <1>1, <2>1, <2>2 DEF Junk
  <2>3. CASE ~newBuffer
    <3>1. Cardinality(marks) = 0
      BY <1>1, <2>3
    <3>2. IsFiniteSet(marks)
      <4>1. IsFiniteSet(1..last_left) /\ marks \subseteq 1..last_left
        BY <1>2, FS_Interval
      <4> HIDE DEF marks
      <4> QED BY <4>1, FS_Subset
    <3>3. marks = {}
      <4> HIDE DEF marks
      <4> QED BY <3>1, <3>2, FS_EmptySet
    <3> QED BY <1>1, <2>3, <3>3
  <2> QED BY <2>2, <2>3
<1>6. Ptr' = 0 /\ Rest' = last_left
  BY <1>1 DEF Ptr, Rest
<1>7. Gone(s)' = -last_left
  <2>1. Gone(s)' = Len(c) - Len(c) - last_left
    BY <1>1, <1>6 DEF Gone
  <2> DEFINE l == Len(c)
  <2> HIDE DEF c, l
  <2>2. Gone(s)' = l - l - last_left /\ l \in Int
    BY <1>4, <2>1 DEF l
  <2> QED BY <1>2, <2>2
<1>8. Stream(s)'
  BY <1>3 DEF Stream
<1>9. IsAhead(c, src')
  <2>1. Len(c) <= Len(c) /\ \A i \in 1..Len(c) : Len(c) - Len(c) + i = i
    BY <1>4
  <2> HIDE DEF c
  <2> QED BY <1>1, <2>1 DEF IsAhead
<1>10. IsWindow(c, in_buffer', Ptr', Rest', Gone(s)', last_left)
  <2> HIDE DEF c
  <2>1. /\ last_left \in 0..BufLen /\ 0 \in 0..(BufLen - last_left)
        /\ -last_left \in Int /\ last_left \in 0..last_left /\ -last_left + last_left = 0
        /\ \A j \in (last_left + 1)..last_left : FALSE
    BY <1>2
  <2>2. \A j \in 1..last_left : 0 + j = j
    BY <1>2
  <2> QED BY <1>4, <1>5, <1>6, <1>7, <2>1, <2>2 DEF IsWindow
<1>11. IsBehind(s, played'.first, out', Gone(s)')
  BY <1>1 DEF IsBehind
<1>12. IsNext(s, out', Gone(s)', last_left)
  <2>1. -last_left + last_left = 0
    BY <1>2
  <2> QED BY <1>1, <1>7, <2>1 DEF IsNext
<1>13. ASSUME fits'
       PROVE  Roomy(s, last_left)'
  <2>1. /\ last_left + s.tag + FrameSize(user_data_0) <= BufLen
        /\ Longest(s) <= FrameSize(user_data_0) /\ NoneLonger(s)
    BY <1>1, <1>13
  <2>2. /\ s.tag \in Nat /\ Len(s.pads) \in Nat \ {0} /\ 1 \in 1..Len(s.pads)
        /\ \A f \in 1..Len(s.pads) : FrameLen(s, f) \in Nat /\ FrameLen(s, f) >= HeadLen
    BY FrameLens
  <2>3. \A f \in 1..Len(s.pads) : FrameLen(s, f) <= FrameSize(user_data_0)
    <3>1. Longest(s) \in Nat /\ \A f \in 1..Len(s.pads) : FrameLen(s, f) <= Longest(s)
      BY LongestIs
    <3> QED BY <1>2, <2>1, <2>2, <3>1
  <2>4. last_left < BufLen /\ FrameSize(user_data_0) <= BufLen
    BY <1>2, <2>1, <2>2, <2>3
  <2>5. Suffices(s, out', last_left, FrameSize(user_data_0))
    <3>1. Len(out') + 1 = 1
      BY <1>1
    <3> QED BY <2>1, <2>3, <2>4, <3>1 DEF Suffices
  <2> QED BY <1>1, <2>1, <2>4, <2>5 DEF Roomy
<1> HIDE DEF c
<1>14. c = Cells(s, played'.first) /\ last_left' = last_left
  BY <1>1 DEF c
<1> QED BY <1>8, <1>9, <1>10, <1>11, <1>12, <1>13, <1>14 DEF Playing

\* A stream of which nothing is to be read, and no complete frame in the window,
\* was put out.
LEMMA PlayingIsPlayed ==
  ASSUME Types, Places, NEW s \in Streams, NEW w \in Int, Playing(s, w),
         "timeout" \notin trouble, src = <<>>,
         \A f \in Heads(s, Rest, Gone(s), w) : Before(s, f) + FrameLen(s, f) > Gone(s) + Rest
  PROVE  Len(out) = played.last - played.first + 1
<1> DEFINE c == Cells(s, played.first)
           q == Gone(s)
           cutOff == IF s.cut > 0 THEN 1 ELSE 0
<1>1. played.first \in Nat /\ out \in Seq(Nat)
  BY DEF Types
<1>2. IsWindow(c, in_buffer, Ptr, Rest, q, w) /\ IsNext(s, out, q, w)
  BY DEF Playing
<1>3. q + Rest = Len(c)
  <2>1. c \in Seq(Cell)
    BY <1>1, CellsAre
  <2>2. Rest \in 0..BufLen /\ BufLen \in Nat
    BY <1>2, Mp3Assumption DEF IsWindow
  <2>3. Len(c) \in Nat /\ Len(src) = 0 /\ Rest \in Nat
    BY <2>1, <2>2
  <2>4. q = Len(c) - Len(src) - Rest
    BY DEF Gone
  <2> DEFINE l == Len(c)
  <2> HIDE DEF c, q, l
  <2>5. q = l - Len(src) - Rest /\ l \in Int
    BY <2>3, <2>4 DEF l
  <2>6. q + Rest = l
    BY <2>3, <2>5
  <2> QED BY <2>6 DEF l
<1>4. Len(out) = Len(s.pads) - cutOff
  BY <1>1, <1>2, <1>3, AllFrames
<1>5. played.last = played.first + Len(s.pads) - 1 - cutOff
  BY DEF Playing, Stream
<1>6. Len(s.pads) \in Nat /\ cutOff \in Int
  BY FrameLens
<1> HIDE DEF cutOff
<1> QED BY <1>1, <1>4, <1>5, <1>6

\* A frame that process takes to be complete is.
LEMMA PlayingDecodable ==
  ASSUME Types, Places, NEW s \in Streams, NEW w \in Int, Playing(s, w),
         fits, trouble = {}, pc = "decode",
         NEW o, o = MP3FindSyncWord(readPtr, left), o >= 0, left - o >= framesize,
         NEW d \in MP3Decode(readPtr + o, left - o)
  PROVE  d.ok
<1> DEFINE c == Cells(s, played.first)
           q == Gone(s)
           heads == Heads(s, left, q, w)
<1>1. played.first \in Nat /\ out \in Seq(Nat) /\ framesize \in Nat /\ left \in 0..BufLen /\ BufLen \in Nat
  BY Mp3Assumption DEF Types, Places
<1>2. IsWindow(c, in_buffer, readPtr, left, q, w)
  BY DEF Playing, Ptr, Rest
<1>3. q \in Int
  BY <1>2 DEF IsWindow
<1>4. \A f \in (Len(out) + 1)..Len(s.pads) : FrameLen(s, f) <= framesize
  BY DEF Playing, Roomy, Suffices
<1>5. \/ ~d.ok /\ \A f \in heads : Before(s, f) + FrameLen(s, f) > q + left
      \/ d.ok
  BY <1>1, <1>2, DecodeIs
<1>6. o \in w..(left - 2) /\ \E f \in heads : /\ q + o = Before(s, f)
                                            /\ \A h \in heads : Before(s, f) <= Before(s, h)
  <2>1. -1 >= 0 => FALSE
    OBVIOUS
  <2>2. \/ o = -1 /\ heads = {}
        \/ /\ o \in w..(left - 2)
           /\ \E f \in heads : /\ q + o = Before(s, f)
                               /\ \A h \in heads : Before(s, f) <= Before(s, h)
    BY <1>1, <1>2, SyncIs
  <2> HIDE DEF heads, q
  <2> QED BY <2>1, <2>2
<1>7. PICK f \in heads : q + o = Before(s, f) /\ \A h \in heads : Before(s, f) <= Before(s, h)
  BY <1>6
<1>8. f \in 1..Len(s.pads) /\ f \in (Len(out) + 1)..Len(s.pads)
  <2>1. IsNext(s, out, q, w)
    BY DEF Playing
  <2>2. \A h \in heads : (\A y \in heads : Before(s, h) <= Before(s, y)) => h = Len(out) + 1
    BY <1>1, <1>2, <2>1, NextFrame
  <2>3. f = Len(out) + 1
    <3> HIDE DEF heads, q
    <3> QED BY <1>7, <2>2
  <2>4. f \in 1..Len(s.pads)
    BY DEF Heads
  <2> QED BY <1>1, <2>3, <2>4
<1>9. FrameLen(s, f) \in Nat /\ FrameLen(s, f) <= framesize
  BY <1>4, <1>8, FrameLens
<1> HIDE DEF heads, q
<1>10. Before(s, f) + FrameLen(s, f) <= q + left
  <2>1. o \in Int
    BY <1>6
  <2> QED BY <1>1, <1>3, <1>7, <1>9, <2>1
<1>11. Before(s, f) \in Int
  BY <1>3, <1>6, <1>7
<1> QED BY <1>1, <1>3, <1>5, <1>7, <1>9, <1>10, <1>11

-----------------------------------------------------------------------------
(* The invariant. *)

\* The invariant is inductive.
LEMMA NextKeepsInv ==
  ASSUME IInv, [Next]_vars
  PROVE  IInv'
<1> USE DEF ghosts, locals
<1>1. Types /\ Places /\ Types' /\ Places'
  BY TypesNext DEF IInv
<1>2. FramesInSequence /\ CleanStreamPlays
  BY DEF IInv
<1>3. ASSUME Undisturbed
      PROVE  \E s \in Streams, w \in Int : Playing(s, w)
  BY <1>3 DEF IInv
<1>4. last_left \in Int
  BY <1>1 DEF Types
<1> DEFINE Plays == \E s \in Streams, w \in Int : Playing(s, w)
           Sought == /\ Undisturbed' => Plays'
                     /\ FramesInSequence' /\ CleanStreamPlays'
<1> SUFFICES Sought
  BY <1>1 DEF IInv
<1>5. ASSUME NEW s \in Streams, NEW newBuffer \in BOOLEAN, Open(s, newBuffer)
      PROVE  Sought
  <2>1. out' = <<>> /\ status' = "running"
    BY <1>5 DEF Open
  <2>2. clean' => Playing(s, last_left)'
    BY <1>1, <1>5, PlayingOpens
  <2>3. last_left' \in Int
    BY <1>1 DEF Types
  <2>4. Undisturbed' => Plays'
    BY <2>2, <2>3 DEF Undisturbed
  <2>5. FramesInSequence'
    <3>1. Len(out') = 0 /\ DOMAIN out' = {}
      BY <2>1
    <3>2. 1..(Len(out') - 1) = {}
      BY <3>1
    <3> QED BY <3>1, <3>2 DEF FramesInSequence
  <2>6. CleanStreamPlays'
    BY <2>1 DEF CleanStreamPlays
  <2> QED BY <2>4, <2>5, <2>6
<1>6. ASSUME UNCHANGED <<out, played, clean, fits>>, trouble \subseteq trouble'
      PROVE  FramesInSequence'
  BY <1>2, <1>6 DEF FramesInSequence
<1>7. ASSUME status' = "running"
      PROVE  CleanStreamPlays'
  BY <1>7 DEF CleanStreamPlays
<1>8. ASSUME status' # "running"
      PROVE  ~Undisturbed'
  BY <1>8 DEF Undisturbed
<1>9. ASSUME NEW n \in 1..BufLen, Read(n)
      PROVE  Sought
  <2>1. /\ status = "running" /\ status' = status
        /\ UNCHANGED <<out, played, clean, fits, trouble>>
    BY <1>9 DEF Read
  <2>2. ASSUME NEW s \in Streams, NEW w \in Int, Playing(s, w)
        PROVE  Playing(s, w)'
    BY <1>1, <1>9, <2>2, PlayingReads
  <2>3. Undisturbed' => Undisturbed
    BY <2>1 DEF Undisturbed
  <2> QED BY <1>3, <1>6, <1>7, <2>1, <2>2, <2>3
<1>10. CASE ReadTimeout
  <2>1. /\ status = "running" /\ status' = status /\ trouble \subseteq trouble'
        /\ UNCHANGED <<out, played, clean, fits>>
    BY <1>10 DEF ReadTimeout
  <2>2. ASSUME NEW s \in Streams, NEW w \in Int, Playing(s, w)
        PROVE  Playing(s, last_left)'
    BY <1>1, <1>10, <2>2, PlayingWiped
  <2>3. Undisturbed' => Undisturbed
    BY <2>1 DEF Undisturbed
  <2>4. last_left' \in Int
    BY <1>1 DEF Types
  <2> QED BY <1>3, <1>6, <1>7, <2>1, <2>2, <2>3, <2>4
<1>11. CASE ReadDone
  <2>1. /\ status = "running" /\ status' = status
        /\ UNCHANGED <<out, played, clean, fits, trouble>>
    BY <1>11 DEF ReadDone
  <2>2. ASSUME NEW s \in Streams, NEW w \in Int, Playing(s, w)
        PROVE  Playing(s, w)'
    BY <1>1, <1>11, <2>2, PlayingDrains
  <2>3. Undisturbed' => Undisturbed
    BY <2>1 DEF Undisturbed
  <2> QED BY <1>3, <1>6, <1>7, <2>1, <2>2, <2>3
<1>12. CASE KeepRest
  <2>1. /\ status = "running" /\ status' = status
        /\ UNCHANGED <<out, played, clean, fits, trouble>>
    BY <1>1, <1>12 DEF KeepRest, Places
  <2>2. ASSUME NEW s \in Streams, NEW w \in Int, Playing(s, w)
        PROVE  Playing(s, w)'
    BY <1>1, <1>12, <2>2, PlayingKeeps
  <2>3. Undisturbed' => Undisturbed
    BY <2>1 DEF Undisturbed
  <2> QED BY <1>3, <1>6, <1>7, <2>1, <2>2, <2>3
<1>13. CASE ReadNothing
  <2>1. /\ status = "running" /\ status' = "finished" /\ pc = "read"
        /\ UNCHANGED <<out, played, clean, fits, trouble>>
        /\ last_left = BufLen \/ (src = <<>> /\ last_left = 0)
    BY <1>13 DEF ReadNothing, End
  <2>2. ASSUME clean, fits, trouble = {}
        PROVE  Len(out) = played.last - played.first + 1
    <3>1. Undisturbed
      BY <2>1, <2>2 DEF Undisturbed
    <3>2. PICK s \in Streams, w \in Int : Playing(s, w)
      BY <1>3, <3>1
    <3>3. last_left < BufLen
      BY <2>1, <2>2, <3>2 DEF Playing, Roomy
    <3>4. src = <<>> /\ last_left = 0
      BY <1>4, <2>1, <3>3, Mp3Assumption
    <3>5. Rest = 0 /\ Gone(s) \in Int /\ w = 0
      <4>1. Rest = 0
        BY <2>1, <3>4 DEF Rest
      <4>2. Gone(s) \in Int /\ w \in 0..Rest
        BY <3>2 DEF Playing, IsWindow
      <4> QED BY <4>1, <4>2
    <3>6. Heads(s, Rest, Gone(s), w) = {}
      <4>1. \A f \in 1..Len(s.pads) : Before(s, f) \in Nat
        BY BeforeNext, FrameLens
      <4>2. \A f \in 1..Len(s.pads) :
         ~(Before(s, f) >= Gone(s) + w /\ Before(s, f) + 2 <= Gone(s) + Rest)
        BY <3>5, <4>1
      <4> QED BY <4>2 DEF Heads
    <3> QED BY <1>1, <2>2, <3>2, <3>4, <3>6, PlayingIsPlayed
  <2>3. CleanStreamPlays'
    BY <2>1, <2>2 DEF CleanStreamPlays
  <2> QED BY <1>6, <1>8, <2>1, <2>3
<1>14. CASE ReadAbort
  <2>1. /\ status' = "stopped" /\ UNCHANGED <<out, played, clean, fits>>
        /\ trouble' = trouble \cup {"stop"}
    BY <1>14 DEF ReadAbort, End
  <2>2. CleanStreamPlays'
    BY <2>1 DEF CleanStreamPlays
  <2>3. trouble \subseteq trouble'
    BY <2>1
  <2> QED BY <1>6, <1>8, <2>1, <2>2, <2>3
<1>15. ASSUME pc \in {"decode", "drain"}, UNCHANGED <<src, in_buffer, framesize, ghosts>>,
              NEW d \in MP3Decode(readPtr + MP3FindSyncWord(readPtr, left),
                                  left - MP3FindSyncWord(readPtr, left)),
              d.ok, readPtr' = d.readPtr, left' = d.left, user_data_0' = d.size + 1,
              out' = Append(out, d.frame), status' = status,
              NEW sent \in BOOLEAN,
              pc' = (IF sent THEN pc ELSE "read"),
              trouble' = (IF sent THEN trouble ELSE trouble \cup {"output"})
       PROVE  Sought
  <2>1. status = "running"
    BY <1>1, <1>15 DEF Places
  <2>2. CleanStreamPlays'
    BY <1>7, <1>15, <2>1
  <2>3. CASE ~sent
    <3>1. "output" \in trouble'
      BY <1>15, <2>3
    <3> QED BY <2>2, <3>1 DEF Undisturbed, FramesInSequence
  <2>4. CASE sent
    <3>1. pc' = pc /\ UNCHANGED <<played, clean, fits, trouble>>
      BY <1>15, <2>4
    <3>2. CASE ~(clean /\ "output" \notin trouble)
      BY <2>2, <3>1, <3>2 DEF Undisturbed, FramesInSequence
    <3>3. CASE clean /\ "output" \notin trouble
      <4>1. PICK s \in Streams, w \in Int : Playing(s, w)
        BY <1>3, <2>1, <3>3 DEF Undisturbed
      <4>2. Playing(s, 0)' /\ FramesInSequence'
        BY <1>1, <1>2, <1>15, <3>1, <3>3, <4>1, PlayingDecodes
      <4> QED BY <2>2, <4>2
    <3> QED BY <3>2, <3>3
  <2> QED BY <2>3, <2>4
<1>16. ASSUME NEW sent \in BOOLEAN, DecodeFrame(sent)
       PROVE  Sought
  <2> DEFINE o == MP3FindSyncWord(readPtr, left)
  <2>1. PICK d \in MP3Decode(readPtr + o, left - o) :
          IF ~d.ok
          THEN /\ End("error")
               /\ UNCHANGED <<readPtr, left, user_data_0, out, trouble>>
          ELSE /\ readPtr' = d.readPtr /\ left' = d.left
               /\ user_data_0' = d.size + 1
               /\ out' = Append(out, d.frame)
               /\ pc' = IF sent THEN pc ELSE "read"
               /\ trouble' = IF sent THEN trouble ELSE trouble \cup {"output"}
               /\ UNCHANGED status
    BY <1>16 DEF DecodeFrame
  <2>2. /\ pc = "decode" /\ o >= 0 /\ left - o >= framesize
        /\ UNCHANGED <<src, in_buffer, last_left, framesize, ghosts>>
    BY <1>16 DEF DecodeFrame
  <2>3. CASE d.ok
    BY <1>15, <2>1, <2>2, <2>3
  <2>4. CASE ~d.ok
    <3>1. status' = "error" /\ UNCHANGED <<out, trouble, played, clean, fits>>
      BY <2>1, <2>2, <2>4 DEF End
    <3>2. ~(clean /\ fits /\ trouble = {})
      <4> SUFFICES ASSUME clean, fits, trouble = {}
                   PROVE  FALSE
        OBVIOUS
      <4>1. status = "running"
        BY <1>1, <2>2 DEF Places
      <4>2. PICK s \in Streams, w \in Int : Playing(s, w)
        BY <1>3, <4>1 DEF Undisturbed
      <4>3. d.ok
        BY <1>1, <2>2, <4>2, PlayingDecodable
      <4> QED BY <2>4, <4>3
    <3>3. CleanStreamPlays'
      BY <3>1, <3>2 DEF CleanStreamPlays
    <3> QED BY <1>6, <1>8, <3>1, <3>3
  <2> QED BY <2>3, <2>4
<1>17. ASSUME NEW sent \in BOOLEAN, DrainFrame(sent)
       PROVE  Sought
  <2> DEFINE o == MP3FindSyncWord(readPtr, left)
  <2>1. PICK d \in MP3Decode(readPtr + o, left - o) :
          /\ readPtr' = d.readPtr /\ left' = d.left
          /\ IF ~d.ok
             THEN /\ last_left' = d.left
                  /\ End("finished")
                  /\ UNCHANGED <<user_data_0, out, trouble>>
             ELSE /\ user_data_0' = d.size + 1
                  /\ out' = Append(out, d.frame)
                  /\ pc' = IF sent THEN pc ELSE "read"
                  /\ trouble' = IF sent THEN trouble ELSE trouble \cup {"output"}
                  /\ UNCHANGED <<last_left, status>>
    BY <1>17 DEF DrainFrame
  <2>2. pc = "drain" /\ UNCHANGED <<src, in_buffer, framesize, ghosts>>
    BY <1>17 DEF DrainFrame
  <2>3. CASE d.ok
    BY <1>15, <2>1, <2>2, <2>3
  <2>4. CASE ~d.ok
    <3>1. status' = "finished" /\ UNCHANGED <<out, trouble, played, clean, fits>>
      BY <2>1, <2>2, <2>4 DEF End
    <3>2. ASSUME clean, fits, trouble = {}
          PROVE  Len(out) = played.last - played.first + 1
      <4>1. status = "running" /\ src = <<>>
        BY <1>1, <2>2 DEF Places
      <4>2. PICK s \in Streams, w \in Int : Playing(s, w)
        BY <1>3, <3>2, <4>1 DEF Undisturbed
      <4>3. Rest = left /\ IsWindow(Cells(s, played.first), in_buffer, readPtr, left, Gone(s), w)
        BY <2>2, <4>2 DEF Playing, Ptr, Rest
      <4>4. played.first \in Nat
        BY <1>1 DEF Types
      <4>5. \A f \in Heads(s, Rest, Gone(s), w) : Before(s, f) + FrameLen(s, f) > Gone(s) + Rest
        BY <2>4, <4>3, <4>4, DecodeIs
      <4> QED BY <1>1, <3>2, <4>1, <4>2, <4>5, PlayingIsPlayed
    <3>3. CleanStreamPlays'
      BY <3>1, <3>2 DEF CleanStreamPlays
    <3> QED BY <1>6, <1>8, <3>1, <3>3
  <2> QED BY <2>3, <2>4
<1>18. CASE UNCHANGED vars
  <2>1. /\ UNCHANGED <<src, in_buffer, last_left, user_data_0, status, pc, readPtr, left,
                       framesize, out, played, clean, fits, trouble>>
    BY <1>18 DEF vars
  <2>2. Undisturbed' = Undisturbed
    BY <2>1 DEF Undisturbed
  <2>3. ASSUME NEW s \in Streams, NEW w \in Int
        PROVE  Playing(s, w)' = Playing(s, w)
    BY <2>1 DEF Playing, Stream, Ptr, Rest, Gone, Roomy, FrameSize, FrameLen
  <2>4. FramesInSequence' /\ CleanStreamPlays'
    BY <1>2, <2>1 DEF FramesInSequence, CleanStreamPlays
  <2> QED BY <1>3, <2>2, <2>3, <2>4
<1>19. Sent \subseteq BOOLEAN
  BY DEF Sent
<1> HIDE DEF Sought
<1> QED
  BY <1>5, <1>9, <1>10, <1>11, <1>12, <1>13, <1>14, <1>16, <1>17, <1>18, <1>19 DEF Next

\* The window is what is left of the stream.
THEOREM Mp3Invariance == Spec => []IInv
<1>1. Init => IInv
  <2> SUFFICES ASSUME Init
               PROVE  IInv
    OBVIOUS
  <2>1. Types
    <3>1. Junk \in Cell
      BY DEF Cell
    <3>2. BufLen \in Nat
      BY Mp3Assumption
    <3> QED BY <3>1, <3>2 DEF Init, Types
  <2>2. Places
    BY Mp3Assumption DEF Init, Places
  <2>3. ~Undisturbed
    BY DEF Init, Undisturbed
  <2>4. FramesInSequence
    <3>1. out = <<>>
      BY DEF Init
    <3>2. Len(out) = 0 /\ DOMAIN out = {}
      BY <3>1
    <3>3. 1..(Len(out) - 1) = {}
      BY <3>2
    <3> QED BY <3>2, <3>3 DEF FramesInSequence
  <2>5. CleanStreamPlays
    BY DEF Init, CleanStreamPlays
  <2> QED BY <2>1, <2>2, <2>3, <2>4, <2>5 DEF IInv
<1>2. IInv /\ [Next]_vars => IInv'
  BY NextKeepsInv
<1> QED BY <1>1, <1>2, PTL DEF Spec

\* The frames are put out in the order of the stream.
THEOREM FramesInSequenceHolds == Spec => []FramesInSequence
<1>1. IInv => FramesInSequence
  BY DEF IInv
<1> QED BY <1>1, Mp3Invariance, PTL

\* A stream whose first frame is in reach of the window, and none of whose frames
\* is longer than process takes it to be (NoneLonger: at a constant or a falling
\* bitrate none is), is played to its last complete frame.
THEOREM CleanStreamPlaysHolds == Spec => []CleanStreamPlays
<1>1. IInv => CleanStreamPlays
  BY DEF IInv
<1> QED BY <1>1, Mp3Invariance, PTL
=============================================================================
