--------------------------- MODULE RingBufProofs ----------------------------
(***************************************************************************)
(* Proofs about RingBuf, for every Size, Word, set of lengths and number   *)
(* of calls, when rb_reset is called between calls only.  IInv is the      *)
(* inductive invariant; one lemma for each thread shows that its steps     *)
(* keep it.                                                                *)
(***************************************************************************)
EXTENDS RingBuf, TLAPS

\* The whole words in n bytes: what the mask 0xfffffffc of ringbuf.c:193
\* keeps.
LEMMA WordRounding ==
  ASSUME NEW n \in Nat
  PROVE  /\ n % Word \in 0..(Word - 1)
         /\ n - (n % Word) \in 0..n
         /\ n - (n % Word) = 0 => n < Word
  BY RingBufAssumption

\* What rb_read decides to take fits in the request and in the buffer, and is
\* nothing only if less than a word is there.
LEMMA ReadSizeFits ==
  ASSUME TypeOK, NEW len \in Nat
  PROVE  /\ ReadSize(len) \in 0..fill_cnt
         /\ ReadSize(len) <= len
         /\ len > 0 /\ ReadSize(len) = 0 => fill_cnt < Word
  <1>1. fill_cnt \in Nat
    BY DEF TypeOK, BufferType
  <1>2. DEFINE words == fill_cnt - (fill_cnt % Word)
  <1>3. words \in 0..fill_cnt /\ (words = 0 => fill_cnt < Word)
    BY <1>1, WordRounding
  <1>4. ReadSize(len) = IF fill_cnt >= len THEN len
                        ELSE IF words = 0 /\ is_done_write THEN fill_cnt
                                                           ELSE words
    BY DEF ReadSize
  <1> HIDE DEF words
  <1> QED BY <1>1, <1>3, <1>4, RingBufAssumption

\* What rb_write decides to put fits in the request and in the free space.
LEMMA WriteSizeFits ==
  ASSUME TypeOK, fill_cnt <= Size, NEW len \in Nat
  PROVE  WriteSize(len) \in 0..(Size - fill_cnt) /\ WriteSize(len) <= len
  BY RingBufAssumption DEF TypeOK, BufferType, WriteSize, Minus32

-----------------------------------------------------------------------------
\* A new buffer (rb_create) satisfies the invariant.
LEMMA InitIInv == Init => IInv
  <1> SUFFICES ASSUME Init PROVE TypeOK /\ Coherent
    BY DEF IInv
  <1> USE RingBufAssumption DEF Init
  <1>1. BufferType
    <2>1. is_done_write \in BOOLEAN /\ unblock_reader_flag \in BOOLEAN
      OBVIOUS
    <2>2. abort_read \in BOOLEAN /\ abort_write \in BOOLEAN
      OBVIOUS
    <2> QED BY <2>1, <2>2 DEF BufferType
  <1>2. CallType
    BY DEF CallType, ReaderPC, WriterPC, AppPC, Results
  <1>3. HistoryType
    <2>1. sent = 0 /\ taken = 0 /\ ended = FALSE
      OBVIOUS
    <2>2. received \in [1..0 -> Nat]
      OBVIOUS
    <2> HIDE DEF Init
    <2> QED BY <2>1, <2>2 DEF HistoryType
  <1>4. Coherent
    BY DEF Coherent, LockHeld, HoldsStream, InOrder, SizesStillFit,
           ResetIsQuiet, DoneIsLast, EndIsTheEnd, Resetting, Ahead
  <1> QED BY <1>1, <1>2, <1>3, <1>4 DEF TypeOK

\* Steps of rb_read.
LEMMA ReadStepKeepsIInv ==
  ASSUME IInv, ReadStep, ResetAnytime = FALSE
  PROVE  IInv'
  <1> USE RingBufAssumption
      DEF IInv, TypeOK, BufferType, CallType, HistoryType, ReaderPC,
          WriterPC, AppPC, Results, Resetting, Post,
          buffer, flags, reader, writer, app, history
  <1>1. ASSUME ReadLock PROVE IInv'
    <2>1. /\ rsize' \in 0..fill_cnt
          /\ rsize' <= rlen
          /\ rlen > 0 /\ rsize' = 0 => fill_cnt < Word
      BY <1>1, ReadSizeFits DEF ReadLock
    <2>2. rpc' = IF rsize' = 0 THEN "test_done" ELSE "copy"
      BY <1>1 DEF ReadLock
    <2>3. rpc = "lock" /\ lock = "free" /\ lock' = "reader"
          /\ UNCHANGED <<buffer, can_read, can_write, flags, rlen, rtotal,
                         rret, writer, app, history>>
      BY <1>1 DEF ReadLock
    <2>4. TypeOK'
      BY <2>1, <2>2, <2>3
    <2>5. Coherent'
      BY <2>1, <2>2, <2>3 DEF Coherent, LockHeld, HoldsStream, InOrder,
                SizesStillFit, ResetIsQuiet, DoneIsLast, EndIsTheEnd
    <2> QED BY <2>4, <2>5
  <1>2. ASSUME ReadTestDone PROVE IInv'
    <2>1. CASE is_done_write
      <3>1. ReadGiveUp("DONE")
        BY <1>2, <2>1 DEF ReadTestDone
      <3>2. TypeOK'
        BY <3>1 DEF ReadGiveUp
      <3>3. Coherent'
        BY <1>2, <2>1, <3>1 DEF ReadTestDone, ReadGiveUp,
                Coherent, LockHeld, HoldsStream, InOrder,
                SizesStillFit, ResetIsQuiet, DoneIsLast, EndIsTheEnd
      <3> QED BY <3>2, <3>3
    <2>2. CASE ~is_done_write
      <3>1. ReadGoOn("test_abort")
        BY <1>2, <2>2 DEF ReadTestDone
      <3>2. TypeOK'
        BY <3>1 DEF ReadGoOn
      <3>3. Coherent'
        BY <1>2, <3>1 DEF ReadTestDone, ReadGoOn,
                Coherent, LockHeld, HoldsStream, InOrder,
                SizesStillFit, ResetIsQuiet, DoneIsLast, EndIsTheEnd
      <3> QED BY <3>2, <3>3
    <2> QED BY <2>1, <2>2
  <1>3. ASSUME ReadTestAbort PROVE IInv'
    <2>1. CASE abort_read
      <3>1. ReadGiveUp("ABORT")
        BY <1>3, <2>1 DEF ReadTestAbort
      <3>2. TypeOK'
        BY <3>1 DEF ReadGiveUp
      <3>3. Coherent'
        BY <1>3, <2>1, <3>1 DEF ReadTestAbort, ReadGiveUp,
                Coherent, LockHeld, HoldsStream, InOrder,
                SizesStillFit, ResetIsQuiet, DoneIsLast, EndIsTheEnd
      <3> QED BY <3>2, <3>3
    <2>2. CASE ~abort_read
      <3>1. ReadGoOn("test_unblock")
        BY <1>3, <2>2 DEF ReadTestAbort
      <3>2. TypeOK'
        BY <3>1 DEF ReadGoOn
      <3>3. Coherent'
        BY <1>3, <3>1 DEF ReadTestAbort, ReadGoOn,
                Coherent, LockHeld, HoldsStream, InOrder,
                SizesStillFit, ResetIsQuiet, DoneIsLast, EndIsTheEnd
      <3> QED BY <3>2, <3>3
    <2> QED BY <2>1, <2>2
  <1>4. ASSUME ReadTestUnblock PROVE IInv'
    <2>1. CASE unblock_reader_flag
      <3>1. ReadGiveUp("TIMEOUT")
        BY <1>4, <2>1 DEF ReadTestUnblock
      <3>2. TypeOK'
        BY <3>1 DEF ReadGiveUp
      <3>3. Coherent'
        BY <1>4, <2>1, <3>1 DEF ReadTestUnblock, ReadGiveUp,
                Coherent, LockHeld, HoldsStream, InOrder,
                SizesStillFit, ResetIsQuiet, DoneIsLast, EndIsTheEnd
      <3> QED BY <3>2, <3>3
    <2>2. CASE ~unblock_reader_flag
      <3>1. ReadGoOn("release")
        BY <1>4, <2>2 DEF ReadTestUnblock
      <3>2. TypeOK'
        BY <3>1 DEF ReadGoOn
      <3>3. Coherent'
        BY <1>4, <3>1 DEF ReadTestUnblock, ReadGoOn,
                Coherent, LockHeld, HoldsStream, InOrder,
                SizesStillFit, ResetIsQuiet, DoneIsLast, EndIsTheEnd
      <3> QED BY <3>2, <3>3
    <2> QED BY <2>1, <2>2
  <1>5. ASSUME ReadRelease PROVE IInv'
    <2>1. TypeOK'
      BY <1>5 DEF ReadRelease
    <2>2. Coherent'
      BY <1>5 DEF ReadRelease, Coherent, LockHeld, HoldsStream, InOrder,
                SizesStillFit, ResetIsQuiet, DoneIsLast, EndIsTheEnd
    <2> QED BY <2>1, <2>2
  <1>6. ASSUME ReadWake PROVE IInv'
    <2>1. TypeOK'
      BY <1>6 DEF ReadWake
    <2>2. Coherent'
      BY <1>6 DEF ReadWake, Coherent, LockHeld, HoldsStream, InOrder,
                SizesStillFit, ResetIsQuiet, DoneIsLast, EndIsTheEnd
    <2> QED BY <2>1, <2>2
  <1>7. ASSUME ReadTimeout PROVE IInv'
    <2>1. TypeOK'
      BY <1>7 DEF ReadTimeout
    <2>2. Coherent'
      BY <1>7 DEF ReadTimeout, Coherent, LockHeld, HoldsStream, InOrder,
                SizesStillFit, ResetIsQuiet, DoneIsLast, EndIsTheEnd
    <2> QED BY <2>1, <2>2
  <1>8. ASSUME ReadCopy PROVE IInv'
    <2>1. /\ rpc = "copy" /\ apc \notin {"rst_fill", "rst_flags"}
          /\ rsize \in 1..fill_cnt /\ rsize <= rlen
          /\ wpc # "copy"
      BY <1>8 DEF ReadCopy, Coherent, LockHeld, SizesStillFit, ResetIsQuiet
    <2>2. /\ fill_cnt <= Size
          /\ sent = taken + fill_cnt
          /\ p_w \in {p_r + fill_cnt, p_r + fill_cnt - Size}
          /\ \A i \in 0..(Size - 1) :
               Ahead(p_r, i) < fill_cnt => mem[i] = taken + Ahead(p_r, i) + 1
      BY <2>1 DEF Coherent, HoldsStream
    <2>3. /\ fill_cnt' = fill_cnt - rsize
          /\ p_r' = IF p_r + rsize > Size THEN p_r + rsize - Size
                                          ELSE p_r + rsize
          /\ taken' = taken + rsize
          /\ UNCHANGED <<mem, p_w, sent, apc>>
      BY <1>8, <2>1 DEF ReadCopy, Advance, Minus32
    <2>4. \A n \in 0..(rsize - 1) : mem[Slot(p_r, n)] = taken + n + 1
      BY <2>1, <2>2 DEF Slot, Ahead
    <2>5. received' = [i \in 1..taken' |-> i]
      BY <1>8, <2>1, <2>3, <2>4 DEF ReadCopy, Coherent, InOrder
    <2>6. TypeOK'
      <3>1. p_r' \in 0..Size /\ fill_cnt' \in Nat /\ taken' \in Nat
        BY <2>1, <2>2, <2>3
      <3>2. BufferType'
        BY <1>8, <3>1 DEF ReadCopy
      <3>3. CallType'
        BY <1>8, <2>1 DEF ReadCopy
      <3>4. received' \in [1..taken' -> Nat]
        BY <2>5
      <3>5. sent' \in Nat /\ ended' \in BOOLEAN
        BY <1>8 DEF ReadCopy
      <3> QED BY <3>1, <3>2, <3>3, <3>4, <3>5
    <2>7. HoldsStream'
      <3>1. \A i \in 0..(Size - 1) :
              Ahead(p_r', i) < fill_cnt' =>
                /\ Ahead(p_r', i) \in Nat
                /\ Ahead(p_r, i) = Ahead(p_r', i) + rsize
                /\ Ahead(p_r, i) < fill_cnt
        BY <2>1, <2>2, <2>3 DEF Ahead
      <3>2. \A i \in 0..(Size - 1) :
              Ahead(p_r', i) < fill_cnt' =>
                mem'[i] = taken' + Ahead(p_r', i) + 1
        BY <2>1, <2>2, <2>3, <3>1
      <3>3. p_w' \in {p_r' + fill_cnt', p_r' + fill_cnt' - Size}
        BY <2>1, <2>2, <2>3
      <3> QED BY <2>1, <2>2, <2>3, <3>2, <3>3 DEF HoldsStream
    <2>8. LockHeld' /\ SizesStillFit' /\ ResetIsQuiet' /\ DoneIsLast'
      BY <1>8, <2>1, <2>2, <2>3
      DEF ReadCopy, Coherent, LockHeld, SizesStillFit, ResetIsQuiet,
          DoneIsLast
    <2>9. EndIsTheEnd'
      BY <1>8, <2>1, <2>3
      DEF ReadCopy, Coherent, EndIsTheEnd, SizesStillFit
    <2> QED BY <2>5, <2>6, <2>7, <2>8, <2>9 DEF Coherent, InOrder
  <1>9. ASSUME ReadExit PROVE IInv'
    <2>1. TypeOK'
      BY <1>9 DEF ReadExit
    <2>2. Coherent'
      BY <1>9 DEF ReadExit, Coherent, LockHeld, HoldsStream, InOrder,
                SizesStillFit, ResetIsQuiet, DoneIsLast, EndIsTheEnd
    <2> QED BY <2>1, <2>2
  <1>10. ASSUME ReadReturn PROVE IInv'
    <2>1. ended' \in BOOLEAN
      BY <1>10 DEF ReadReturn
    <2>2. unblock_reader_flag' \in BOOLEAN
      BY <1>10 DEF ReadReturn
    <2>3. TypeOK'
      BY <1>10, <2>1, <2>2 DEF ReadReturn
    <2>4. Coherent'
      BY <1>10 DEF ReadReturn, Coherent, LockHeld, HoldsStream, InOrder,
                SizesStillFit, ResetIsQuiet, DoneIsLast, EndIsTheEnd
    <2> QED BY <2>3, <2>4
  <1> QED BY <1>1, <1>2, <1>3, <1>4, <1>5, <1>6, <1>7, <1>8, <1>9, <1>10 DEF ReadStep

\* Steps of rb_write and rb_done_write.
LEMMA WriteStepKeepsIInv ==
  ASSUME IInv, WriteStep, ResetAnytime = FALSE
  PROVE  IInv'
  <1> USE RingBufAssumption
      DEF IInv, TypeOK, BufferType, CallType, HistoryType, ReaderPC,
          WriterPC, AppPC, Results, Resetting, Post,
          buffer, flags, reader, writer, app, history
  <1>1. ASSUME WriteLock PROVE IInv'
    <2>1. fill_cnt <= Size
      BY <1>1 DEF WriteLock, Coherent, HoldsStream, ResetIsQuiet
    <2>2. wsize' \in 0..(Size - fill_cnt) /\ wsize' <= wlen
      BY <1>1, <2>1, WriteSizeFits DEF WriteLock
    <2>3. wpc' = IF wsize' = 0 THEN "test_done" ELSE "copy"
      BY <1>1 DEF WriteLock
    <2>4. wpc = "lock" /\ lock = "free" /\ lock' = "writer"
          /\ UNCHANGED <<buffer, can_read, can_write, flags, wlen, wtotal,
                         wret, reader, app, history>>
      BY <1>1 DEF WriteLock
    <2>5. TypeOK'
      BY <2>1, <2>2, <2>3, <2>4
    <2>6. Coherent'
      BY <2>2, <2>3, <2>4 DEF Coherent, LockHeld, HoldsStream, InOrder,
                SizesStillFit, ResetIsQuiet, DoneIsLast, EndIsTheEnd
    <2> QED BY <2>5, <2>6
  <1>2. ASSUME WriteTestDone PROVE IInv'
    <2>1. CASE is_done_write
      <3>1. WriteGiveUp("DONE")
        BY <1>2, <2>1 DEF WriteTestDone
      <3>2. TypeOK'
        BY <3>1 DEF WriteGiveUp
      <3>3. Coherent'
        BY <1>2, <2>1, <3>1 DEF WriteTestDone, WriteGiveUp,
                Coherent, LockHeld, HoldsStream, InOrder,
                SizesStillFit, ResetIsQuiet, DoneIsLast, EndIsTheEnd
      <3> QED BY <3>2, <3>3
    <2>2. CASE ~is_done_write
      <3>1. WriteGoOn("test_abort")
        BY <1>2, <2>2 DEF WriteTestDone
      <3>2. TypeOK'
        BY <3>1 DEF WriteGoOn
      <3>3. Coherent'
        BY <1>2, <3>1 DEF WriteTestDone, WriteGoOn,
                Coherent, LockHeld, HoldsStream, InOrder,
                SizesStillFit, ResetIsQuiet, DoneIsLast, EndIsTheEnd
      <3> QED BY <3>2, <3>3
    <2> QED BY <2>1, <2>2
  <1>3. ASSUME WriteTestAbort PROVE IInv'
    <2>1. CASE abort_write
      <3>1. WriteGiveUp("ABORT")
        BY <1>3, <2>1 DEF WriteTestAbort
      <3>2. TypeOK'
        BY <3>1 DEF WriteGiveUp
      <3>3. Coherent'
        BY <1>3, <2>1, <3>1 DEF WriteTestAbort, WriteGiveUp,
                Coherent, LockHeld, HoldsStream, InOrder,
                SizesStillFit, ResetIsQuiet, DoneIsLast, EndIsTheEnd
      <3> QED BY <3>2, <3>3
    <2>2. CASE ~abort_write
      <3>1. WriteGoOn("release")
        BY <1>3, <2>2 DEF WriteTestAbort
      <3>2. TypeOK'
        BY <3>1 DEF WriteGoOn
      <3>3. Coherent'
        BY <1>3, <3>1 DEF WriteTestAbort, WriteGoOn,
                Coherent, LockHeld, HoldsStream, InOrder,
                SizesStillFit, ResetIsQuiet, DoneIsLast, EndIsTheEnd
      <3> QED BY <3>2, <3>3
    <2> QED BY <2>1, <2>2
  <1>4. ASSUME WriteRelease PROVE IInv'
    <2>1. TypeOK'
      BY <1>4 DEF WriteRelease
    <2>2. Coherent'
      BY <1>4 DEF WriteRelease, Coherent, LockHeld, HoldsStream, InOrder,
                SizesStillFit, ResetIsQuiet, DoneIsLast, EndIsTheEnd
    <2> QED BY <2>1, <2>2
  <1>5. ASSUME WriteWake PROVE IInv'
    <2>1. TypeOK'
      BY <1>5 DEF WriteWake
    <2>2. Coherent'
      BY <1>5 DEF WriteWake, Coherent, LockHeld, HoldsStream, InOrder,
                SizesStillFit, ResetIsQuiet, DoneIsLast, EndIsTheEnd
    <2> QED BY <2>1, <2>2
  <1>6. ASSUME WriteTimeout PROVE IInv'
    <2>1. TypeOK'
      BY <1>6 DEF WriteTimeout
    <2>2. Coherent'
      BY <1>6 DEF WriteTimeout, Coherent, LockHeld, HoldsStream, InOrder,
                SizesStillFit, ResetIsQuiet, DoneIsLast, EndIsTheEnd
    <2> QED BY <2>1, <2>2
  <1>7. ASSUME WriteCopy PROVE IInv'
    <2>1. /\ wpc = "copy" /\ apc \notin {"rst_fill", "rst_flags"}
          /\ wsize \in 1..(Size - fill_cnt) /\ wsize <= wlen
          /\ rpc # "copy" /\ rpc # "test_done" /\ ~is_done_write
      BY <1>7 DEF WriteCopy, Coherent, LockHeld, SizesStillFit, ResetIsQuiet,
                  DoneIsLast
    <2>2. /\ fill_cnt <= Size
          /\ sent = taken + fill_cnt
          /\ p_w \in {p_r + fill_cnt, p_r + fill_cnt - Size}
          /\ \A i \in 0..(Size - 1) :
               Ahead(p_r, i) < fill_cnt => mem[i] = taken + Ahead(p_r, i) + 1
      BY <2>1 DEF Coherent, HoldsStream
    <2>3. /\ fill_cnt' = fill_cnt + wsize
          /\ p_w' = IF p_w + wsize > Size THEN p_w + wsize - Size
                                          ELSE p_w + wsize
          /\ sent' = sent + wsize
          /\ UNCHANGED <<p_r, taken, apc>>
      BY <1>7, <2>1 DEF WriteCopy, Advance
    <2>4. \A i \in 0..(Size - 1) :
            mem'[i] = IF Ahead(p_w, i) < wsize THEN sent + Ahead(p_w, i) + 1
                                               ELSE mem[i]
      BY <1>7 DEF WriteCopy
    <2>5. TypeOK'
      <3>1. p_w' \in 0..Size /\ fill_cnt' \in Nat /\ sent' \in Nat
        BY <2>1, <2>2, <2>3
      <3>2. mem' \in [0..(Size - 1) -> Nat]
        <4>1. \A i \in 0..(Size - 1) : Ahead(p_w, i) \in Nat
          BY DEF Ahead
        <4> QED BY <1>7, <4>1 DEF WriteCopy
      <3>3. BufferType'
        BY <1>7, <3>1, <3>2 DEF WriteCopy
      <3>4. CallType' /\ HistoryType'
        BY <1>7, <2>1 DEF WriteCopy
      <3> QED BY <3>3, <3>4
    <2>6. HoldsStream'
      <3>1. ASSUME NEW i \in 0..(Size - 1), Ahead(p_r, i) < fill_cnt'
            PROVE  mem'[i] = taken + Ahead(p_r, i) + 1
        <4>1. CASE Ahead(p_r, i) < fill_cnt
          <5>1. ~(Ahead(p_w, i) < wsize)
            BY <2>1, <2>2, <4>1 DEF Ahead
          <5> QED BY <2>2, <2>4, <4>1, <5>1
        <4>2. CASE ~(Ahead(p_r, i) < fill_cnt)
          <5>1. /\ Ahead(p_r, i) = fill_cnt + Ahead(p_w, i)
                /\ Ahead(p_w, i) < wsize /\ Ahead(p_w, i) \in Nat
            BY <2>1, <2>2, <2>3, <3>1, <4>2 DEF Ahead
          <5> QED BY <2>2, <2>4, <5>1
        <4> QED BY <4>1, <4>2
      <3>2. p_w' \in {p_r' + fill_cnt', p_r' + fill_cnt' - Size}
        BY <2>1, <2>2, <2>3
      <3> QED BY <2>1, <2>2, <2>3, <3>1, <3>2 DEF HoldsStream, Ahead
    <2>7. LockHeld' /\ SizesStillFit' /\ ResetIsQuiet' /\ DoneIsLast'
          /\ InOrder'
      BY <1>7, <2>1, <2>2, <2>3
      DEF WriteCopy, Coherent, LockHeld, SizesStillFit, ResetIsQuiet,
          DoneIsLast, InOrder
    <2>8. EndIsTheEnd'
      BY <1>7, <2>1 DEF WriteCopy, Coherent, EndIsTheEnd
    <2> QED BY <2>5, <2>6, <2>7, <2>8 DEF Coherent
  <1>8. ASSUME WriteExit PROVE IInv'
    <2>1. TypeOK'
      BY <1>8 DEF WriteExit
    <2>2. Coherent'
      BY <1>8 DEF WriteExit, Coherent, LockHeld, HoldsStream, InOrder,
                SizesStillFit, ResetIsQuiet, DoneIsLast, EndIsTheEnd
    <2> QED BY <2>1, <2>2
  <1>9. ASSUME DonePost PROVE IInv'
    <2>1. TypeOK'
      BY <1>9 DEF DonePost
    <2>2. Coherent'
      BY <1>9 DEF DonePost, Coherent, LockHeld, HoldsStream, InOrder,
                SizesStillFit, ResetIsQuiet, DoneIsLast, EndIsTheEnd
    <2> QED BY <2>1, <2>2
  <1> QED BY <1>1, <1>2, <1>3, <1>4, <1>5, <1>6, <1>7, <1>8, <1>9 DEF WriteStep

\* Steps of rb_abort, rb_unblock_reader and rb_reset.
LEMMA AppStepKeepsIInv ==
  ASSUME IInv, AppStep, ResetAnytime = FALSE
  PROVE  IInv'
  <1> USE RingBufAssumption
      DEF IInv, TypeOK, BufferType, CallType, HistoryType, ReaderPC,
          WriterPC, AppPC, Results, Resetting, Post,
          buffer, flags, reader, writer, app, history
  <1>1. ASSUME AbortRead PROVE IInv'
    <2>1. TypeOK'
      BY <1>1 DEF AbortRead
    <2>2. Coherent'
      BY <1>1 DEF AbortRead, Coherent, LockHeld, HoldsStream, InOrder,
                SizesStillFit, ResetIsQuiet, DoneIsLast, EndIsTheEnd
    <2> QED BY <2>1, <2>2
  <1>2. ASSUME WakeReader PROVE IInv'
    <2>1. TypeOK'
      BY <1>2 DEF WakeReader
    <2>2. Coherent'
      BY <1>2 DEF WakeReader, Coherent, LockHeld, HoldsStream, InOrder,
                SizesStillFit, ResetIsQuiet, DoneIsLast, EndIsTheEnd
    <2> QED BY <2>1, <2>2
  <1>3. ASSUME AbortWrite PROVE IInv'
    <2>1. TypeOK'
      BY <1>3 DEF AbortWrite
    <2>2. Coherent'
      BY <1>3 DEF AbortWrite, Coherent, LockHeld, HoldsStream, InOrder,
                SizesStillFit, ResetIsQuiet, DoneIsLast, EndIsTheEnd
    <2> QED BY <2>1, <2>2
  <1>4. ASSUME WakeWriter PROVE IInv'
    <2>1. TypeOK'
      BY <1>4 DEF WakeWriter
    <2>2. Coherent'
      BY <1>4 DEF WakeWriter, Coherent, LockHeld, HoldsStream, InOrder,
                SizesStillFit, ResetIsQuiet, DoneIsLast, EndIsTheEnd
    <2> QED BY <2>1, <2>2
  <1>5. ASSUME UnblockReader PROVE IInv'
    <2>1. TypeOK'
      BY <1>5 DEF UnblockReader
    <2>2. Coherent'
      BY <1>5 DEF UnblockReader, Coherent, LockHeld, HoldsStream, InOrder,
                SizesStillFit, ResetIsQuiet, DoneIsLast, EndIsTheEnd
    <2> QED BY <2>1, <2>2
  <1>6. ASSUME ResetPointers PROVE IInv'
    <2>1. TypeOK'
      BY <1>6 DEF ResetPointers
    <2>2. Coherent'
      BY <1>6 DEF ResetPointers, Coherent, LockHeld, HoldsStream, InOrder,
                SizesStillFit, ResetIsQuiet, DoneIsLast, EndIsTheEnd
    <2> QED BY <2>1, <2>2
  <1>7. ASSUME ResetFill PROVE IInv'
    <2>1. TypeOK'
      BY <1>7 DEF ResetFill
    <2>2. Coherent'
      BY <1>7 DEF ResetFill, Coherent, LockHeld, HoldsStream, InOrder,
                SizesStillFit, ResetIsQuiet, DoneIsLast, EndIsTheEnd
    <2> QED BY <2>1, <2>2
  <1>8. ASSUME ResetFlags PROVE IInv'
    <2>1. /\ apc = "rst_flags" /\ rpc = "idle" /\ wpc = "idle"
          /\ p_r = 0 /\ p_w = 0 /\ fill_cnt = 0
      BY <1>8 DEF ResetFlags, Coherent, ResetIsQuiet
    <2>2. /\ sent' = 0 /\ taken' = 0 /\ ended' = FALSE
          /\ received' = [i \in 1..0 |-> 0]
      BY <1>8 DEF ResetFlags
    <2>3. TypeOK'
      <3>1. /\ is_done_write' \in BOOLEAN /\ unblock_reader_flag' \in BOOLEAN
            /\ abort_read' \in BOOLEAN /\ abort_write' \in BOOLEAN
            /\ ended' \in BOOLEAN
        BY <1>8 DEF ResetFlags
      <3>2. received' \in [1..0 -> Nat]
        BY <2>2
      <3> QED BY <1>8, <2>1, <2>2, <3>1, <3>2 DEF ResetFlags
    <2>4. InOrder' /\ EndIsTheEnd'
      BY <1>8, <2>1, <2>2 DEF ResetFlags, InOrder, EndIsTheEnd
    <2>5. HoldsStream'
      BY <1>8, <2>1, <2>2 DEF ResetFlags, HoldsStream, Ahead
    <2>6. LockHeld' /\ SizesStillFit' /\ ResetIsQuiet' /\ DoneIsLast'
      BY <1>8, <2>1
      DEF ResetFlags, Coherent, LockHeld, SizesStillFit, ResetIsQuiet,
          DoneIsLast
    <2> QED BY <2>3, <2>4, <2>5, <2>6 DEF Coherent
  <1> QED BY <1>1, <1>2, <1>3, <1>4, <1>5, <1>6, <1>7, <1>8 DEF AppStep

\* Every step keeps the invariant.
LEMMA NextKeepsIInv ==
  ASSUME IInv, [Next]_vars, ResetAnytime = FALSE
  PROVE  IInv'
  <1> USE RingBufAssumption
      DEF IInv, TypeOK, BufferType, CallType, HistoryType, ReaderPC,
          WriterPC, AppPC, Results, Resetting, Post,
          buffer, flags, reader, writer, app, history
  <1>1. ASSUME NEW len \in Lens, ReadCall(len) PROVE IInv'
    <2>1. ended' \in BOOLEAN
      BY <1>1 DEF ReadCall
    <2>2. TypeOK'
      BY <1>1, <2>1 DEF ReadCall
    <2>3. Coherent'
      BY <1>1 DEF ReadCall, Coherent, LockHeld, HoldsStream, InOrder,
                SizesStillFit, ResetIsQuiet, DoneIsLast, EndIsTheEnd
    <2> QED BY <2>2, <2>3
  <1>2. ASSUME NEW len \in Lens, WriteCall(len) PROVE IInv'
    <2>1. TypeOK'
      BY <1>2 DEF WriteCall
    <2>2. Coherent'
      BY <1>2 DEF WriteCall, Coherent, LockHeld, HoldsStream, InOrder,
                SizesStillFit, ResetIsQuiet, DoneIsLast, EndIsTheEnd
    <2> QED BY <2>1, <2>2
  <1>3. ASSUME DoneWrite PROVE IInv'
    <2>1. TypeOK'
      BY <1>3 DEF DoneWrite
    <2>2. Coherent'
      BY <1>3 DEF DoneWrite, Coherent, LockHeld, HoldsStream, InOrder,
                SizesStillFit, ResetIsQuiet, DoneIsLast, EndIsTheEnd
    <2> QED BY <2>1, <2>2
  <1>4. ASSUME NEW op \in AppOps, AppCall(op) PROVE IInv'
    <2>1. TypeOK'
      BY <1>4 DEF AppCall, FirstStep
    <2>2. Coherent'
      BY <1>4 DEF AppCall, FirstStep, Coherent, LockHeld, HoldsStream, InOrder,
                SizesStillFit, ResetIsQuiet, DoneIsLast, EndIsTheEnd
    <2> QED BY <2>1, <2>2
  <1>5. CASE UNCHANGED vars
    <2>1. TypeOK'
      BY <1>5 DEF vars
    <2>2. Coherent'
      BY <1>5 DEF vars, Coherent, LockHeld, HoldsStream, InOrder,
                SizesStillFit, ResetIsQuiet, DoneIsLast, EndIsTheEnd, Ahead
    <2> QED BY <2>1, <2>2
  <1> QED BY <1>1, <1>2, <1>3, <1>4, <1>5, ReadStepKeepsIInv,
             WriteStepKeepsIInv, AppStepKeepsIInv
          DEF Next, Reader, Writer, App

-----------------------------------------------------------------------------
\* The ring buffer keeps its types, delivers every byte once and in order,
\* and reports the end of the stream with less than a word unread, for every
\* size, word, set of lengths and interleaving of the calls.
THEOREM RingBufSafety ==
  ASSUME ResetAnytime = FALSE
  PROVE  Spec => []IInv
  <1>1. Init => IInv
    BY InitIInv
  <1>2. IInv /\ [Next]_vars => IInv'
    BY NextKeepsIInv
  <1> QED BY <1>1, <1>2, PTL DEF Spec

\* The reader gets the bytes of the stream in order (ringbuf.c:226-245).
THEOREM DeliveredInOrder ==
  ASSUME ResetAnytime = FALSE
  PROVE  Spec => []InOrder
  <1>1. IInv => InOrder
    BY DEF IInv, Coherent
  <1> QED BY <1>1, RingBufSafety, PTL

\* RB_DONE leaves less than a word in the buffer (ringbuf.c:194, 204).
THEOREM EndLeavesLessThanAWord ==
  ASSUME ResetAnytime = FALSE
  PROVE  Spec => []EndIsTheEnd
  <1>1. IInv => EndIsTheEnd
    BY DEF IInv, Coherent
  <1> QED BY <1>1, RingBufSafety, PTL

-----------------------------------------------------------------------------
\* Only six actions touch what the abstract stream shows.
LEMMA OtherStepsStutter ==
  ASSUME [Next]_vars,
         ~ReadCopy, ~ReadReturn, ~WriteCopy, ~DoneWrite, ~ResetFlags,
         ~ \E len \in Lens : ReadCall(len)
  PROVE  UNCHANGED <<sent, taken, received, is_done_write, ended>>
  <1> USE DEF buffer, flags, reader, writer, app, history
  <1>1. CASE ReadStep
    BY <1>1 DEF ReadStep, ReadLock, ReadTestDone, ReadTestAbort,
                ReadTestUnblock, ReadGiveUp, ReadGoOn, ReadRelease,
                ReadWake, ReadTimeout, ReadExit
  <1>2. CASE WriteStep
    BY <1>2 DEF WriteStep, WriteLock, WriteTestDone, WriteTestAbort,
                WriteGiveUp, WriteGoOn, WriteRelease, WriteWake,
                WriteTimeout, WriteExit, DonePost
  <1>3. CASE AppStep
    BY <1>3 DEF AppStep, AbortRead, WakeReader, AbortWrite, WakeWriter,
                UnblockReader, ResetPointers, ResetFill
  <1>4. ASSUME NEW len \in Lens, WriteCall(len)
        PROVE  UNCHANGED <<sent, taken, received, is_done_write, ended>>
    BY <1>4 DEF WriteCall
  <1>5. ASSUME NEW op \in AppOps, AppCall(op)
        PROVE  UNCHANGED <<sent, taken, received, is_done_write, ended>>
    BY <1>5 DEF AppCall
  <1>6. CASE UNCHANGED vars
    BY <1>6 DEF vars
  <1> QED BY <1>1, <1>2, <1>3, <1>4, <1>5, <1>6
          DEF Next, Reader, Writer, App

\* Every step of the ring buffer is a step of the stream or a stutter.
LEMMA StepRefines ==
  ASSUME IInv, [Next]_vars, ResetAnytime = FALSE
  PROVE  [Stream!Next]_(Stream!streamVars)
  <1> USE RingBufAssumption
      DEF IInv, TypeOK, BufferType, CallType, HistoryType,
          Stream!Next, buffer, flags, reader, writer, app, history
  <1>1. CASE ReadCopy
    <2>1. rsize \in 1..fill_cnt /\ fill_cnt <= Size
          /\ sent = taken + fill_cnt
      BY <1>1 DEF ReadCopy, Coherent, SizesStillFit, HoldsStream,
                  ResetIsQuiet, Resetting
    <2>2. InOrder'
      BY NextKeepsIInv DEF Coherent
    <2>3. Stream!Take(rsize)
      BY <1>1, <2>1, <2>2 DEF ReadCopy, Stream!Take, InOrder
    <2> QED BY <2>1, <2>3
  <1>2. CASE WriteCopy
    <2>1. wsize \in 1..(Size - fill_cnt) /\ sent = taken + fill_cnt
      BY <1>2 DEF WriteCopy, Coherent, SizesStillFit, HoldsStream,
                  ResetIsQuiet, Resetting
    <2>2. Stream!Put(wsize)
      BY <1>2, <2>1 DEF WriteCopy, Stream!Put
    <2> QED BY <2>1, <2>2
  <1>3. CASE ReadReturn
    <2>1. CASE rret = "DONE"
      BY <1>3, <2>1 DEF ReadReturn, Coherent, EndIsTheEnd, Stream!End
    <2>2. CASE rret # "DONE"
      BY <1>3, <2>2 DEF ReadReturn, Stream!Resume
    <2> QED BY <2>1, <2>2
  <1>4. CASE DoneWrite
    BY <1>4 DEF DoneWrite, Stream!Close
  <1>5. CASE ResetFlags
    BY <1>5 DEF ResetFlags, Stream!Clear
  <1>6. CASE \E len \in Lens : ReadCall(len)
    BY <1>6 DEF ReadCall, Stream!Resume
  <1> QED BY <1>1, <1>2, <1>3, <1>4, <1>5, <1>6, OtherStepsStutter
          DEF Stream!streamVars

\* The ring buffer implements the bounded stream of module ByteStream:
\* rb_read takes the next bytes, rb_write puts bytes that fit, RB_DONE ends
\* a closed stream with less than a word left (ringbuf.c:169-389).
THEOREM ImplementsStream ==
  ASSUME ResetAnytime = FALSE
  PROVE  Spec => StreamSpec
  <1>1. Init => Stream!Init
    BY DEF Init, Stream!Init
  <1>2. IInv /\ [Next]_vars => [Stream!Next]_(Stream!streamVars)
    BY StepRefines
  <1> QED BY <1>1, <1>2, RingBufSafety, PTL DEF Spec, StreamSpec, Stream!Spec
=============================================================================
