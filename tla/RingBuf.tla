------------------------------ MODULE RingBuf -------------------------------
(***************************************************************************)
(* The ring buffer that links two audio elements                           *)
(* (components/audio_pipeline/ringbuf.c): one thread in rb_read, one in    *)
(* rb_write or rb_done_write, and a third that calls rb_abort,             *)
(* rb_unblock_reader or rb_reset.  rb_read and rb_write hold rb->lock from *)
(* the test of the fill level to the copy; everything else (the flags, the *)
(* two counting semaphores, rb_reset) is touched without it, so each of    *)
(* those accesses is a step.                                               *)
(*                                                                         *)
(* Variables keep the names of the fields of struct ringbuf.  The bytes    *)
(* are positions in the stream, as in module ByteStream.                   *)
(***************************************************************************)
EXTENDS Integers

CONSTANTS
  Size,          (* rb->size, block_size * n_blocks bytes                   *)
  Word,          (* rb_read hands out multiples of this many bytes (4)      *)
  Lens,          (* the buf_len values of the calls                         *)
  MaxBytes,      (* bound: bytes written between two resets                 *)
  SemMax,        (* SEM_VALUE_MAX: sem_post of a semaphore there is lost    *)
  CntMod,        (* 2^32: fill_cnt is a uint32_t                            *)
  Finite,        (* TRUE: ticks_to_wait is short, so waits may time out;    *)
                 (* FALSE: it is portMAX_DELAY, 18 hours, taken as forever  *)
  ResetAnytime,  (* FALSE: rb_reset is called only when no call is running; *)
                 (* TRUE: as audio_element_on_cmd_resume calls it, whatever *)
                 (* the reader of the buffer is doing                       *)
  AppOps,        (* the calls of the third thread                           *)
  MaxOps         (* bound: number of those calls                            *)

ASSUME RingBufAssumption ==
  /\ Size \in Nat \ {0}
  /\ Word \in Nat \ {0}
  /\ Lens \subseteq Nat
  /\ MaxBytes \in Nat
  /\ SemMax \in Nat \ {0}
  /\ CntMod \in Nat /\ CntMod > Size
  /\ Finite \in BOOLEAN
  /\ ResetAnytime \in BOOLEAN
  /\ AppOps \subseteq {"abort", "unblock", "reset"}
  /\ MaxOps \in Nat

VARIABLES
  mem, p_r, p_w, fill_cnt, can_read, can_write, lock,
  is_done_write, abort_read, abort_write, unblock_reader_flag,
  rpc, rlen, rsize, rtotal, rret,      (* rb_read: locals of the call      *)
  wpc, wlen, wsize, wtotal, wret,      (* rb_write, rb_done_write          *)
  apc, ops,                            (* the third thread                 *)
  sent, taken, received,               (* history: the stream so far       *)
  ended                                (* history: the last rb_read has    *)
                                       (* returned RB_DONE for this stream *)

buffer  == <<mem, p_r, p_w, fill_cnt>>
flags   == <<is_done_write, abort_read, abort_write, unblock_reader_flag>>
reader  == <<rpc, rlen, rsize, rtotal, rret>>
writer  == <<wpc, wlen, wsize, wtotal, wret>>
app     == <<apc, ops>>
history == <<sent, taken, received, ended>>
vars    == <<buffer, can_read, can_write, lock, flags,
             reader, writer, app, history>>

-----------------------------------------------------------------------------
(* Helpers. *)

\* How far slot i lies ahead of pointer p, which may stand one past the end.
Ahead(p, i) == IF i >= p THEN i - p ELSE i + Size - p

\* The slot n bytes ahead of pointer p.
Slot(p, n) == IF p + n >= Size THEN p + n - Size ELSE p + n

\* (mutant of Advance: a wrap that forgets the second piece)
AdvanceToStart(p, n) == IF p + n > Size THEN 0 ELSE p + n

\* A pointer moved over n bytes: it wraps only when it would pass the end.
Advance(p, n) == IF p + n > Size THEN p + n - Size ELSE p + n

\* uint32_t subtraction.
Minus32(a, b) == IF a >= b THEN a - b ELSE a - b + CntMod

\* sem_post, whose EOVERFLOW nobody looks at.
Post(sem) == IF sem < SemMax THEN sem + 1 ELSE sem

\* (mutants: the calls do not look at what there is and what fits)
ReadSizeBlind(len)  == len
WriteSizeBlind(len) == len

\* The bytes rb_read decides to take: all that is asked for, or the whole
\* words there are, or the rest once the writer is done.
ReadSize(len) ==
  LET words == fill_cnt - (fill_cnt % Word)
  IN  IF fill_cnt >= len THEN len
      ELSE IF words = 0 /\ is_done_write THEN fill_cnt ELSE words

\* The bytes rb_write decides to put: what fits.
WriteSize(len) ==
  LET free == Minus32(Size, fill_cnt) IN IF len < free THEN len ELSE free

Resetting == apc \in {"rst_ptr", "rst_fill", "rst_flags"}

-----------------------------------------------------------------------------
(* rb_read *)

ReadCall(len) ==
  /\ rpc = "idle"
  /\ Resetting => ResetAnytime
  /\ rpc' = IF len = 0 THEN "exit" ELSE "lock"
  /\ rlen' = len
  /\ rsize' = 0
  /\ rtotal' = 0
  /\ rret' = "none"
  /\ ended' = FALSE
  /\ UNCHANGED <<buffer, can_read, can_write, lock, flags, writer, app,
                 sent, taken, received>>

\* Takes the lock and tests the fill level.
ReadLock ==
  /\ rpc = "lock"
  /\ lock = "free"
  /\ lock' = "reader"
  /\ rsize' = ReadSize(rlen)
  /\ rpc' = IF ReadSize(rlen) = 0 THEN "test_done" ELSE "copy"
  /\ UNCHANGED <<buffer, can_read, can_write, flags, rlen, rtotal, rret,
                 writer, app, history>>

\* Nothing to read: one of the three flags ends the call ...
ReadGiveUp(ret) ==
  /\ rret' = ret
  /\ rpc' = "exit"
  /\ lock' = "free"
  /\ UNCHANGED <<buffer, can_read, can_write, flags, rlen, rsize, rtotal,
                 writer, app, history>>

\* ... or the next one is looked at.
ReadGoOn(next) ==
  /\ rpc' = next
  /\ lock' = IF next = "release" THEN "free" ELSE lock
  /\ UNCHANGED <<buffer, can_read, can_write, flags, rlen, rsize, rtotal,
                 rret, writer, app, history>>

\* (mutant: RB_DONE whenever there is nothing to read)
ReadTestDoneBlind == rpc = "test_done" /\ ReadGiveUp("DONE")

ReadTestDone ==
  /\ rpc = "test_done"
  /\ IF is_done_write THEN ReadGiveUp("DONE") ELSE ReadGoOn("test_abort")

ReadTestAbort ==
  /\ rpc = "test_abort"
  /\ IF abort_read THEN ReadGiveUp("ABORT") ELSE ReadGoOn("test_unblock")

ReadTestUnblock ==
  /\ rpc = "test_unblock"
  /\ IF unblock_reader_flag THEN ReadGiveUp("TIMEOUT")
                            ELSE ReadGoOn("release")

ReadRelease ==
  /\ rpc = "release"
  /\ can_write' = Post(can_write)
  /\ rpc' = "wait"
  /\ UNCHANGED <<buffer, can_read, lock, flags, rlen, rsize, rtotal, rret,
                 writer, app, history>>

ReadWake ==
  /\ rpc = "wait"
  /\ can_read > 0
  /\ can_read' = can_read - 1
  /\ rpc' = "lock"
  /\ UNCHANGED <<buffer, can_write, lock, flags, rlen, rsize, rtotal, rret,
                 writer, app, history>>

\* (mutant: a time-out is taken for the end of the stream)
ReadTimeoutDone ==
  /\ Finite
  /\ rpc = "wait" /\ can_read = 0
  /\ rret' = "DONE"
  /\ rpc' = "exit"
  /\ UNCHANGED <<buffer, can_read, can_write, lock, flags, rlen, rsize,
                 rtotal, writer, app, history>>

\* sem_timedwait gives up after ticks_to_wait.  pthread_mutex_timedlock has
\* portMAX_DELAY of its own; its error path is here too.
ReadTimeout ==
  /\ Finite
  /\ \/ rpc = "wait" /\ can_read = 0
     \/ rpc = "lock" /\ lock # "free"
  /\ rret' = "TIMEOUT"
  /\ rpc' = "exit"
  /\ UNCHANGED <<buffer, can_read, can_write, lock, flags, rlen, rsize,
                 rtotal, writer, app, history>>

\* Copies rsize bytes out, accounts for them and unlocks.
ReadCopy ==
  /\ rpc = "copy"
  /\ p_r' = Advance(p_r, rsize)
  /\ fill_cnt' = Minus32(fill_cnt, rsize)
  /\ rlen' = rlen - rsize
  /\ rtotal' = rtotal + rsize
  /\ lock' = "free"
  /\ rpc' = IF rlen = rsize THEN "exit" ELSE "lock"
  /\ taken' = taken + rsize
  /\ received' = [i \in 1..(taken + rsize) |->
                    IF i <= taken THEN received[i]
                                  ELSE mem[Slot(p_r, i - taken - 1)]]
  /\ UNCHANGED <<mem, p_w, can_read, can_write, flags, rsize, rret, writer,
                 app, sent, ended>>

\* read_err: tells the writer about the space.
ReadExit ==
  /\ rpc = "exit"
  /\ can_write' = IF rtotal > 0 THEN Post(can_write) ELSE can_write
  /\ rret' = IF rret # "ABORT" /\ rtotal > 0 THEN "bytes" ELSE rret
  /\ rpc' = "clear"
  /\ UNCHANGED <<buffer, can_read, lock, flags, rlen, rsize, rtotal, writer,
                 app, history>>

ReadReturn ==
  /\ rpc = "clear"
  /\ unblock_reader_flag' = FALSE
  /\ rpc' = "idle"
  /\ rlen' = 0 /\ rsize' = 0 /\ rtotal' = 0      \* the locals are gone
  /\ ended' = (rret = "DONE")
  /\ UNCHANGED <<buffer, can_read, can_write, lock, is_done_write,
                 abort_read, abort_write, rret, writer, app, sent, taken,
                 received>>

-----------------------------------------------------------------------------
(* rb_write and rb_done_write *)

\* An element does not write behind its own rb_done_write.
WriteCall(len) ==
  /\ wpc = "idle"
  /\ ~is_done_write
  /\ ~Resetting
  /\ sent + len <= MaxBytes
  /\ wpc' = IF len = 0 THEN "exit" ELSE "lock"
  /\ wlen' = len
  /\ wsize' = 0
  /\ wtotal' = 0
  /\ wret' = "none"
  /\ UNCHANGED <<buffer, can_read, can_write, lock, flags, reader, app,
                 history>>

WriteLock ==
  /\ wpc = "lock"
  /\ lock = "free"
  /\ lock' = "writer"
  /\ wsize' = WriteSize(wlen)
  /\ wpc' = IF WriteSize(wlen) = 0 THEN "test_done" ELSE "copy"
  /\ UNCHANGED <<buffer, can_read, can_write, flags, wlen, wtotal, wret,
                 reader, app, history>>

WriteGiveUp(ret) ==
  /\ wret' = ret
  /\ wpc' = "exit"
  /\ lock' = "free"
  /\ UNCHANGED <<buffer, can_read, can_write, flags, wlen, wsize, wtotal,
                 reader, app, history>>

WriteGoOn(next) ==
  /\ wpc' = next
  /\ lock' = IF next = "release" THEN "free" ELSE lock
  /\ UNCHANGED <<buffer, can_read, can_write, flags, wlen, wsize, wtotal,
                 wret, reader, app, history>>

WriteTestDone ==
  /\ wpc = "test_done"
  /\ IF is_done_write THEN WriteGiveUp("DONE") ELSE WriteGoOn("test_abort")

WriteTestAbort ==
  /\ wpc = "test_abort"
  /\ IF abort_write THEN WriteGiveUp("ABORT") ELSE WriteGoOn("release")

\* (mutant: a writer that finds the buffer full does not wake the reader)
WriteReleaseSilent ==
  /\ wpc = "release"
  /\ wpc' = "wait"
  /\ UNCHANGED <<buffer, can_read, can_write, lock, flags, wlen, wsize, wtotal,
                 wret, reader, app, history>>

WriteRelease ==
  /\ wpc = "release"
  /\ can_read' = Post(can_read)
  /\ wpc' = "wait"
  /\ UNCHANGED <<buffer, can_write, lock, flags, wlen, wsize, wtotal, wret,
                 reader, app, history>>

WriteWake ==
  /\ wpc = "wait"
  /\ can_write > 0
  /\ can_write' = can_write - 1
  /\ wpc' = "lock"
  /\ UNCHANGED <<buffer, can_read, lock, flags, wlen, wsize, wtotal, wret,
                 reader, app, history>>

WriteTimeout ==
  /\ Finite
  /\ \/ wpc = "wait" /\ can_write = 0
     \/ wpc = "lock" /\ lock # "free"
  /\ wret' = "TIMEOUT"
  /\ wpc' = "exit"
  /\ UNCHANGED <<buffer, can_read, can_write, lock, flags, wlen, wsize,
                 wtotal, reader, app, history>>

WriteCopy ==
  /\ wpc = "copy"
  /\ mem' = [i \in 0..(Size - 1) |->
               IF Ahead(p_w, i) < wsize THEN sent + Ahead(p_w, i) + 1
                                        ELSE mem[i]]
  /\ p_w' = Advance(p_w, wsize)
  /\ fill_cnt' = fill_cnt + wsize
  /\ wlen' = wlen - wsize
  /\ wtotal' = wtotal + wsize
  /\ lock' = "free"
  /\ wpc' = IF wlen = wsize THEN "exit" ELSE "lock"
  /\ sent' = sent + wsize
  /\ UNCHANGED <<p_r, can_read, can_write, flags, wsize, wret, reader, app,
                 taken, received, ended>>

\* write_err: tells the reader about the data and returns.
WriteExit ==
  /\ wpc = "exit"
  /\ can_read' = IF wtotal > 0 THEN Post(can_read) ELSE can_read
  /\ wret' = IF wret # "ABORT" /\ wtotal > 0 THEN "bytes" ELSE wret
  /\ wpc' = "idle"
  /\ wlen' = 0 /\ wsize' = 0 /\ wtotal' = 0
  /\ UNCHANGED <<buffer, can_write, lock, flags, reader, app, history>>

\* rb_done_write: the flag ...
DoneWrite ==
  /\ wpc = "idle"
  /\ ~Resetting
  /\ ~is_done_write
  /\ is_done_write' = TRUE
  /\ wpc' = "done_post"
  /\ UNCHANGED <<buffer, can_read, can_write, lock, abort_read, abort_write,
                 unblock_reader_flag, wlen, wsize, wtotal, wret, reader,
                 app, history>>

\* (mutant: rb_done_write that only sets the flag)
DonePostSilent ==
  /\ wpc = "done_post"
  /\ wpc' = "idle"
  /\ UNCHANGED <<buffer, can_read, can_write, lock, flags, wlen, wsize, wtotal,
                 wret, reader, app, history>>

\* ... and the semaphore.
DonePost ==
  /\ wpc = "done_post"
  /\ can_read' = Post(can_read)
  /\ wpc' = "idle"
  /\ UNCHANGED <<buffer, can_write, lock, flags, wlen, wsize, wtotal, wret,
                 reader, app, history>>

-----------------------------------------------------------------------------
(* rb_abort, rb_unblock_reader, rb_reset *)

FirstStep == [abort   |-> "ab_read", unblock |-> "unblock",
              reset   |-> "rst_ptr"]

AppCall(op) ==
  /\ apc = "idle"
  /\ ops < MaxOps
  /\ op = "reset" => wpc = "idle" /\ (ResetAnytime \/ rpc = "idle")
  /\ apc' = FirstStep[op]
  /\ ops' = ops + 1
  /\ UNCHANGED <<buffer, can_read, can_write, lock, flags, reader, writer,
                 history>>

AbortRead ==
  /\ apc = "ab_read"
  /\ abort_read' = TRUE
  /\ apc' = "ab_read_post"
  /\ UNCHANGED <<buffer, can_read, can_write, lock, is_done_write,
                 abort_write, unblock_reader_flag, reader, writer, ops,
                 history>>

\* (mutant: the flag is set but the sleeping reader is not woken)
WakeReaderSilent ==
  /\ apc \in {"ab_read_post", "unblock_post"}
  /\ apc' = IF apc = "ab_read_post" THEN "ab_write" ELSE "idle"
  /\ UNCHANGED <<buffer, can_read, can_write, lock, flags, reader, writer, ops,
                 history>>

\* The rb_sem_release of rb_abort_read and of rb_unblock_reader.
WakeReader ==
  /\ apc \in {"ab_read_post", "unblock_post"}
  /\ can_read' = Post(can_read)
  /\ apc' = IF apc = "ab_read_post" THEN "ab_write" ELSE "idle"
  /\ UNCHANGED <<buffer, can_write, lock, flags, reader, writer, ops,
                 history>>

AbortWrite ==
  /\ apc = "ab_write"
  /\ abort_write' = TRUE
  /\ apc' = "ab_write_post"
  /\ UNCHANGED <<buffer, can_read, can_write, lock, is_done_write,
                 abort_read, unblock_reader_flag, reader, writer, ops,
                 history>>

\* (mutant: the same for the writer)
WakeWriterSilent ==
  /\ apc = "ab_write_post"
  /\ apc' = "idle"
  /\ UNCHANGED <<buffer, can_read, can_write, lock, flags, reader, writer, ops,
                 history>>

WakeWriter ==
  /\ apc = "ab_write_post"
  /\ can_write' = Post(can_write)
  /\ apc' = "idle"
  /\ UNCHANGED <<buffer, can_read, lock, flags, reader, writer, ops,
                 history>>

UnblockReader ==
  /\ apc = "unblock"
  /\ unblock_reader_flag' = TRUE
  /\ apc' = "unblock_post"
  /\ UNCHANGED <<buffer, can_read, can_write, lock, is_done_write,
                 abort_read, abort_write, reader, writer, ops, history>>

\* The stores of rb_reset, in its order: the pointers, the fill level ...
ResetPointers ==
  /\ apc = "rst_ptr"
  /\ p_r' = 0
  /\ p_w' = 0
  /\ apc' = "rst_fill"
  /\ UNCHANGED <<mem, fill_cnt, can_read, can_write, lock, flags, reader,
                 writer, ops, history>>

ResetFill ==
  /\ apc = "rst_fill"
  /\ fill_cnt' = 0
  /\ apc' = "rst_flags"
  /\ UNCHANGED <<mem, p_r, p_w, can_read, can_write, lock, flags, reader,
                 writer, ops, history>>

\* ... and the four flags.  A new stream starts here.
ResetFlags ==
  /\ apc = "rst_flags"
  /\ is_done_write' = FALSE
  /\ unblock_reader_flag' = FALSE
  /\ abort_read' = FALSE
  /\ abort_write' = FALSE
  /\ apc' = "idle"
  /\ sent' = 0
  /\ taken' = 0
  /\ received' = [i \in 1..0 |-> 0]
  /\ ended' = FALSE
  /\ UNCHANGED <<buffer, can_read, can_write, lock, reader, writer, ops>>

-----------------------------------------------------------------------------
(* rb_create *)
Init ==
  /\ mem = [i \in 0..(Size - 1) |-> 0]
  /\ p_r = 0 /\ p_w = 0 /\ fill_cnt = 0
  /\ can_read = 0 /\ can_write = 0 /\ lock = "free"
  /\ is_done_write = FALSE /\ unblock_reader_flag = FALSE
  /\ abort_read = FALSE /\ abort_write = FALSE
  /\ rpc = "idle" /\ rlen = 0 /\ rsize = 0 /\ rtotal = 0 /\ rret = "none"
  /\ wpc = "idle" /\ wlen = 0 /\ wsize = 0 /\ wtotal = 0 /\ wret = "none"
  /\ apc = "idle" /\ ops = 0
  /\ sent = 0 /\ taken = 0 /\ received = [i \in 1..0 |-> 0]
  /\ ended = FALSE

\* The steps of a rb_read that is running.
ReadStep ==
  \/ ReadLock \/ ReadTestDone \/ ReadTestAbort \/ ReadTestUnblock
  \/ ReadRelease \/ ReadWake \/ ReadTimeout \/ ReadCopy
  \/ ReadExit \/ ReadReturn

\* The steps of a rb_write or rb_done_write that is running.
WriteStep ==
  \/ WriteLock \/ WriteTestDone \/ WriteTestAbort
  \/ WriteRelease \/ WriteWake \/ WriteTimeout \/ WriteCopy
  \/ WriteExit \/ DonePost

\* The steps of a call of the third thread.
AppStep ==
  \/ AbortRead \/ WakeReader \/ AbortWrite \/ WakeWriter \/ UnblockReader
  \/ ResetPointers \/ ResetFill \/ ResetFlags

Reader == \/ \E len \in Lens : ReadCall(len)
          \/ ReadStep
Writer == \/ \E len \in Lens : WriteCall(len)
          \/ DoneWrite
          \/ WriteStep
App    == \/ \E op \in AppOps : AppCall(op)
          \/ AppStep

Next == Reader \/ Writer \/ App

Spec == Init /\ [][Next]_vars

-----------------------------------------------------------------------------
(* Safety. *)

ReaderPC == {"idle", "lock", "test_done", "test_abort", "test_unblock",
             "release", "wait", "copy", "exit", "clear"}
WriterPC == {"idle", "lock", "test_done", "test_abort", "release", "wait",
             "copy", "exit", "done_post"}
AppPC    == {"idle", "ab_read", "ab_read_post", "ab_write", "ab_write_post",
             "unblock", "unblock_post", "rst_ptr", "rst_fill", "rst_flags"}
Results  == {"none", "bytes", "DONE", "ABORT", "TIMEOUT"}

BufferType ==
  /\ mem \in [0..(Size - 1) -> Nat]
  /\ p_r \in 0..Size /\ p_w \in 0..Size /\ fill_cnt \in Nat
  /\ can_read \in 0..SemMax /\ can_write \in 0..SemMax
  /\ lock \in {"free", "reader", "writer"}
  /\ is_done_write \in BOOLEAN /\ unblock_reader_flag \in BOOLEAN
  /\ abort_read \in BOOLEAN /\ abort_write \in BOOLEAN

CallType ==
  /\ rpc \in ReaderPC /\ rlen \in Nat /\ rsize \in Nat /\ rtotal \in Nat
  /\ rret \in Results
  /\ wpc \in WriterPC /\ wlen \in Nat /\ wsize \in Nat /\ wtotal \in Nat
  /\ wret \in Results
  /\ apc \in AppPC /\ ops \in Nat

HistoryType ==
  /\ sent \in Nat /\ taken \in Nat
  /\ received \in [1..taken -> Nat]
  /\ ended \in BOOLEAN

\* The variables keep their types: the pointers stay within the buffer or one
\* past its end (ringbuf.c:232, 312) and the counters do not go negative.
TypeOK == BufferType /\ CallType /\ HistoryType

\* The lock is held exactly between a fill-level test and its copy or exit.
LockHeld ==
  /\ lock = "reader" <=>
       rpc \in {"test_done", "test_abort", "test_unblock", "copy"}
  /\ lock = "writer" <=> wpc \in {"test_done", "test_abort", "copy"}

\* Every byte that was written and not read is in the buffer, in its place,
\* and nothing else is: fill_cnt, the two pointers and the contents tell the
\* same story (ringbuf.c:226-245, 306-322), except inside rb_reset.
HoldsStream ==
  apc \notin {"rst_fill", "rst_flags"} =>
    /\ fill_cnt <= Size
    /\ sent = taken + fill_cnt
    /\ p_w \in {p_r + fill_cnt, p_r + fill_cnt - Size}
    /\ \A i \in 0..(Size - 1) :
         Ahead(p_r, i) < fill_cnt => mem[i] = taken + Ahead(p_r, i) + 1

\* The reader gets the bytes in the order they were written, each one once:
\* no interleaving of rb_read, rb_write, rb_abort, rb_unblock_reader and
\* quiescent rb_reset calls loses, repeats or reorders one.
InOrder == received = [i \in 1..taken |-> i]

\* What a thread has computed from fill_cnt under the lock is still right
\* when it copies; a call that has not left its loop still wants bytes and
\* has no result yet.
SizesStillFit ==
  /\ rpc \notin {"idle", "exit", "clear"} => rlen > 0 /\ rret = "none"
  /\ rpc = "copy" => rsize \in 1..fill_cnt /\ rsize <= rlen
  /\ wpc = "copy" => wsize \in 1..(Size - fill_cnt) /\ wsize <= wlen
  /\ rpc = "test_done" => fill_cnt < Word

\* rb_reset runs between calls and nobody undoes its first stores.
ResetIsQuiet ==
  /\ Resetting => rpc = "idle" /\ wpc = "idle"
  /\ apc \in {"rst_fill", "rst_flags"} => p_r = 0 /\ p_w = 0
  /\ apc = "rst_flags" => fill_cnt = 0

\* The writer is silent behind rb_done_write.
DoneIsLast == is_done_write => wpc \in {"idle", "done_post"}

\* RB_DONE (ringbuf.c:204) is reported only when the writer is done and less
\* than one word is left: the race between the two tests of is_done_write
\* (lines 194 and 204) costs the tail of the stream, never more.
EndIsTheEnd ==
  ended \/ (rpc \in {"exit", "clear"} /\ rret = "DONE") =>
    is_done_write /\ sent - taken < Word

\* The inductive invariant (for ~ResetAnytime): the types, and how the
\* program counters, the lock, the flags and the buffer fit together.
Coherent ==
  /\ LockHeld /\ HoldsStream /\ InOrder /\ SizesStillFit
  /\ ResetIsQuiet /\ DoneIsLast /\ EndIsTheEnd
IInv == TypeOK /\ Coherent

\* The buffer is a bounded stream in the sense of module ByteStream.
Stream == INSTANCE ByteStream WITH
  Capacity <- Size, Slack <- Word, closed <- is_done_write
StreamSpec == Stream!Spec
=============================================================================
