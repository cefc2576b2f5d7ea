----------------------------- MODULE MCRingBuf ------------------------------
(***************************************************************************)
(* RingBuf for TLC: the fairness of the threads and the liveness           *)
(* properties.                                                             *)
(***************************************************************************)
EXTENDS RingBuf

\* A call that runs goes on: the threads are scheduled, and one that finds
\* rb->lock free again and again gets it at last.  (rb->lock is held only for
\* a copy or three tests, and every loop of rb_read and rb_write drops it; a
\* mutex of POSIX does not promise this in so many words.)
FairSpec ==
  /\ Spec
  /\ WF_vars(ReadStep) /\ WF_vars(WriteStep) /\ WF_vars(AppStep)
  /\ SF_vars(ReadLock) /\ SF_vars(WriteLock)

\* The reading element calls rb_read again until it is told to stop: the loop
\* of audio_element_task.
ReaderGoesOn ==
  /\ rret # "ABORT"
  /\ ~ended
  /\ \E len \in Lens \ {0} : ReadCall(len)
KeepsReading == WF_vars(ReaderGoesOn)

-----------------------------------------------------------------------------
\* rb_abort (ringbuf.c:343-371) ends both calls, whatever the other thread
\* does from then on: the flag is stored before the post, so neither call can
\* go back to sleep without seeing it.
AbortEndsRead  == abort_read ~> (rpc = "idle" \/ ~abort_read)
AbortEndsWrite == abort_write ~> (wpc = "idle" \/ ~abort_write)

\* No wake-up is lost: a rb_write that waits for space returns while a reader
\* keeps reading (or after rb_abort), though both sides only post a semaphore
\* after they have dropped the lock.
WriteReturns ==
  KeepsReading => ((wpc # "idle") ~> (wpc = "idle"))

\* Once the writer is done the reader is told so, or was aborted.
EndIsReported ==
  KeepsReading => (is_done_write ~> (ended \/ ~is_done_write \/ abort_read))
=============================================================================
