--------------------------- MODULE MCAudioElement ---------------------------
(***************************************************************************)
(* AudioElement for TLC: fairness, and the properties of one element under *)
(* the control of one application thread.                                  *)
(***************************************************************************)
EXTENDS AudioElement

\* The scheduler runs the task and the application, and the open and process
\* callbacks return.
FairSpec ==
  Spec /\ (\A k \in Tasks : WF_vars(TaskStep(k))) /\ WF_vars(AppStep)

Queued(cmd) == \E i \in DOMAIN cmdq : cmdq[i] = cmd

\* While `stopping' is set audio_element_stop sends nothing and returns
\* ESP_OK (audio_element.c:1266); so a STOP must be on its way: in the queue,
\* in a handler that will reset the flag, or about to be sent.  Checked with
\* waits that expire and allocations that fail for an element with one task:
\* behind an expired terminate, or a failed allocation, a second run discards
\* the STOP of the first task (audio_element.c:1089).
StopIsServed ==
  stopping =>
    \/ Now("stop") /\ apc = "send"
    \/ Queued("STOP")
    \/ \E k \in Tasks : Ahead(k, Do("unstop")) \/ Ahead(k, Do("on_stop"))

\* Between two handlers the fields that handlers and the application read
\* separately agree: is_running, is_open and AEL_STATE_RUNNING (the test of
\* audio_element_process_running, and of stop, resume and pause).  Checked
\* for one task and an application that does not call pause or reset_state,
\* which store the state of a running element (audio_element.c:1169, :506).
QuietIsConsistent ==
  \A k \in Tasks : Live(k) /\ todo[k] = <<>> =>
    /\ is_running <=> is_open
    /\ is_running <=> state = "RUNNING"

\* Of two tasks of one element only one works on it; the other has cleared
\* task_run and only announces its end.  (audio_element_run tests task_run
\* without a lock.)  Two situations are excluded, in which a second run finds
\* task_run FALSE: the allocation of the element's buffer fails
\* (audio_element.c:461-467, MayFail), or the wait of a terminate or of a run
\* has expired (MayExpire).
OneOwner ==
  \A j, k \in Tasks : Live(j) /\ Live(k) /\ j # k => Leaving(j) \/ Leaving(k)

\* The process callback never runs behind rb_done_write of its own output:
\* what rb_write (module RingBuf) relies on.  Checked for one task and an
\* application that resets the ring buffers as it likes, but does not call
\* pause or reset_state: with the state INIT or PAUSED, on_cmd_resume opens
\* the element again and keeps the end (audio_element.c:272).
WritesLiveStream ==
  \A k \in Tasks : at[k] = "process" /\ todo[k] = <<>> => ~out_done

\* When audio_element_deinit frees the element, the task has at most the bit
\* and the cancellation of audio_element.c:497-500 left to do.  Three
\* situations are excluded, in which terminate fails, which deinit does not
\* look at, or returns before the task has ended: a failed allocation of the
\* buffer (audio_element.c:461-467, MayFail), a wait that expires
\* (MayExpire), and a full command queue (MaxCalls keeps it from filling up).
FreedWhenLeft == freed => \A k \in Tasks : Live(k) => Leaving(k)

\* The one way to lose a task that has work to do: the cancellation of
\* audio_element.c:500, meant for the caller itself, goes to the task that a
\* new audio_element_run has just stored in audio_thread.  (The cancellation
\* that a task sends to itself at its end is not in the set.)
Cancelled == cancelled # {}

\* No call of the API waits for a bit that nobody sets: each one returns
\* without the help of its 2 s limit.  Excluded are a task that its
\* predecessor has cancelled, and one whose buffer could not be allocated
\* (MayFail): a pause that finds task_run still set waits for a bit that the
\* task's end does not set.  (wait_for_stop waits as long as the element
\* runs.)
CallReturns ==
  \A c \in Calls \ {"wait_for_stop", "wait_for_stop_ms"} :
    Now(c) ~> (~Now(c) \/ Cancelled)

\* What wait_for_stop of audio_element.c:902 waits for comes: a stop that was
\* sent is carried out, by whichever task of the element, over restarts.
\* Excluded are a task that its predecessor has cancelled, and one whose
\* buffer could not be allocated (MayFail).
StopIsCarriedOut == stopping ~> (~stopping \/ Cancelled)
=============================================================================
