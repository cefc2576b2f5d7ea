----------------------------- MODULE PipelineRun ----------------------------
(***************************************************************************)
(* A running pipeline: two linked elements with their tasks, the ring      *)
(* buffer between them, the event interfaces (module EventIface) and the   *)
(* application thread in the control functions of audio_pipeline.c.        *)
(*                                                                         *)
(* Module AudioElement has one step per store of a handler; here a handler *)
(* is two steps, the second of which begins with the report to the         *)
(* listener, where the task may have to wait.  An open callback, a process *)
(* callback and every step of a loop over the elements are steps as well.  *)
(*                                                                         *)
(* The source produces the blocks 1..Amount and the sink consumes them.    *)
(* An element that is closed by a pause keeps its position; one closed     *)
(* otherwise begins a new stream when it opens (fatfs_stream.c).           *)
(***************************************************************************)
EXTENDS Naturals, Sequences, FiniteSets

CONSTANTS
  Amount,      (* the blocks of a stream                                    *)
  Capacity,    (* the blocks the ring buffer holds                          *)
  Size,        (* messages that a queue holds (5)                           *)
  Blocking,    (* queues opened without O_NONBLOCK                          *)
  Clients,     (* applications: sets of functions that one of them calls    *)
  MaxCalls,    (* bound: calls of the application                           *)
  Faults,      (* what may fail: "thread", "open", "process"                *)
  Resets,      (* does the application reset the ring buffers?              *)
  Patient,     (* does it wait until the elements are open?                 *)
  MayExpire    (* may a wait expire although the task is not blocked?       *)

Src == 1
Snk == 2
Els == {Src, Snk}      \* in the order of el_list
None == 0
Listener == 3

VARIABLES
  el,                              (* the elements, see Element              *)
  internal_queue, external_queue,  (* of the elements and the listener       *)
  rb,                              (* the ring buffer between the elements   *)
  pos, stream,                     (* the source's position, and its stream  *)
  heard,                           (* the blocks the sink got since it began *)
  pl,                              (* struct audio_pipeline                  *)
  client,                          (* which of the applications this is      *)
  call, i, apc, ret, calls,        (* the application                        *)
  since,                           (* the latest call that matters           *)
  latePause,                       (* history: a pause was given up, or over-*)
                                   (* wrote the state of an element that had *)
                                   (* come to its end                        *)
  lateStop,                        (* history: wait_for_stop was over when   *)
                                   (* the element had not yet carried out    *)
                                   (* its STOP                               *)
  staleStop,                       (* history: wait_for_stop was over, by    *)
                                   (* the STOPPED_BIT of an earlier run, when*)
                                   (* the element was at work                *)
  gaveUp                           (* history: terminate failed on an element*)

iface  == <<internal_queue, external_queue>>
data   == <<pos, stream, heard, latePause, lateStop, staleStop, gaveUp>>
app    == <<client, call, i, apc, ret, calls, since>>
vars   == <<el, iface, rb, data, pl, app>>

E == INSTANCE EventIface WITH Ifaces <- Els \cup {Listener}

States == {"INIT", "INITIALIZING", "RUNNING", "PAUSED", "STOPPED", "FINISHED", "ERROR"}
Ended  == {"STOPPED", "FINISHED", "ERROR"}
Errors == {"ERROR_OPEN", "ERROR_PROCESS"}
Status == {"RUNNING", "PAUSED", "STOPPED", "FINISHED"} \cup Errors

\* back: where the task goes on after the handler it is in; msg: what it is
\* about to report; kept: it was closed in the state PAUSED.
Element ==
  [state : States, task_run : BOOLEAN, is_running : BOOLEAN, is_open : BOOLEAN,
   stopping : BOOLEAN,
   bits : SUBSET {"STOPPED", "RESUMED", "PAUSED", "TASK_DESTROYED"},
   pc : {"none", "init", "cmd", "run", "open", "report", "process"},
   back : {"run", "cmd"}, msg : Status, kept : BOOLEAN]

NewElement ==
  [state |-> "INIT", task_run |-> FALSE, is_running |-> FALSE, is_open |-> FALSE,
   stopping |-> FALSE,   bits |-> {}, pc |-> "none", back |-> "cmd", msg |-> "STOPPED", kept |-> FALSE]

EmptyRb == [data |-> <<>>, done |-> FALSE, aborted |-> FALSE]

\* A pipeline that has been linked, with a listener if the application listens.
Init ==
  /\ client \in Clients
  /\ el = [e \in Els |-> NewElement]
  /\ internal_queue = [q \in Els \cup {Listener} |-> <<>>]
  /\ external_queue = [q \in Els \cup {Listener} |->
       IF "listen" \in client /\ q \in Els THEN Listener ELSE None]
  /\ rb = EmptyRb
  /\ pos = 0 /\ stream = 0 /\ heard = <<>>
  /\ latePause = FALSE /\ lateStop = FALSE /\ staleStop = FALSE /\ gaveUp = FALSE
  /\ pl = [state |-> "INIT", el_state |-> [e \in Els |-> "NONE"]]
  /\ call = "none" /\ i = 1 /\ apc = "start" /\ ret = "OK" /\ calls = 0 /\ since = "reset"

-----------------------------------------------------------------------------
(* The task of an element. *)

TaskInit(e) ==
  /\ el[e].pc = "init"
  /\ el' = [el EXCEPT ![e].state = "INIT", ![e].bits = @ \ {"STOPPED"}, ![e].pc = "cmd"]
  /\ UNCHANGED <<iface, rb, data, pl, app>>

\* Mutant: an element that is closed at its end keeps its position.
ClosedKeeping(x) == [x EXCEPT !.is_open = FALSE, !.kept = x.is_open]

\* audio_element_process_deinit
Closed(x) == [x EXCEPT !.is_open = FALSE, !.kept = IF x.is_open THEN x.state = "PAUSED" ELSE @]

\* The handlers up to their report.  x is the element.
Reporting(x, s, status) == [x EXCEPT !.state = s, !.msg = status, !.pc = "report"]

OnStop(x) ==
  IF x.state \notin {"FINISHED", "STOPPED"}
  THEN Reporting(Closed(x), "STOPPED", "STOPPED")
  ELSE IF ~x.is_running /\ x.state = "STOPPED"
  THEN [x EXCEPT !.stopping = FALSE, !.pc = x.back]
  ELSE [Reporting(x, "STOPPED", "STOPPED") EXCEPT !.is_running = FALSE, !.stopping = FALSE]

OnFinish(x) ==
  IF x.state \in {"ERROR", "STOPPED"} THEN [x EXCEPT !.pc = x.back]
  ELSE Reporting(Closed(x), "FINISHED", "FINISHED")

OnPause(x) == Closed(Reporting(x, "PAUSED", "PAUSED"))

OnResume(x) ==
  LET y == [x EXCEPT !.is_running = TRUE, !.bits = @ \cup {"RESUMED"}]
  IN  IF x.state = "RUNNING" THEN [y EXCEPT !.pc = x.back]
      ELSE [y EXCEPT !.is_open = TRUE, !.state = "INITIALIZING", !.pc = "open"]

\* audio_element_on_cmd_resume resets the output of an element that was not new.
RbAfterResume(e, x) ==
  IF e = Src /\ x.state \notin {"INIT", "RUNNING", "PAUSED"} THEN EmptyRb ELSE rb

\* AEL_MSG_CMD_DESTROY and the end of audio_element_task.
OnDestroy(x) ==
  [Closed(x) EXCEPT !.is_running = FALSE, !.stopping = FALSE, !.task_run = FALSE,
            !.pc = "none", !.state = IF x.is_open THEN "STOPPED" ELSE @,
            !.bits = @ \cup {"STOPPED", "RESUMED", "TASK_DESTROYED"}]

\* audio_event_iface_waiting_cmd_msg and audio_element_on_cmd
Receive(e) ==
  LET x == [el[e] EXCEPT !.back = "run"]
      cmd == Head(internal_queue[e])[2]
  IN  /\ el[e].pc = "cmd"
      /\ E!WaitingCmdMsg(e)
      /\ el' = [el EXCEPT ![e] = CASE cmd = "STOP"    -> OnStop(x)
                                   [] cmd = "PAUSE"   -> OnPause(x)
                                   [] cmd = "RESUME"  -> OnResume(x)
                                   [] cmd = "DESTROY" -> OnDestroy(x)]
      /\ rb' = IF cmd = "RESUME" THEN RbAfterResume(e, x) ELSE rb
      /\ latePause' = (latePause \/ (cmd = "PAUSE" /\ x.state \in Ended))
      /\ UNCHANGED <<pos, stream, heard, lateStop, staleStop, gaveUp, pl, app>>

\* audio_element_process_init: the open callback.
Open(e) ==
  /\ el[e].pc = "open"
  /\ \/ /\ el' = [el EXCEPT ![e] = [Reporting(@, "RUNNING", "RUNNING") EXCEPT !.kept = FALSE]]
        /\ pos'    = IF e = Src /\ ~el[e].kept THEN 0 ELSE pos
        /\ stream' = IF e = Src /\ ~el[e].kept THEN stream + 1 ELSE stream
        /\ heard'  = IF e = Snk /\ ~el[e].kept THEN <<>> ELSE heard
     \/ /\ "open" \in Faults
        /\ el' = [el EXCEPT ![e] = Reporting(@, "ERROR", "ERROR_OPEN")]
        /\ UNCHANGED <<pos, stream, heard>>
  /\ UNCHANGED <<iface, rb, latePause, lateStop, staleStop, gaveUp, pl, app>>

\* Mutant: on_cmd_finish does not set STOPPED_BIT.
ReportNoBit(e) ==
  LET x == el[e]
      y == [x EXCEPT !.pc = x.back]
  IN  /\ x.pc = "report"
      /\ E!SendOut(e, <<e, x.msg>>)
      /\ el' = [el EXCEPT ![e] = IF x.msg = "RUNNING" THEN [y EXCEPT !.bits = @ \ {"STOPPED"}]
                               ELSE [y EXCEPT !.is_running = FALSE]]
      /\ UNCHANGED <<rb, data, pl, app>>

\* The report, and what the handler does after it.
Report(e) ==
  LET x == el[e]
      y == [x EXCEPT !.pc = x.back]
      halted == [y EXCEPT !.is_running = FALSE, !.bits = @ \cup {"STOPPED"}]
  IN  /\ x.pc = "report"
      /\ E!SendOut(e, <<e, x.msg>>)
      /\ el' = [el EXCEPT ![e] =
           CASE x.msg = "RUNNING"  -> [y EXCEPT !.bits = @ \ {"STOPPED"}]
             [] x.msg = "STOPPED"  -> [halted EXCEPT !.stopping = FALSE]
             [] x.msg = "FINISHED" -> halted
             [] x.msg = "PAUSED"   -> [y EXCEPT !.is_running = FALSE, !.bits = @ \cup {"PAUSED"}]
             [] x.msg \in Errors   -> IF x.state = "STOPPED" THEN y
                                      ELSE [Closed(halted) EXCEPT !.state = "ERROR"]]
      /\ rb' = IF x.msg = "ERROR_OPEN" THEN [rb EXCEPT !.aborted = TRUE] ELSE rb
      /\ UNCHANGED <<data, pl, app>>

\* audio_element_process_running: its test, after a command or an empty queue.
Working(x) == x.is_running /\ x.state \notin {"INIT", "INITIALIZING"}
Enter(e) ==
  /\ \/ el[e].pc = "run"
     \/ el[e].pc = "cmd" /\ ~E!Available(e) /\ Working(el[e])
  /\ el' = [el EXCEPT ![e].pc = IF Working(el[e]) THEN "process" ELSE "cmd", ![e].back = "cmd"]
  /\ UNCHANGED <<iface, rb, data, pl, app>>

\* Mutant: the element finishes and does not tell its output ring buffer.
DoneSilently(e) ==
  IF el[e].state = "INIT"
  THEN el' = [el EXCEPT ![e] = OnResume(@)] /\ UNCHANGED rb
  ELSE el' = [el EXCEPT ![e] = OnFinish(@)] /\ UNCHANGED rb

\* What the return of the process callback leads to.
More(e)  == el' = [el EXCEPT ![e].pc = "cmd"]
Abort(e) == el' = [el EXCEPT ![e] = OnStop(@)] /\ UNCHANGED rb
Fail(e)  == el' = [el EXCEPT ![e].msg = "ERROR_PROCESS", ![e].pc = "report"] /\ UNCHANGED rb
Done(e)  ==
  IF el[e].state = "INIT"
  THEN el' = [el EXCEPT ![e] = OnResume(@)] /\ UNCHANGED rb
  ELSE /\ el' = [el EXCEPT ![e] = OnFinish(@)]
       /\ rb' = IF e = Src THEN [rb EXCEPT !.done = TRUE] ELSE rb

\* The source reads a block and writes it with rb_write.
Produce ==
  /\ el[Src].pc = "process"
  /\ \/ pos = Amount /\ Done(Src) /\ UNCHANGED pos
     \/ "process" \in Faults /\ Fail(Src) /\ UNCHANGED pos
     \/ /\ pos < Amount /\ Len(rb.data) < Capacity
        /\ rb' = [rb EXCEPT !.data = Append(@, <<stream, pos + 1>>)]
        /\ pos' = pos + 1
        /\ More(Src)
     \/ /\ pos < Amount /\ Len(rb.data) = Capacity
        /\ pos' = pos + 1
        /\ IF rb.done THEN Done(Src) ELSE rb.aborted /\ Abort(Src)
  /\ UNCHANGED <<iface, stream, heard, latePause, lateStop, staleStop, gaveUp, pl, app>>

\* The sink reads a block with rb_read and plays it.
Consume ==
  /\ el[Snk].pc = "process"
  /\ \/ "process" \in Faults /\ Fail(Snk) /\ UNCHANGED heard
     \/ /\ rb.data # <<>>
        /\ heard' = Append(heard, Head(rb.data))
        /\ rb' = [rb EXCEPT !.data = Tail(@)]
        /\ More(Snk)
     \/ /\ rb.data = <<>> /\ UNCHANGED heard
        /\ IF rb.done THEN Done(Snk) ELSE rb.aborted /\ Abort(Snk)
  /\ UNCHANGED <<iface, pos, stream, latePause, lateStop, staleStop, gaveUp, pl, app>>

TaskStep(e) == TaskInit(e) \/ Receive(e) \/ Open(e) \/ Report(e) \/ Enter(e)

-----------------------------------------------------------------------------
(* The application.  It is in call, at element i of the loop; ret is OK     *)
(* unless an element failed.                                                *)

\* A call begins.  run returns at once unless the pipeline is INIT, stop and
\* the waits unless it is RUNNING, remove_listener unless there is one,
\* listen unless there is a message.  The calls that change nothing when they
\* are repeated are not counted.
Allowed(c) ==
  CASE c = "run" -> pl.state = "INIT"
    [] c \in {"stop", "wait_for_stop", "wait_for_stop_with_ticks"} -> pl.state = "RUNNING"
    [] c = "remove_listener" -> external_queue[Src] # None
    [] c = "listen" -> E!Available(Listener)
    [] c = "reset_items_state" -> \E e \in Els : pl.el_state[e] # "NONE"
    [] OTHER -> TRUE

Uncounted == {"listen", "reset_items_state"}

Opening == Patient /\ \E e \in Els : el[e].state = "INITIALIZING"

\* No report of an earlier run is left in the queue or in the items.
Tidy == ~E!Available(Listener) /\ \A e \in Els : pl.el_state[e] = "NONE"

\* What the application knows not to do: it pauses what it has started, resumes
\* what it has paused, waits after a stop, resets the ring buffers (if Resets)
\* after the wait and tidies up before it starts again, and resets nothing that
\* may run.
\* It does not stop what it has paused: the elements would keep their positions.
\* If Patient, it pauses and stops only when the elements have reported RUNNING.
Sensible(c) ==
  CASE c \in {"run", "resume"} ->
         \/ since = "reset" /\ Tidy
         \/ since = "wait" /\ ~Resets
         \/ since = "pause" /\ c = "resume"
    [] c = "pause" -> since \in {"run", "resume"} /\ ~Opening
    [] c \in {"stop", "terminate", "wait_for_stop", "wait_for_stop_with_ticks"} ->
         since # "pause" /\ ~Opening
    [] c \in {"reset_ringbuffer", "reset_elements"} -> since = "wait"
    [] OTHER -> TRUE

Call(c) ==
  /\ call = "none" /\ (calls < MaxCalls \/ c \in Uncounted)
  /\ Allowed(c) /\ Sensible(c)
  /\ call' = IF c = "set_listener" /\ external_queue[Src] # None THEN "change_listener" ELSE c
  /\ i' = Src /\ apc' = "start" /\ ret' = "OK"
  /\ calls' = IF c \in Uncounted THEN calls ELSE calls + 1
  /\ since' = CASE c \in {"run", "resume", "pause", "stop", "terminate"} -> c
                [] c \in {"wait_for_stop", "wait_for_stop_with_ticks"} -> "wait"
                [] c = "reset_ringbuffer" -> "reset"
                [] OTHER -> since
  /\ UNCHANGED <<client, el, iface, rb, data, pl>>

At(cs) == call \in cs /\ apc = "start"

\* The loop has done element i, with result r; after the last element the call
\* sets the state of the pipeline and returns.  audio_pipeline_run goes on with
\* audio_pipeline_resume ("run_resume") and, if that fails, with terminate.
Step(r) ==
  /\ ret' = IF r = "OK" THEN ret ELSE r
  /\ apc' = "start"
  /\ IF i = Src THEN i' = Snk /\ UNCHANGED <<call, pl>>
     ELSE /\ i' = Src
          /\ call' = CASE call = "run" -> "run_resume"
                       [] call = "run_resume" /\ ret' # "OK" -> "terminate"
                       [] call = "change_listener" -> "set_listener"
                       [] OTHER -> "none"
          /\ pl' = [pl EXCEPT !.state =
               CASE call = "resume" -> "RUNNING"
                 [] call = "run_resume" -> IF ret' = "OK" THEN "RUNNING" ELSE "ERROR"
                 [] call \in {"wait_for_stop", "wait_for_stop_with_ticks"} -> "INIT"
                 [] OTHER -> @]
  /\ UNCHANGED <<client, calls, since>>

Await == apc' = "wait" /\ UNCHANGED <<client, call, i, ret, calls, since, pl>>

\* audio_element_run: the discard empties the listener's queue as well.
RunElement ==
  /\ At({"run"})
  /\ IF el[i].task_run \/ el[i].state \notin {"INIT", "STOPPED", "FINISHED", "ERROR"}
     THEN UNCHANGED <<el, iface>>
     ELSE \/ /\ E!Discard(i)
             /\ el' = [el EXCEPT ![i].task_run = TRUE, ![i].pc = "init"]
          \/ /\ "thread" \in Faults
             /\ internal_queue' = [E!Discarded(i) EXCEPT ![Listener] =
                  IF external_queue[i] = None THEN @ ELSE <<<<i, "ERROR_OPEN">>>>]
             /\ el' = [el EXCEPT ![i].state = "ERROR"]
             /\ UNCHANGED external_queue
  /\ Step("OK")
  /\ UNCHANGED <<rb, data>>

\* A command goes into the element's queue, or the call fails.
SendCmd(cmd, y) ==
  /\ E!Cmd(i, <<i, cmd>>)
  /\ el' = [el EXCEPT ![i] = y]
  /\ IF E!Room(i) THEN Await ELSE Step("FAIL")

ResumeElement ==
  /\ At({"resume", "run_resume"})
  /\ CASE ~el[i].task_run \/ el[i].state = "ERROR" -> Step("FAIL") /\ UNCHANGED <<el, iface>>
       [] el[i].task_run /\ el[i].state \in {"RUNNING", "FINISHED"} ->
            E!SendOut(i, <<i, el[i].state>>) /\ Step("OK") /\ UNCHANGED el
       [] OTHER -> SendCmd("RESUME", [el[i] EXCEPT !.bits = @ \ {"RESUMED"}])
  /\ UNCHANGED <<rb, data>>

\* audio_pipeline_pause takes no notice of what the elements answer.
PauseElement ==
  /\ At({"pause"})
  /\ CASE ~el[i].task_run -> Step("OK") /\ UNCHANGED <<el, iface, latePause>>
       [] el[i].task_run /\ el[i].state \in {"PAUSED"} \cup Ended ->
            /\ el' = [el EXCEPT ![i].state = "PAUSED"]
            /\ latePause' = (latePause \/ el[i].state \in Ended)
            /\ Step("OK") /\ UNCHANGED iface
       [] OTHER -> SendCmd("PAUSE", [el[i] EXCEPT !.bits = @ \ {"PAUSED"}]) /\ UNCHANGED latePause
  /\ UNCHANGED <<rb, pos, stream, heard, lateStop, staleStop, gaveUp>>

StopElement ==
  /\ At({"stop"})
  /\ CASE ~el[i].task_run -> UNCHANGED <<el, iface, rb>>
       [] el[i].task_run /\ ~el[i].is_running ->
            /\ el' = [el EXCEPT ![i].bits = @ \cup {"STOPPED"}]
            /\ E!SendOut(i, <<i, "STOPPED">>)
            /\ UNCHANGED rb
       [] OTHER ->
            /\ rb' = [rb EXCEPT !.aborted = TRUE]
            /\ el' = [el EXCEPT ![i].bits = IF el[i].state = "RUNNING" THEN @ \ {"STOPPED"} ELSE @,
                                ![i].stopping = @ \/ E!Room(i)]
            /\ IF el[i].stopping THEN UNCHANGED iface ELSE E!Cmd(i, <<i, "STOP">>)
  /\ Step("OK")
  /\ UNCHANGED data

\* audio_element_reset_state, once the wait is over.
Stopped ==
  /\ Step("OK")
  /\ el' = [el EXCEPT ![i].state = "INIT"]
  /\ lateStop' = (lateStop \/ E!Available(i) \/ el[i].pc = "report")
  /\ staleStop' = (staleStop \/ el[i].is_running)

\* audio_element_wait_for_stop_ms
WaitElement ==
  /\ At({"wait_for_stop", "wait_for_stop_with_ticks"})
  /\ IF el[i].is_running THEN Await /\ UNCHANGED <<el, lateStop, staleStop>> ELSE Stopped
  /\ UNCHANGED <<iface, rb, pos, stream, heard, latePause, gaveUp>>

TerminateElement ==
  /\ At({"terminate"})
  /\ IF ~el[i].task_run THEN Step("OK") /\ UNCHANGED <<el, iface>>
     ELSE SendCmd("DESTROY", [el[i] EXCEPT !.bits = @ \ {"TASK_DESTROYED"}])
  /\ gaveUp' = (gaveUp \/ (el[i].task_run /\ ~E!Room(i)))
  /\ UNCHANGED <<rb, pos, stream, heard, latePause, lateStop, staleStop>>

BitOf(c) ==
  CASE c \in {"resume", "run_resume"} -> "RESUMED"
    [] c = "pause" -> "PAUSED"
    [] c = "terminate" -> "TASK_DESTROYED"
    [] OTHER -> "STOPPED"

\* The end of xEventGroupWaitBits: the bit is there ...
Awaited ==
  /\ apc = "wait" /\ BitOf(call) \in el[i].bits
  /\ IF BitOf(call) = "STOPPED" THEN Stopped ELSE Step("OK") /\ UNCHANGED <<el, lateStop, staleStop>>
  /\ UNCHANGED <<iface, rb, pos, stream, heard, latePause, gaveUp>>

\* ... or the time is over, which is certain when the task is blocked in a ring
\* buffer.  audio_pipeline_wait_for_stop waits 18 hours.
Stuck(e) ==
  /\ el[e].pc = "process" /\ ~rb.done /\ ~rb.aborted
  /\ IF e = Src THEN pos < Amount /\ Len(rb.data) = Capacity ELSE rb.data = <<>>

Expired ==
  /\ apc = "wait" /\ call # "wait_for_stop" /\ BitOf(call) \notin el[i].bits
  /\ MayExpire \/ Stuck(i)
  /\ Step(IF call = "pause" THEN "OK" ELSE "FAIL")
  /\ latePause' = (latePause \/ call = "pause")
  /\ gaveUp' = (gaveUp \/ call = "terminate")
  /\ UNCHANGED <<el, iface, rb, pos, stream, heard, lateStop, staleStop>>

\* audio_pipeline_listen_more takes one message from the queue of the element's
\* listener.
ListenMoreElement ==
  /\ At({"listen_more"})
  /\ IF external_queue[i] # None /\ E!Available(external_queue[i])
     THEN E!Recv(external_queue[i]) ELSE UNCHANGED iface
  /\ Step("OK")
  /\ UNCHANGED <<el, rb, data>>

\* audio_pipeline_set_listener begins with audio_pipeline_remove_listener
\* ("change_listener") if there is one.
SetListenerElement ==
  /\ At({"set_listener"})
  /\ E!SetListener(i, Listener)
  /\ Step("OK")
  /\ UNCHANGED <<el, rb, data>>

RemoveListenerElement ==
  /\ At({"remove_listener", "change_listener"})
  /\ E!RemoveListener(Listener, i)
  /\ Step("OK")
  /\ UNCHANGED <<el, rb, data>>

\* The calls that are one step.
Return == call' = "none" /\ UNCHANGED <<client, i, apc, ret, calls, since>>

\* Mutant: rb_reset leaves is_done_write.
ResetRingbufferKeepsDone ==
  /\ At({"reset_ringbuffer"}) /\ Return
  /\ rb' = [EmptyRb EXCEPT !.done = rb.done]
  /\ UNCHANGED <<el, iface, data, pl>>

ResetRingbuffer ==
  /\ At({"reset_ringbuffer"}) /\ Return
  /\ rb' = EmptyRb
  /\ UNCHANGED <<el, iface, data, pl>>

ResetElements ==
  /\ At({"reset_elements"}) /\ Return
  /\ el' = [e \in Els |-> [el[e] EXCEPT !.state = "INIT"]]
  /\ UNCHANGED <<iface, rb, data, pl>>

ResetItemsState ==
  /\ At({"reset_items_state"}) /\ Return
  /\ pl' = [pl EXCEPT !.el_state = [e \in Els |-> "NONE"]]
  /\ UNCHANGED <<el, iface, rb, data>>

\* audio_pipeline_check_items_state.  The state of an element that is at rest
\* replaces what it reported.
Rewritten(e, s) ==
  CASE el[e].state \in {"STOPPED", "FINISHED"} -> el[e].state
    [] el[e].state = "ERROR" -> "ERROR_PROCESS"
    [] OTHER -> s

\* Mutant: an element that has reported anything counts.
CountsAsAny(s, status) == s # "NONE"

CountsAs(s, status) ==
  \/ s = status
  \/ status \in {"RUNNING", "PAUSED", "STOPPED"} /\ s \in {"FINISHED"} \cup Errors
  \/ status = "FINISHED" /\ s \in {"STOPPED"} \cup Errors

\* The application listens, and checks what the message says.
Listen ==
  LET msg == Head(internal_queue[Listener])
      items == [e \in Els |-> Rewritten(e, IF e = msg[1] THEN msg[2] ELSE pl.el_state[e])]
  IN  /\ At({"listen"})
      /\ E!Listen(Listener)
      /\ pl' = [pl EXCEPT !.el_state = items]
      /\ ret' = IF \A e \in Els : CountsAs(items[e], msg[2]) THEN "OK" ELSE "FAIL"
      /\ call' = "none"
      /\ UNCHANGED <<client, i, apc, calls, since, el, rb, data>>

AppStep ==
  \/ RunElement \/ ResumeElement \/ PauseElement \/ StopElement \/ WaitElement
  \/ TerminateElement \/ Awaited \/ Expired \/ ListenMoreElement
  \/ SetListenerElement \/ RemoveListenerElement
  \/ ResetRingbuffer \/ ResetElements \/ ResetItemsState \/ Listen

Next ==
  \/ \E e \in Els : TaskStep(e)
  \/ Produce \/ Consume
  \/ \E c \in client : Call(c)
  \/ AppStep

Spec == Init /\ [][Next]_vars

\* The scheduler runs every thread; the application may stop calling.
Fairness ==
  /\ WF_vars(TaskStep(Src) \/ Produce)
  /\ WF_vars(TaskStep(Snk) \/ Consume)
  /\ WF_vars(AppStep)

FairSpec == Spec /\ Fairness

-----------------------------------------------------------------------------
\* The variables keep their types.
TypeOK ==
  /\ el \in [Els -> Element]
  /\ E!TypeOK(Els \X ({"STOP", "PAUSE", "RESUME", "DESTROY"} \cup Status))
  /\ rb.data \in Seq(Nat \X (1..Amount)) /\ Len(rb.data) <= Capacity
  /\ rb.done \in BOOLEAN /\ rb.aborted \in BOOLEAN
  /\ pos \in 0..Amount /\ stream \in Nat
  /\ pl.state \in {"INIT", "RUNNING", "ERROR"}
  /\ ret \in {"OK", "FAIL"}

\* What the sink plays is one stream, from its beginning, in order and without a
\* gap, although a paused element is closed and opened again, a stopped one
\* leaves blocks in the ring buffer (audio_element_on_cmd_resume resets it only
\* in some states) and a restart meets a buffer that was aborted.  The races of
\* audio_element_pause with the end of the stream are excepted (latePause).
PlaysOneStream ==
  ~latePause => \A n \in DOMAIN heard : heard[n] = <<heard[1][1], n>>

\* A sink in the state FINISHED has played its stream to the end: neither an
\* abort by audio_pipeline_stop nor rb_done_write of an earlier run makes
\* audio_element_on_cmd_finish come too early.
FinishedIsComplete ==
  ~latePause /\ el[Snk].state = "FINISHED" => Len(heard) = Amount

\* When audio_pipeline_check_items_state answers that all elements have
\* finished, none of them is at work, although the message it is given and the
\* el_state it kept are older than the states it reads.
\* Except when a wait_for_stop was over with a STOP still to be carried out
\* (lateStop), whose report then belongs to the next run, and after latePause.
FinishedIsTrue ==
  [][Listen /\ ~latePause /\ ~lateStop /\ ret' = "OK"
       /\ Head(internal_queue[Listener])[2] = "FINISHED"
     => \A e \in Els : ~Working(el[e]) \/ el[e].state \in Ended]_vars

\* The application went on with an element that had not done as it was told: a
\* pause that was given up or met the end of the stream (audio_element.c:1168,
\* audio_pipeline.c:334), a wait_for_stop that was over by the STOPPED_BIT of an
\* earlier run (cleared only in audio_element.c:284) or with the STOP still to be
\* carried out, a terminate that failed on an element blocked in the ring buffer
\* or with a full queue.
WentOn == latePause \/ lateStop \/ staleStop \/ gaveUp

\* Every control function of audio_pipeline.c returns, although its commands and
\* the elements' reports may find full queues and be lost; unless the application
\* WentOn, and then it may wait for an element that nobody will stop.  For queues
\* that do not block (Blocking = {}).
CallsReturn == (call # "none") ~> (call = "none" \/ WentOn)

\* An element that has been started comes to its end unless it is paused or the
\* application WentOn: no element waits for ever in a ring buffer whose other
\* side has left.
PlaysOut ==
  \A e \in Els : el[e].is_running ~> (~el[e].is_running \/ since = "pause" \/ WentOn)
=============================================================================
