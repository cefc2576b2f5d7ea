---------------------------- MODULE AudioElement ----------------------------
(***************************************************************************)
(* One audio element with a task of its own (audio_pipeline/               *)
(* audio_element.c) and the application thread that controls it.           *)
(*                                                                         *)
(* The task polls a command queue, runs the handler of a command or the    *)
(* process callback, and answers on the bits of an event group (module     *)
(* EventGroup).  The application sends commands and waits for bits, but it *)
(* also reads and writes the fields of the element, without a lock; so     *)
(* every store of a handler is a step.  todo[k] is the rest of the handler *)
(* that task k is in: a sequence of stores and calls.                      *)
(*                                                                         *)
(* Variables keep the names of the fields of struct audio_element.         *)
(* The element has an open callback, as every element of the library, no   *)
(* listener and no multiple inputs or outputs.  The ring buffers are seen  *)
(* only through what the element does to them: rb_abort, rb_done_write,    *)
(* rb_reset.                                                               *)
(***************************************************************************)
EXTENDS Integers, Sequences, FiniteSets

CONSTANTS
  QLen,        (* internal_queue_size of an element (5)                     *)
  MaxTasks,    (* bound: tasks created one after the other                  *)
  MaxCalls,    (* bound: calls of the application                           *)
  Calls,       (* the API functions it calls                                *)
  MayExpire,   (* may the waits of the API (2 s and more) expire?           *)
  MayFail      (* may the allocation of the element's buffer fail?          *)

Tasks == 1..MaxTasks

ApiCalls == {"run", "resume", "pause", "stop", "wait_for_stop",
             "wait_for_stop_ms", "terminate", "reset_state", "reset_rings",
             "deinit"}

ASSUME AudioElementAssumption ==
  /\ QLen \in Nat \ {0}
  /\ MaxTasks \in Nat \ {0}
  /\ MaxCalls \in Nat
  /\ Calls \subseteq ApiCalls
  /\ MayExpire \in BOOLEAN
  /\ MayFail \in BOOLEAN

VARIABLES
  state, is_open, is_running, task_run, stopping,
  audio_thread,           (* the task created last (0: none)                *)
  bits, phase, wanted, clearing, granted,     (* state_event                *)
  cmdq,                   (* the internal queue of iface_event              *)
  aborted,                (* which of its ring buffers are aborted          *)
  out_done,               (* rb_done_write was called on the output         *)
  at, todo,               (* where each task is                             *)
  cancelled,              (* tasks with a pthread_cancel from another one   *)
  job, apc, last, result, (* the call the application is in, and the last   *)
                          (* one that returned                              *)
  calls,
  freed                   (* audio_element_deinit has freed the element     *)

fields == <<state, is_open, is_running, task_run, stopping, audio_thread>>
group  == <<bits, phase, wanted, clearing, granted>>
rings  == <<aborted, out_done>>
task   == <<at, todo, cancelled>>
app    == <<job, apc, last, result, calls, freed>>
vars   == <<fields, group, cmdq, rings, task, app>>

States == {"INIT", "INITIALIZING", "RUNNING", "PAUSED", "STOPPED",
           "FINISHED", "ERROR"}
EventBits == {"STOPPED", "STARTED", "TASK_CREATED", "TASK_DESTROYED",
              "PAUSED", "RESUMED"}
Commands == {"RESUME", "PAUSE", "STOP", "DESTROY"}

Event == INSTANCE EventGroup WITH
  Threads <- {"app"}, Bits <- EventBits, Shared <- FALSE

-----------------------------------------------------------------------------
(* The handlers, as sequences of steps. *)

To(s)  == <<"to", s>>         \* el->state = s
Set(b) == <<"set", b>>        \* xEventGroupSetBits
Clr(b) == <<"clear", b>>      \* xEventGroupClearBits
Do(x)  == <<"do", x>>

\* (mutant: a STOP that finds the element stopped does not take the mark of
\* the pending command off)
OnStopForgets ==
  IF state \notin {"FINISHED", "STOPPED"}
  THEN <<Do("close"), To("STOPPED"), Do("halt"), Do("unstop"),
         Set("STOPPED")>>
  ELSE IF ~is_running /\ state = "STOPPED"
  THEN <<>>
  ELSE <<To("STOPPED"), Do("halt"), Do("unstop"), Set("STOPPED")>>

\* audio_element_on_cmd_stop
OnStop ==
  IF state \notin {"FINISHED", "STOPPED"}
  THEN <<Do("close"), To("STOPPED"), Do("halt"), Do("unstop"),
         Set("STOPPED")>>
  ELSE IF ~is_running /\ state = "STOPPED"
  THEN <<Do("unstop")>>
  ELSE <<To("STOPPED"), Do("halt"), Do("unstop"), Set("STOPPED")>>

\* audio_element_on_cmd_error
OnError ==
  IF state = "STOPPED" THEN <<>>
  ELSE <<Do("close"), To("ERROR"), Do("halt"), Set("STOPPED")>>

\* (mutant: is_running survives the end of the stream)
OnFinishRunning ==
  IF state \in {"ERROR", "STOPPED"} THEN <<>>
  ELSE <<Do("close"), To("FINISHED"), Set("STOPPED")>>

\* audio_element_on_cmd_finish
OnFinish ==
  IF state \in {"ERROR", "STOPPED"} THEN <<>>
  ELSE <<Do("close"), To("FINISHED"), Do("halt"), Set("STOPPED")>>

\* (mutants: the output keeps the end of the last stream; a running element
\* does not answer)
OnResumeKeepsEnd(open) ==
  IF state = "RUNNING" THEN <<Do("go"), Set("RESUMED")>>
  ELSE <<Do("go"), Set("RESUMED"), To("INITIALIZING"), Do(open)>>

OnResumeSilent(open) ==
  IF state = "RUNNING" THEN <<Do("go")>>
  ELSE (IF state \in {"INIT", "PAUSED"} THEN <<>> ELSE <<Do("reset_out")>>)
       \o <<Do("go"), Set("RESUMED"), To("INITIALIZING"), Do(open)>>

\* audio_element_on_cmd_resume up to the open callback, which the command
\* handler ("open") and the process loop ("reopen") await.
OnResume(open) ==
  IF state = "RUNNING" THEN <<Do("go"), Set("RESUMED")>>
  ELSE (IF state \in {"INIT", "PAUSED"} THEN <<>> ELSE <<Do("reset_out")>>)
       \o <<Do("go"), Set("RESUMED"), To("INITIALIZING"), Do(open)>>

\* What follows the open callback.  A command handler that fails makes the
\* task set STOPPED_BIT.
Opened(open, outcome) ==
  LET failed == <<Do("abort"), Do("halt")>> \o
                (IF open = "open" THEN <<Set("STOPPED")>> ELSE <<>>)
  IN  CASE outcome = "OK"    -> <<To("RUNNING"), Set("STARTED"),
                                  Clr("STOPPED")>>
        [] outcome = "DONE"  -> <<To("RUNNING"), Clr("STOPPED")>>
        [] outcome = "ABORT" -> <<Do("on_stop")>> \o failed
        [] outcome = "FAIL"  -> <<To("ERROR"), Do("on_error")>> \o failed

OnPause == <<To("PAUSED"), Do("close"), Do("halt"), Set("PAUSED")>>

\* (mutant: the end of the task is announced before the fields are written)
TaskExitEarly == <<Do("exit_close"), Set("TASK_DESTROYED"), Do("unstop"),
                   Do("task_end"), Set("STOPPED"), Set("RESUMED"),
                   Do("cancel")>>

\* audio_element_task: its first steps, and its last ones.
TaskStart == <<Do("task_run"), Set("TASK_CREATED"), To("INIT"), Do("alloc"),
               Clr("STOPPED")>>
TaskExit  == <<Do("exit_close"), Do("unstop"), Do("task_end"),
               Set("STOPPED"), Set("RESUMED"), Set("TASK_DESTROYED"),
               Do("cancel")>>

\* audio_element_on_cmd, and the break of the loop after DESTROY.
OnCmd(cmd) ==
  CASE cmd = "STOP"    -> OnStop
    [] cmd = "PAUSE"   -> OnPause
    [] cmd = "RESUME"  -> OnResume("open")
    [] cmd = "DESTROY" -> <<Do("halt"), Set("STOPPED")>> \o TaskExit

-----------------------------------------------------------------------------
(* The steps of a task. *)

Ready(k, op) == ~freed /\ todo[k] # <<>> /\ Head(todo[k])[1] = op
Arg(k)  == Head(todo[k])[2]
Rest(k) == todo' = [todo EXCEPT ![k] = Tail(@)]

TaskTo(k) ==
  /\ Ready(k, "to")
  /\ state' = Arg(k)
  /\ Rest(k)
  /\ UNCHANGED <<is_open, is_running, task_run, stopping, audio_thread,
                 group, cmdq, rings, at, cancelled, app>>

TaskSet(k) ==
  /\ Ready(k, "set")
  /\ Event!SetBits({Arg(k)})
  /\ Rest(k)
  /\ UNCHANGED <<fields, cmdq, rings, at, cancelled, app>>

TaskClear(k) ==
  /\ Ready(k, "clear")
  /\ Event!ClearBits({Arg(k)})
  /\ Rest(k)
  /\ UNCHANGED <<fields, cmdq, rings, at, cancelled, app>>

\* A store to one of the other fields.
TaskField(k) ==
  /\ Ready(k, "do")
  /\ Arg(k) \in {"go", "halt", "unstop", "task_run", "task_end"}
  /\ is_running' = CASE Arg(k) = "go" -> TRUE [] Arg(k) = "halt" -> FALSE
                     [] OTHER -> is_running
  /\ stopping' = (stopping /\ Arg(k) # "unstop")
  /\ task_run' = CASE Arg(k) = "task_run" -> TRUE
                   [] Arg(k) = "task_end" -> FALSE
                   [] OTHER -> task_run
  /\ Rest(k)
  /\ UNCHANGED <<state, is_open, audio_thread, group, cmdq, rings, at,
                 cancelled, app>>

\* The allocation of the element's buffer.  The creation of the task has been
\* announced; when it fails, the task does not enter its loop and goes on with
\* its end, task_run being FALSE already.
TaskAlloc(k, ok) ==
  /\ Ready(k, "do")
  /\ Arg(k) = "alloc"
  /\ ok \/ MayFail
  /\ task_run' = (task_run /\ ok)
  /\ Rest(k)
  /\ UNCHANGED <<state, is_open, is_running, stopping, audio_thread, group,
                 cmdq, rings, at, cancelled, app>>

\* audio_element_process_deinit, and the close at the end of the task.
TaskClose(k) ==
  /\ Ready(k, "do")
  /\ Arg(k) \in {"close", "exit_close"}
  /\ is_open' = FALSE
  /\ state' = IF Arg(k) = "exit_close" /\ is_open THEN "STOPPED" ELSE state
  /\ Rest(k)
  /\ UNCHANGED <<is_running, task_run, stopping, audio_thread, group, cmdq,
                 rings, at, cancelled, app>>

\* rb_abort of both ring buffers, rb_reset of the output.
TaskRings(k) ==
  /\ Ready(k, "do")
  /\ \/ Arg(k) = "abort" /\ aborted' = {"in", "out"} /\ UNCHANGED out_done
     \/ Arg(k) = "reset_out" /\ aborted' = aborted \ {"out"} /\ out_done' = FALSE
     \/ Arg(k) = "done_out" /\ out_done' = TRUE /\ UNCHANGED aborted
  /\ Rest(k)
  /\ UNCHANGED <<fields, group, cmdq, at, cancelled, app>>

\* The open callback returns.
TaskOpen(k, outcome) ==
  /\ Ready(k, "do")
  /\ Arg(k) \in {"open", "reopen"}
  /\ is_open' = TRUE
  /\ todo' = [todo EXCEPT ![k] = Opened(Arg(k), outcome) \o Tail(@)]
  /\ UNCHANGED <<state, is_running, task_run, stopping, audio_thread, group,
                 cmdq, rings, at, cancelled, app>>

\* A handler called from another one looks at the state now.
TaskEnter(k) ==
  /\ Ready(k, "do")
  /\ \/ Arg(k) = "on_stop"  /\ todo' = [todo EXCEPT ![k] = OnStop \o Tail(@)]
     \/ Arg(k) = "on_error" /\ todo' = [todo EXCEPT ![k] = OnError \o Tail(@)]
     \/ Arg(k) = "on_finish" /\ todo' = [todo EXCEPT ![k] = OnFinish \o Tail(@)]
  /\ UNCHANGED <<fields, group, cmdq, rings, at, cancelled, app>>

\* audio_thread_delete_task: pthread_cancel(el->audio_thread), whatever
\* thread that is by now; the caller then returns from its main function.
\* That ends it too, so a cancellation of itself is not recorded.
TaskCancel(k) ==
  /\ Ready(k, "do")
  /\ Arg(k) = "cancel"
  /\ cancelled' = cancelled \cup ({audio_thread} \ {k})
  /\ at' = [at EXCEPT ![k] = "gone"]
  /\ Rest(k)
  /\ UNCHANGED <<fields, group, cmdq, rings, app>>

Idle(k, where) == ~freed /\ todo[k] = <<>> /\ at[k] = where

\* A pending pthread_cancel acts where the task waits: in mq_receive, and in
\* sem_timedwait under the process callback.
TaskCancelled(k) ==
  /\ k \in cancelled
  /\ Idle(k, "cmd") \/ Idle(k, "process")
  /\ at' = [at EXCEPT ![k] = "gone"]
  /\ UNCHANGED <<fields, group, cmdq, rings, todo, cancelled, app>>

\* The head of the loop: one command, if there is one, is received and
\* handled.
TaskReceive(k) ==
  /\ Idle(k, "cmd") /\ k \notin cancelled
  /\ IF ~task_run
     THEN todo' = [todo EXCEPT ![k] = TaskExit] /\ UNCHANGED <<cmdq, at>>
     ELSE /\ at' = [at EXCEPT ![k] = "run"]
          /\ IF cmdq = <<>> THEN UNCHANGED <<cmdq, todo>>
             ELSE /\ todo' = [todo EXCEPT ![k] = OnCmd(Head(cmdq))]
                  /\ cmdq' = Tail(cmdq)
  /\ UNCHANGED <<fields, group, rings, cancelled, app>>

\* audio_element_process_running: its test ...
TaskRun(k) ==
  /\ Idle(k, "run")
  /\ at' = [at EXCEPT ![k] =
              IF state \in {"INIT", "INITIALIZING"} \/ ~is_running
              THEN "cmd" ELSE "process"]
  /\ UNCHANGED <<fields, group, cmdq, rings, todo, cancelled, app>>

\* ... and the return of the process callback (which is not ABORT unless a
\* ring buffer is aborted; "more" is a length or AEL_IO_TIMEOUT).
TaskProcess(k, outcome) ==
  /\ Idle(k, "process")
  /\ outcome = "ABORT" => aborted # {}
  /\ at' = [at EXCEPT ![k] = "cmd"]
  /\ todo' = [todo EXCEPT ![k] =
       CASE outcome = "more"  -> <<>>
         [] outcome = "ABORT" -> OnStop
         [] outcome = "FAIL"  -> OnError
         [] outcome = "DONE"  ->
              IF state = "INIT" THEN OnResume("reopen")
                                ELSE <<Do("done_out"), Do("on_finish")>>]
  /\ UNCHANGED <<fields, group, cmdq, rings, cancelled, app>>

TaskStep(k) ==
  \/ TaskTo(k) \/ TaskSet(k) \/ TaskClear(k) \/ TaskField(k) \/ TaskClose(k)
  \/ TaskRings(k) \/ TaskEnter(k) \/ TaskCancel(k)
  \/ TaskCancelled(k) \/ TaskReceive(k) \/ TaskRun(k)
  \/ \E ok \in BOOLEAN : TaskAlloc(k, ok)
  \/ \E outcome \in {"OK", "DONE", "ABORT", "FAIL"} : TaskOpen(k, outcome)
  \/ \E outcome \in {"more", "DONE", "ABORT", "FAIL"} : TaskProcess(k, outcome)

-----------------------------------------------------------------------------
(* The application thread. *)

Now(c)    == ~freed /\ job # <<>> /\ Head(job) = c
Start(c)  == Now(c) /\ apc = "start"
Go(next)  == apc' = next /\ UNCHANGED <<job, last, result, calls, freed>>
Return(r) ==
  /\ job' = Tail(job)
  /\ apc' = "start"
  /\ last' = Head(job)
  /\ result' = r
  /\ UNCHANGED <<calls, freed>>

\* Which bit a call waits for, and which command it sends.
BitOf(c) ==
  CASE c = "run" -> "TASK_CREATED" [] c = "resume" -> "RESUMED"
    [] c = "pause" -> "PAUSED"     [] c = "terminate" -> "TASK_DESTROYED"
    [] OTHER -> "STOPPED"
CmdOf == [resume |-> "RESUME", pause |-> "PAUSE", stop |-> "STOP",
          terminate |-> "DESTROY"]

\* audio_element_deinit makes three calls of its own.
Call(c) ==
  /\ ~freed
  /\ job = <<>>
  /\ calls < MaxCalls
  /\ c = "run" => audio_thread < MaxTasks
  /\ job' = IF c = "deinit"
            THEN <<"stop", "wait_for_stop", "terminate", "free">>
            ELSE <<c>>
  /\ calls' = calls + 1
  /\ UNCHANGED <<fields, group, cmdq, rings, task, apc, last, result, freed>>

\* (mutant: run does not look whether there is a task)
RunStartBlind ==
  /\ Start("run")
  /\ Go("clear") /\ cmdq' = <<>>
  /\ UNCHANGED <<fields, group, rings, task>>

\* audio_element_run: the queue is discarded unless there is a task already.
RunStart ==
  /\ Start("run")
  /\ IF task_run THEN Return("OK") /\ UNCHANGED cmdq
                 ELSE Go("clear") /\ cmdq' = <<>>
  /\ UNCHANGED <<fields, group, rings, task>>

RunCreate ==
  /\ Now("run") /\ apc = "create"
  /\ audio_thread' = audio_thread + 1
  /\ at' = [at EXCEPT ![audio_thread'] = "cmd"]
  /\ todo' = [todo EXCEPT ![audio_thread'] = TaskStart]
  /\ Go("wait")
  /\ UNCHANGED <<state, is_open, is_running, task_run, stopping, group, cmdq,
                 rings, cancelled>>

ResumeStart ==
  /\ Start("resume")
  /\ IF ~task_run \/ state = "ERROR" THEN Return("FAIL")
     ELSE IF state \in {"RUNNING", "FINISHED"} THEN Return("OK")
     ELSE Go("clear")
  /\ UNCHANGED <<fields, group, cmdq, rings, task>>

PauseStart ==
  /\ Start("pause")
  /\ IF ~task_run THEN Return("FAIL")
     ELSE IF state \in {"PAUSED", "STOPPED", "FINISHED", "ERROR"}
     THEN Go("force") ELSE Go("clear")
  /\ UNCHANGED <<fields, group, cmdq, rings, task>>

\* "Element already paused": the state is overwritten, no command is sent.
PauseForce ==
  /\ Now("pause") /\ apc = "force"
  /\ state' = "PAUSED"
  /\ Return("OK")
  /\ UNCHANGED <<is_open, is_running, task_run, stopping, audio_thread,
                 group, cmdq, rings, task>>

StopStart ==
  /\ Start("stop")
  /\ IF ~task_run THEN Return("FAIL")
     ELSE Go(IF is_running THEN "abort" ELSE "mark")
  /\ UNCHANGED <<fields, group, cmdq, rings, task>>

\* "Element already stopped".
StopMark ==
  /\ Now("stop") /\ apc = "mark"
  /\ Event!SetBits({"STOPPED"})
  /\ Return("OK")
  /\ UNCHANGED <<fields, cmdq, rings, task>>

StopAbort ==
  /\ Now("stop") /\ apc = "abort"
  /\ aborted' = {"in", "out"}
  /\ Go("look")
  /\ UNCHANGED <<fields, group, cmdq, out_done, task>>

\* STOPPED_BIT is cleared only if the element is RUNNING.
StopLook ==
  /\ Now("stop") /\ apc = "look"
  /\ Go(IF state = "RUNNING" THEN "clear" ELSE "flag")
  /\ UNCHANGED <<fields, group, cmdq, rings, task>>

StopFlag ==
  /\ Now("stop") /\ apc = "flag"
  /\ stopping' = TRUE
  /\ IF stopping THEN Return("OK") ELSE Go("send")
  /\ UNCHANGED <<state, is_open, is_running, task_run, audio_thread, group,
                 cmdq, rings, task>>

\* audio_element_wait_for_stop and audio_element_wait_for_stop_ms.
WaitStart ==
  /\ Start("wait_for_stop") \/ Start("wait_for_stop_ms")
  /\ IF is_running THEN Go("wait")
     ELSE Return(IF Now("wait_for_stop") THEN "FAIL" ELSE "OK")
  /\ UNCHANGED <<fields, group, cmdq, rings, task>>

TerminateStart ==
  /\ Start("terminate")
  /\ IF task_run THEN Go("clear") ELSE Return("OK")
  /\ UNCHANGED <<fields, group, cmdq, rings, task>>

\* The bit that the call waits for is cleared first ...
ClearBit ==
  /\ job # <<>> /\ apc = "clear"
  /\ Event!ClearBits({BitOf(Head(job))})
  /\ Go(CASE Now("run") -> "create" [] Now("stop") -> "flag"
          [] OTHER -> "send")
  /\ UNCHANGED <<fields, cmdq, rings, task>>

\* ... then the command goes into the queue, if there is room ...
Send ==
  /\ job # <<>> /\ apc = "send"
  /\ IF Len(cmdq) < QLen
     THEN /\ cmdq' = Append(cmdq, CmdOf[Head(job)])
          /\ IF Now("stop") THEN Return("OK") ELSE Go("wait")
          /\ UNCHANGED stopping
     ELSE /\ stopping' = (stopping /\ ~Now("stop"))
          /\ Return("FAIL")
          /\ UNCHANGED cmdq
  /\ UNCHANGED <<state, is_open, is_running, task_run, audio_thread, group,
                 rings, task>>

\* ... and the call waits for the bit.
Wait ==
  /\ job # <<>> /\ apc = "wait"
  /\ Event!WaitBits("app", BitOf(Head(job)), FALSE)
  /\ Go("waiting")
  /\ UNCHANGED <<fields, cmdq, rings, task>>

GroupStep ==
  /\ Event!Expire("app") \/ Event!WaitReturn("app")
  /\ UNCHANGED <<fields, cmdq, rings, task, app>>

\* audio_element_run returns ESP_OK even without the bit.
WaitEnd ==
  /\ job # <<>> /\ apc = "waiting" /\ phase["app"] = "out"
  /\ Return(IF granted["app"] \/ Now("run") THEN "OK"
            ELSE IF Head(job) \in {"wait_for_stop", "wait_for_stop_ms"}
            THEN "TIMEOUT" ELSE "FAIL")
  /\ UNCHANGED <<fields, group, cmdq, rings, task>>

\* audio_element_reset_state
ResetState ==
  /\ Start("reset_state")
  /\ state' = "INIT"
  /\ Return("OK")
  /\ UNCHANGED <<is_open, is_running, task_run, stopping, audio_thread,
                 group, cmdq, rings, task>>

\* audio_element_reset_input_ringbuf, audio_element_reset_output_ringbuf
ResetRings ==
  /\ Start("reset_rings")
  /\ aborted' = {}
  /\ out_done' = FALSE
  /\ Return("OK")
  /\ UNCHANGED <<fields, group, cmdq, task>>

\* The rest of audio_element_deinit.
Free ==
  /\ Start("free")
  /\ freed' = TRUE
  /\ job' = <<>>
  /\ last' = "deinit"
  /\ result' = "OK"
  /\ UNCHANGED <<fields, group, cmdq, rings, task, apc, calls>>

AppStep ==
  \/ RunStart \/ RunCreate \/ ResumeStart \/ PauseStart \/ PauseForce
  \/ StopStart \/ StopMark \/ StopAbort \/ StopLook \/ StopFlag
  \/ WaitStart \/ TerminateStart \/ ClearBit \/ Send \/ Wait \/ GroupStep
  \/ WaitEnd \/ ResetState \/ ResetRings \/ Free

-----------------------------------------------------------------------------
\* audio_element_init
Init ==
  /\ state = "INIT"
  /\ is_open = FALSE /\ is_running = FALSE /\ task_run = FALSE
  /\ stopping = FALSE
  /\ audio_thread = 0
  /\ bits = {} /\ phase = [t \in {"app"} |-> "out"]
  /\ wanted = [t \in {"app"} |-> "STOPPED"]
  /\ clearing = [t \in {"app"} |-> FALSE]
  /\ granted = [t \in {"app"} |-> FALSE]
  /\ cmdq = <<>>
  /\ aborted = {} /\ out_done = FALSE
  /\ at = [k \in Tasks |-> "none"] /\ todo = [k \in Tasks |-> <<>>]
  /\ cancelled = {}
  /\ job = <<>> /\ apc = "start" /\ last = "none" /\ result = "none"
  /\ calls = 0 /\ freed = FALSE

Next ==
  \/ \E k \in Tasks : TaskStep(k)
  \/ \E c \in Calls : Call(c)
  \/ AppStep

Spec == Init /\ [][Next]_vars

-----------------------------------------------------------------------------
(* Safety. *)

Live(k)   == at[k] \notin {"none", "gone"}
\* op is among the steps task k has still to do.
Ahead(k, op) == \E i \in DOMAIN todo[k] : todo[k][i] = op
\* Task k has given up the element: it only announces its end.
Leaving(k) == at[k] = "gone" \/ (Ahead(k, Do("cancel")) /\ ~Ahead(k, Do("task_end")))

\* The steps that handlers are made of.
Steps ==
  {To(s) : s \in States} \cup {Set(b) : b \in EventBits} \cup
  {Clr(b) : b \in EventBits} \cup
  {Do(x) : x \in {"open", "reopen", "close", "exit_close", "go", "halt",
                  "unstop", "task_run", "alloc", "task_end", "cancel", "abort",
                  "reset_out", "done_out", "on_stop", "on_error",
                  "on_finish"}}

\* The variables keep their types.
TypeOK ==
  /\ state \in States
  /\ is_open \in BOOLEAN /\ is_running \in BOOLEAN /\ task_run \in BOOLEAN
  /\ stopping \in BOOLEAN /\ out_done \in BOOLEAN /\ freed \in BOOLEAN
  /\ audio_thread \in 0..MaxTasks
  /\ Event!TypeOK
  /\ cmdq \in Seq(Commands) /\ Len(cmdq) <= QLen
  /\ aborted \subseteq {"in", "out"}
  /\ at \in [Tasks -> {"none", "cmd", "run", "process", "gone"}]
  /\ todo \in [Tasks -> Seq(Steps)]
  /\ cancelled \subseteq Tasks
  /\ apc \in {"start", "clear", "create", "send", "wait", "waiting",
              "force", "mark", "abort", "look", "flag"}
  /\ result \in {"none", "OK", "FAIL", "TIMEOUT"}
  /\ calls \in 0..MaxCalls
=============================================================================
