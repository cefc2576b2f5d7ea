------------------------- MODULE AudioElementProofs -------------------------
(***************************************************************************)
(* Proofs about an audio element and the application that controls it      *)
(* (audio_pipeline/audio_element.c): only one task works on an element     *)
(* (OneOwner), no stop is swallowed (StopIsServed), the element is freed   *)
(* when its task has left it, and its fields agree between two handlers    *)
(* (QuietIsConsistent, WritesLiveStream).                                  *)
(*                                                                         *)
(* All of them rest on one handshake.  audio_element_run and               *)
(* audio_element_terminate clear a bit, make the task begin or end, and    *)
(* wait; the fields task_run and stopping are safe without a lock only     *)
(* because the application stays in its call until the task has set the    *)
(* bit, at a definite place of its first and last steps.                   *)
(***************************************************************************)
EXTENDS MCAudioElement, SequenceTheorems, TLAPS

-----------------------------------------------------------------------------
(* Where a task is. *)

\* The steps of the loop: none of the first two and of the last steps of a
\* task.
Plain ==
  {To(s) : s \in States} \cup
  {Set(b) : b \in {"STOPPED", "STARTED", "PAUSED", "RESUMED"}} \cup
  {Clr("STOPPED")} \cup
  {Do(x) : x \in {"close", "halt", "go", "unstop", "open", "reopen", "abort",
                  "reset_out", "done_out", "on_stop", "on_error",
                  "on_finish", "alloc"}}

\* What a task still does from the DESTROY command on, step by step.
Farewell ==
  <<Do("halt"), Set("STOPPED"), Do("exit_close"), Do("unstop"),
    Do("task_end"), Set("STOPPED"), Set("RESUMED"), Set("TASK_DESTROYED"),
    Do("cancel")>>
From(i) == SubSeq(Farewell, i, 9)

Begun == <<Set("TASK_CREATED"), To("INIT"), Do("alloc"), Clr("STOPPED")>>

InLoop(k)   == todo[k] \in Seq(Plain)
Starting(k) == todo[k] = TaskStart
Started(k)  == todo[k] = Begun
Ending(k)   == \E i \in 1..9 : todo[k] = From(i)
\* Only the cancellation is left, or not even that.
Left(k) == at[k] = "gone" \/ todo[k] = From(9)

Shapes ==
  \A k \in Tasks :
    /\ k > audio_thread => at[k] = "none" /\ todo[k] = <<>>
    /\ k <= audio_thread => at[k] # "none"
    /\ at[k] = "gone" => todo[k] = <<>>
    /\ InLoop(k) \/ Starting(k) \/ Started(k) \/ Ending(k)

-----------------------------------------------------------------------------
(* Where the application is. *)

Jobs == {<<>>} \cup {<<c>> : c \in ApiCalls \ {"deinit"}} \cup
        {<<"stop", "wait_for_stop", "terminate", "free">>,
         <<"wait_for_stop", "terminate", "free">>, <<"terminate", "free">>,
         <<"free">>}

Calling(c) == job # <<>> /\ Head(job) = c

PlacesOf(c) ==
  CASE c = "run"  -> {"start", "clear", "create", "wait", "waiting"}
    [] c = "stop" -> {"start", "mark", "abort", "look", "clear", "flag",
                      "send"}
    [] c \in {"resume", "terminate"} ->
         {"start", "clear", "send", "wait", "waiting"}
    [] c = "pause" -> {"start", "force", "clear", "send", "wait", "waiting"}
    [] c \in {"wait_for_stop", "wait_for_stop_ms"} ->
         {"start", "wait", "waiting"}
    [] OTHER -> {"start"}

Places ==
  /\ job \in Jobs
  /\ freed => job = <<>>
  /\ job = <<>> => apc = "start"
  /\ job # <<>> => apc \in PlacesOf(Head(job))
  /\ apc # "waiting" => phase["app"] = "out"
  /\ Calling("run") /\ apc \in {"start", "clear", "create"} =>
       audio_thread < MaxTasks

\* Call c waits for a bit that is not set yet.
Pending(c) ==
  /\ Calling(c)
  /\ BitOf(c) \notin bits
  /\ \/ apc = "wait"
     \/ apc = "waiting" /\ phase["app"] = "asleep" /\ wanted["app"] = BitOf(c)

-----------------------------------------------------------------------------
(* The inductive invariant. *)

\* Before the first task there is nothing to stop.
NoTaskNoStop ==
  /\ audio_thread = 0 => ~task_run /\ ~stopping
  /\ Calling("stop") /\ apc # "start" => audio_thread > 0

\* audio_element_run (line 1079) finds no task that works, and returns when
\* the new one has announced itself.
Creation ==
  /\ \A k \in Tasks : k < audio_thread => Left(k)
  /\ \A k \in Tasks : k = audio_thread =>
       /\ Starting(k) => ~task_run /\ Pending("run")
       /\ Started(k) => task_run /\ Pending("run")
       /\ InLoop(k) /\ at[k] # "gone" => task_run
  /\ Calling("run") /\ apc \in {"clear", "create"} => ~task_run
  /\ Calling("run") /\ apc = "create" => "TASK_CREATED" \notin bits

OneDestroy ==
  \A i, j \in DOMAIN cmdq : cmdq[i] = "DESTROY" /\ cmdq[j] = "DESTROY" => i = j

\* audio_element_terminate (line 1134) sends one DESTROY to a task that
\* works, and returns when that has announced its end.
Destruction ==
  /\ \A k \in Tasks, i \in 1..9 : k = audio_thread /\ todo[k] = From(i) =>
       /\ task_run <=> i <= 5
       /\ i <= 8 => Pending("terminate") /\ ~Queued("DESTROY")
       /\ i = 5 => ~stopping
  /\ Queued("DESTROY") =>
       /\ Pending("terminate")
       /\ \A k \in Tasks : k = audio_thread => InLoop(k)
  /\ OneDestroy
  /\ Calling("terminate") =>
       /\ apc \in {"clear", "send"} => task_run
       /\ apc = "send" => "TASK_DESTROYED" \notin bits
       /\ apc \in {"wait", "waiting"} =>
            \/ Queued("DESTROY")
            \/ \A k \in Tasks : k = audio_thread => Ending(k) \/ Left(k)

\* `stopping' needs a task (line 1266), and its end resets it (line 488).
NoEndWhileStopping ==
  /\ stopping => task_run
  /\ Calling("stop") /\ apc # "start" => task_run

\* What audio_element_terminate left behind in audio_element_deinit.
FreeAfterEnd ==
  /\ Calling("free") /\ result # "FAIL" =>
       \A k \in Tasks : k <= audio_thread => Left(k)

Base == TypeOK /\ Shapes /\ Places /\ NoTaskNoStop
Handshake == Creation /\ Destruction /\ NoEndWhileStopping /\ FreeAfterEnd
IInv == Base /\ Handshake


-----------------------------------------------------------------------------
(* Lemmas about the handlers. *)

\* The steps of the loop are stores, bits and calls, and none of those that
\* make a task begin or end.
LEMMA PlainSteps ==
  /\ Plain \subseteq Steps
  /\ \A s \in States : To(s) \in Plain
  /\ \A b \in {"STOPPED", "STARTED", "PAUSED", "RESUMED"} : Set(b) \in Plain
  /\ Clr("STOPPED") \in Plain
  /\ \A x \in {"close", "halt", "go", "unstop", "open", "reopen", "abort",
               "reset_out", "done_out", "on_stop", "on_error", "on_finish",
               "alloc"} :
       Do(x) \in Plain
  <1>1. \A s \in States : To(s) \in Steps
    BY DEF Steps, To
  <1>2. \A b \in {"STOPPED", "STARTED", "PAUSED", "RESUMED"} : Set(b) \in Steps
    BY DEF Steps, EventBits, Set
  <1>3. Clr("STOPPED") \in Steps
    BY DEF Steps, EventBits, Clr
  <1>4. \A x \in {"close", "halt", "go", "unstop", "open", "reopen", "abort",
               "reset_out", "done_out", "on_stop", "on_error", "on_finish",
               "alloc"} :
          Do(x) \in Steps
    BY DEF Steps, EventBits, Do
  <1>5. Plain \subseteq Steps
    BY <1>1, <1>2, <1>3, <1>4 DEF Plain
  <1> QED BY <1>5 DEF Plain

\* What a step of the loop can be, told from its first component.
LEMMA PlainArgs ==
  ASSUME NEW x \in Plain
  PROVE  /\ x[1] = "to" => x[2] \in States
         /\ x[1] = "set" => x[2] \in {"STOPPED", "STARTED", "PAUSED", "RESUMED"}
         /\ x[1] = "clear" => x[2] = "STOPPED"
         /\ x[1] = "do" => x[2] \in {"close", "halt", "go", "unstop", "open",
              "reopen", "abort", "reset_out", "done_out", "on_stop",
              "on_error", "on_finish", "alloc"}
  BY DEF Plain, To, Set, Clr, Do

\* A handler in the loop goes on in the loop.
LEMMA PlainTail ==
  ASSUME NEW s \in Seq(Plain), s # <<>>
  PROVE  Head(s) \in Plain /\ Tail(s) \in Seq(Plain)
  BY HeadTailProperties

\* The last steps of a task come in their order.
LEMMA FarewellSteps ==
  /\ \A i \in 1..9 : /\ From(i) # <<>>
                     /\ Head(From(i)) = Farewell[i]
                     /\ Tail(From(i)) = From(i + 1)
                     /\ From(i) \in Seq(Steps)
                     /\ From(i) \notin Seq(Plain)
                     /\ From(i) # TaskStart /\ From(i) # Begun
                     /\ \A j \in 1..9 : From(i) = From(j) => i = j
  /\ From(10) = <<>>
  <1>0. /\ \A b \in {"STOPPED", "RESUMED", "TASK_DESTROYED"} : Set(b) \in Steps
        /\ \A x \in {"halt", "exit_close", "unstop", "task_end", "cancel"} :
             Do(x) \in Steps
    BY DEF Steps, EventBits, Set, Do
  <1> HIDE DEF Steps
  <1>1. /\ Farewell \in Seq(Steps) /\ Len(Farewell) = 9
        /\ Farewell[9] = Do("cancel")
    BY <1>0 DEF Farewell
  <1> HIDE DEF Farewell
  <1>2. From(10) = <<>>
    BY <1>1, SubSeqEmpty DEF From
  <1>3. ASSUME NEW i \in 1..9
        PROVE  /\ From(i) \in Seq(Steps)
               /\ Len(From(i)) = 10 - i
               /\ \A n \in 1..(10 - i) : From(i)[n] = Farewell[i + n - 1]
    <2>1. \A n \in i..9 : n \in 1..Len(Farewell)
      BY <1>1
    <2>2. From(i) \in Seq(Steps)
      <3>1. \A n \in i..9 : Farewell[n] \in Steps
        BY <1>1, <2>1, ElementOfSeq
      <3> QED BY <1>1, <2>1, <3>1, SubSeqProperties DEF From
    <2>3. Len(From(i)) = 10 - i
      BY <1>1, <2>1, SubSeqProperties DEF From
    <2>4. ASSUME NEW n \in 1..(10 - i)
          PROVE  From(i)[n] = Farewell[i + n - 1]
      <3>1. n \in 1..(9 - i + 1)
        OBVIOUS
      <3> QED BY <1>1, <2>1, <3>1, SubSeqProperties DEF From
    <2> QED BY <2>2, <2>3, <2>4
  <1>4. ASSUME NEW i \in 1..9
        PROVE  /\ From(i) # <<>> /\ Head(From(i)) = Farewell[i]
               /\ From(i)[10 - i] = Do("cancel")
    <2>1. 1 \in 1..(10 - i) /\ 10 - i \in 1..(10 - i)
      OBVIOUS
    <2>2. From(i)[1] = Farewell[i] /\ From(i)[10 - i] = Farewell[9]
      <3>1. /\ From(i)[1] = Farewell[i + 1 - 1]
            /\ From(i)[10 - i] = Farewell[i + (10 - i) - 1]
        BY <1>3, <2>1
      <3>2. i + 1 - 1 = i /\ i + (10 - i) - 1 = 9
        OBVIOUS
      <3> QED BY <3>1, <3>2
    <2>3. From(i) # <<>>
      <3>1. Len(From(i)) = 10 - i
        BY <1>3
      <3> QED BY <3>1
    <2>4. Head(From(i)) = From(i)[1]
      BY <1>3, <2>3, HeadTailProperties
    <2> QED BY <2>2, <2>3, <2>4, <1>1
  <1>5. ASSUME NEW i \in 1..9
        PROVE  Tail(From(i)) = From(i + 1)
    <2>0. /\ Tail(From(i)) \in Seq(Steps)
          /\ Len(Tail(From(i))) = 9 - i
          /\ \A n \in 1..(9 - i) : Tail(From(i))[n] = Farewell[i + n]
      <3>1. /\ From(i) \in Seq(Steps) /\ From(i) # <<>>
            /\ Len(From(i)) = 10 - i
        BY <1>3, <1>4
      <3>2. /\ Tail(From(i)) \in Seq(Steps)
            /\ Len(Tail(From(i))) = 9 - i
            /\ \A n \in 1..(9 - i) : Tail(From(i))[n] = From(i)[n + 1]
        BY <3>1, HeadTailProperties
      <3>3. ASSUME NEW n \in 1..(9 - i)
            PROVE  From(i)[n + 1] = Farewell[i + n]
        <4>1. n + 1 \in 1..(10 - i) /\ i + (n + 1) - 1 = i + n
          OBVIOUS
        <4> QED BY <4>1, <1>3
      <3> QED BY <3>2, <3>3
    <2>1. CASE i = 9
      <3>1. Len(Tail(From(i))) = 0 /\ Tail(From(i)) \in Seq(Steps)
        BY <2>0, <2>1
      <3>2. Tail(From(i)) = <<>>
        BY <3>1, EmptySeq
      <3>3. i + 1 = 10
        BY <2>1
      <3> QED BY <3>2, <3>3, <1>2
    <2>2. CASE i # 9
      <3>1. i + 1 \in 1..9
        BY <2>2
      <3>2. /\ Len(From(i + 1)) = 9 - i
            /\ From(i + 1) \in Seq(Steps)
            /\ \A n \in 1..(9 - i) : From(i + 1)[n] = Farewell[i + n]
        <4>1. /\ Len(From(i + 1)) = 10 - (i + 1)
              /\ From(i + 1) \in Seq(Steps)
              /\ \A n \in 1..(10 - (i + 1)) :
                   From(i + 1)[n] = Farewell[(i + 1) + n - 1]
          BY <1>3, <3>1
        <4>2. 10 - (i + 1) = 9 - i
          OBVIOUS
        <4>3. \A n \in 1..(9 - i) : (i + 1) + n - 1 = i + n
          OBVIOUS
        <4> QED BY <4>1, <4>2, <4>3
      <3> QED BY <2>0, <3>2, SeqEqual
    <2> QED BY <2>1, <2>2
  <1>6. Do("cancel") \notin Plain
    BY PlainArgs DEF Do
  <1>7. ASSUME NEW i \in 1..9
        PROVE  From(i) \notin Seq(Plain)
    <2>0. Len(From(i)) = 10 - i
      BY <1>3
    <2>1. 10 - i \in 1..Len(From(i))
      BY <2>0
    <2> QED BY <2>1, <1>6, <1>4, ElementOfSeq
  <1>8. ASSUME NEW i \in 1..9
        PROVE  From(i) # TaskStart /\ From(i) # Begun
    <2>1. From(i)[Len(From(i))] = Do("cancel")
      BY <1>3, <1>4
    <2>2. TaskStart[Len(TaskStart)] = Clr("STOPPED")
      BY DEF TaskStart
    <2>3. Begun[Len(Begun)] = Clr("STOPPED")
      BY DEF Begun
    <2>4. Do("cancel") # Clr("STOPPED")
      BY DEF Do, Clr
    <2> QED BY <2>1, <2>2, <2>3, <2>4
  <1>9. ASSUME NEW i \in 1..9, NEW j \in 1..9, From(i) = From(j)
        PROVE  i = j
    <2>1. 10 - i = 10 - j
      BY <1>3, <1>9
    <2> QED BY <2>1
  <1> QED BY <1>2, <1>3, <1>4, <1>5, <1>7, <1>8, <1>9

\* audio_element_task leaves its loop with the last seven steps of Farewell.
LEMMA ExitIsFarewell ==
  TaskExit = From(3) /\ OnCmd("DESTROY") = From(1)
  <1>1. TaskExit = From(3)
    BY DEF TaskExit, From, Farewell
  <1>2. <<Do("halt"), Set("STOPPED")>> \o TaskExit = From(1)
    BY DEF TaskExit, From, Farewell
  <1>3. OnCmd("DESTROY") = <<Do("halt"), Set("STOPPED")>> \o TaskExit
    BY Zenon DEF OnCmd
  <1> QED BY <1>1, <1>2, <1>3

\* The first steps of a task are not steps of the loop.
LEMMA BeginSteps ==
  /\ Head(TaskStart) = Do("task_run") /\ Tail(TaskStart) = Begun
  /\ Head(Begun) = Set("TASK_CREATED") /\ Tail(Begun) \in Seq(Plain)
  /\ TaskStart # <<>> /\ Begun # <<>> /\ TaskStart # Begun
  /\ TaskStart \notin Seq(Plain) /\ Begun \notin Seq(Plain)
  /\ TaskStart \in Seq(Steps) /\ Begun \in Seq(Steps)
  <1>1. /\ Head(TaskStart) = Do("task_run") /\ Tail(TaskStart) = Begun
        /\ Head(Begun) = Set("TASK_CREATED")
        /\ Tail(Begun) = <<To("INIT"), Do("alloc"), Clr("STOPPED")>>
        /\ Len(TaskStart) = 5 /\ Len(Begun) = 4
        /\ TaskStart # <<>> /\ Begun # <<>>
    BY DEF TaskStart, Begun
  <1>2. /\ To("INIT") \in Plain /\ Clr("STOPPED") \in Plain
        /\ To("INIT") \in Steps /\ Clr("STOPPED") \in Steps
        /\ Do("alloc") \in Plain /\ Do("alloc") \in Steps
    BY PlainSteps DEF States
  <1>3. Do("task_run") \notin Plain /\ Set("TASK_CREATED") \notin Plain
    BY PlainArgs DEF Do, Set
  <1>4. TaskStart \notin Seq(Plain) /\ Begun \notin Seq(Plain)
    BY <1>1, <1>3, PlainTail
  <1>5. Do("task_run") \in Steps /\ Set("TASK_CREATED") \in Steps
    BY DEF Steps, EventBits, Do, Set
  <1>6. TaskStart \in Seq(Steps) /\ Begun \in Seq(Steps)
    <2> HIDE DEF Steps
    <2> QED BY <1>2, <1>5 DEF TaskStart, Begun
  <1>7. Tail(Begun) \in Seq(Plain)
    <2> HIDE DEF Plain, To, Clr, Do
    <2>1. <<To("INIT"), Do("alloc"), Clr("STOPPED")>> \in Seq(Plain)
      BY <1>2
    <2> QED BY <1>1, <2>1
  <1> QED BY <1>1, <1>4, <1>6, <1>7

\* The handlers stay in the loop, all but DESTROY.
LEMMA HandlersArePlain ==
  /\ OnStop \in Seq(Plain) /\ OnError \in Seq(Plain)
  /\ OnFinish \in Seq(Plain)
  /\ \A open \in {"open", "reopen"} :
       /\ OnResume(open) \in Seq(Plain)
       /\ \A outcome \in {"OK", "DONE", "ABORT", "FAIL"} :
            Opened(open, outcome) \in Seq(Plain)
  /\ \A cmd \in {"STOP", "PAUSE", "RESUME"} : OnCmd(cmd) \in Seq(Plain)
  /\ <<Do("done_out"), Do("on_finish")>> \in Seq(Plain)
  <1>1. /\ \A s \in {"INITIALIZING", "RUNNING", "PAUSED", "STOPPED",
                     "FINISHED", "ERROR"} : To(s) \in Plain
        /\ \A b \in {"STOPPED", "STARTED", "PAUSED", "RESUMED"} :
             Set(b) \in Plain
        /\ Clr("STOPPED") \in Plain
        /\ \A x \in {"close", "halt", "go", "unstop", "open", "reopen",
                     "abort", "reset_out", "done_out", "on_stop", "on_error",
                     "on_finish"} : Do(x) \in Plain
    BY PlainSteps DEF States
  <1> HIDE DEF Plain, To, Set, Clr, Do
  <1>2. OnStop \in Seq(Plain)
    BY <1>1 DEF OnStop
  <1>3. OnError \in Seq(Plain) /\ OnFinish \in Seq(Plain)
        /\ OnPause \in Seq(Plain)
        /\ <<Do("done_out"), Do("on_finish")>> \in Seq(Plain)
    BY <1>1 DEF OnError, OnFinish, OnPause
  <1>4. ASSUME NEW open \in {"open", "reopen"}
        PROVE  OnResume(open) \in Seq(Plain)
    BY <1>1 DEF OnResume
  <1>5. ASSUME NEW open \in {"open", "reopen"},
               NEW outcome \in {"OK", "DONE", "ABORT", "FAIL"}
        PROVE  Opened(open, outcome) \in Seq(Plain)
    BY <1>1 DEF Opened
  <1> QED BY <1>2, <1>3, <1>4, <1>5 DEF OnCmd


-----------------------------------------------------------------------------
(* What a step of a task comes to. *)

\* xEventGroupSetBits wakes the application exactly when it sleeps on the bit.
LEMMA SetWakes ==
  ASSUME TypeOK, NEW b \in EventBits, Event!SetBits({b})
  PROVE  /\ bits' = bits \cup {b}
         /\ UNCHANGED <<wanted, clearing, granted>>
         /\ phase' \in [{"app"} -> {"out", "asleep", "awake"}]
         /\ phase'["app"] =
              IF phase["app"] = "asleep" /\ wanted["app"] = b
              THEN "awake" ELSE phase["app"]
  <1>1. PICK W \in Event!Signalled({b}) :
          phase' = [t \in {"app"} |-> IF t \in W THEN "awake" ELSE phase[t]]
    BY DEF Event!SetBits
  <1>2. W \subseteq Event!Asleep(b)
    BY <1>1 DEF Event!Signalled
  <1>3. Event!Asleep(b) # {} => W \cap Event!Asleep(b) # {}
    BY <1>1 DEF Event!Signalled
  <1>4. "app" \in W <=> phase["app"] = "asleep" /\ wanted["app"] = b
    BY <1>2, <1>3 DEF Event!Asleep
  <1>5. phase' \in [{"app"} -> {"out", "asleep", "awake"}]
    BY <1>1 DEF TypeOK, Event!TypeOK
  <1> QED BY <1>1, <1>4, <1>5 DEF Event!SetBits

Created   == "TASK_CREATED"
Destroyed == "TASK_DESTROYED"

\* The bits of the handshake, and a sleep on them, are left alone.
Quietly ==
  /\ \A b \in {Created, Destroyed} : b \in bits' <=> b \in bits
  /\ phase'["app"] = phase["app"] \/ wanted["app"] \notin {Created, Destroyed}

Frame(k) ==
  /\ UNCHANGED <<audio_thread, app, wanted>>
  /\ phase["app"] = "out" => phase'["app"] = "out"
  /\ \A j \in Tasks : j # k => todo'[j] = todo[j] /\ at'[j] = at[j]
  /\ at[k] \notin {"none", "gone"} /\ at'[k] # "none"

\* A step in the loop, or the allocation before it.
Works(k) ==
  /\ InLoop(k) /\ InLoop(k)'
  /\ at'[k] = "gone" => todo'[k] = <<>>
  /\ task_run' = task_run \/ MayFail
  /\ stopping' => stopping
  /\ Quietly
  /\ \/ cmdq' = cmdq
     \/ cmdq # <<>> /\ Head(cmdq) # "DESTROY" /\ cmdq' = Tail(cmdq)

Begins(k) ==
  /\ Starting(k) /\ Started(k)'
  /\ at'[k] # "gone"
  /\ task_run'
  /\ UNCHANGED <<stopping, bits, phase, cmdq>>

Announces(k) ==
  /\ Started(k) /\ InLoop(k)'
  /\ at'[k] # "gone"
  /\ bits' = bits \cup {Created}
  /\ UNCHANGED <<task_run, stopping, cmdq>>

\* The DESTROY command.
Receives(k) ==
  /\ InLoop(k) /\ task_run
  /\ todo'[k] = From(1)
  /\ at'[k] # "gone"
  /\ cmdq # <<>> /\ Head(cmdq) = "DESTROY" /\ cmdq' = Tail(cmdq)
  /\ UNCHANGED <<task_run, stopping, bits, phase>>

\* The end of the loop without a command.
Quits(k) ==
  /\ InLoop(k) /\ ~task_run
  /\ todo'[k] = From(3)
  /\ at'[k] # "gone"
  /\ UNCHANGED <<task_run, stopping, bits, phase, cmdq>>

\* The i-th of the last steps.
Leaves(k, i) ==
  /\ todo[k] = From(i) /\ todo'[k] = From(i + 1)
  /\ at'[k] # "gone"
  /\ task_run' \in BOOLEAN
  /\ task_run' <=> task_run /\ i # 5
  /\ stopping' => stopping /\ i # 4
  /\ IF i = 8 THEN bits' = bits \cup {Destroyed} ELSE Quietly
  /\ UNCHANGED cmdq

Ends(k) ==
  /\ todo[k] = From(9) /\ todo'[k] = <<>>
  /\ at'[k] = "gone"
  /\ UNCHANGED <<task_run, stopping, bits, phase, cmdq>>

Effect(k) ==
  \/ Works(k) \/ Begins(k) \/ Announces(k) \/ Receives(k) \/ Quits(k)
  \/ (\E i \in 1..8 : Leaves(k, i)) \/ Ends(k)

\* Where a task is that takes a step of a given kind: what its first step is
\* tells the part of its life it is in.
LEMMA ReadyAt ==
  ASSUME Base, NEW k \in Tasks, NEW op, Ready(k, op)
  PROVE  /\ at[k] \notin {"none", "gone"} /\ k <= audio_thread
         /\ todo[k] # <<>>
         /\ \/ /\ InLoop(k) /\ Head(todo[k]) \in Plain
               /\ Tail(todo[k]) \in Seq(Plain)
            \/ Starting(k) /\ op = "do" /\ Arg(k) = "task_run"
            \/ Started(k) /\ op = "set" /\ Arg(k) = Created
            \/ \E i \in 1..9 : /\ todo[k] = From(i)
                               /\ op = Farewell[i][1] /\ Arg(k) = Farewell[i][2]
  <1>1. todo[k] # <<>> /\ Head(todo[k])[1] = op
    BY DEF Ready
  <1>2. at[k] \notin {"none", "gone"} /\ k <= audio_thread
    BY <1>1 DEF Base, Shapes, TypeOK, Tasks
  <1>3. CASE InLoop(k)
    BY <1>1, <1>2, <1>3, PlainTail DEF InLoop
  <1>4. CASE Starting(k)
    BY <1>1, <1>2, <1>4, BeginSteps DEF Starting, Arg, Do
  <1>5. CASE Started(k)
    BY <1>1, <1>2, <1>5, BeginSteps DEF Started, Arg, Set, Created
  <1>6. CASE Ending(k)
    <2>1. PICK i \in 1..9 : todo[k] = From(i)
      BY <1>6 DEF Ending
    <2>2. Head(todo[k]) = Farewell[i]
      BY <2>1, FarewellSteps
    <2> QED BY <1>1, <1>2, <2>1, <2>2 DEF Arg
  <1> QED BY <1>3, <1>4, <1>5, <1>6 DEF Base, Shapes

\* The last steps by name.
LEMMA FarewellNames ==
  ASSUME NEW i \in 1..9
  PROVE  /\ Farewell[i][1] = IF i \in {2, 6, 7, 8} THEN "set" ELSE "do"
         /\ i = 1 => Farewell[i][2] = "halt"
         /\ i = 2 => Farewell[i][2] = "STOPPED"
         /\ i = 3 => Farewell[i][2] = "exit_close"
         /\ i = 4 => Farewell[i][2] = "unstop"
         /\ i = 5 => Farewell[i][2] = "task_end"
         /\ i = 6 => Farewell[i][2] = "STOPPED"
         /\ i = 7 => Farewell[i][2] = "RESUMED"
         /\ i = 8 => Farewell[i][2] = "TASK_DESTROYED"
         /\ i = 9 => Farewell[i][2] = "cancel"
  <1>1. i \in {1, 2, 3, 4, 5, 6, 7, 8, 9}
    OBVIOUS
  <1> QED BY <1>1 DEF Farewell, Do, Set


\* Most steps are taken in the loop only.
LEMMA LoopStep ==
  ASSUME Base, NEW k \in Tasks, NEW op, Ready(k, op),
         \/ op \in {"to", "clear"}
         \/ /\ op = "do"
            /\ Arg(k) \notin {"task_run", "halt", "exit_close", "unstop",
                              "task_end", "cancel"}
  PROVE  /\ at[k] \notin {"none", "gone"} /\ k <= audio_thread
         /\ todo[k] # <<>>
         /\ InLoop(k) /\ Head(todo[k]) \in Plain /\ Tail(todo[k]) \in Seq(Plain)
  <1>1. ASSUME NEW i \in 1..9, op = Farewell[i][1], Arg(k) = Farewell[i][2]
        PROVE  FALSE
    <2>1. i \in {1, 2, 3, 4, 5, 6, 7, 8, 9}
      OBVIOUS
    <2> QED BY <1>1, <2>1, FarewellNames
  <1> QED BY <1>1, ReadyAt

\* Tail of the steps of one task, the others stay.
LEMMA RestOf ==
  ASSUME TypeOK, NEW k \in Tasks, NEW s, todo' = [todo EXCEPT ![k] = s]
  PROVE  todo'[k] = s /\ \A j \in Tasks : j # k => todo'[j] = todo[j]
  BY DEF TypeOK

\* Every step of a task is one of seven kinds, as far as the handshake can
\* tell.
LEMMA TaskEffect ==
  ASSUME Base, NEW k \in Tasks, TaskStep(k)
  PROVE  Frame(k) /\ Effect(k)
  <1>0. TypeOK
    BY DEF Base
  <1>a. ASSUME Idle(k, "cmd") \/ Idle(k, "run") \/ Idle(k, "process")
        PROVE  InLoop(k) /\ todo[k] = <<>> /\ at[k] \in {"cmd", "run", "process"}
    BY <1>a, EmptySeq DEF Idle, InLoop
  <1>1. CASE TaskTo(k)
    <2>1. Ready(k, "to") /\ todo' = [todo EXCEPT ![k] = Tail(@)]
      BY <1>1 DEF TaskTo, Rest
    <2>2. InLoop(k) /\ InLoop(k)' /\ at[k] \notin {"none", "gone"}
      BY <2>1, LoopStep, RestOf, <1>0 DEF InLoop
    <2>3. UNCHANGED <<is_open, is_running, task_run, stopping, audio_thread,
                      group, cmdq, rings, at, cancelled, app>>
      BY <1>1 DEF TaskTo
    <2>4. \A j \in Tasks : j # k => todo'[j] = todo[j]
      BY <2>1, RestOf, <1>0
    <2> QED BY <2>2, <2>3, <2>4 DEF Frame, Effect, Works, Quietly, group
  <1>2. CASE TaskSet(k)
    <2>1. /\ Ready(k, "set") /\ todo' = [todo EXCEPT ![k] = Tail(@)]
          /\ Event!SetBits({Arg(k)})
      BY <1>2 DEF TaskSet, Rest
    <2>2. UNCHANGED <<fields, cmdq, rings, at, cancelled, app>>
      BY <1>2 DEF TaskSet
    <2>3. /\ todo'[k] = Tail(todo[k])
          /\ \A j \in Tasks : j # k => todo'[j] = todo[j]
          /\ at[k] \notin {"none", "gone"}
      BY <2>1, RestOf, ReadyAt, <1>0
    <2>4. CASE InLoop(k)
      <3>1. InLoop(k)' /\ Arg(k) \in {"STOPPED", "STARTED", "PAUSED", "RESUMED"}
        BY <2>1, <2>3, <2>4, PlainTail, PlainArgs DEF InLoop, Ready, Arg
      <3>2. Arg(k) \in EventBits /\ Arg(k) \notin {Created, Destroyed}
        BY <3>1 DEF EventBits, Created, Destroyed
      <3>3. Quietly /\ wanted' = wanted
            /\ (phase["app"] = "out" => phase'["app"] = "out")
        BY <2>1, <3>2, SetWakes, <1>0 DEF Quietly
      <3> QED BY <2>2, <2>3, <2>4, <3>1, <3>3 DEF Frame, Effect, Works, fields
    <2>5. CASE Started(k)
      <3>1. Arg(k) = Created /\ InLoop(k)'
        BY <2>3, <2>5, BeginSteps DEF Started, InLoop, Arg, Set, Created
      <3>2. /\ bits' = bits \cup {Created} /\ wanted' = wanted
            /\ phase["app"] = "out" => phase'["app"] = "out"
        BY <2>1, <3>1, SetWakes, <1>0 DEF EventBits, Created
      <3> QED BY <2>2, <2>3, <2>5, <3>1, <3>2
              DEF Frame, Effect, Announces, fields
    <2>6. CASE \E i \in 1..9 : /\ todo[k] = From(i) /\ "set" = Farewell[i][1]
                               /\ Arg(k) = Farewell[i][2]
      <3>1. PICK i \in 1..9 : /\ todo[k] = From(i) /\ "set" = Farewell[i][1]
                              /\ Arg(k) = Farewell[i][2]
        BY <2>6
      <3>2. i \in {2, 6, 7, 8}
        BY <3>1, FarewellNames
      <3>3. /\ i = 8 => Arg(k) = Destroyed
            /\ i # 8 => Arg(k) \in {"STOPPED", "RESUMED"}
        BY <3>1, <3>2, FarewellNames DEF Destroyed
      <3>4. /\ bits' = bits \cup {Arg(k)} /\ wanted' = wanted
            /\ phase["app"] = "out" => phase'["app"] = "out"
            /\ \/ phase'["app"] = phase["app"]
               \/ wanted["app"] = Arg(k)
        BY <2>1, <3>3, SetWakes, <1>0 DEF EventBits, Destroyed
      <3>5. IF i = 8 THEN bits' = bits \cup {Destroyed} ELSE Quietly
        BY <3>3, <3>4 DEF Quietly, Created, Destroyed
      <3>6. todo'[k] = From(i + 1)
        BY <2>3, <3>1, FarewellSteps
      <3>7. task_run \in BOOLEAN /\ i \in 1..8 /\ i # 5 /\ i # 4
        BY <3>2, <1>0 DEF TypeOK
      <3>8. UNCHANGED <<task_run, stopping, audio_thread, cmdq, at, app>>
        BY <2>2 DEF fields
      <3>9. Leaves(k, i)
        BY <2>3, <3>1, <3>5, <3>6, <3>7, <3>8 DEF Leaves
      <3> QED BY <2>3, <3>4, <3>7, <3>8, <3>9 DEF Frame, Effect
    <2> QED BY <2>1, <2>4, <2>5, <2>6, ReadyAt
  <1>3. CASE TaskClear(k)
    <2>1. /\ Ready(k, "clear") /\ todo' = [todo EXCEPT ![k] = Tail(@)]
          /\ Event!ClearBits({Arg(k)})
      BY <1>3 DEF TaskClear, Rest
    <2>2. UNCHANGED <<fields, cmdq, rings, at, cancelled, app>>
      BY <1>3 DEF TaskClear
    <2>3. /\ InLoop(k) /\ InLoop(k)' /\ at[k] \notin {"none", "gone"}
          /\ Arg(k) = "STOPPED"
      BY <2>1, LoopStep, RestOf, PlainArgs, <1>0 DEF InLoop, Ready, Arg
    <2>4. \A j \in Tasks : j # k => todo'[j] = todo[j]
      BY <2>1, RestOf, <1>0
    <2>5. Quietly /\ wanted' = wanted /\ phase' = phase
      BY <2>1, <2>3 DEF Event!ClearBits, Quietly, Created, Destroyed
    <2> QED BY <2>2, <2>3, <2>4, <2>5 DEF Frame, Effect, Works, fields
  <1>4. CASE TaskField(k)
    <2>1. /\ Ready(k, "do") /\ todo' = [todo EXCEPT ![k] = Tail(@)]
          /\ Arg(k) \in {"go", "halt", "unstop", "task_run", "task_end"}
      BY <1>4 DEF TaskField, Rest
    <2>2. UNCHANGED <<state, is_open, audio_thread, group, cmdq, rings, at,
                      cancelled, app>>
      BY <1>4 DEF TaskField
    <2>3. /\ todo'[k] = Tail(todo[k])
          /\ \A j \in Tasks : j # k => todo'[j] = todo[j]
          /\ at[k] \notin {"none", "gone"}
      BY <2>1, RestOf, ReadyAt, <1>0
    <2>4. /\ stopping' \in BOOLEAN /\ task_run' \in BOOLEAN
          /\ stopping' <=> stopping /\ Arg(k) # "unstop"
          /\ task_run' <=> (Arg(k) = "task_run" \/ (task_run /\ Arg(k) # "task_end"))
      BY <1>4, <1>0 DEF TaskField, TypeOK
    <2>5. /\ stopping \in BOOLEAN /\ task_run \in BOOLEAN
      BY <1>0 DEF TypeOK
    <2>6. Frame(k) /\ Quietly
      BY <2>2, <2>3 DEF Frame, Quietly, group
    <2>7. CASE InLoop(k)
      <3>1. InLoop(k)' /\ Arg(k) \in {"go", "halt", "unstop"}
        BY <2>1, <2>3, <2>7, PlainTail, PlainArgs DEF InLoop, Ready, Arg
      <3>2. task_run' = task_run /\ (stopping' => stopping)
        BY <2>4, <2>5, <3>1
      <3> QED BY <2>2, <2>3, <2>6, <2>7, <3>1, <3>2 DEF Effect, Works
    <2>8. CASE Starting(k)
      <3>1. Started(k)' /\ Arg(k) = "task_run"
        BY <2>3, <2>8, BeginSteps DEF Starting, Started, Arg, Do
      <3>2. task_run' /\ stopping' = stopping
        BY <2>4, <2>5, <3>1
      <3> QED BY <2>2, <2>3, <2>6, <2>8, <3>1, <3>2
              DEF Effect, Begins, group
    <2>9. CASE \E i \in 1..9 : /\ todo[k] = From(i) /\ "do" = Farewell[i][1]
                               /\ Arg(k) = Farewell[i][2]
      <3>1. PICK i \in 1..9 : /\ todo[k] = From(i) /\ "do" = Farewell[i][1]
                              /\ Arg(k) = Farewell[i][2]
        BY <2>9
      <3>2. /\ i \in {1, 4, 5} /\ i \in 1..8
            /\ i = 4 <=> Arg(k) = "unstop"
            /\ i = 5 <=> Arg(k) = "task_end"
            /\ Arg(k) # "task_run"
        <4>1. i \in {1, 2, 3, 4, 5, 6, 7, 8, 9}
          OBVIOUS
        <4> QED BY <4>1, <3>1, <2>1, FarewellNames
      <3>3. todo'[k] = From(i + 1)
        BY <2>3, <3>1, FarewellSteps
      <3>4. /\ task_run' <=> task_run /\ i # 5
            /\ stopping' => stopping /\ i # 4
        BY <2>4, <2>5, <3>2
      <3>5. Leaves(k, i)
        BY <2>2, <2>3, <2>4, <2>6, <3>1, <3>2, <3>3, <3>4 DEF Leaves
      <3> QED BY <2>6, <3>2, <3>5 DEF Effect
    <2> QED BY <2>1, <2>7, <2>8, <2>9, ReadyAt
  <1>5. CASE TaskClose(k)
    <2>1. /\ Ready(k, "do") /\ todo' = [todo EXCEPT ![k] = Tail(@)]
          /\ Arg(k) \in {"close", "exit_close"}
      BY <1>5 DEF TaskClose, Rest
    <2>2. UNCHANGED <<is_running, task_run, stopping, audio_thread, group, cmdq,
                      rings, at, cancelled, app>>
      BY <1>5 DEF TaskClose
    <2>3. /\ todo'[k] = Tail(todo[k])
          /\ \A j \in Tasks : j # k => todo'[j] = todo[j]
          /\ at[k] \notin {"none", "gone"}
      BY <2>1, RestOf, ReadyAt, <1>0
    <2>4. Frame(k) /\ Quietly
      BY <2>2, <2>3 DEF Frame, Quietly, group
    <2>5. CASE InLoop(k)
      <3>1. InLoop(k)'
        BY <2>1, <2>3, <2>5, PlainTail DEF InLoop, Ready
      <3> QED BY <2>2, <2>3, <2>4, <2>5, <3>1 DEF Effect, Works
    <2>6. CASE \E i \in 1..9 : /\ todo[k] = From(i) /\ "do" = Farewell[i][1]
                               /\ Arg(k) = Farewell[i][2]
      <3>1. PICK i \in 1..9 : /\ todo[k] = From(i) /\ "do" = Farewell[i][1]
                              /\ Arg(k) = Farewell[i][2]
        BY <2>6
      <3>2. i = 3
        <4>1. i \in {1, 2, 3, 4, 5, 6, 7, 8, 9}
          OBVIOUS
        <4> QED BY <4>1, <3>1, <2>1, FarewellNames
      <3>3. todo'[k] = From(i + 1) /\ task_run \in BOOLEAN
        BY <2>3, <3>1, FarewellSteps, <1>0 DEF TypeOK
      <3>4. Leaves(k, i)
        BY <2>2, <2>3, <2>4, <3>1, <3>2, <3>3 DEF Leaves
      <3> QED BY <2>4, <3>2, <3>4 DEF Effect
    <2> QED BY <2>1, <2>5, <2>6, ReadyAt
  <1>6. CASE TaskRings(k)
    <2>1. /\ Ready(k, "do") /\ todo' = [todo EXCEPT ![k] = Tail(@)]
          /\ Arg(k) \in {"abort", "reset_out", "done_out"}
          /\ UNCHANGED <<fields, group, cmdq, at, cancelled, app>>
      BY <1>6 DEF TaskRings, Rest
    <2>2. /\ todo'[k] = Tail(todo[k])
          /\ \A j \in Tasks : j # k => todo'[j] = todo[j]
          /\ InLoop(k) /\ InLoop(k)' /\ at[k] \notin {"none", "gone"}
      BY <2>1, LoopStep, RestOf, <1>0 DEF InLoop
    <2> QED BY <2>1, <2>2 DEF Frame, Effect, Works, Quietly, fields, group
  <1>7. ASSUME NEW outcome \in {"OK", "DONE", "ABORT", "FAIL"},
               TaskOpen(k, outcome)
        PROVE  Frame(k) /\ Effect(k)
    <2>1. /\ Ready(k, "do") /\ Arg(k) \in {"open", "reopen"}
          /\ todo' = [todo EXCEPT ![k] = Opened(Arg(k), outcome) \o Tail(@)]
          /\ UNCHANGED <<state, is_running, task_run, stopping, audio_thread,
                         group, cmdq, rings, at, cancelled, app>>
      BY <1>7 DEF TaskOpen
    <2>2. /\ todo'[k] = Opened(Arg(k), outcome) \o Tail(todo[k])
          /\ \A j \in Tasks : j # k => todo'[j] = todo[j]
      BY <2>1, RestOf, <1>0
    <2>3. /\ InLoop(k) /\ at[k] \notin {"none", "gone"}
          /\ Tail(todo[k]) \in Seq(Plain)
      BY <2>1, LoopStep
    <2>4. InLoop(k)'
      <3>1. Opened(Arg(k), outcome) \in Seq(Plain)
        BY <1>7, <2>1, HandlersArePlain
      <3>2. todo'[k] \in Seq(Plain)
        BY <2>2, <2>3, <3>1, ConcatProperties
      <3> QED BY <2>1, <2>3, <3>2 DEF InLoop
    <2> QED BY <2>1, <2>2, <2>3, <2>4 DEF Frame, Effect, Works, Quietly, group
  <1>8. CASE TaskEnter(k)
    <2>1. /\ Ready(k, "do") /\ Arg(k) \in {"on_stop", "on_error", "on_finish"}
          /\ UNCHANGED <<fields, group, cmdq, rings, at, cancelled, app>>
      BY <1>8 DEF TaskEnter
    <2>2. PICK h \in Seq(Plain) : todo' = [todo EXCEPT ![k] = h \o Tail(@)]
      BY <1>8, HandlersArePlain DEF TaskEnter
    <2>3. /\ todo'[k] = h \o Tail(todo[k])
          /\ \A j \in Tasks : j # k => todo'[j] = todo[j]
      BY <2>2, RestOf, <1>0
    <2>4. /\ InLoop(k) /\ at[k] \notin {"none", "gone"}
          /\ Tail(todo[k]) \in Seq(Plain)
      BY <2>1, LoopStep
    <2>5. InLoop(k)'
      BY <2>3, <2>4, ConcatProperties DEF InLoop
    <2> QED BY <2>1, <2>3, <2>4, <2>5
            DEF Frame, Effect, Works, Quietly, fields, group
  <1>9. CASE TaskCancel(k)
    <2>1. /\ Ready(k, "do") /\ Arg(k) = "cancel"
          /\ at' = [at EXCEPT ![k] = "gone"]
          /\ todo' = [todo EXCEPT ![k] = Tail(@)]
          /\ UNCHANGED <<fields, group, cmdq, rings, app>>
      BY <1>9 DEF TaskCancel, Rest
    <2>2. /\ todo'[k] = Tail(todo[k])
          /\ \A j \in Tasks : j # k => todo'[j] = todo[j]
          /\ at[k] \notin {"none", "gone"}
      BY <2>1, RestOf, ReadyAt, <1>0
    <2>3. /\ at'[k] = "gone"
          /\ \A j \in Tasks : j # k => at'[j] = at[j]
      BY <2>1, <1>0 DEF TypeOK
    <2>4. ~InLoop(k)
      <3> SUFFICES ASSUME InLoop(k) PROVE FALSE
        OBVIOUS
      <3>1. Head(todo[k]) \in Plain /\ Head(todo[k])[1] = "do"
        BY <2>1, PlainTail DEF InLoop, Ready
      <3> QED BY <3>1, <2>1, PlainArgs DEF Arg
    <2>5. \E i \in 1..9 : /\ todo[k] = From(i) /\ "do" = Farewell[i][1]
                          /\ Arg(k) = Farewell[i][2]
      BY <2>1, <2>4, ReadyAt
    <2>6. PICK i \in 1..9 : /\ todo[k] = From(i) /\ "do" = Farewell[i][1]
                            /\ Arg(k) = Farewell[i][2]
      BY <2>5
    <2>7. i = 9
      <3>1. i \in {1, 2, 3, 4, 5, 6, 7, 8, 9}
        OBVIOUS
      <3> QED BY <3>1, <2>6, <2>1, FarewellNames
    <2>8. todo[k] = From(9) /\ todo'[k] = <<>>
      <3>1. Tail(From(9)) = From(9 + 1) /\ From(10) = <<>>
        BY FarewellSteps
      <3> QED BY <3>1, <2>2, <2>6, <2>7
    <2> QED BY <2>1, <2>2, <2>3, <2>8 DEF Frame, Effect, Ends, fields, group
  <1>10. CASE TaskCancelled(k)
    <2>1. /\ InLoop(k) /\ todo[k] = <<>> /\ at[k] \in {"cmd", "run", "process"}
          /\ at' = [at EXCEPT ![k] = "gone"]
          /\ UNCHANGED <<fields, group, cmdq, rings, todo, cancelled, app>>
      BY <1>10, <1>a DEF TaskCancelled
    <2>2. /\ at'[k] = "gone"
          /\ \A j \in Tasks : j # k => at'[j] = at[j]
      BY <2>1, <1>0 DEF TypeOK
    <2>3. InLoop(k)'
      BY <2>1 DEF InLoop
    <2> QED BY <2>1, <2>2, <2>3 DEF Frame, Effect, Works, Quietly, fields, group
  <1>11. CASE TaskReceive(k)
    <2>1. /\ InLoop(k) /\ todo[k] = <<>> /\ at[k] \in {"cmd", "run", "process"}
          /\ UNCHANGED <<fields, group, rings, cancelled, app>>
      BY <1>11, <1>a DEF TaskReceive
    <2>2. /\ task_run \in BOOLEAN /\ stopping \in BOOLEAN
          /\ cmdq \in Seq(Commands)
      BY <1>0 DEF TypeOK
    <2>3. CASE ~task_run
      <3>1. todo' = [todo EXCEPT ![k] = TaskExit] /\ UNCHANGED <<cmdq, at>>
        BY <1>11, <2>3 DEF TaskReceive
      <3>2. /\ todo'[k] = From(3)
            /\ \A j \in Tasks : j # k => todo'[j] = todo[j]
        BY <3>1, RestOf, ExitIsFarewell, <1>0
      <3> QED BY <2>1, <2>3, <3>1, <3>2 DEF Frame, Effect, Quits, fields, group
    <2>4. CASE task_run /\ cmdq = <<>>
      <3>1. /\ at' = [at EXCEPT ![k] = "run"]
            /\ UNCHANGED <<cmdq, todo>>
        BY <1>11, <2>4 DEF TaskReceive
      <3>2. at'[k] = "run" /\ \A j \in Tasks : j # k => at'[j] = at[j]
        BY <3>1, <1>0 DEF TypeOK
      <3>3. InLoop(k)'
        BY <2>1, <3>1 DEF InLoop
      <3> QED BY <2>1, <3>1, <3>2, <3>3
              DEF Frame, Effect, Works, Quietly, fields, group
    <2>5. CASE task_run /\ cmdq # <<>>
      <3>1. /\ at' = [at EXCEPT ![k] = "run"]
            /\ todo' = [todo EXCEPT ![k] = OnCmd(Head(cmdq))]
            /\ cmdq' = Tail(cmdq)
        BY <1>11, <2>5 DEF TaskReceive
      <3>2. at'[k] = "run" /\ \A j \in Tasks : j # k => at'[j] = at[j]
        BY <3>1, <1>0 DEF TypeOK
      <3>3. /\ todo'[k] = OnCmd(Head(cmdq))
            /\ \A j \in Tasks : j # k => todo'[j] = todo[j]
        BY <3>1, RestOf, <1>0
      <3>4. Frame(k)
        BY <2>1, <3>2, <3>3 DEF Frame, fields, group
      <3>5. CASE Head(cmdq) = "DESTROY"
        <4>1. todo'[k] = From(1)
          BY <3>3, <3>5, ExitIsFarewell
        <4> QED BY <2>1, <2>5, <3>1, <3>2, <3>4, <3>5, <4>1
                DEF Effect, Receives, fields, group
      <3>6. CASE Head(cmdq) # "DESTROY"
        <4>1. Head(cmdq) \in {"STOP", "PAUSE", "RESUME"}
          BY <2>2, <2>5, <3>6, HeadTailProperties DEF Commands
        <4>2. InLoop(k)'
          BY <3>3, <4>1, HandlersArePlain DEF InLoop
        <4> QED BY <2>1, <2>5, <3>1, <3>2, <3>4, <3>6, <4>2
                DEF Effect, Works, Quietly, fields, group
      <3> QED BY <3>5, <3>6
    <2> QED BY <2>2, <2>3, <2>4, <2>5
  <1>12. CASE TaskRun(k)
    <2>1. /\ InLoop(k) /\ todo[k] = <<>> /\ at[k] \in {"cmd", "run", "process"}
          /\ UNCHANGED <<fields, group, cmdq, rings, todo, cancelled, app>>
      BY <1>12, <1>a DEF TaskRun
    <2>2. at'[k] \in {"cmd", "process"} /\ \A j \in Tasks : j # k => at'[j] = at[j]
      BY <1>12, <1>0 DEF TaskRun, TypeOK
    <2>3. InLoop(k)'
      BY <2>1 DEF InLoop
    <2> QED BY <2>1, <2>2, <2>3 DEF Frame, Effect, Works, Quietly, fields, group
  <1>13. ASSUME NEW outcome \in {"more", "DONE", "ABORT", "FAIL"},
                TaskProcess(k, outcome)
         PROVE  Frame(k) /\ Effect(k)
    <2>1. /\ InLoop(k) /\ todo[k] = <<>> /\ at[k] \in {"cmd", "run", "process"}
          /\ UNCHANGED <<fields, group, cmdq, rings, cancelled, app>>
          /\ at' = [at EXCEPT ![k] = "cmd"]
      BY <1>13, <1>a DEF TaskProcess
    <2>2. at'[k] = "cmd" /\ \A j \in Tasks : j # k => at'[j] = at[j]
      BY <2>1, <1>0 DEF TypeOK
    <2>3. PICK h \in Seq(Plain) : todo' = [todo EXCEPT ![k] = h]
      <3>1. CASE outcome = "more"
        BY <1>13, <3>1, EmptySeq DEF TaskProcess
      <3>2. CASE outcome = "ABORT"
        BY <1>13, <3>2, HandlersArePlain DEF TaskProcess
      <3>3. CASE outcome = "FAIL"
        BY <1>13, <3>3, HandlersArePlain DEF TaskProcess
      <3>4. CASE outcome = "DONE"
        BY <1>13, <3>4, HandlersArePlain DEF TaskProcess
      <3> QED BY <3>1, <3>2, <3>3, <3>4
    <2>4. InLoop(k)' /\ \A j \in Tasks : j # k => todo'[j] = todo[j]
      BY <2>3, RestOf, <1>0 DEF InLoop
    <2> QED BY <2>1, <2>2, <2>4 DEF Frame, Effect, Works, Quietly, fields, group
  <1>14. ASSUME NEW ok \in BOOLEAN, TaskAlloc(k, ok)
         PROVE  Frame(k) /\ Effect(k)
    <2>1. /\ Ready(k, "do") /\ Arg(k) = "alloc"
          /\ todo' = [todo EXCEPT ![k] = Tail(@)]
          /\ UNCHANGED <<stopping, audio_thread, group, cmdq, at, app>>
      BY <1>14 DEF TaskAlloc, Rest
    <2>2. task_run' = task_run \/ MayFail
      BY <1>14, <1>0 DEF TaskAlloc, TypeOK
    <2>3. /\ todo'[k] = Tail(todo[k])
          /\ \A j \in Tasks : j # k => todo'[j] = todo[j]
          /\ InLoop(k) /\ InLoop(k)' /\ at[k] \notin {"none", "gone"}
      BY <2>1, LoopStep, RestOf, <1>0 DEF InLoop
    <2> QED BY <2>1, <2>2, <2>3 DEF Frame, Effect, Works, Quietly, group
  <1> QED BY <1>1, <1>2, <1>3, <1>4, <1>5, <1>6, <1>7, <1>8, <1>9, <1>10,
             <1>11, <1>12, <1>13, <1>14 DEF TaskStep


-----------------------------------------------------------------------------
(* Types and places, for every value of the constants. *)

\* What a task still has to do is made of steps, whatever it did last.
LEMMA StepsOf ==
  ASSUME Base, NEW k \in Tasks, Frame(k), Effect(k)
  PROVE  todo'[k] \in Seq(Steps)
  <1>1. Seq(Plain) \subseteq Seq(Steps)
    BY PlainSteps, SeqMonotonic
  <1>2. CASE InLoop(k)'
    BY <1>1, <1>2 DEF InLoop
  <1>3. CASE Begins(k)
    BY <1>3, BeginSteps DEF Begins, Started
  <1>4. CASE Receives(k) \/ Quits(k)
    <2>1. todo'[k] \in {From(1), From(3)}
      BY <1>4 DEF Receives, Quits
    <2>2. From(1) \in Seq(Steps) /\ From(3) \in Seq(Steps)
      BY FarewellSteps
    <2> QED BY <2>1, <2>2
  <1>5. ASSUME NEW i \in 1..8, Leaves(k, i)
        PROVE  todo'[k] \in Seq(Steps)
    <2>1. i + 1 \in 1..9
      OBVIOUS
    <2> QED BY <1>5, <2>1, FarewellSteps DEF Leaves
  <1>6. CASE Ends(k)
    BY <1>6, EmptySeq DEF Ends
  <1> QED BY <1>2, <1>3, <1>4, <1>5, <1>6 DEF Effect, Works, Announces

\* A step of a task keeps the types.
LEMMA TaskTypes ==
  ASSUME Base, NEW k \in Tasks, TaskStep(k)
  PROVE  TypeOK'
  <1>0. TypeOK
    BY DEF Base
  <1>1. Frame(k) /\ Effect(k)
    BY TaskEffect
  <1>2. todo' \in [Tasks -> Seq(Steps)]
    <2>1. todo'[k] \in Seq(Steps)
      BY <1>1, StepsOf
    <2>2. \E s : todo' = [todo EXCEPT ![k] = s]
      <3>1. CASE UNCHANGED todo
        BY <3>1, <1>0 DEF TypeOK
      <3>2. CASE TaskTo(k) \/ TaskSet(k) \/ TaskClear(k) \/ TaskField(k) \/
                 TaskClose(k) \/ TaskRings(k) \/ TaskCancel(k)
        <4>1. Rest(k)
          BY <3>2 DEF TaskTo, TaskSet, TaskClear, TaskField, TaskClose,
             TaskRings, TaskCancel
        <4> QED BY <4>1 DEF Rest
      <3>3. CASE TaskEnter(k)
        BY <3>3 DEF TaskEnter
      <3>4. CASE TaskReceive(k)
        BY <3>1, <3>4 DEF TaskReceive
      <3>5. CASE TaskCancelled(k) \/ TaskRun(k)
        BY <3>1, <3>5 DEF TaskCancelled, TaskRun
      <3>6. ASSUME NEW outcome, TaskOpen(k, outcome) \/ TaskProcess(k, outcome)
            PROVE  \E s : todo' = [todo EXCEPT ![k] = s]
        BY <3>6 DEF TaskOpen, TaskProcess
      <3>7. ASSUME NEW ok, TaskAlloc(k, ok)
            PROVE  \E s : todo' = [todo EXCEPT ![k] = s]
        BY <3>7 DEF TaskAlloc, Rest
      <3> QED BY <3>2, <3>3, <3>4, <3>5, <3>6, <3>7 DEF TaskStep
    <2>3. PICK s : todo' = [todo EXCEPT ![k] = s]
      BY <2>2
    <2>4. s \in Seq(Steps)
      BY <1>0, <2>1, <2>3 DEF TypeOK
    <2> QED BY <1>0, <2>3, <2>4 DEF TypeOK
  <1>3. cmdq' \in Seq(Commands) /\ Len(cmdq') <= QLen
    <2>1. cmdq' = cmdq \/ (cmdq # <<>> /\ cmdq' = Tail(cmdq))
      <3>1. ASSUME NEW i \in 1..8, Leaves(k, i)
            PROVE  cmdq' = cmdq
        BY ONLY <3>1, Zenon DEF Leaves
      <3>2. ASSUME Works(k) \/ Receives(k)
            PROVE  cmdq' = cmdq \/ (cmdq # <<>> /\ cmdq' = Tail(cmdq))
        BY ONLY <3>2, Zenon DEF Works, Receives
      <3>3. ASSUME Begins(k) \/ Announces(k) \/ Quits(k) \/ Ends(k)
            PROVE  cmdq' = cmdq
        BY ONLY <3>3 DEF Begins, Announces, Quits, Ends
      <3> QED BY <3>1, <3>2, <3>3, <1>1, Zenon DEF Effect
    <2>2. CASE cmdq' = cmdq
      BY <1>0, <2>2 DEF TypeOK
    <2>3. CASE cmdq # <<>> /\ cmdq' = Tail(cmdq)
      <3>1. cmdq \in Seq(Commands) /\ Len(cmdq) <= QLen /\ Len(cmdq) \in Nat
        BY <1>0, LenProperties DEF TypeOK
      <3>2. Tail(cmdq) \in Seq(Commands) /\ Len(Tail(cmdq)) = Len(cmdq) - 1
        BY <3>1, <2>3, HeadTailProperties
      <3> QED BY <3>1, <3>2, <2>3, AudioElementAssumption
    <2> QED BY <2>1, <2>2, <2>3
  <1>4. /\ at' \in [Tasks -> {"none", "cmd", "run", "process", "gone"}]
        /\ cancelled' \subseteq Tasks
    <2>1. CASE TaskCancel(k)
      <3>1. k <= audio_thread
        BY <2>1, ReadyAt DEF TaskCancel
      <3>2. audio_thread \in Tasks
        BY <3>1, <1>0 DEF Tasks, TypeOK
      <3> QED BY <2>1, <3>2, <1>0 DEF TaskCancel, TypeOK
    <2>2. CASE UNCHANGED <<at, cancelled>>
      BY <2>2, <1>0 DEF TypeOK
    <2>3. CASE TaskTo(k) \/ TaskSet(k) \/ TaskClear(k) \/ TaskField(k) \/
               TaskClose(k) \/ TaskRings(k) \/ TaskEnter(k)
      BY <2>2, <2>3 DEF TaskTo, TaskSet, TaskClear, TaskField, TaskClose,
         TaskRings, TaskEnter
    <2>4. CASE TaskReceive(k) \/ TaskRun(k) \/ TaskCancelled(k)
      BY <2>4, <1>0 DEF TaskReceive, TaskRun, TaskCancelled, TypeOK
    <2>5. ASSUME NEW outcome, TaskOpen(k, outcome) \/ TaskProcess(k, outcome)
          PROVE  /\ at' \in [Tasks -> {"none", "cmd", "run", "process", "gone"}]
                 /\ cancelled' \subseteq Tasks
      BY <2>5, <1>0 DEF TaskOpen, TaskProcess, TypeOK
    <2>6. ASSUME NEW ok, TaskAlloc(k, ok)
          PROVE  UNCHANGED <<at, cancelled>>
      BY <2>6 DEF TaskAlloc
    <2> QED BY <2>1, <2>2, <2>3, <2>4, <2>5, <2>6 DEF TaskStep
  <1>5. /\ state' \in States
        /\ is_open' \in BOOLEAN /\ is_running' \in BOOLEAN
        /\ task_run' \in BOOLEAN /\ stopping' \in BOOLEAN
        /\ out_done' \in BOOLEAN /\ aborted' \subseteq {"in", "out"}
    <2> USE <1>0 DEF TypeOK
    <2>1. CASE TaskTo(k)
      <3>1. Arg(k) \in States
        BY <2>1, LoopStep, PlainArgs DEF TaskTo, Ready, Arg
      <3> QED BY <2>1, <3>1 DEF TaskTo, rings
    <2>2. CASE TaskField(k)
      BY <2>2 DEF TaskField, rings
    <2>3. CASE TaskClose(k)
      <3>1. "STOPPED" \in States
        BY DEF States
      <3> QED BY <2>3, <3>1 DEF TaskClose, rings
    <2>4. CASE TaskRings(k)
      BY <2>4 DEF TaskRings, fields
    <2>5. ASSUME NEW outcome, TaskOpen(k, outcome)
          PROVE  /\ is_open' = TRUE
                 /\ UNCHANGED <<state, is_running, task_run, stopping, rings>>
      BY <2>5 DEF TaskOpen
    <2>6. CASE UNCHANGED <<fields, rings>>
      BY <2>6 DEF fields, rings
    <2>7. CASE TaskSet(k) \/ TaskClear(k) \/ TaskEnter(k) \/ TaskCancel(k) \/
               TaskCancelled(k) \/ TaskReceive(k) \/ TaskRun(k)
      BY <2>6, <2>7 DEF TaskSet, TaskClear, TaskEnter, TaskCancel,
         TaskCancelled, TaskReceive, TaskRun
    <2>8. ASSUME NEW outcome, TaskProcess(k, outcome)
          PROVE  UNCHANGED <<fields, rings>>
      BY <2>8 DEF TaskProcess
    <2>9. ASSUME NEW ok, TaskAlloc(k, ok)
          PROVE  /\ task_run' = (task_run /\ ok)
                 /\ UNCHANGED <<state, is_open, is_running, stopping, rings>>
      BY <2>9 DEF TaskAlloc
    <2> QED BY <2>1, <2>2, <2>3, <2>4, <2>5, <2>6, <2>7, <2>8, <2>9
            DEF TaskStep, rings
  <1>6. Event!TypeOK'
    <2>1. CASE TaskSet(k)
      <3>1. Arg(k) \in EventBits
        <4>1. Head(todo[k]) \in Plain \/ Arg(k) = Created \/
              \E i \in 1..9 : "set" = Farewell[i][1] /\ Arg(k) = Farewell[i][2]
          BY <2>1, ReadyAt DEF TaskSet
        <4>2. ASSUME Head(todo[k]) \in Plain
              PROVE  Arg(k) \in EventBits
          BY <4>2, <2>1, PlainArgs DEF TaskSet, Ready, Arg, EventBits
        <4>3. ASSUME NEW i \in 1..9, "set" = Farewell[i][1],
                     Arg(k) = Farewell[i][2]
              PROVE  Arg(k) \in EventBits
          <5>1. i \in {2, 6, 7, 8}
            BY <4>3, FarewellNames
          <5> QED BY <4>3, <5>1, FarewellNames DEF EventBits
        <4> QED BY <4>1, <4>2, <4>3 DEF EventBits, Created
      <3> QED BY <2>1, <3>1, <1>0, SetWakes DEF TaskSet, TypeOK, Event!TypeOK
    <2>2. CASE TaskClear(k)
      BY <2>2, <1>0 DEF TaskClear, Event!ClearBits, TypeOK, Event!TypeOK
    <2>3. CASE UNCHANGED group
      BY <2>3, <1>0 DEF group, TypeOK, Event!TypeOK
    <2>4. CASE TaskTo(k) \/ TaskField(k) \/ TaskClose(k) \/ TaskRings(k) \/
               TaskEnter(k) \/ TaskCancel(k) \/ TaskCancelled(k) \/
               TaskReceive(k) \/ TaskRun(k)
      BY <2>3, <2>4 DEF TaskTo, TaskField, TaskClose, TaskRings, TaskEnter,
         TaskCancel, TaskCancelled, TaskReceive, TaskRun
    <2>5. ASSUME NEW outcome, TaskOpen(k, outcome) \/ TaskProcess(k, outcome)
          PROVE  UNCHANGED group
      BY <2>5 DEF TaskOpen, TaskProcess
    <2>6. ASSUME NEW ok, TaskAlloc(k, ok)
          PROVE  UNCHANGED group
      BY <2>6 DEF TaskAlloc
    <2> QED BY <2>1, <2>2, <2>3, <2>4, <2>5, <2>6 DEF TaskStep
  <1> QED BY <1>0, <1>1, <1>2, <1>3, <1>4, <1>5, <1>6
          DEF TypeOK, Frame, app


\* A step of a task keeps the shapes, the places and the rest of Base.
LEMMA TaskKeepsBase ==
  ASSUME Base, NEW k \in Tasks, TaskStep(k)
  PROVE  Base'
  <1>1. Frame(k) /\ Effect(k)
    BY TaskEffect
  <1>2. TypeOK /\ TypeOK'
    BY TaskTypes DEF Base
  <1>3. Shapes'
    <2>1. /\ InLoop(k)' \/ Starting(k)' \/ Started(k)' \/ Ending(k)'
          /\ at'[k] = "gone" => todo'[k] = <<>>
      <3>1. CASE Works(k)
        BY <3>1 DEF Works
      <3>2. CASE Begins(k) \/ Announces(k)
        BY <3>2 DEF Begins, Announces
      <3>3. CASE Receives(k) \/ Quits(k)
        BY <3>3 DEF Receives, Quits, Ending
      <3>4. ASSUME NEW i \in 1..8, Leaves(k, i)
            PROVE  Ending(k)' /\ at'[k] # "gone"
        <4>1. i + 1 \in 1..9
          OBVIOUS
        <4> QED BY <3>4, <4>1 DEF Leaves, Ending
      <3>5. CASE Ends(k)
        BY <3>5, EmptySeq DEF Ends, InLoop
      <3> QED BY <1>1, <3>1, <3>2, <3>3, <3>4, <3>5 DEF Effect
    <2>2. k <= audio_thread
      BY <1>1, <1>2 DEF Base, Shapes, Frame, TypeOK, Tasks
    <2>3. /\ audio_thread' = audio_thread
          /\ at'[k] # "none"
          /\ \A j \in Tasks : j # k => todo'[j] = todo[j] /\ at'[j] = at[j]
      BY <1>1 DEF Frame
    <2>4. SUFFICES ASSUME NEW j \in Tasks
                   PROVE  /\ j > audio_thread => at'[j] = "none" /\ todo'[j] = <<>>
                          /\ j <= audio_thread => at'[j] # "none"
                          /\ at'[j] = "gone" => todo'[j] = <<>>
                          /\ \/ InLoop(j)' \/ Starting(j)' \/ Started(j)'
                             \/ Ending(j)'
      BY <2>3 DEF Shapes
    <2>5. CASE j = k
      BY <1>2, <2>1, <2>2, <2>3, <2>5 DEF TypeOK, Tasks
    <2>6. CASE j # k
      <3>1. todo'[j] = todo[j] /\ at'[j] = at[j]
        BY <2>3, <2>6
      <3> QED BY <3>1 DEF Base, Shapes, InLoop, Starting, Started, Ending
    <2> QED BY <2>5, <2>6
  <1>4. Places'
    <2>1. UNCHANGED <<audio_thread, job, apc, freed>>
      BY <1>1 DEF Frame, app
    <2>2. phase["app"] = "out" => phase'["app"] = "out"
      BY <1>1 DEF Frame
    <2> QED BY <2>1, <2>2 DEF Base, Places, Calling
  <1>5. NoTaskNoStop'
    <2>1. UNCHANGED <<audio_thread, job, apc>>
      BY <1>1 DEF Frame, app
    <2>2. audio_thread # 0
      BY <1>1, <1>2 DEF Base, Shapes, Frame, TypeOK, Tasks
    <2> QED BY <2>1, <2>2 DEF Base, NoTaskNoStop, Calling
  <1> QED BY <1>2, <1>3, <1>4, <1>5 DEF Base


-----------------------------------------------------------------------------
(* The steps of the application keep Base. *)

\* What is left of a job: audio_element_deinit goes from stop to wait_for_stop,
\* terminate and free, every other call is alone.
LEMMA JobTails ==
  ASSUME job \in Jobs, job # <<>>
  PROVE  /\ Tail(job) \in Jobs
         /\ Head(job) \in (ApiCalls \ {"deinit"}) \cup {"free"}
         /\ Tail(job) # <<>> =>
              \/ Head(job) = "stop" /\ Head(Tail(job)) = "wait_for_stop"
              \/ Head(job) = "wait_for_stop" /\ Head(Tail(job)) = "terminate"
              \/ Head(job) = "terminate" /\ Head(Tail(job)) = "free"
  <1>1. CASE job \in {<<c>> : c \in ApiCalls \ {"deinit"}}
    <2>1. PICK c \in ApiCalls \ {"deinit"} : job = <<c>>
      BY <1>1
    <2>2. Head(job) = c /\ Tail(job) = <<>>
      BY <2>1
    <2> QED BY <2>1, <2>2 DEF Jobs
  <1>2. CASE job = <<"stop", "wait_for_stop", "terminate", "free">>
    BY <1>2 DEF Jobs, ApiCalls
  <1>3. CASE job = <<"wait_for_stop", "terminate", "free">>
    BY <1>3 DEF Jobs, ApiCalls
  <1>4. CASE job = <<"terminate", "free">>
    BY <1>4 DEF Jobs, ApiCalls
  <1>5. CASE job = <<"free">>
    BY <1>5 DEF Jobs
  <1> QED BY <1>1, <1>2, <1>3, <1>4, <1>5 DEF Jobs

\* Inside a call only apc moves.
LEMMA GoPlaces ==
  ASSUME Base, job # <<>>, NEW next \in PlacesOf(Head(job)), Go(next),
         audio_thread' = audio_thread,
         next # "waiting" => phase'["app"] = "out",
         next \in {"start", "clear", "create"} => apc \in {"start", "clear"}
  PROVE  /\ Places'
         /\ UNCHANGED <<job, last, result, calls, freed>> /\ apc' = next
         /\ \A c : Calling(c)' <=> Calling(c)
  <1>1. UNCHANGED <<job, last, result, calls, freed>> /\ apc' = next
    BY DEF Go
  <1>2. \A c : Calling(c)' <=> Calling(c)
    BY <1>1 DEF Calling
  <1>3. Calling("run") /\ next \in {"start", "clear", "create"} =>
          audio_thread < MaxTasks
    BY DEF Base, Places
  <1> QED BY <1>1, <1>2, <1>3 DEF Base, Places

\* A call that returns leaves the application between two calls, or at the
\* start of the next one of audio_element_deinit.
LEMMA ReturnPlaces ==
  ASSUME Base, job # <<>>, NEW r, Return(r), phase'["app"] = "out"
  PROVE  /\ Places'
         /\ job' = Tail(job) /\ apc' = "start" /\ result' = r
         /\ UNCHANGED <<calls, freed>>
         /\ ~Calling("run")' /\ ~Calling("stop")'
         /\ Calling("terminate")' => Calling("wait_for_stop")
         /\ Calling("free")' => Calling("terminate")
  <1>1. /\ job' = Tail(job) /\ apc' = "start" /\ result' = r
        /\ UNCHANGED <<calls, freed>>
    BY DEF Return
  <1>2. job \in Jobs
    BY DEF Base, Places
  <1>3. job' \in Jobs
    BY <1>1, <1>2, JobTails
  <1>4. /\ ~Calling("run")' /\ ~Calling("stop")'
        /\ Calling("terminate")' => Calling("wait_for_stop")
        /\ Calling("free")' => Calling("terminate")
    BY <1>1, <1>2, JobTails DEF Calling
  <1>5. job' # <<>> => "start" \in PlacesOf(Head(job'))
    BY DEF PlacesOf
  <1>6. Places'
    <2>1. ~freed'
      BY <1>1 DEF Base, Places
    <2> QED BY <1>1, <1>3, <1>4, <1>5, <2>1 DEF Places
  <1> QED BY <1>1, <1>4, <1>6

\* Which calls are at a place inside of a call.
LEMMA AtPlace ==
  ASSUME Base, job # <<>>
  PROVE  /\ apc = "send" => Head(job) \in {"stop", "resume", "terminate", "pause"}
         /\ apc = "clear" => Head(job) \in {"run", "stop", "resume",
                                            "terminate", "pause"}
         /\ apc \in {"wait", "waiting"} =>
              Head(job) \in {"run", "resume", "terminate", "pause",
                             "wait_for_stop", "wait_for_stop_ms"}
         /\ BitOf(Head(job)) \in EventBits
  <1>1. apc \in PlacesOf(Head(job))
    BY DEF Base, Places
  <1> QED BY <1>1 DEF PlacesOf, BitOf, EventBits


\* Calls that do not create a task leave the shapes of the tasks alone.
LEMMA SameShapes ==
  ASSUME Shapes, UNCHANGED <<at, todo, audio_thread>>
  PROVE  Shapes'
  BY DEF Shapes, InLoop, Starting, Started, Ending

\* A step of the application that only moves apc.
LEMMA MoveKeepsBase ==
  ASSUME Base, job # <<>>, NEW next \in PlacesOf(Head(job)), Go(next),
         next \notin {"start", "waiting"}, apc # "waiting",
         next \in {"clear", "create"} => apc \in {"start", "clear"},
         Calling("stop") => task_run \/ apc # "start",
         UNCHANGED <<fields, rings, task>>,
         UNCHANGED group \/ Event!ClearBits({BitOf(Head(job))}),
         cmdq' \in Seq(Commands), Len(cmdq') <= QLen
  PROVE  Base'
  <1>1. /\ phase' = phase /\ Event!TypeOK'
    BY AtPlace DEF group, Event!ClearBits, Event!TypeOK, Base, TypeOK
  <1>2. phase'["app"] = "out"
    BY <1>1 DEF Base, Places
  <1>3. /\ Places'
        /\ UNCHANGED <<job, last, result, calls, freed>> /\ apc' = next
        /\ \A c : Calling(c)' <=> Calling(c)
    BY <1>2, GoPlaces DEF fields
  <1>4. apc' \in {"start", "clear", "create", "send", "wait", "waiting",
                  "force", "mark", "abort", "look", "flag"}
    BY <1>3 DEF PlacesOf
  <1>5. TypeOK'
    BY <1>1, <1>3, <1>4 DEF Base, TypeOK, fields, rings, task
  <1>6. Shapes'
    BY SameShapes DEF Base, fields, task
  <1>7. NoTaskNoStop'
    BY <1>3 DEF Base, NoTaskNoStop, fields, TypeOK
  <1> QED BY <1>3, <1>5, <1>6, <1>7 DEF Base

\* A step of the application that returns from a call.
LEMMA ReturnKeepsBase ==
  ASSUME Base, job # <<>>, NEW r \in {"OK", "FAIL", "TIMEOUT"}, Return(r),
         phase'["app"] = "out", Event!TypeOK',
         UNCHANGED <<is_open, is_running, task_run, audio_thread, task>>,
         cmdq' \in Seq(Commands), Len(cmdq') <= QLen,
         stopping' \in BOOLEAN, stopping' => stopping,
         state' \in States, aborted' \subseteq {"in", "out"},
         out_done' \in BOOLEAN
  PROVE  Base'
  <1>1. /\ Places' /\ apc' = "start" /\ result' = r
        /\ UNCHANGED <<calls, freed>> /\ ~Calling("stop")'
    BY ReturnPlaces
  <1>2. TypeOK'
    BY <1>1 DEF Base, TypeOK, task
  <1>3. Shapes'
    BY SameShapes DEF Base, task
  <1>4. NoTaskNoStop'
    BY <1>1 DEF Base, NoTaskNoStop
  <1> QED BY <1>1, <1>2, <1>3, <1>4 DEF Base

\* A call that returns and changes nothing else.
LEMMA PlainReturn ==
  ASSUME Base, job # <<>>, NEW r \in {"OK", "FAIL", "TIMEOUT"}, Return(r),
         phase'["app"] = "out", Event!TypeOK',
         UNCHANGED <<fields, rings, cmdq, task>>
  PROVE  Base'
  <1>1. /\ UNCHANGED <<is_open, is_running, task_run, audio_thread, task>>
        /\ cmdq' \in Seq(Commands) /\ Len(cmdq') <= QLen
    BY DEF fields, Base, TypeOK
  <1>2. /\ stopping' \in BOOLEAN /\ (stopping' => stopping)
        /\ state' \in States /\ aborted' \subseteq {"in", "out"}
        /\ out_done' \in BOOLEAN
    BY DEF fields, rings, Base, TypeOK
  <1> QED BY <1>1, <1>2, ReturnKeepsBase

\* Every step of the application keeps Base.
LEMMA AppKeepsBase ==
  ASSUME Base, AppStep
  PROVE  Base'
  <1>0. /\ TypeOK /\ Shapes /\ Places /\ NoTaskNoStop
    BY DEF Base
  <1>a. ASSUME apc # "waiting", UNCHANGED group
        PROVE  phase'["app"] = "out" /\ Event!TypeOK'
    BY <1>a, <1>0 DEF Places, group, TypeOK, Event!TypeOK
  <1>c. cmdq \in Seq(Commands) /\ Len(cmdq) <= QLen
    BY <1>0 DEF TypeOK
  <1>1. CASE RunStart
    <2>1. /\ job # <<>> /\ Head(job) = "run" /\ apc = "start"
          /\ UNCHANGED <<fields, group, rings, task>>
      BY <1>1 DEF RunStart, Start, Now
    <2>2. CASE Return("OK") /\ UNCHANGED cmdq
      BY <2>1, <2>2, <1>a, PlainReturn
    <2>3. CASE Go("clear") /\ cmdq' = <<>>
      <3>1. cmdq' \in Seq(Commands) /\ Len(cmdq') <= QLen
        BY <2>3, EmptySeq, AudioElementAssumption
      <3>2. "clear" \in PlacesOf(Head(job)) /\ ~Calling("stop")
        BY <2>1 DEF PlacesOf, Calling
      <3> QED BY <2>1, <2>3, <3>1, <3>2, MoveKeepsBase
    <2> QED BY <1>1, <2>2, <2>3 DEF RunStart
  <1>3. CASE ResumeStart
    <2>1. /\ job # <<>> /\ Head(job) = "resume" /\ apc = "start"
          /\ UNCHANGED <<fields, group, rings, task, cmdq>>
      BY <1>3 DEF ResumeStart, Start, Now
    <2>2. CASE Return("OK") \/ Return("FAIL")
      BY <2>1, <2>2, <1>a, PlainReturn
    <2>3. CASE Go("clear")
      <3>2. "clear" \in PlacesOf(Head(job)) /\ ~Calling("stop")
        BY <2>1 DEF PlacesOf, Calling
      <3> QED BY <2>1, <2>3, <3>2, <1>c, MoveKeepsBase
    <2> QED BY <1>3, <2>2, <2>3 DEF ResumeStart
  <1>4. CASE PauseStart
    <2>1. /\ job # <<>> /\ Head(job) = "pause" /\ apc = "start"
          /\ UNCHANGED <<fields, group, rings, task, cmdq>>
      BY <1>4 DEF PauseStart, Start, Now
    <2>2. CASE Return("FAIL")
      BY <2>1, <2>2, <1>a, PlainReturn
    <2>3. ASSUME NEW next \in {"clear", "force"}, Go(next)
          PROVE  Base'
      <3>2. next \in PlacesOf(Head(job)) /\ ~Calling("stop")
        BY <2>1 DEF PlacesOf, Calling
      <3> QED BY <2>1, <2>3, <3>2, <1>c, MoveKeepsBase
    <2> QED BY <1>4, <2>2, <2>3 DEF PauseStart
  <1>5. CASE PauseForce
    <2>1. /\ job # <<>> /\ Head(job) = "pause" /\ apc = "force"
          /\ state' = "PAUSED" /\ Return("OK")
          /\ UNCHANGED <<is_open, is_running, task_run, stopping, audio_thread,
                         group, cmdq, rings, task>>
      BY <1>5 DEF PauseForce, Now
    <2>2. "PAUSED" \in States
      BY DEF States
    <2> QED BY <2>1, <2>2, <1>a, <1>0, ReturnKeepsBase DEF rings, TypeOK
  <1>6. CASE StopStart
    <2>1. /\ job # <<>> /\ Head(job) = "stop" /\ apc = "start"
          /\ UNCHANGED <<fields, group, rings, task, cmdq>>
      BY <1>6 DEF StopStart, Start, Now
    <2>2. CASE Return("FAIL")
      BY <2>1, <2>2, <1>a, PlainReturn
    <2>3. ASSUME NEW next \in {"abort", "mark"}, Go(next), task_run
          PROVE  Base'
      <3>2. next \in PlacesOf(Head(job))
        BY <2>1 DEF PlacesOf
      <3> QED BY <2>1, <2>3, <3>2, <1>c, MoveKeepsBase
    <2> QED BY <1>6, <2>2, <2>3 DEF StopStart
  <1>7. CASE StopMark
    <2>1. /\ job # <<>> /\ Head(job) = "stop" /\ apc = "mark"
          /\ Event!SetBits({"STOPPED"}) /\ Return("OK")
          /\ UNCHANGED <<fields, cmdq, rings, task>>
      BY <1>7 DEF StopMark, Now
    <2>2. phase'["app"] = "out" /\ Event!TypeOK'
      <3>1. "STOPPED" \in EventBits /\ phase["app"] = "out"
        BY <2>1, <1>0 DEF EventBits, Places
      <3>2. /\ bits' = bits \cup {"STOPPED"} /\ phase'["app"] = "out"
            /\ UNCHANGED <<wanted, clearing, granted>>
            /\ phase' \in [{"app"} -> {"out", "asleep", "awake"}]
        BY <2>1, <1>0, <3>1, SetWakes
      <3> QED BY <3>1, <3>2, <1>0 DEF TypeOK, Event!TypeOK
    <2> QED BY <2>1, <2>2, PlainReturn
  <1>8. CASE StopAbort
    <2>1. /\ job # <<>> /\ Head(job) = "stop" /\ apc = "abort"
          /\ aborted' = {"in", "out"} /\ Go("look")
          /\ UNCHANGED <<fields, group, cmdq, out_done, task>>
      BY <1>8 DEF StopAbort, Now
    <2>2. "look" \in PlacesOf(Head(job))
      BY <2>1 DEF PlacesOf
    <2>3. /\ Places' /\ UNCHANGED <<job, last, result, calls, freed>>
          /\ apc' = "look" /\ \A c : Calling(c)' <=> Calling(c)
      BY <2>1, <2>2, <1>a, GoPlaces DEF fields
    <2>4. TypeOK'
      BY <2>1, <2>3, <1>0, <1>a DEF TypeOK, fields, task
    <2>5. NoTaskNoStop'
      BY <2>1, <2>3, <1>0 DEF NoTaskNoStop, fields
    <2>6. Shapes'
      BY <2>1, <1>0, SameShapes DEF fields, task
    <2> QED BY <2>3, <2>4, <2>5, <2>6 DEF Base
  <1>9. CASE StopLook
    <2>1. /\ job # <<>> /\ Head(job) = "stop" /\ apc = "look"
          /\ UNCHANGED <<fields, group, rings, task, cmdq>>
      BY <1>9 DEF StopLook, Now
    <2>3. CASE Go("flag")
      <3>2. "flag" \in PlacesOf(Head(job))
        BY <2>1 DEF PlacesOf
      <3> QED BY <2>1, <2>3, <3>2, <1>c, MoveKeepsBase
    <2>4. CASE Go("clear")
      <3>1. "clear" \in PlacesOf(Head(job))
        BY <2>1 DEF PlacesOf
      <3>2. /\ Places' /\ UNCHANGED <<job, last, result, calls, freed>>
            /\ apc' = "clear" /\ \A c : Calling(c)' <=> Calling(c)
        <4>1. /\ job' = job /\ apc' = "clear"
              /\ UNCHANGED <<last, result, calls, freed>>
          BY <2>4 DEF Go
        <4>2. phase'["app"] = "out" /\ audio_thread' = audio_thread
          BY <2>1, <1>a DEF fields
        <4> QED BY <4>1, <4>2, <3>1, <2>1, <1>0 DEF Places, Calling
      <3>4. TypeOK'
        BY <2>1, <3>2, <1>0, <1>a DEF TypeOK, fields, task, rings
      <3>5. NoTaskNoStop'
        BY <2>1, <3>2, <1>0 DEF NoTaskNoStop, fields
      <3>6. Shapes'
        BY <2>1, <1>0, SameShapes DEF fields, task
      <3> QED BY <3>2, <3>4, <3>5, <3>6 DEF Base
    <2> QED BY <1>9, <2>3, <2>4 DEF StopLook
  <1>10. CASE StopFlag
    <2>1. /\ job # <<>> /\ Head(job) = "stop" /\ apc = "flag"
          /\ stopping' = TRUE
          /\ UNCHANGED <<state, is_open, is_running, task_run, audio_thread,
                         group, cmdq, rings, task>>
      BY <1>10 DEF StopFlag, Now
    <2>2. phase'["app"] = "out" /\ Event!TypeOK'
      BY <2>1, <1>a
    <2>3. /\ Places' /\ UNCHANGED <<calls, freed>>
          /\ result' \in {"none", "OK", "FAIL", "TIMEOUT"}
          /\ apc' \in {"start", "send"}
      <3>1. CASE Return("OK")
        BY <2>1, <2>2, <3>1, ReturnPlaces
      <3>2. CASE Go("send")
        <4>1. "send" \in PlacesOf(Head(job))
          BY <2>1 DEF PlacesOf
        <4> QED BY <2>1, <2>2, <3>2, <4>1, <1>0, GoPlaces DEF TypeOK
      <3> QED BY <1>10, <3>1, <3>2 DEF StopFlag
    <2>4. TypeOK'
      BY <2>1, <2>2, <2>3, <1>0 DEF TypeOK, rings, task
    <2>5. NoTaskNoStop'
      <3>1. audio_thread > 0
        BY <2>1, <1>0 DEF NoTaskNoStop, Calling
      <3> QED BY <2>1, <3>1, <1>0 DEF NoTaskNoStop, TypeOK
    <2>6. Shapes'
      BY <2>1, <1>0, SameShapes DEF task
    <2> QED BY <2>3, <2>4, <2>5, <2>6 DEF Base
  <1>11. CASE WaitStart
    <2>1. /\ job # <<>> /\ Head(job) \in {"wait_for_stop", "wait_for_stop_ms"}
          /\ apc = "start"
          /\ UNCHANGED <<fields, group, rings, task, cmdq>>
      BY <1>11 DEF WaitStart, Start, Now
    <2>2. CASE Return("OK") \/ Return("FAIL")
      BY <2>1, <2>2, <1>a, PlainReturn
    <2>3. CASE Go("wait")
      <3>2. "wait" \in PlacesOf(Head(job)) /\ ~Calling("stop")
        BY <2>1 DEF PlacesOf, Calling
      <3> QED BY <2>1, <2>3, <3>2, <1>c, MoveKeepsBase
    <2> QED BY <1>11, <2>2, <2>3 DEF WaitStart
  <1>12. CASE TerminateStart
    <2>1. /\ job # <<>> /\ Head(job) = "terminate" /\ apc = "start"
          /\ UNCHANGED <<fields, group, rings, task, cmdq>>
      BY <1>12 DEF TerminateStart, Start, Now
    <2>2. CASE Return("OK")
      BY <2>1, <2>2, <1>a, PlainReturn
    <2>3. CASE Go("clear")
      <3>2. "clear" \in PlacesOf(Head(job)) /\ ~Calling("stop")
        BY <2>1 DEF PlacesOf, Calling
      <3> QED BY <2>1, <2>3, <3>2, <1>c, MoveKeepsBase
    <2> QED BY <1>12, <2>2, <2>3 DEF TerminateStart
  <1>13. CASE ClearBit
    <2>1. /\ job # <<>> /\ apc = "clear"
          /\ Event!ClearBits({BitOf(Head(job))})
          /\ UNCHANGED <<fields, cmdq, rings, task>>
      BY <1>13 DEF ClearBit
    <2>2. PICK next \in {"create", "flag", "send"} :
            /\ Go(next)
            /\ next = "create" <=> Now("run")
            /\ next = "flag" <=> Now("stop")
      BY <1>13 DEF ClearBit, Now
    <2>3. Now("run") => Head(job) = "run"
      BY DEF Now
    <2>4. next \in PlacesOf(Head(job)) /\ next # "start"
      <3>1. ~freed
        BY <2>1, <1>0 DEF Places
      <3> QED BY <2>1, <2>2, <3>1, AtPlace DEF PlacesOf, Now
    <2> QED BY <2>1, <2>2, <2>4, <1>c, MoveKeepsBase
  <1>14. CASE Send
    <2>1. /\ job # <<>> /\ apc = "send"
          /\ UNCHANGED <<state, is_open, is_running, task_run, audio_thread,
                         group, rings, task>>
      BY <1>14 DEF Send
    <2>2. Head(job) \in {"stop", "resume", "terminate", "pause"}
      BY <2>1, AtPlace
    <2>3. phase'["app"] = "out" /\ Event!TypeOK'
      BY <2>1, <1>a
    <2>4. CmdOf[Head(job)] \in Commands
      BY <2>2 DEF CmdOf, Commands
    <2>5. CASE Len(cmdq) < QLen
      <3>1. /\ cmdq' = Append(cmdq, CmdOf[Head(job)]) /\ UNCHANGED stopping
            /\ Return("OK") \/ (Go("wait") /\ ~Now("stop"))
        BY <1>14, <2>5 DEF Send
      <3>2. cmdq' \in Seq(Commands) /\ Len(cmdq') <= QLen
        BY <3>1, <2>4, <2>5, <1>c, AppendProperties, AudioElementAssumption
      <3>3. CASE Return("OK")
        BY <2>1, <2>3, <3>1, <3>2, <3>3, <1>0, ReturnKeepsBase DEF TypeOK, rings
      <3>4. CASE Go("wait") /\ ~Now("stop")
        <4>1. Head(job) # "stop" /\ ~Calling("stop")
          BY <2>1, <3>4, <1>0 DEF Now, Places, Calling
        <4>2. "wait" \in PlacesOf(Head(job))
          BY <2>2, <4>1 DEF PlacesOf
        <4>3. UNCHANGED fields
          BY <2>1, <3>1 DEF fields
        <4> QED BY <2>1, <3>2, <3>4, <4>1, <4>2, <4>3, MoveKeepsBase
      <3> QED BY <3>1, <3>3, <3>4
    <2>6. CASE ~(Len(cmdq) < QLen)
      <3>1. /\ stopping' = (stopping /\ ~Now("stop")) /\ Return("FAIL")
            /\ cmdq' = cmdq
        BY <1>14, <2>6 DEF Send
      <3> QED BY <2>1, <2>3, <3>1, <1>0, ReturnKeepsBase DEF TypeOK, rings
    <2> QED BY <2>5, <2>6
  <1>15. CASE Wait
    <2>1. /\ job # <<>> /\ apc = "wait" /\ Go("waiting")
          /\ Event!WaitBits("app", BitOf(Head(job)), FALSE)
          /\ UNCHANGED <<fields, cmdq, rings, task>>
      BY <1>15 DEF Wait
    <2>2. "waiting" \in PlacesOf(Head(job))
      BY <2>1, AtPlace DEF PlacesOf
    <2>3. /\ Places' /\ UNCHANGED <<job, last, result, calls, freed>>
          /\ apc' = "waiting" /\ \A c : Calling(c)' <=> Calling(c)
      BY <2>1, <2>2, GoPlaces DEF fields
    <2>4. Event!TypeOK'
      BY <2>1, <1>0, AtPlace DEF Event!WaitBits, TypeOK, Event!TypeOK
    <2>5. TypeOK'
      BY <2>1, <2>3, <2>4, <1>0 DEF TypeOK, fields, rings, task
    <2>6. Shapes'
      BY <2>1, <1>0, SameShapes DEF fields, task
    <2>7. NoTaskNoStop'
      BY <2>1, <2>3, <1>0 DEF NoTaskNoStop, fields
    <2> QED BY <2>3, <2>5, <2>6, <2>7 DEF Base
  <1>16. CASE GroupStep
    <2>1. /\ UNCHANGED <<fields, cmdq, rings, task, app>>
          /\ Event!Expire("app") \/ Event!WaitReturn("app")
      BY <1>16 DEF GroupStep
    <2>2. Event!TypeOK' /\ phase["app"] # "out"
      <3>1. CASE Event!Expire("app")
        BY <3>1, <1>0 DEF Event!Expire, TypeOK, Event!TypeOK
      <3>2. CASE Event!WaitReturn("app")
        BY <3>2, <1>0 DEF Event!WaitReturn, TypeOK, Event!TypeOK
      <3> QED BY <2>1, <3>1, <3>2
    <2>3. apc' = "waiting"
      BY <2>1, <2>2, <1>0 DEF Places, app
    <2> QED BY <2>1, <2>2, <2>3, <1>0, SameShapes
            DEF Base, TypeOK, Places, NoTaskNoStop, Calling, fields, rings,
                task, app
  <1>17. CASE WaitEnd
    <2>1. /\ job # <<>> /\ phase["app"] = "out"
          /\ UNCHANGED <<fields, group, cmdq, rings, task>>
      BY <1>17 DEF WaitEnd
    <2>2. PICK r \in {"OK", "FAIL", "TIMEOUT"} : Return(r)
      BY <1>17 DEF WaitEnd
    <2>3. phase'["app"] = "out" /\ Event!TypeOK'
      BY <2>1, <1>0 DEF group, TypeOK, Event!TypeOK
    <2> QED BY <2>1, <2>2, <2>3, PlainReturn
  <1>18. CASE ResetState
    <2>1. /\ job # <<>> /\ apc = "start" /\ state' = "INIT" /\ Return("OK")
          /\ UNCHANGED <<is_open, is_running, task_run, stopping, audio_thread,
                         group, cmdq, rings, task>>
      BY <1>18 DEF ResetState, Start, Now
    <2>2. "INIT" \in States
      BY DEF States
    <2> QED BY <2>1, <2>2, <1>a, <1>0, ReturnKeepsBase DEF rings, TypeOK
  <1>19. CASE ResetRings
    <2>1. /\ job # <<>> /\ apc = "start" /\ Return("OK")
          /\ aborted' = {} /\ out_done' = FALSE
          /\ UNCHANGED <<fields, group, cmdq, task>>
      BY <1>19 DEF ResetRings, Start, Now
    <2> QED BY <2>1, <1>a, <1>0, ReturnKeepsBase DEF fields, TypeOK
  <1>20. CASE Free
    <2>1. /\ job # <<>> /\ apc = "start" /\ freed' = TRUE /\ job' = <<>>
          /\ result' = "OK"
          /\ UNCHANGED <<fields, group, cmdq, rings, task, apc, calls>>
      BY <1>20 DEF Free, Start, Now
    <2>2. Places'
      BY <2>1, <1>0 DEF Places, Jobs, Calling, group
    <2>3. TypeOK'
      BY <2>1, <1>0 DEF TypeOK, Event!TypeOK, fields, group, rings, task
    <2> QED BY <2>1, <2>2, <2>3, <1>0, SameShapes
            DEF Base, NoTaskNoStop, Calling, fields, task
  <1>21. CASE RunCreate
    <2>1. /\ job # <<>> /\ Head(job) = "run" /\ apc = "create"
          /\ audio_thread' = audio_thread + 1
          /\ at' = [at EXCEPT ![audio_thread + 1] = "cmd"]
          /\ todo' = [todo EXCEPT ![audio_thread + 1] = TaskStart]
          /\ apc' = "wait"
          /\ UNCHANGED <<job, last, result, calls, freed>>
          /\ UNCHANGED <<state, is_open, is_running, task_run, stopping, group,
                         cmdq, rings, cancelled>>
      BY <1>21 DEF RunCreate, Now, Go
    <2>2. audio_thread < MaxTasks /\ audio_thread + 1 \in Tasks
      BY <2>1, <1>0, AudioElementAssumption DEF Places, Calling, Tasks, TypeOK
    <2>3. Places'
      BY <2>1, <1>0 DEF Places, Calling, PlacesOf, group
    <2>4. TypeOK'
      <3>1. todo' \in [Tasks -> Seq(Steps)]
        BY <2>1, <1>0, BeginSteps DEF TypeOK
      <3>2. at' \in [Tasks -> {"none", "cmd", "run", "process", "gone"}]
        BY <2>1, <1>0 DEF TypeOK
      <3>3. audio_thread' \in 0..MaxTasks
        BY <2>1, <2>2, <1>0, AudioElementAssumption DEF TypeOK
      <3> QED BY <2>1, <3>1, <3>2, <3>3, <1>0
              DEF TypeOK, Event!TypeOK, group, rings
    <2>5. Shapes'
      <3> SUFFICES ASSUME NEW j \in Tasks
                   PROVE  /\ j > audio_thread' => at'[j] = "none" /\ todo'[j] = <<>>
                          /\ j <= audio_thread' => at'[j] # "none"
                          /\ at'[j] = "gone" => todo'[j] = <<>>
                          /\ \/ InLoop(j)' \/ Starting(j)' \/ Started(j)'
                             \/ Ending(j)'
        BY DEF Shapes
      <3>1. CASE j = audio_thread + 1
        <4>1. at'[j] = "cmd" /\ todo'[j] = TaskStart /\ ~(j > audio_thread')
          BY <2>1, <2>2, <3>1, <1>0 DEF TypeOK
        <4> QED BY <4>1 DEF Starting
      <3>2. CASE j # audio_thread + 1
        <4>1. at'[j] = at[j] /\ todo'[j] = todo[j]
          BY <2>1, <2>2, <3>2, <1>0 DEF TypeOK
        <4>2. /\ j > audio_thread' => j > audio_thread
              /\ j <= audio_thread' => j <= audio_thread
          BY <2>1, <3>2, <1>0 DEF TypeOK, Tasks
        <4> QED BY <4>1, <4>2, <1>0
                DEF Shapes, InLoop, Starting, Started, Ending
      <3> QED BY <3>1, <3>2
    <2>6. NoTaskNoStop'
      BY <2>1, <1>0 DEF NoTaskNoStop, Calling, TypeOK
    <2> QED BY <2>3, <2>4, <2>5, <2>6 DEF Base
  <1> QED BY <1>1, <1>3, <1>4, <1>5, <1>6, <1>7, <1>8, <1>9, <1>10, <1>11,
             <1>12, <1>13, <1>14, <1>15, <1>16, <1>17, <1>18, <1>19, <1>20,
             <1>21 DEF AppStep


\* The application begins a call.
LEMMA CallKeepsBase ==
  ASSUME Base, NEW c \in Calls, Call(c)
  PROVE  /\ Base'
         /\ apc' = "start" /\ job = <<>>
         /\ ~Calling("free")'
         /\ UNCHANGED <<fields, group, cmdq, rings, task, result>>
  <1>1. /\ ~freed /\ job = <<>> /\ calls < MaxCalls
        /\ c = "run" => audio_thread < MaxTasks
        /\ job' = IF c = "deinit"
                  THEN <<"stop", "wait_for_stop", "terminate", "free">>
                  ELSE <<c>>
        /\ calls' = calls + 1
        /\ UNCHANGED <<fields, group, cmdq, rings, task, apc, last, result,
                       freed>>
    BY DEF Call
  <1>2. c \in ApiCalls
    BY AudioElementAssumption
  <1>3. /\ job' \in Jobs /\ job' # <<>>
        /\ Head(job') = IF c = "deinit" THEN "stop" ELSE c
    <2>1. CASE c = "deinit"
      BY <1>1, <2>1 DEF Jobs
    <2>2. CASE c # "deinit"
      <3>1. job' = <<c>>
        BY <1>1, <2>2
      <3> QED BY <3>1, <1>2, <2>2 DEF Jobs
    <2> QED BY <2>1, <2>2
  <1>4. apc' = "start" /\ phase'["app"] = "out"
    BY <1>1 DEF Base, Places, group
  <1>5. "start" \in PlacesOf(Head(job'))
    BY DEF PlacesOf
  <1>6. Places'
    BY <1>1, <1>3, <1>4, <1>5 DEF Places, Calling, fields
  <1>7. TypeOK'
    BY <1>1, AudioElementAssumption
       DEF Base, TypeOK, Event!TypeOK, fields, group, rings, task
  <1>8. Shapes'
    BY <1>1, SameShapes DEF Base, fields, task
  <1>9. NoTaskNoStop'
    BY <1>1, <1>4 DEF Base, NoTaskNoStop, fields
  <1>10. ~Calling("free")'
    BY <1>2, <1>3 DEF Calling, ApiCalls
  <1> QED BY <1>1, <1>4, <1>6, <1>7, <1>8, <1>9, <1>10 DEF Base

\* The element as audio_element_init leaves it.
LEMMA InitBase ==
  ASSUME Init
  PROVE  Base
  <1>1. TypeOK
    <2>1. \A k \in Tasks : todo[k] = <<>> /\ at[k] = "none"
      BY DEF Init
    <2>2. todo \in [Tasks -> Seq(Steps)]
      BY EmptySeq DEF Init
    <2>3. cmdq \in Seq(Commands) /\ Len(cmdq) <= QLen
      BY EmptySeq, AudioElementAssumption DEF Init
    <2>4. Event!TypeOK
      BY DEF Init, Event!TypeOK, EventBits
    <2>5. /\ at \in [Tasks -> {"none", "cmd", "run", "process", "gone"}]
          /\ cancelled \subseteq Tasks /\ aborted \subseteq {"in", "out"}
      BY DEF Init
    <2>6. /\ audio_thread \in 0..MaxTasks /\ calls \in 0..MaxCalls
          /\ state \in States
      BY AudioElementAssumption DEF Init, States
    <2>7. /\ is_open \in BOOLEAN /\ is_running \in BOOLEAN
          /\ task_run \in BOOLEAN /\ stopping \in BOOLEAN
          /\ out_done \in BOOLEAN /\ freed \in BOOLEAN
          /\ apc = "start" /\ result = "none"
      BY DEF Init
    <2> QED BY <2>2, <2>3, <2>4, <2>5, <2>6, <2>7 DEF TypeOK
  <1>2. Shapes
    BY EmptySeq DEF Init, Shapes, InLoop, Tasks
  <1>3. Places
    BY DEF Init, Places, Jobs, Calling
  <1>4. NoTaskNoStop
    BY DEF Init, NoTaskNoStop, Calling
  <1> QED BY <1>1, <1>2, <1>3, <1>4 DEF Base

\* Every step keeps Base.
LEMMA NextKeepsBase ==
  ASSUME Base, [Next]_vars
  PROVE  Base'
  <1>1. CASE UNCHANGED vars
    <2>1. UNCHANGED <<state, is_open, is_running, task_run, stopping,
                      audio_thread, bits, phase, wanted, clearing, granted,
                      cmdq, aborted, out_done, at, todo, cancelled, job, apc,
                      last, result, calls, freed>>
      BY <1>1 DEF vars, fields, group, rings, task, app
    <2>2. TypeOK'
      BY <2>1 DEF Base, TypeOK, Event!TypeOK
    <2>3. Shapes'
      BY <2>1, SameShapes DEF Base
    <2>4. Places' /\ NoTaskNoStop'
      BY <2>1 DEF Base, Places, NoTaskNoStop, Calling
    <2> QED BY <2>2, <2>3, <2>4 DEF Base
  <1>2. ASSUME NEW k \in Tasks, TaskStep(k)
        PROVE  Base'
    BY <1>2, TaskKeepsBase
  <1>3. ASSUME NEW c \in Calls, Call(c)
        PROVE  Base'
    BY <1>3, CallKeepsBase
  <1>4. CASE AppStep
    BY <1>4, AppKeepsBase
  <1> QED BY <1>1, <1>2, <1>3, <1>4 DEF Next

\* Type correctness of struct audio_element, its queue, its event group and its
\* tasks, with or without waits that expire: among others the command queue
\* never holds more than internal_queue_size commands.
THEOREM ElementTypes == Spec => []TypeOK
  <1>1. Init => Base
    BY InitBase
  <1>2. Base /\ [Next]_vars => Base'
    BY NextKeepsBase
  <1>3. Base => TypeOK
    BY DEF Base
  <1> QED BY <1>1, <1>2, <1>3, PTL DEF Spec


-----------------------------------------------------------------------------
(* The handshake. *)

\* The parts of the life of a task exclude each other.
LEMMA OnePart ==
  ASSUME NEW k \in Tasks
  PROVE  /\ \A i \in 1..9 : todo[k] = From(i) =>
              /\ ~InLoop(k) /\ ~Starting(k) /\ ~Started(k) /\ Ending(k)
              /\ \A j \in 1..9 : todo[k] = From(j) => i = j
         /\ ~(InLoop(k) /\ Starting(k)) /\ ~(InLoop(k) /\ Started(k))
         /\ ~(Starting(k) /\ Started(k))
  BY FarewellSteps, BeginSteps DEF InLoop, Starting, Started, Ending

\* What the head of the command queue says about the rest.
LEMMA DestroyTail ==
  ASSUME TypeOK, OneDestroy, cmdq # <<>>, cmdq' = Tail(cmdq)
  PROVE  /\ Queued("DESTROY")' => Queued("DESTROY")
         /\ Head(cmdq) # "DESTROY" =>
              (Queued("DESTROY") => Queued("DESTROY")')
         /\ Head(cmdq) = "DESTROY" =>
              Queued("DESTROY") /\ ~Queued("DESTROY")'
         /\ OneDestroy'
  <1>1. /\ cmdq \in Seq(Commands) /\ cmdq' \in Seq(Commands)
        /\ Len(cmdq) \in Nat /\ Len(cmdq) >= 1
        /\ Len(cmdq') = Len(cmdq) - 1
        /\ DOMAIN cmdq = 1..Len(cmdq) /\ DOMAIN cmdq' = 1..Len(cmdq')
        /\ \A i \in 1..Len(cmdq') : cmdq'[i] = cmdq[i + 1]
        /\ Head(cmdq) = cmdq[1]
    BY HeadTailProperties, LenProperties, EmptySeq DEF TypeOK
  <1>2. \A i \in DOMAIN cmdq' : i + 1 \in DOMAIN cmdq /\ cmdq'[i] = cmdq[i + 1]
    BY <1>1
  <1>3. \A i \in DOMAIN cmdq : i # 1 => i - 1 \in DOMAIN cmdq' /\ (i - 1) + 1 = i
    BY <1>1
  <1>4. 1 \in DOMAIN cmdq
    BY <1>1
  <1>5. Queued("DESTROY")' => Queued("DESTROY")
    BY <1>2 DEF Queued
  <1>6. ASSUME Head(cmdq) # "DESTROY", Queued("DESTROY")
        PROVE  Queued("DESTROY")'
    <2>1. PICK i \in DOMAIN cmdq : cmdq[i] = "DESTROY"
      BY <1>6 DEF Queued
    <2>2. i - 1 \in DOMAIN cmdq' /\ cmdq'[i - 1] = cmdq[i]
      BY <1>1, <1>2, <1>3, <1>6, <2>1
    <2> QED BY <2>1, <2>2 DEF Queued
  <1>7. ASSUME Head(cmdq) = "DESTROY"
        PROVE  Queued("DESTROY") /\ ~Queued("DESTROY")'
    <2>1. ASSUME NEW i \in DOMAIN cmdq', cmdq'[i] = "DESTROY"
          PROVE  FALSE
      <3>1. i + 1 \in DOMAIN cmdq /\ cmdq[i + 1] = "DESTROY"
        BY <1>2, <2>1
      <3>2. i + 1 = 1
        BY <1>1, <1>4, <1>7, <3>1 DEF OneDestroy
      <3> QED BY <1>1, <3>2
    <2> QED BY <1>1, <1>4, <1>7, <2>1 DEF Queued
  <1>8. OneDestroy'
    <2> SUFFICES ASSUME NEW i \in DOMAIN cmdq', NEW j \in DOMAIN cmdq',
                        cmdq'[i] = "DESTROY", cmdq'[j] = "DESTROY"
                 PROVE  i = j
      BY DEF OneDestroy
    <2>1. i + 1 = j + 1
      BY <1>2 DEF OneDestroy
    <2> QED BY <2>1, <1>1
  <1> QED BY <1>5, <1>6, <1>7, <1>8

\* What a command that is sent adds.
LEMMA DestroyAppend ==
  ASSUME TypeOK, OneDestroy, NEW c \in Commands, cmdq' = Append(cmdq, c)
  PROVE  /\ c = "DESTROY" => Queued("DESTROY")'
         /\ c # "DESTROY" => (Queued("DESTROY")' <=> Queued("DESTROY"))
         /\ c # "DESTROY" \/ ~Queued("DESTROY") => OneDestroy'
  <1>1. /\ cmdq \in Seq(Commands) /\ cmdq' \in Seq(Commands)
        /\ Len(cmdq) \in Nat
        /\ Len(cmdq') = Len(cmdq) + 1
        /\ DOMAIN cmdq = 1..Len(cmdq) /\ DOMAIN cmdq' = 1..Len(cmdq')
        /\ \A i \in 1..Len(cmdq) : cmdq'[i] = cmdq[i]
        /\ cmdq'[Len(cmdq) + 1] = c
    BY AppendProperties, LenProperties DEF TypeOK
  <1>2. \A i \in DOMAIN cmdq' : i \in DOMAIN cmdq \/ i = Len(cmdq) + 1
    BY <1>1
  <1>3. \A i \in DOMAIN cmdq : i \in DOMAIN cmdq' /\ cmdq'[i] = cmdq[i]
    BY <1>1
  <1>4. Len(cmdq) + 1 \in DOMAIN cmdq'
    BY <1>1
  <1>5. c = "DESTROY" => Queued("DESTROY")'
    BY <1>1, <1>4 DEF Queued
  <1>6. c # "DESTROY" => (Queued("DESTROY")' <=> Queued("DESTROY"))
    BY <1>1, <1>2, <1>3 DEF Queued
  <1>7. c # "DESTROY" \/ ~Queued("DESTROY") => OneDestroy'
    BY <1>1, <1>2, <1>3 DEF Queued, OneDestroy
  <1> QED BY <1>5, <1>6, <1>7

\* A call goes on waiting while its bit is left alone.
LEMMA PendingStays ==
  ASSUME NEW c \in {"run", "terminate"}, Pending(c), UNCHANGED <<app, wanted>>,
         BitOf(c) \notin bits',
         phase'["app"] = phase["app"] \/ wanted["app"] # BitOf(c)
  PROVE  Pending(c)'
  BY DEF Pending, Calling, app

\* The bits of the two calls of the handshake.
LEMMA HandshakeBits ==
  BitOf("run") = Created /\ BitOf("terminate") = Destroyed
  BY DEF BitOf, Created, Destroyed

\* A task that is not the current one only ends.
LEMMA OldTasksEnd ==
  ASSUME Base, Creation, NEW k \in Tasks, Frame(k), Effect(k), ~Ends(k)
  PROVE  k = audio_thread
  <1>1. k <= audio_thread /\ audio_thread \in Nat /\ k \in Nat
    BY AudioElementAssumption DEF Frame, Base, Shapes, TypeOK, Tasks
  <1>2. ASSUME Left(k)
        PROVE  FALSE
    <2>1. todo[k] = From(9)
      BY <1>2 DEF Left, Frame
    <2>2. ~InLoop(k) /\ ~Starting(k) /\ ~Started(k)
          /\ \A j \in 1..8 : todo[k] # From(j)
      BY <2>1, OnePart
    <2>3. ASSUME NEW j \in 1..8, Leaves(k, j)
          PROVE  FALSE
      BY <2>2, <2>3 DEF Leaves
    <2> QED BY <2>2, <2>3 DEF Effect, Works, Begins, Announces, Receives, Quits
  <1> QED BY <1>1, <1>2 DEF Creation


\* A step of the current task leaves its predecessors where they are.
LEMMA OldTasksStay ==
  ASSUME Creation, NEW k \in Tasks, k = audio_thread, Frame(k)
  PROVE  \A j \in Tasks : j < audio_thread' => Left(j)'
  <1> SUFFICES ASSUME NEW j \in Tasks, j < audio_thread'
               PROVE  Left(j)'
    OBVIOUS
  <1>1. j # k /\ j < audio_thread
    BY AudioElementAssumption DEF Frame, Tasks
  <1>2. Left(j) /\ todo'[j] = todo[j] /\ at'[j] = at[j]
    BY <1>1 DEF Creation, Frame
  <1> QED BY <1>2 DEF Left

\* The handshake survives a step in the loop.
LEMMA WorksKeepsHandshake ==
  ASSUME ~MayFail, IInv, NEW k \in Tasks, k = audio_thread, Frame(k), Works(k)
  PROVE  Handshake'
  <1>0. /\ Creation /\ Destruction /\ NoEndWhileStopping /\ FreeAfterEnd
        /\ TypeOK
    BY DEF IInv, Handshake, Base
  <1>1. /\ InLoop(k) /\ InLoop(k)' /\ at[k] # "gone"
        /\ task_run' = task_run /\ (stopping' => stopping)
        /\ UNCHANGED <<audio_thread, app, wanted>>
    BY DEF Works, Frame, IInv, Base, TypeOK
  <1>2. /\ Created \in bits' <=> Created \in bits
        /\ Destroyed \in bits' <=> Destroyed \in bits
        /\ phase'["app"] = phase["app"] \/ wanted["app"] \notin {Created, Destroyed}
    BY DEF Works, Quietly
  <1>3. /\ Pending("run") => Pending("run")'
        /\ Pending("terminate") => Pending("terminate")'
    BY <1>1, <1>2, PendingStays, HandshakeBits DEF Pending
  <1>4. \A i \in 1..9 : todo[k] # From(i) /\ todo'[k] # From(i)
    BY <1>1, FarewellSteps DEF InLoop
  <1>5. ~Starting(k)' /\ ~Started(k)' /\ ~Left(k) /\ ~Ending(k)
    BY <1>1, <1>4, BeginSteps DEF InLoop, Starting, Started, Left, Ending
  <1>6. /\ Queued("DESTROY")' <=> Queued("DESTROY")
        /\ OneDestroy'
    <2>1. CASE cmdq' = cmdq
      BY <2>1, <1>0 DEF Queued, OneDestroy, Destruction
    <2>2. CASE cmdq # <<>> /\ Head(cmdq) # "DESTROY" /\ cmdq' = Tail(cmdq)
      BY <2>2, <1>0, DestroyTail DEF Destruction
    <2> QED BY <2>1, <2>2 DEF Works
  <1>7. \A c : Calling(c)' <=> Calling(c)
    BY <1>1 DEF Calling, app
  <1>8. apc' = apc /\ result' = result
    BY <1>1 DEF app
  <1>9. Creation'
    <2>1. \A j \in Tasks : j < audio_thread' => Left(j)'
      BY <1>0, OldTasksStay
    <2>2. task_run'
      BY <1>0, <1>1 DEF Creation
    <2> QED BY <1>0, <1>1, <1>2, <1>5, <1>7, <1>8, <2>1, <2>2
            DEF Creation, Created
  <1>10. Destruction'
    <2>1. Calling("terminate") /\ apc \in {"wait", "waiting"} => Queued("DESTROY")
      BY <1>0, <1>5 DEF Destruction
    <2> QED BY <1>0, <1>1, <1>2, <1>3, <1>4, <1>6, <1>7, <1>8, <2>1
            DEF Destruction, Destroyed
  <1>11. NoEndWhileStopping'
    BY <1>0, <1>1, <1>7, <1>8 DEF NoEndWhileStopping
  <1>12. FreeAfterEnd'
    <2>1. ~(Calling("free") /\ result # "FAIL")
      <3>1. k <= audio_thread
        BY AudioElementAssumption DEF Tasks
      <3> QED BY <1>0, <1>5, <3>1 DEF FreeAfterEnd
    <2> QED BY <1>7, <1>8, <2>1 DEF FreeAfterEnd
  <1> QED BY <1>9, <1>10, <1>11, <1>12 DEF Handshake

\* It survives the first two steps of a task.
LEMMA BeginKeepsHandshake ==
  ASSUME IInv, NEW k \in Tasks, k = audio_thread, Frame(k),
         Begins(k) \/ Announces(k)
  PROVE  Handshake'
  <1>0. /\ Creation /\ Destruction /\ NoEndWhileStopping /\ FreeAfterEnd
        /\ TypeOK
    BY DEF IInv, Handshake, Base
  <1>1. /\ at'[k] # "gone" /\ at[k] # "gone"
        /\ UNCHANGED <<audio_thread, app, wanted, stopping, cmdq>>
        /\ task_run'
        /\ Starting(k) \/ Started(k)
    BY <1>0 DEF Begins, Announces, Frame, Creation
  <1>2. Pending("run")
    BY <1>0, <1>1 DEF Creation
  <1>3. /\ Calling("run") /\ apc \in {"wait", "waiting"}
        /\ ~Calling("terminate") /\ ~Calling("stop") /\ ~Calling("free")
    BY <1>2 DEF Pending, Calling
  <1>4. \A c : Calling(c)' <=> Calling(c)
    BY <1>1 DEF Calling, app
  <1>5. apc' = apc
    BY <1>1 DEF app
  <1>6. Started(k)' \/ InLoop(k)'
    BY DEF Begins, Announces
  <1>7. \A i \in 1..9 : todo'[k] # From(i)
    BY <1>6, FarewellSteps DEF Started, InLoop
  <1>8. ~Starting(k)' /\ ~(Started(k)' /\ InLoop(k)')
    BY <1>6, BeginSteps DEF Started, InLoop, Starting
  <1>9. ~Queued("DESTROY")
    BY <1>0, <1>3 DEF Destruction, Pending
  <1>10. Creation'
    <2>1. \A j \in Tasks : j < audio_thread' => Left(j)'
      BY <1>0, OldTasksStay
    <2>2. Started(k)' => Pending("run")'
      <3>1. CASE Begins(k)
        BY <3>1, <1>1, <1>2, PendingStays DEF Begins, Pending
      <3>2. CASE Announces(k)
        BY <3>2, <1>8 DEF Announces
      <3> QED BY <3>1, <3>2
    <2> QED BY <1>1, <1>3, <1>4, <1>5, <1>8, <2>1, <2>2 DEF Creation
  <1>11. Destruction'
    <2>1. ~Queued("DESTROY")' /\ OneDestroy'
      BY <1>0, <1>1, <1>9 DEF Queued, OneDestroy, Destruction
    <2> QED BY <1>1, <1>3, <1>4, <1>7, <2>1 DEF Destruction
  <1>12. NoEndWhileStopping' /\ FreeAfterEnd'
    BY <1>1, <1>3, <1>4 DEF NoEndWhileStopping, FreeAfterEnd
  <1> QED BY <1>10, <1>11, <1>12 DEF Handshake

\* It survives the DESTROY command: with it the task takes the first of its
\* last steps, while the application waits for their end.
LEMMA ReceivesKeepsHandshake ==
  ASSUME IInv, NEW k \in Tasks, k = audio_thread, Frame(k), Receives(k)
  PROVE  Handshake'
  <1>0. /\ Creation /\ Destruction /\ NoEndWhileStopping /\ FreeAfterEnd
        /\ TypeOK
    BY DEF IInv, Handshake, Base
  <1>1. /\ at'[k] # "gone" /\ task_run /\ todo'[k] = From(1)
        /\ UNCHANGED <<audio_thread, app, wanted, stopping, task_run, bits,
                       phase>>
    BY DEF Receives, Frame
  <1>2. Queued("DESTROY") /\ ~Queued("DESTROY")' /\ OneDestroy'
    BY <1>0, DestroyTail DEF Receives, Destruction
  <1>3. Pending("terminate")
    BY <1>0, <1>2 DEF Destruction
  <1>4. /\ Calling("terminate") /\ apc \in {"wait", "waiting"}
        /\ ~Calling("run") /\ ~Calling("stop") /\ ~Calling("free")
    BY <1>3 DEF Pending, Calling
  <1>5. \A c : Calling(c)' <=> Calling(c)
    BY <1>1 DEF Calling, app
  <1>6. apc' = apc
    BY <1>1 DEF app
  <1>7. Pending("terminate")'
    BY <1>1, <1>3, PendingStays DEF Pending
  <1>8. /\ ~InLoop(k)' /\ ~Starting(k)' /\ ~Started(k)' /\ Ending(k)'
        /\ \A i \in 1..9 : todo'[k] = From(i) => i = 1
    <2>1. 1 \in 1..9
      OBVIOUS
    <2> QED BY <1>1, <2>1, FarewellSteps DEF InLoop, Starting, Started, Ending
  <1>9. Creation'
    <2>1. \A j \in Tasks : j < audio_thread' => Left(j)'
      BY <1>0, OldTasksStay
    <2> QED BY <1>1, <1>4, <1>5, <1>8, <2>1 DEF Creation
  <1>10. Destruction'
    BY <1>1, <1>2, <1>4, <1>5, <1>6, <1>7, <1>8 DEF Destruction
  <1>11. NoEndWhileStopping' /\ FreeAfterEnd'
    BY <1>1, <1>4, <1>5 DEF NoEndWhileStopping, FreeAfterEnd
  <1> QED BY <1>9, <1>10, <1>11 DEF Handshake

\* It survives each of the last steps but the very last: the application
\* waits until the eighth.
LEMMA LeavesKeepsHandshake ==
  ASSUME IInv, NEW k \in Tasks, k = audio_thread, Frame(k),
         NEW i \in 1..8, Leaves(k, i)
  PROVE  Handshake'
  <1>0. /\ Creation /\ Destruction /\ NoEndWhileStopping /\ FreeAfterEnd
        /\ TypeOK
    BY DEF IInv, Handshake, Base
  <1>1. /\ todo[k] = From(i) /\ todo'[k] = From(i + 1)
        /\ at'[k] # "gone" /\ at[k] # "gone"
        /\ task_run' <=> task_run /\ i # 5
        /\ stopping' => stopping /\ i # 4
        /\ UNCHANGED <<audio_thread, app, wanted, cmdq>>
    BY DEF Leaves, Frame
  <1>2. i \in 1..9 /\ i + 1 \in 1..9
    OBVIOUS
  <1>3. /\ Pending("terminate") /\ ~Queued("DESTROY")
        /\ task_run <=> i <= 5
        /\ i = 5 => ~stopping
    BY <1>0, <1>1, <1>2 DEF Destruction
  <1>4. /\ Calling("terminate") /\ apc \in {"wait", "waiting"}
        /\ ~Calling("run") /\ ~Calling("stop") /\ ~Calling("free")
    BY <1>3 DEF Pending, Calling
  <1>5. \A c : Calling(c)' <=> Calling(c)
    BY <1>1 DEF Calling, app
  <1>6. apc' = apc
    BY <1>1 DEF app
  <1>7. i # 8 => Pending("terminate")'
    BY <1>1, <1>3, PendingStays, HandshakeBits DEF Leaves, Quietly, Pending
  <1>8. /\ ~InLoop(k)' /\ ~Starting(k)' /\ ~Started(k)' /\ Ending(k)'
        /\ \A j \in 1..9 : todo'[k] = From(j) => j = i + 1
    BY <1>1, <1>2, FarewellSteps DEF InLoop, Starting, Started, Ending
  <1>9. ~Queued("DESTROY")' /\ OneDestroy'
    BY <1>0, <1>1, <1>3 DEF Queued, OneDestroy, Destruction
  <1>10. Creation'
    <2>1. \A j \in Tasks : j < audio_thread' => Left(j)'
      BY <1>0, OldTasksStay
    <2> QED BY <1>1, <1>4, <1>5, <1>8, <2>1 DEF Creation
  <1>11. Destruction'
    <2>1. /\ task_run' <=> i + 1 <= 5
          /\ i + 1 <= 8 => Pending("terminate")'
          /\ i + 1 = 5 => ~stopping'
      BY <1>1, <1>3, <1>7
    <2>2. \A j \in Tasks, n \in 1..9 :
            j = audio_thread' /\ todo'[j] = From(n) =>
              /\ task_run' <=> n <= 5
              /\ n <= 8 => Pending("terminate")' /\ ~Queued("DESTROY")'
              /\ n = 5 => ~stopping'
      BY <1>1, <1>8, <1>9, <2>1
    <2> QED BY <1>1, <1>4, <1>5, <1>6, <1>8, <1>9, <2>2 DEF Destruction
  <1>12. NoEndWhileStopping'
    <2>1. stopping' => task_run'
      BY <1>0, <1>1, <1>3 DEF NoEndWhileStopping
    <2> QED BY <2>1, <1>4, <1>5 DEF NoEndWhileStopping
  <1>13. FreeAfterEnd'
    BY <1>4, <1>5 DEF FreeAfterEnd
  <1> QED BY <1>10, <1>11, <1>12, <1>13 DEF Handshake


\* It survives the end of a task, the current one or a predecessor.
LEMMA EndsKeepsHandshake ==
  ASSUME IInv, NEW k \in Tasks, Frame(k), Ends(k)
  PROVE  Handshake'
  <1>0. /\ Creation /\ Destruction /\ NoEndWhileStopping /\ FreeAfterEnd
    BY DEF IInv, Handshake
  <1>1. /\ todo[k] = From(9) /\ todo'[k] = <<>> /\ at'[k] = "gone"
        /\ UNCHANGED <<audio_thread, app, wanted, task_run, stopping, bits,
                       phase, cmdq>>
        /\ \A j \in Tasks : j # k => todo'[j] = todo[j] /\ at'[j] = at[j]
    BY DEF Ends, Frame
  <1>2. /\ \A c : Calling(c)' <=> Calling(c)
        /\ apc' = apc /\ result' = result
    BY <1>1 DEF Calling, app
  <1>3. /\ Pending("run")' <=> Pending("run")
        /\ Pending("terminate")' <=> Pending("terminate")
    BY <1>1, <1>2 DEF Pending
  <1>4. /\ Queued("DESTROY")' <=> Queued("DESTROY")
        /\ OneDestroy' <=> OneDestroy
    BY <1>1 DEF Queued, OneDestroy
  <1>5. /\ \A i \in 1..9 : todo'[k] # From(i)
        /\ ~Starting(k)' /\ ~Started(k)' /\ Left(k)' /\ ~InLoop(k)
    BY <1>1, FarewellSteps, BeginSteps DEF Starting, Started, Left, InLoop
  <1>6. \A j \in Tasks : Left(j) => Left(j)'
    BY <1>1, <1>5 DEF Left
  <1>7. Creation'
    BY <1>0, <1>1, <1>2, <1>3, <1>5, <1>6
       DEF Creation, Starting, Started, InLoop
  <1>8. Destruction'
    BY <1>0, <1>1, <1>2, <1>3, <1>4, <1>5, <1>6
       DEF Destruction, InLoop, Ending
  <1>9. NoEndWhileStopping' /\ FreeAfterEnd'
    BY <1>0, <1>1, <1>2, <1>6 DEF NoEndWhileStopping, FreeAfterEnd
  <1> QED BY <1>7, <1>8, <1>9 DEF Handshake

\* Every step of a task keeps the handshake.
LEMMA TaskKeepsHandshake ==
  ASSUME ~MayFail, IInv, NEW k \in Tasks, TaskStep(k)
  PROVE  Handshake'
  <1>0. Base /\ Creation
    BY DEF IInv, Handshake
  <1>1. Frame(k) /\ Effect(k)
    BY <1>0, TaskEffect
  <1>2. CASE Ends(k)
    BY <1>1, <1>2, EndsKeepsHandshake
  <1>3. CASE ~Ends(k)
    <2>1. k = audio_thread
      BY <1>0, <1>1, <1>3, OldTasksEnd
    <2>2. ~Quits(k)
      BY <1>0, <1>1, <2>1 DEF Quits, Creation, Frame
    <2>3. CASE \E i \in 1..8 : Leaves(k, i)
      BY <1>1, <2>1, <2>3, LeavesKeepsHandshake
    <2>4. CASE Works(k)
      BY <1>1, <2>1, <2>4, WorksKeepsHandshake
    <2>5. CASE Begins(k) \/ Announces(k)
      BY <1>1, <2>1, <2>5, BeginKeepsHandshake
    <2>6. CASE Receives(k)
      BY <1>1, <2>1, <2>6, ReceivesKeepsHandshake
    <2> QED BY <1>1, <1>3, <2>2, <2>3, <2>4, <2>5, <2>6 DEF Effect
  <1> QED BY <1>2, <1>3

\* While its bit is not set, run and terminate can only go to sleep: no limit
\* lets them return.
LEMMA OnlyWaits ==
  ASSUME ~MayExpire, Base, AppStep, NEW c \in {"run", "terminate"}, Pending(c)
  PROVE  /\ Pending(c)' /\ apc' = "waiting"
         /\ UNCHANGED <<bits, fields, cmdq, task, job, result>>
  <1>1. /\ job # <<>> /\ Head(job) = c /\ apc \in {"wait", "waiting"}
        /\ apc = "waiting" => phase["app"] = "asleep"
        /\ apc = "wait" => phase["app"] = "out"
        /\ BitOf(c) \notin bits
    BY DEF Pending, Calling, Base, Places
  <1>2. Wait \/ GroupStep \/ WaitEnd
    BY <1>1 DEF AppStep, RunStart, RunCreate, ResumeStart, PauseStart,
       PauseForce, StopStart, StopMark, StopAbort, StopLook, StopFlag,
       WaitStart, TerminateStart, ClearBit, Send, ResetState, ResetRings,
       Free, Start, Now
  <1>3. ~WaitEnd
    BY <1>1 DEF WaitEnd
  <1>4. ~GroupStep
    <2>1. ~Event!Expire("app")
      BY DEF Event!Expire
    <2>2. ~Event!WaitReturn("app")
      BY <1>1 DEF Event!WaitReturn
    <2> QED BY <2>1, <2>2 DEF GroupStep
  <1>5. /\ Event!WaitBits("app", BitOf(c), FALSE) /\ Go("waiting")
        /\ UNCHANGED <<fields, cmdq, rings, task>>
    BY <1>1, <1>2, <1>3, <1>4 DEF Wait
  <1>6. /\ phase'["app"] = "asleep" /\ wanted'["app"] = BitOf(c)
        /\ bits' = bits
    BY <1>1, <1>5 DEF Event!WaitBits, Base, TypeOK, Event!TypeOK
  <1>7. apc' = "waiting" /\ UNCHANGED <<job, result>>
    BY <1>5 DEF Go
  <1> QED BY <1>1, <1>5, <1>6, <1>7 DEF Pending, Calling

\* What the application must keep of the handshake while neither of its two
\* calls is pending.
LEMMA AppHandshake ==
  ASSUME IInv, ~Pending("run"), ~Pending("terminate"),
         UNCHANGED <<audio_thread, task_run, at, todo>>,
         stopping' => task_run,
         OneDestroy',
         Queued("DESTROY")' =>
           /\ Pending("terminate")'
           /\ \A k \in Tasks : k = audio_thread => InLoop(k),
         Calling("run")' /\ apc' \in {"clear", "create"} => ~task_run,
         Calling("run")' /\ apc' = "create" => Created \notin bits',
         Calling("terminate")' =>
           /\ apc' \in {"clear", "send"} => task_run
           /\ apc' = "send" => Destroyed \notin bits'
           /\ apc' \in {"wait", "waiting"} =>
                \/ Queued("DESTROY")'
                \/ \A k \in Tasks : k = audio_thread => Ending(k) \/ Left(k),
         Calling("stop")' /\ apc' # "start" => task_run,
         Calling("free")' /\ result' # "FAIL" =>
           \A k \in Tasks : k <= audio_thread => Left(k)
  PROVE  Handshake'
  <1>0. /\ Creation /\ Destruction
    BY DEF IInv, Handshake
  <1>1. \A k \in Tasks : /\ InLoop(k)' <=> InLoop(k)
                         /\ Starting(k)' <=> Starting(k)
                         /\ Started(k)' <=> Started(k)
                         /\ Ending(k)' <=> Ending(k)
                         /\ Left(k)' <=> Left(k)
    BY DEF InLoop, Starting, Started, Ending, Left
  <1>2. \A k \in Tasks : k = audio_thread =>
          /\ ~Starting(k) /\ ~Started(k)
          /\ \A i \in 1..8 : todo[k] # From(i)
    <2> SUFFICES ASSUME NEW k \in Tasks, k = audio_thread
                 PROVE  /\ ~Starting(k) /\ ~Started(k)
                        /\ \A i \in 1..8 : todo[k] # From(i)
      OBVIOUS
    <2>1. ~Starting(k) /\ ~Started(k)
      BY <1>0 DEF Creation
    <2>2. ASSUME NEW i \in 1..8, todo[k] = From(i)
          PROVE  FALSE
      <3>1. i \in 1..9 /\ i <= 8
        OBVIOUS
      <3> QED BY <1>0, <2>2, <3>1 DEF Destruction
    <2> QED BY <2>1, <2>2
  <1>3. Creation'
    BY <1>0, <1>1, <1>2 DEF Creation, Created
  <1>4. Destruction'
    <2>1. \A k \in Tasks, i \in 1..9 : k = audio_thread' /\ todo'[k] = From(i) =>
            i = 9 /\ ~task_run'
      BY <1>0, <1>2 DEF Destruction
    <2>2. \A k \in Tasks, i \in 1..9 : k = audio_thread' /\ todo'[k] = From(i) =>
             /\ task_run' <=> i <= 5
             /\ i <= 8 => Pending("terminate")' /\ ~Queued("DESTROY")'
             /\ i = 5 => ~stopping'
      BY <2>1
    <2> QED BY <1>1, <2>2 DEF Destruction, Destroyed
  <1>5. NoEndWhileStopping' /\ FreeAfterEnd'
    BY <1>1 DEF NoEndWhileStopping, FreeAfterEnd
  <1> QED BY <1>3, <1>4, <1>5 DEF Handshake


\* A call that returns keeps the handshake, if a terminate that succeeds leaves
\* no task at work.
LEMMA ReturnHandshake ==
  ASSUME IInv, ~Pending("run"), ~Pending("terminate"), job # <<>>,
         NEW r, Return(r), phase'["app"] = "out",
         UNCHANGED <<audio_thread, task_run, task>>, stopping' => task_run,
         ~Queued("DESTROY")', OneDestroy',
         Calling("terminate") /\ r # "FAIL" =>
           \A k \in Tasks : k <= audio_thread => Left(k)
  PROVE  Handshake'
  <1>1. /\ apc' = "start" /\ result' = r
        /\ ~Calling("run")' /\ ~Calling("stop")'
        /\ Calling("free")' => Calling("terminate")
    BY ReturnPlaces DEF IInv
  <1>2. UNCHANGED <<at, todo>>
    BY DEF task
  <1> QED BY <1>1, <1>2, AppHandshake

\* A call that goes on keeps the handshake, if it has looked at task_run and
\* cleared its bit before it acts.
LEMMA MoveHandshake ==
  ASSUME IInv, ~Pending("run"), ~Pending("terminate"), job # <<>>,
         NEW next, Go(next),
         UNCHANGED <<fields, task>>, ~Queued("DESTROY")', OneDestroy',
         Calling("run") /\ next \in {"clear", "create"} => ~task_run,
         Calling("run") /\ next = "create" => Created \notin bits',
         Calling("terminate") =>
           /\ next \in {"clear", "send"} /\ task_run
           /\ next = "send" => Destroyed \notin bits',
         Calling("stop") => task_run
  PROVE  Handshake'
  <1>1. /\ apc' = next /\ job' = job /\ result' = result
    BY DEF Go
  <1>2. \A c : Calling(c)' <=> Calling(c)
    BY <1>1 DEF Calling
  <1>3. UNCHANGED <<at, todo, audio_thread, task_run, stopping>>
    BY DEF task, fields
  <1>4. stopping' => task_run
    BY <1>3 DEF IInv, Handshake, NoEndWhileStopping
  <1>5. Calling("free") /\ result # "FAIL" =>
          \A k \in Tasks : k <= audio_thread => Left(k)
    BY DEF IInv, Handshake, FreeAfterEnd
  <1> QED BY <1>1, <1>2, <1>3, <1>4, <1>5, AppHandshake

\* Every step of the application keeps the handshake.
LEMMA AppKeepsHandshake ==
  ASSUME ~MayExpire, IInv, AppStep
  PROVE  Handshake'
  <1>0. /\ Base /\ Creation /\ Destruction /\ NoEndWhileStopping
        /\ FreeAfterEnd /\ TypeOK /\ Places
    BY DEF IInv, Handshake, Base
  <1>a. CASE Pending("run") \/ Pending("terminate")
    <2>1. PICK c \in {"run", "terminate"} : Pending(c)
      BY <1>a
    <2>2. /\ Pending(c)' /\ apc' = "waiting" /\ apc \in {"wait", "waiting"}
          /\ UNCHANGED <<bits, fields, cmdq, task, job, result>>
      BY <2>1, <1>0, OnlyWaits DEF Pending
    <2>3. UNCHANGED <<at, todo, audio_thread, task_run, stopping>>
      BY <2>2 DEF task, fields
    <2>4. /\ Queued("DESTROY")' <=> Queued("DESTROY")
          /\ OneDestroy' <=> OneDestroy
          /\ \A d : Calling(d)' <=> Calling(d)
      BY <2>2 DEF Queued, OneDestroy, Calling
    <2>5. /\ Pending("run") => Pending("run")'
          /\ Pending("terminate") => Pending("terminate")'
      BY <2>1, <2>2 DEF Pending, Calling
    <2>6. \A k \in Tasks : /\ InLoop(k)' <=> InLoop(k)
                           /\ Starting(k)' <=> Starting(k)
                           /\ Started(k)' <=> Started(k)
                           /\ Ending(k)' <=> Ending(k)
                           /\ Left(k)' <=> Left(k)
      BY <2>3 DEF InLoop, Starting, Started, Ending, Left
    <2>7. Creation'
      BY <1>0, <2>2, <2>3, <2>4, <2>5, <2>6 DEF Creation
    <2>8. Destruction'
      BY <1>0, <2>2, <2>3, <2>4, <2>5, <2>6 DEF Destruction
    <2>9. NoEndWhileStopping' /\ FreeAfterEnd'
      BY <1>0, <2>1, <2>2, <2>3, <2>4, <2>6
         DEF NoEndWhileStopping, FreeAfterEnd, Pending, Calling
    <2> QED BY <2>7, <2>8, <2>9 DEF Handshake
  <1>b. CASE ~Pending("run") /\ ~Pending("terminate")
    <2>0. /\ ~Queued("DESTROY") /\ OneDestroy
      BY <1>0, <1>b DEF Destruction
    <2>a. UNCHANGED cmdq => ~Queued("DESTROY")' /\ OneDestroy'
      BY <2>0 DEF Queued, OneDestroy
    <2>b. cmdq' = <<>> => ~Queued("DESTROY")' /\ OneDestroy'
      BY DEF Queued, OneDestroy
    <2>c. ASSUME UNCHANGED fields
          PROVE  UNCHANGED <<audio_thread, task_run>> /\ (stopping' => task_run)
      BY <2>c, <1>0 DEF fields, NoEndWhileStopping
    <2>d. ASSUME apc # "waiting", UNCHANGED group
          PROVE  phase'["app"] = "out"
      BY <2>d, <1>0 DEF Places, group
    <2>e. \A k \in Tasks : k <= audio_thread =>
            \/ k = audio_thread \/ Left(k)
      BY <1>0, AudioElementAssumption DEF Creation, TypeOK, Tasks
    \* The current task, if there is one: it works, or it has left.
    <2>f. \A k \in Tasks : k = audio_thread =>
            \/ InLoop(k) /\ at[k] # "gone" /\ task_run
            \/ Left(k)
      <3> SUFFICES ASSUME NEW k \in Tasks, k = audio_thread, ~Left(k)
                   PROVE  InLoop(k) /\ at[k] # "gone" /\ task_run
        OBVIOUS
      <3>1. at[k] # "gone" /\ todo[k] # From(9)
        BY DEF Left
      <3>2. ~Starting(k) /\ ~Started(k)
        BY <1>0, <1>b DEF Creation
      <3>3. ~Ending(k)
        <4> SUFFICES ASSUME NEW i \in 1..9, todo[k] = From(i)
                     PROVE  FALSE
          BY DEF Ending
        <4>1. i <= 8
          BY <3>1
        <4> QED BY <4>1, <1>0, <1>b DEF Destruction
      <3>4. InLoop(k)
        BY <3>2, <3>3, <1>0 DEF Base, Shapes
      <3> QED BY <3>1, <3>4, <1>0 DEF Creation
    <2>1. CASE RunStart
      <3>1. /\ job # <<>> /\ Head(job) = "run" /\ apc = "start"
            /\ UNCHANGED <<fields, group, rings, task>>
        BY <2>1 DEF RunStart, Start, Now
      <3>2. ~Calling("terminate") /\ ~Calling("stop")
        BY <3>1 DEF Calling
      <3>3. CASE Return("OK") /\ UNCHANGED cmdq
        BY <1>b, <2>a, <2>c, <2>d, <3>1, <3>2, <3>3, ReturnHandshake
      <3>4. CASE ~task_run /\ Go("clear") /\ cmdq' = <<>>
        BY <1>b, <2>b, <3>1, <3>2, <3>4, MoveHandshake
      <3> QED BY <2>1, <3>3, <3>4 DEF RunStart
    <2>2. CASE ResumeStart \/ PauseStart \/ PauseForce \/ WaitStart \/
               ResetState \/ ResetRings
      <3>1. /\ job # <<>>
            /\ Head(job) \in {"resume", "pause", "wait_for_stop",
                              "wait_for_stop_ms", "reset_state", "reset_rings"}
            /\ apc # "waiting"
            /\ UNCHANGED <<stopping, audio_thread, task_run, cmdq, task, group>>
        BY <2>2 DEF ResumeStart, PauseStart, PauseForce, WaitStart,
           ResetState, ResetRings, Start, Now, fields
      <3>2. /\ ~Calling("terminate") /\ ~Calling("stop") /\ ~Calling("run")
            /\ ~Calling("free")
        BY <3>1 DEF Calling
      <3>3. \/ \E r : Return(r)
            \/ \E next : Go(next) /\ UNCHANGED fields
        BY <2>2 DEF ResumeStart, PauseStart, PauseForce, WaitStart,
           ResetState, ResetRings
      <3>4. stopping' => task_run
        BY <3>1, <1>0 DEF NoEndWhileStopping
      <3>5. phase'["app"] = "out"
        BY <2>d, <3>1
      <3>6. ASSUME NEW r, Return(r)
            PROVE  Handshake'
        BY <1>b, <2>a, <3>1, <3>2, <3>4, <3>5, <3>6, ReturnHandshake
      <3>7. ASSUME NEW next, Go(next), UNCHANGED fields
            PROVE  Handshake'
        BY <1>b, <2>a, <3>1, <3>2, <3>7, MoveHandshake
      <3> QED BY <3>3, <3>6, <3>7
    <2>3. CASE StopStart \/ StopMark \/ StopAbort \/ StopLook
      <3>1. /\ job # <<>> /\ Head(job) = "stop"
            /\ apc \in {"start", "mark", "abort", "look"}
            /\ UNCHANGED <<fields, cmdq, task>>
        BY <2>3 DEF StopStart, StopMark, StopAbort, StopLook, Start, Now
      <3>2. /\ ~Calling("terminate") /\ ~Calling("run") /\ ~Calling("free")
            /\ Calling("stop")
        BY <3>1 DEF Calling
      <3>3. phase'["app"] = "out"
        <4>1. CASE UNCHANGED group
          BY <2>d, <3>1, <4>1
        <4>2. CASE StopMark
          BY <4>2, <3>1, <1>0, SetWakes DEF StopMark, Places, EventBits
        <4> QED BY <2>3, <4>1, <4>2 DEF StopStart, StopAbort, StopLook
      <3>4. \/ \E r : Return(r)
            \/ \E next : Go(next) /\ task_run
        <4>1. CASE StopStart
          BY <4>1 DEF StopStart
        <4>2. CASE StopMark
          BY <4>2 DEF StopMark
        <4>3. CASE StopAbort \/ StopLook
          <5>1. task_run
            BY <4>3, <3>2, <1>0 DEF StopAbort, StopLook, NoEndWhileStopping
          <5> QED BY <4>3, <5>1 DEF StopAbort, StopLook
        <4> QED BY <2>3, <4>1, <4>2, <4>3
      <3>5. ASSUME NEW r, Return(r)
            PROVE  Handshake'
        BY <1>b, <2>a, <2>c, <3>1, <3>2, <3>3, <3>5, ReturnHandshake
      <3>6. ASSUME NEW next, Go(next), task_run
            PROVE  Handshake'
        BY <1>b, <2>a, <3>1, <3>2, <3>6, MoveHandshake
      <3> QED BY <3>4, <3>5, <3>6
    <2>4. CASE StopFlag
      <3>1. /\ job # <<>> /\ Head(job) = "stop" /\ apc = "flag"
            /\ UNCHANGED <<audio_thread, task_run, group, cmdq, task>>
        BY <2>4 DEF StopFlag, Now
      <3>2. /\ Calling("stop") /\ task_run
            /\ ~Calling("terminate") /\ ~Calling("run") /\ ~Calling("free")
        BY <3>1, <1>0 DEF Calling, NoEndWhileStopping
      <3>3. CASE Return("OK")
        BY <1>b, <2>a, <2>d, <3>1, <3>2, <3>3, ReturnHandshake
      <3>4. CASE Go("send")
        <4>1. /\ apc' = "send" /\ \A c : Calling(c)' <=> Calling(c)
              /\ UNCHANGED <<at, todo>>
          BY <3>1, <3>4 DEF Go, Calling, task
        <4> QED BY <1>b, <2>a, <3>1, <3>2, <4>1, AppHandshake
      <3> QED BY <2>4, <3>3, <3>4 DEF StopFlag
    <2>5. CASE TerminateStart
      <3>1. /\ job # <<>> /\ Head(job) = "terminate" /\ apc = "start"
            /\ UNCHANGED <<fields, group, cmdq, rings, task>>
        BY <2>5 DEF TerminateStart, Start, Now
      <3>2. ~Calling("run") /\ ~Calling("stop")
        BY <3>1 DEF Calling
      <3>3. CASE ~task_run /\ Return("OK")
        <4>1. \A k \in Tasks : k <= audio_thread => Left(k)
          BY <2>e, <2>f, <3>3
        <4> QED BY <1>b, <2>a, <2>c, <2>d, <3>1, <3>3, <4>1, ReturnHandshake
      <3>4. CASE task_run /\ Go("clear")
        BY <1>b, <2>a, <3>1, <3>2, <3>4, MoveHandshake
      <3> QED BY <2>5, <3>3, <3>4 DEF TerminateStart
    <2>6. CASE ClearBit
      <3>1. /\ job # <<>> /\ apc = "clear"
            /\ bits' = bits \ {BitOf(Head(job))}
            /\ UNCHANGED <<fields, cmdq, rings, task>>
        BY <2>6 DEF ClearBit, Event!ClearBits
      <3>2. PICK next \in {"create", "flag", "send"} :
              /\ Go(next)
              /\ next = "create" <=> Now("run")
              /\ next = "flag" <=> Now("stop")
        BY <2>6 DEF ClearBit, Now
      <3>3. \A c : Now(c) <=> Calling(c)
        BY <3>1, <1>0 DEF Now, Calling, Places
      <3>4. ASSUME Calling("run")
            PROVE  ~task_run /\ Created \notin bits'
        BY <3>1, <3>4, <1>0, HandshakeBits DEF Creation, Calling
      <3>5. ASSUME Calling("terminate")
            PROVE  /\ next = "send" /\ task_run /\ Destroyed \notin bits'
        <4>1. ~Calling("run") /\ ~Calling("stop")
          BY <3>5 DEF Calling
        <4> QED BY <3>1, <3>2, <3>3, <3>5, <4>1, <1>0, HandshakeBits
                DEF Destruction, Calling
      <3>6. Calling("stop") => task_run
        BY <3>1, <1>0 DEF NoEndWhileStopping
      <3> QED BY <1>b, <2>a, <3>1, <3>2, <3>4, <3>5, <3>6, MoveHandshake
    <2>7. CASE Send
      <3>1. /\ job # <<>> /\ apc = "send"
            /\ Head(job) \in {"stop", "resume", "terminate", "pause"}
            /\ UNCHANGED <<audio_thread, task_run, group, rings, task>>
        BY <2>7, <1>0, AtPlace DEF Send
      <3>2. \A c : Now(c) <=> Calling(c)
        BY <3>1, <1>0 DEF Now, Calling, Places
      <3>3. ~Calling("run") /\ ~Calling("free")
        BY <3>1 DEF Calling
      <3>4. stopping' => task_run
        BY <2>7, <1>0 DEF Send, NoEndWhileStopping, TypeOK
      <3>5. CASE ~(Len(cmdq) < QLen)
        <4>1. Return("FAIL") /\ cmdq' = cmdq
          BY <2>7, <3>5 DEF Send
        <4> QED BY <1>b, <2>a, <2>d, <3>1, <3>4, <4>1, ReturnHandshake
      <3>6. CASE Len(cmdq) < QLen /\ ~Calling("terminate")
        <4>1. /\ cmdq' = Append(cmdq, CmdOf[Head(job)])
              /\ Return("OK") \/ Go("wait")
              /\ Calling("stop") => Return("OK")
          BY <2>7, <3>2, <3>6 DEF Send
        <4>2. CmdOf[Head(job)] \in Commands /\ CmdOf[Head(job)] # "DESTROY"
          BY <3>1, <3>6 DEF CmdOf, Commands, Calling
        <4>3. ~Queued("DESTROY")' /\ OneDestroy'
          BY <2>0, <4>1, <4>2, <1>0, DestroyAppend
        <4>4. CASE Return("OK")
          BY <1>b, <2>d, <3>1, <3>4, <3>6, <4>3, <4>4, ReturnHandshake
        <4>5. CASE Go("wait") /\ ~Calling("stop")
          <5>1. /\ apc' = "wait" /\ \A c : Calling(c)' <=> Calling(c)
                /\ UNCHANGED <<at, todo>>
            BY <3>1, <4>5 DEF Go, Calling, task
          <5> QED BY <1>b, <3>1, <3>3, <3>4, <3>6, <4>3, <4>5, <5>1,
                     AppHandshake
        <4> QED BY <4>1, <4>4, <4>5
      <3>7. CASE Len(cmdq) < QLen /\ Calling("terminate")
        <4>1. /\ Head(job) = "terminate" /\ ~Calling("stop")
          BY <3>7 DEF Calling
        <4>2. /\ cmdq' = Append(cmdq, "DESTROY") /\ Go("wait")
          BY <2>7, <3>2, <3>7, <4>1 DEF Send, CmdOf
        <4>3. Queued("DESTROY")' /\ OneDestroy'
          BY <2>0, <4>2, <1>0, DestroyAppend DEF Commands
        <4>4. task_run /\ Destroyed \notin bits
          BY <3>1, <3>7, <1>0 DEF Destruction, Destroyed
        <4>5. /\ apc' = "wait" /\ \A c : Calling(c)' <=> Calling(c)
              /\ UNCHANGED <<at, todo, bits>>
          BY <3>1, <4>2 DEF Go, Calling, task, group
        <4>6. Pending("terminate")'
          BY <3>7, <4>4, <4>5, HandshakeBits DEF Pending
        <4>7. ASSUME NEW k \in Tasks, k = audio_thread
              PROVE  InLoop(k)
          <5>1. CASE at[k] = "gone"
            BY <5>1, <1>0, EmptySeq DEF Base, Shapes, InLoop
          <5>2. CASE at[k] # "gone"
            <6>1. todo[k] # From(9)
              <7>1. 9 \in 1..9 /\ ~(9 <= 5)
                OBVIOUS
              <7> QED BY <4>4, <4>7, <7>1, <1>0 DEF Destruction
            <6> QED BY <2>f, <4>7, <5>2, <6>1 DEF Left
          <5> QED BY <5>1, <5>2
        <4> QED BY <1>b, <3>1, <3>3, <3>4, <4>1, <4>3, <4>5, <4>6, <4>7,
                   AppHandshake
      <3> QED BY <3>5, <3>6, <3>7
    <2>8. CASE Wait \/ GroupStep
      <3>1. /\ UNCHANGED <<fields, cmdq, task>>
            /\ UNCHANGED <<job, result>>
        BY <2>8 DEF Wait, GroupStep, Go, app
      <3>2. /\ apc \in {"wait", "waiting"} /\ apc' = "waiting" /\ job # <<>>
        <4>1. CASE Wait
          BY <4>1 DEF Wait, Go
        <4>2. CASE GroupStep
          <5>1. phase["app"] # "out"
            BY <4>2 DEF GroupStep, Event!Expire, Event!WaitReturn
          <5> QED BY <4>2, <5>1, <1>0 DEF GroupStep, app, Places
        <4> QED BY <2>8, <4>1, <4>2
      <3>3. \A c : Calling(c)' <=> Calling(c)
        BY <3>1 DEF Calling
      <3>4. UNCHANGED <<at, todo, audio_thread, task_run, stopping>>
        BY <3>1 DEF task, fields
      <3>5. ~Calling("stop") /\ ~Calling("free")
        BY <3>2, <1>0, AtPlace DEF Calling
      <3>6. Calling("terminate") =>
              \A k \in Tasks : k = audio_thread => Ending(k) \/ Left(k)
        BY <2>0, <3>2, <1>0 DEF Destruction
      <3> QED BY <1>b, <2>a, <2>c, <3>1, <3>2, <3>3, <3>4, <3>5, <3>6,
                 AppHandshake
    <2>9. CASE WaitEnd
      <3>1. /\ job # <<>> /\ apc = "waiting" /\ phase["app"] = "out"
            /\ \E r : Return(r)
            /\ UNCHANGED <<fields, group, cmdq, rings, task>>
        BY <2>9 DEF WaitEnd
      <3>2. Calling("terminate") =>
              \A k \in Tasks : k <= audio_thread => Left(k)
        <4> SUFFICES ASSUME Calling("terminate"), NEW k \in Tasks,
                            k <= audio_thread, ~Left(k)
                     PROVE  FALSE
          OBVIOUS
        <4>1. k = audio_thread /\ InLoop(k)
          BY <2>e, <2>f
        <4>2. Ending(k)
          BY <2>0, <3>1, <4>1, <1>0 DEF Destruction
        <4> QED BY <4>1, <4>2, OnePart DEF Ending
      <3>3. phase'["app"] = "out"
        BY <3>1 DEF group
      <3> QED BY <1>b, <2>a, <2>c, <3>1, <3>2, <3>3, ReturnHandshake
    <2>10. CASE Free
      <3>1. /\ job' = <<>> /\ UNCHANGED <<fields, cmdq, task, apc>>
        BY <2>10 DEF Free
      <3>2. /\ \A c : ~Calling(c)'
            /\ UNCHANGED <<at, todo, audio_thread, task_run, stopping>>
        BY <3>1 DEF Calling, task, fields
      <3> QED BY <1>b, <2>a, <2>c, <3>1, <3>2, AppHandshake
    <2>11. CASE RunCreate
      <3>1. /\ job # <<>> /\ Head(job) = "run" /\ apc = "create"
            /\ audio_thread' = audio_thread + 1
            /\ at' = [at EXCEPT ![audio_thread + 1] = "cmd"]
            /\ todo' = [todo EXCEPT ![audio_thread + 1] = TaskStart]
            /\ apc' = "wait" /\ UNCHANGED <<job, result>>
            /\ UNCHANGED <<task_run, stopping, group, cmdq>>
        BY <2>11 DEF RunCreate, Now, Go
      <3>2. /\ Calling("run") /\ ~Calling("terminate") /\ ~Calling("stop")
            /\ ~Calling("free") /\ \A c : Calling(c)' <=> Calling(c)
        BY <3>1 DEF Calling
      <3>3. ~task_run /\ Created \notin bits
        BY <3>1, <3>2, <1>0 DEF Creation, Created
      <3>4. Pending("run")'
        BY <3>1, <3>2, <3>3, HandshakeBits DEF Pending, group
      <3>5. \A j \in Tasks : /\ j # audio_thread + 1 =>
                                 todo'[j] = todo[j] /\ at'[j] = at[j]
                             /\ j = audio_thread + 1 =>
                                 todo'[j] = TaskStart /\ at'[j] = "cmd"
        BY <3>1, <1>0 DEF TypeOK
      <3>6. ASSUME NEW j \in Tasks, j < audio_thread'
            PROVE  Left(j)'
        <4>1. j <= audio_thread /\ j # audio_thread + 1
          BY <3>1, <3>6, <1>0 DEF TypeOK, Tasks
        <4>2. Left(j)
          BY <2>e, <2>f, <3>3, <4>1
        <4> QED BY <3>5, <4>1, <4>2 DEF Left
      <3>7. ASSUME NEW j \in Tasks, j = audio_thread'
            PROVE  /\ todo'[j] = TaskStart
                   /\ ~InLoop(j)' /\ ~Started(j)'
                   /\ \A i \in 1..9 : todo'[j] # From(i)
        <4>1. todo'[j] = TaskStart
          BY <3>1, <3>5, <3>7
        <4> QED BY <4>1, BeginSteps, FarewellSteps DEF InLoop, Started
      <3>8. Creation'
        BY <3>1, <3>3, <3>4, <3>6, <3>7 DEF Creation
      <3>9. Destruction'
        BY <2>a, <3>1, <3>2, <3>7 DEF Destruction
      <3>10. NoEndWhileStopping' /\ FreeAfterEnd'
        BY <3>1, <3>2, <1>0 DEF NoEndWhileStopping, FreeAfterEnd
      <3> QED BY <3>8, <3>9, <3>10 DEF Handshake
    <2> QED BY <2>1, <2>2, <2>3, <2>4, <2>5, <2>6, <2>7, <2>8, <2>9, <2>10,
               <2>11, <1>0 DEF AppStep
  <1> QED BY <1>a, <1>b


\* The handshake holds of a new element.
LEMMA InitHandshake ==
  ASSUME Init
  PROVE  Handshake
  <1>1. /\ \A k \in Tasks : todo[k] = <<>>
        /\ audio_thread = 0 /\ cmdq = <<>> /\ job = <<>> /\ ~stopping
    BY DEF Init
  <1>2. \A k \in Tasks : k # audio_thread /\ ~(k < audio_thread) /\ ~(k <= audio_thread)
    BY <1>1, AudioElementAssumption DEF Tasks
  <1>3. ~Queued("DESTROY") /\ OneDestroy /\ \A c : ~Calling(c)
    BY <1>1 DEF Queued, OneDestroy, Calling
  <1>4. Creation /\ NoEndWhileStopping /\ FreeAfterEnd
    BY <1>1, <1>2, <1>3 DEF Creation, NoEndWhileStopping, FreeAfterEnd
  <1>5. Destruction
    BY <1>2, <1>3 DEF Destruction
  <1> QED BY <1>4, <1>5 DEF Handshake

\* Every step keeps the handshake, if no wait of the API expires and every
\* task gets its buffer.
LEMMA NextKeepsIInv ==
  ASSUME ~MayExpire, ~MayFail, IInv, [Next]_vars
  PROVE  IInv'
  <1>0. Base'
    BY NextKeepsBase DEF IInv
  <1>1. CASE UNCHANGED vars
    <2>1. UNCHANGED <<state, is_open, is_running, task_run, stopping,
                      audio_thread, bits, phase, wanted, cmdq, at, todo, job,
                      apc, result>>
      BY <1>1 DEF vars, fields, group, rings, task, app
    <2>2. /\ \A c : Calling(c)' <=> Calling(c)
          /\ Queued("DESTROY")' <=> Queued("DESTROY")
          /\ OneDestroy' <=> OneDestroy
          /\ \A k \in Tasks : /\ InLoop(k)' <=> InLoop(k)
                              /\ Starting(k)' <=> Starting(k)
                              /\ Started(k)' <=> Started(k)
                              /\ Ending(k)' <=> Ending(k)
                              /\ Left(k)' <=> Left(k)
      BY <2>1 DEF Calling, Queued, OneDestroy, InLoop, Starting, Started,
         Ending, Left
    <2>3. /\ Pending("run")' <=> Pending("run")
          /\ Pending("terminate")' <=> Pending("terminate")
      BY <2>1 DEF Pending, Calling
    <2>4. Creation'
      BY <2>1, <2>2, <2>3 DEF IInv, Handshake, Creation
    <2>5. Destruction'
      BY <2>1, <2>2, <2>3 DEF IInv, Handshake, Destruction
    <2>6. NoEndWhileStopping' /\ FreeAfterEnd'
      BY <2>1, <2>2 DEF IInv, Handshake, NoEndWhileStopping, FreeAfterEnd
    <2> QED BY <1>0, <2>4, <2>5, <2>6 DEF IInv, Handshake
  <1>2. ASSUME NEW k \in Tasks, TaskStep(k)
        PROVE  IInv'
    BY <1>0, <1>2, TaskKeepsHandshake DEF IInv
  <1>3. ASSUME NEW c \in Calls, Call(c)
        PROVE  IInv'
    <2>1. /\ apc' = "start" /\ job = <<>> /\ ~Calling("free")'
          /\ UNCHANGED <<fields, group, cmdq, rings, task, result>>
      BY <1>3, CallKeepsBase DEF IInv
    <2>2. UNCHANGED <<audio_thread, task_run, stopping, cmdq, at, todo>>
      BY <2>1 DEF fields, task
    <2>3. ~Pending("run") /\ ~Pending("terminate")
      BY <2>1 DEF Pending, Calling
    <2>4. ~Queued("DESTROY")' /\ OneDestroy'
      BY <2>2, <2>3 DEF IInv, Handshake, Destruction, Queued, OneDestroy
    <2>5. stopping' => task_run
      BY <2>2 DEF IInv, Handshake, NoEndWhileStopping
    <2>6. Handshake'
      BY <2>1, <2>2, <2>3, <2>4, <2>5, AppHandshake
    <2> QED BY <1>0, <2>6 DEF IInv
  <1>4. CASE AppStep
    BY <1>0, <1>4, AppKeepsHandshake DEF IInv
  <1> QED BY <1>1, <1>2, <1>3, <1>4 DEF Next

\* Without time-outs, and as long as every task gets its buffer, each
\* reachable state keeps the handshake between the application and the task.
\* Neither can be left out: a task without a buffer (audio_element.c:461-467)
\* has cleared task_run before its end is asked for.
THEOREM ElementInvariance ==
  ASSUME ~MayExpire, ~MayFail
  PROVE  Spec => []IInv
  <1>1. Init => IInv
    BY InitBase, InitHandshake DEF IInv
  <1>2. IInv /\ [Next]_vars => IInv'
    BY NextKeepsIInv
  <1> QED BY <1>1, <1>2, PTL DEF Spec

\* The last step of a task is the cancellation, after task_run = false.
LEMMA LastStep ==
  ASSUME NEW k \in Tasks, todo[k] = From(9)
  PROVE  Leaving(k)
  <1>1. /\ From(9) \in Seq(Steps) /\ From(9) # <<>>
        /\ Head(From(9)) = Farewell[9] /\ Tail(From(9)) = From(10)
        /\ From(10) = <<>>
    BY FarewellSteps
  <1>2. Farewell[9] = Do("cancel") /\ Do("cancel") # Do("task_end")
    BY DEF Farewell, Do
  <1>3. /\ DOMAIN todo[k] = 1..1 /\ todo[k][1] = Do("cancel")
    <2>1. /\ From(9)[1] = Head(From(9)) /\ Len(From(9)) \in Nat
          /\ Len(From(9)) # 0
          /\ Len(Tail(From(9))) = Len(From(9)) - 1
          /\ DOMAIN From(9) = 1..Len(From(9))
      BY <1>1, HeadTailProperties, LenProperties, EmptySeq
    <2>2. Len(Tail(From(9))) = 0
      BY <1>1, EmptySeq
    <2>3. Len(From(9)) = 1
      BY <2>1, <2>2
    <2> QED BY <1>1, <1>2, <2>1, <2>3
  <1>4. Ahead(k, Do("cancel")) /\ ~Ahead(k, Do("task_end"))
    BY <1>2, <1>3 DEF Ahead
  <1> QED BY <1>4 DEF Leaving

\* Two tasks never work on one element: audio_element_run (line 1079) creates a
\* second one only when the first has nothing left to do but to cancel itself.
\* For any number of tasks and calls, whatever calls the application makes; the
\* waits of run and terminate must not expire and each task must get its buffer
\* (audio_element.c:461-467), or only one task is created.
THEOREM OneOwnerHolds ==
  ASSUME MayExpire \/ MayFail => MaxTasks = 1
  PROVE  Spec => []OneOwner
  <1>1. ASSUME MaxTasks = 1
        PROVE  OneOwner
    BY <1>1 DEF OneOwner, Tasks
  <1>2. ASSUME IInv
        PROVE  OneOwner
    <2> SUFFICES ASSUME NEW j \in Tasks, NEW k \in Tasks,
                        Live(j), Live(k), j < k
                 PROVE  Leaving(j)
      BY DEF OneOwner, Tasks
    <2>1. k <= audio_thread /\ j < audio_thread
      BY <1>2 DEF Live, IInv, Base, Shapes, TypeOK, Tasks
    <2>2. todo[j] = From(9)
      BY <1>2, <2>1 DEF IInv, Handshake, Creation, Left, Live
    <2> QED BY <2>2, LastStep
  <1>3. CASE MaxTasks = 1
    BY <1>1, <1>3, PTL
  <1>4. CASE ~MayExpire /\ ~MayFail
    <2>1. Spec => []IInv
      BY <1>4, ElementInvariance
    <2> QED BY <1>2, <2>1, PTL
  <1> QED BY <1>3, <1>4



-----------------------------------------------------------------------------
(* No stop is swallowed. *)

In(s, x) == \E i \in DOMAIN s : s[i] = x

Serving(k) == In(todo[k], Do("unstop")) \/ In(todo[k], Do("on_stop"))
Coming == In(cmdq, "STOP") \/ \E k \in Tasks : Serving(k)
\* audio_element_stop is about to send the command.
Sending == Now("stop") /\ apc = "send"

\* StopIsServed in these words.
LEMMA ServedIs == StopIsServed <=> (stopping => Sending \/ Coming)
  BY DEF StopIsServed, Sending, Coming, Serving, In, Queued, Ahead

\* What is in a sequence, but not at its head, is in its tail.
LEMMA InTail ==
  ASSUME NEW S, NEW s \in Seq(S), s # <<>>, NEW x, In(s, x), Head(s) # x
  PROVE  In(Tail(s), x)
  <1>1. /\ DOMAIN s = 1..Len(s) /\ Len(s) \in Nat
        /\ Tail(s) \in Seq(S) /\ Len(Tail(s)) = Len(s) - 1
        /\ DOMAIN Tail(s) = 1..Len(Tail(s))
        /\ \A i \in 1..Len(Tail(s)) : Tail(s)[i] = s[i + 1]
        /\ Head(s) = s[1]
    BY HeadTailProperties, LenProperties
  <1>2. PICK i \in DOMAIN s : s[i] = x
    BY DEF In
  <1>3. i - 1 \in DOMAIN Tail(s) /\ Tail(s)[i - 1] = x
    BY <1>1, <1>2
  <1> QED BY <1>3 DEF In

\* What is in one of two sequences is in their concatenation.
LEMMA InConcat ==
  ASSUME NEW S, NEW s \in Seq(S), NEW t \in Seq(S), NEW x, In(s, x) \/ In(t, x)
  PROVE  In(s \o t, x)
  <1>1. /\ DOMAIN s = 1..Len(s) /\ Len(s) \in Nat
        /\ DOMAIN t = 1..Len(t) /\ Len(t) \in Nat
        /\ s \o t \in Seq(S) /\ Len(s \o t) = Len(s) + Len(t)
        /\ DOMAIN (s \o t) = 1..(Len(s) + Len(t))
        /\ \A i \in 1..(Len(s) + Len(t)) :
             (s \o t)[i] = IF i <= Len(s) THEN s[i] ELSE t[i - Len(s)]
    BY ConcatProperties, LenProperties
  <1>2. CASE In(s, x)
    <2>1. PICK i \in DOMAIN s : s[i] = x
      BY <1>2 DEF In
    <2>2. i \in DOMAIN (s \o t) /\ (s \o t)[i] = x
      BY <1>1, <2>1
    <2> QED BY <2>2 DEF In
  <1>3. CASE In(t, x)
    <2>1. PICK i \in DOMAIN t : t[i] = x
      BY <1>3 DEF In
    <2>2. i + Len(s) \in DOMAIN (s \o t) /\ (s \o t)[i + Len(s)] = x
      BY <1>1, <2>1
    <2> QED BY <2>2 DEF In
  <1> QED BY <1>2, <1>3

\* What is in a sequence is in it after an append, and so is what is appended.
LEMMA InAppend ==
  ASSUME NEW S, NEW s \in Seq(S), NEW y \in S, NEW x, In(s, x) \/ x = y
  PROVE  In(Append(s, y), x)
  <1>1. /\ DOMAIN s = 1..Len(s) /\ Len(s) \in Nat
        /\ DOMAIN Append(s, y) = 1..(Len(s) + 1)
        /\ \A i \in 1..Len(s) : Append(s, y)[i] = s[i]
        /\ Append(s, y)[Len(s) + 1] = y
    BY AppendProperties, LenProperties
  <1>2. CASE In(s, x)
    <2>1. PICK i \in DOMAIN s : s[i] = x
      BY <1>2 DEF In
    <2>2. i \in DOMAIN Append(s, y) /\ Append(s, y)[i] = x
      BY <1>1, <2>1
    <2> QED BY <2>2 DEF In
  <1>3. CASE x = y
    <2>1. Len(s) + 1 \in DOMAIN Append(s, y) /\ Append(s, y)[Len(s) + 1] = x
      BY <1>1, <1>3
    <2> QED BY <2>1 DEF In
  <1> QED BY <1>2, <1>3

\* Nothing is in the empty sequence.
LEMMA InEmpty == ASSUME NEW x PROVE ~In(<<>>, x)
  BY DEF In

\* audio_element_on_cmd_stop resets `stopping' on every path (lines 228-241).
LEMMA StopUnstops == In(OnStop, Do("unstop"))
  <1>1. CASE state \notin {"FINISHED", "STOPPED"}
    <2>1. OnStop = <<Do("close"), To("STOPPED"), Do("halt"), Do("unstop"),
                     Set("STOPPED")>>
      BY <1>1 DEF OnStop
    <2> QED BY <2>1 DEF In
  <1>2. CASE /\ state \in {"FINISHED", "STOPPED"}
             /\ ~is_running /\ state = "STOPPED"
    <2>1. OnStop = <<Do("unstop")>>
      BY <1>2 DEF OnStop
    <2> QED BY <2>1 DEF In
  <1>3. CASE /\ state \in {"FINISHED", "STOPPED"}
             /\ ~(~is_running /\ state = "STOPPED")
    <2>1. OnStop = <<To("STOPPED"), Do("halt"), Do("unstop"), Set("STOPPED")>>
      BY <1>3 DEF OnStop
    <2> QED BY <2>1 DEF In
  <1> QED BY <1>1, <1>2, <1>3


\* A task that goes on with the rest of its steps keeps on serving the stop,
\* unless it has just reset the flag or entered the handler.
LEMMA RestServes ==
  ASSUME TypeOK, NEW k \in Tasks, todo[k] # <<>>, NEW s \in Seq(Steps),
         todo' = [todo EXCEPT ![k] = s \o Tail(@)],
         Head(todo[k]) # Do("unstop"), Head(todo[k]) # Do("on_stop"),
         NEW j \in Tasks, Serving(j)
  PROVE  Serving(j)'
  <1>1. todo'[k] = s \o Tail(todo[k]) /\ \A i \in Tasks : i # k => todo'[i] = todo[i]
    BY DEF TypeOK
  <1>2. CASE j # k
    BY <1>1, <1>2 DEF Serving
  <1>3. CASE j = k
    <2>1. todo[k] \in Seq(Steps) /\ Tail(todo[k]) \in Seq(Steps)
      BY HeadTailProperties DEF TypeOK
    <2> HIDE DEF Steps, Do
    <2>2. ASSUME NEW x \in {Do("unstop"), Do("on_stop")}, In(todo[k], x)
          PROVE  In(todo'[k], x)
      <3>0. Head(todo[k]) # x
        BY <2>2
      <3>1. In(Tail(todo[k]), x)
        BY <2>1, <2>2, <3>0, InTail
      <3>2. In(s \o Tail(todo[k]), x)
        BY <2>1, <3>1, InConcat
      <3> QED BY <1>1, <3>2, Zenon
    <2> QED BY <1>3, <2>2 DEF Serving
  <1> QED BY <1>2, <1>3

\* The same without new steps.
LEMMA TailServes ==
  ASSUME TypeOK, NEW k \in Tasks, todo[k] # <<>>,
         todo' = [todo EXCEPT ![k] = Tail(@)],
         Head(todo[k]) # Do("unstop"), Head(todo[k]) # Do("on_stop"),
         NEW j \in Tasks, Serving(j)
  PROVE  Serving(j)'
  <1>1. todo'[k] = Tail(todo[k]) /\ \A i \in Tasks : i # k => todo'[i] = todo[i]
    BY DEF TypeOK
  <1>2. CASE j # k
    BY <1>1, <1>2 DEF Serving
  <1>3. CASE j = k
    <2>1. todo[k] \in Seq(Steps)
      BY DEF TypeOK
    <2> HIDE DEF Steps, Do
    <2>2. ASSUME NEW x \in {Do("unstop"), Do("on_stop")}, In(todo[k], x)
          PROVE  In(todo'[k], x)
      BY <1>1, <2>1, <2>2, InTail
    <2> QED BY <1>3, <2>2 DEF Serving
  <1> QED BY <1>2, <1>3

\* A task that had nothing left to do served nothing.
LEMMA IdleServes ==
  ASSUME TypeOK, NEW k \in Tasks, todo[k] = <<>>, NEW s,
         todo' = [todo EXCEPT ![k] = s], NEW j \in Tasks, Serving(j)
  PROVE  Serving(j)'
  <1>1. j # k
    BY InEmpty DEF Serving
  <1>2. todo'[j] = todo[j]
    BY <1>1 DEF TypeOK
  <1> QED BY <1>2 DEF Serving

\* A step of a task either resets `stopping' or leaves the stop on its way.
LEMMA TaskKeepsServed ==
  ASSUME TypeOK, StopIsServed, NEW k \in Tasks, TaskStep(k)
  PROVE  StopIsServed'
  <1>0. UNCHANGED app /\ (stopping' => stopping)
    <2>1. CASE TaskTo(k) \/ TaskSet(k) \/ TaskClear(k)
      BY <2>1 DEF TaskTo, TaskSet, TaskClear, fields
    <2>2. CASE TaskField(k)
      BY <2>2 DEF TaskField, TypeOK
    <2>6. CASE TaskClose(k) \/ TaskRings(k)
      BY <2>6 DEF TaskClose, TaskRings, fields
    <2>7. ASSUME NEW ok, TaskAlloc(k, ok)
          PROVE  UNCHANGED app /\ (stopping' => stopping)
      BY <2>7 DEF TaskAlloc
    <2>3. CASE TaskEnter(k) \/ TaskCancel(k) \/ TaskCancelled(k)
      BY <2>3 DEF TaskEnter, TaskCancel, TaskCancelled, fields
    <2>4. CASE TaskReceive(k) \/ TaskRun(k)
      BY <2>4 DEF TaskReceive, TaskRun, fields
    <2>5. ASSUME NEW outcome, TaskOpen(k, outcome) \/ TaskProcess(k, outcome)
          PROVE  UNCHANGED app /\ (stopping' => stopping)
      BY <2>5 DEF TaskOpen, TaskProcess, fields
    <2> QED BY <2>1, <2>2, <2>3, <2>4, <2>5, <2>6, <2>7 DEF TaskStep
  <1>a. Sending => Sending'
    BY <1>0 DEF Sending, Now, app
  <1>b. ASSUME stopping' => (Coming => Coming')
        PROVE  StopIsServed'
    <2>1. stopping' => Sending' \/ Coming'
      BY <1>0, <1>a, <1>b, ServedIs
    <2> QED BY <2>1 DEF StopIsServed, Sending, Coming, Serving, In, Queued, Ahead
  <1>c. ASSUME UNCHANGED cmdq,
               \A j \in Tasks : Serving(j) => Serving(j)'
        PROVE  Coming => Coming'
    BY <1>c DEF Coming
  <1>d. ASSUME Ready(k, "do"), Head(todo[k]) \in {Do("unstop"), Do("on_stop")}
        PROVE  Arg(k) \in {"unstop", "on_stop"}
    BY <1>d DEF Arg, Do
  <1>e. ASSUME NEW op, Ready(k, op), op # "do"
        PROVE  Head(todo[k]) # Do("unstop") /\ Head(todo[k]) # Do("on_stop")
    BY <1>e DEF Ready, Do
  <1>f. ASSUME NEW op, Ready(k, op)
        PROVE  todo[k] # <<>>
    BY <1>f DEF Ready
  <1>1. CASE TaskTo(k) \/ TaskSet(k) \/ TaskClear(k)
    <2>1. UNCHANGED cmdq /\ todo' = [todo EXCEPT ![k] = Tail(@)]
      BY <1>1 DEF TaskTo, TaskSet, TaskClear, Rest
    <2>2. todo[k] # <<>> /\ Head(todo[k]) # Do("unstop")
          /\ Head(todo[k]) # Do("on_stop")
      BY <1>1, <1>e, <1>f DEF TaskTo, TaskSet, TaskClear
    <2> QED BY <2>1, <2>2, <1>b, <1>c, TailServes
  <1>2. CASE TaskField(k)
    <2>1. /\ Ready(k, "do") /\ UNCHANGED cmdq
          /\ todo' = [todo EXCEPT ![k] = Tail(@)]
          /\ Arg(k) \in {"go", "halt", "unstop", "task_run", "task_end"}
          /\ stopping' = (stopping /\ Arg(k) # "unstop")
      BY <1>2 DEF TaskField, Rest
    <2>2. CASE Arg(k) = "unstop"
      BY <2>1, <2>2, <1>b
    <2>3. CASE Arg(k) # "unstop"
      <3>1. todo[k] # <<>> /\ Head(todo[k]) # Do("unstop")
            /\ Head(todo[k]) # Do("on_stop")
        BY <2>1, <2>3, <1>d, <1>f
      <3> QED BY <2>1, <3>1, <1>b, <1>c, TailServes
    <2> QED BY <2>2, <2>3
  <1>3. CASE TaskClose(k) \/ TaskRings(k) \/ TaskCancel(k)
    <2>1. /\ Ready(k, "do") /\ UNCHANGED cmdq
          /\ todo' = [todo EXCEPT ![k] = Tail(@)]
          /\ Arg(k) \notin {"unstop", "on_stop"}
      BY <1>3 DEF TaskClose, TaskRings, TaskCancel, Rest
    <2>2. todo[k] # <<>> /\ Head(todo[k]) # Do("unstop")
          /\ Head(todo[k]) # Do("on_stop")
      BY <2>1, <1>d, <1>f
    <2> QED BY <2>1, <2>2, <1>b, <1>c, TailServes
  <1>12. ASSUME NEW ok, TaskAlloc(k, ok)
         PROVE  StopIsServed'
    <2>1. /\ Ready(k, "do") /\ UNCHANGED cmdq
          /\ todo' = [todo EXCEPT ![k] = Tail(@)]
          /\ Arg(k) \notin {"unstop", "on_stop"}
      BY <1>12 DEF TaskAlloc, Rest
    <2>2. todo[k] # <<>> /\ Head(todo[k]) # Do("unstop")
          /\ Head(todo[k]) # Do("on_stop")
      BY <2>1, <1>d, <1>f
    <2> QED BY <2>1, <2>2, <1>b, <1>c, TailServes
  <1>4. ASSUME Ready(k, "do"), UNCHANGED cmdq, NEW s \in Seq(Plain),
               Arg(k) \notin {"unstop", "on_stop"},
               todo' = [todo EXCEPT ![k] = s \o Tail(@)]
        PROVE  StopIsServed'
    <2>1. todo[k] # <<>> /\ Head(todo[k]) # Do("unstop")
          /\ Head(todo[k]) # Do("on_stop")
      BY <1>4, <1>d, <1>f
    <2>2. s \in Seq(Steps)
      BY <1>4, PlainSteps, SeqMonotonic
    <2>3. \A j \in Tasks : Serving(j) => Serving(j)'
      BY <2>1, <2>2, <1>4, RestServes
    <2> QED BY <1>4, <2>3, <1>b, <1>c
  <1>5. ASSUME NEW outcome \in {"OK", "DONE", "ABORT", "FAIL"},
               TaskOpen(k, outcome)
        PROVE  StopIsServed'
    <2>1. /\ Ready(k, "do") /\ UNCHANGED cmdq
          /\ Arg(k) \in {"open", "reopen"}
          /\ todo' = [todo EXCEPT ![k] = Opened(Arg(k), outcome) \o Tail(@)]
      BY <1>5 DEF TaskOpen
    <2>2. Opened(Arg(k), outcome) \in Seq(Plain)
      BY <2>1, HandlersArePlain
    <2>3. Arg(k) \notin {"unstop", "on_stop"}
      BY <2>1
    <2> HIDE DEF Plain, Opened
    <2> QED BY <2>1, <2>2, <2>3, <1>4
  <1>6. CASE TaskEnter(k)
    <2>1. Ready(k, "do") /\ UNCHANGED cmdq
      BY <1>6 DEF TaskEnter
    <2>2. CASE Arg(k) = "on_stop"
      <3>1. todo' = [todo EXCEPT ![k] = OnStop \o Tail(@)]
        BY <1>6, <2>2 DEF TaskEnter
      <3>2. todo'[k] = OnStop \o Tail(todo[k])
        BY <3>1 DEF TypeOK
      <3>3. OnStop \in Seq(Steps) /\ Tail(todo[k]) \in Seq(Steps)
        <4>1. OnStop \in Seq(Steps)
          BY HandlersArePlain, PlainSteps, SeqMonotonic
        <4>2. Tail(todo[k]) \in Seq(Steps)
          BY <2>1, <1>f, HeadTailProperties DEF TypeOK
        <4> QED BY <4>1, <4>2
      <3> HIDE DEF Steps, OnStop, Do
      <3>4. In(todo'[k], Do("unstop"))
        BY <3>2, <3>3, StopUnstops, InConcat
      <3>5. Coming'
        BY <3>4 DEF Coming, Serving
      <3> QED BY <3>5, <1>b
    <2>3. CASE Arg(k) = "on_error"
      <3>1. todo' = [todo EXCEPT ![k] = OnError \o Tail(@)]
        BY <1>6, <2>3 DEF TaskEnter
      <3> HIDE DEF OnError
      <3> QED BY <2>1, <2>3, <3>1, <1>4, HandlersArePlain
    <2>4. CASE Arg(k) = "on_finish"
      <3>1. todo' = [todo EXCEPT ![k] = OnFinish \o Tail(@)]
        BY <1>6, <2>4 DEF TaskEnter
      <3> HIDE DEF OnFinish
      <3> QED BY <2>1, <2>4, <3>1, <1>4, HandlersArePlain
    <2> QED BY <1>6, <2>2, <2>3, <2>4 DEF TaskEnter
  <1>7. ASSUME UNCHANGED cmdq, UNCHANGED todo
        PROVE  StopIsServed'
    BY <1>7, <1>b, <1>c DEF Serving
  <1>8. CASE TaskCancelled(k) \/ TaskRun(k)
    BY <1>7, <1>8 DEF TaskCancelled, TaskRun
  <1>9. ASSUME NEW s, todo[k] = <<>>, UNCHANGED cmdq,
               todo' = [todo EXCEPT ![k] = s]
        PROVE  StopIsServed'
    BY <1>9, <1>b, <1>c, IdleServes
  <1>10. ASSUME NEW outcome, TaskProcess(k, outcome)
         PROVE  StopIsServed'
    BY <1>9, <1>10 DEF TaskProcess, Idle
  <1>11. CASE TaskReceive(k)
    <2>1. todo[k] = <<>>
      BY <1>11 DEF TaskReceive, Idle
    <2>2. CASE UNCHANGED cmdq
      <3>1. UNCHANGED todo \/ \E s : todo' = [todo EXCEPT ![k] = s]
        BY <1>11 DEF TaskReceive
      <3> QED BY <2>1, <2>2, <3>1, <1>7, <1>9
    <2>3. CASE /\ cmdq # <<>> /\ cmdq' = Tail(cmdq)
               /\ todo' = [todo EXCEPT ![k] = OnCmd(Head(cmdq))]
      <3>1. CASE Head(cmdq) = "STOP"
        <4>1. todo'[k] = OnCmd("STOP")
          BY <2>3, <3>1 DEF TypeOK
        <4>2. OnCmd("STOP") = OnStop
          BY Zenon DEF OnCmd
        <4>3. Coming'
          BY <4>1, <4>2, StopUnstops DEF Coming, Serving
        <4> QED BY <4>3, <1>b
      <3>2. CASE Head(cmdq) # "STOP"
        <4>1. In(cmdq, "STOP") => In(cmdq', "STOP")
          <5>1. cmdq \in Seq(Commands)
            BY DEF TypeOK
          <5> QED BY <5>1, <2>3, <3>2, InTail
        <4>2. \A j \in Tasks : Serving(j) => Serving(j)'
          BY <2>1, <2>3, IdleServes
        <4> QED BY <4>1, <4>2, <1>b DEF Coming
      <3> QED BY <3>1, <3>2
    <2> QED BY <1>11, <2>2, <2>3 DEF TaskReceive
  <1> QED BY <1>1, <1>2, <1>3, <1>5, <1>6, <1>8, <1>10, <1>11, <1>12
          DEF TaskStep


\* What leaves the queue, the tasks and the flag alone keeps the stop on its
\* way, but for the sending itself.
LEMMA SameServed ==
  ASSUME StopIsServed, UNCHANGED <<cmdq, todo, stopping>>, Sending => Sending'
  PROVE  StopIsServed'
  <1>1. Coming' <=> Coming
    BY DEF Coming, Serving
  <1>2. stopping' => Sending' \/ Coming'
    BY <1>1, ServedIs
  <1> QED BY <1>2 DEF StopIsServed, Sending, Coming, Serving, In, Queued, Ahead

\* A step of the application starts a stop, sends it, or leaves it on its way.
\* The queue is discarded by audio_element_run only when nothing is to be
\* stopped.
LEMMA AppKeepsServed ==
  ASSUME Base, StopIsServed, AppStep,
         Calling("run") /\ apc = "start" /\ ~task_run => ~stopping
  PROVE  StopIsServed'
  <1>0. TypeOK /\ Shapes /\ Places
    BY DEF Base
  <1>b. ASSUME stopping' => Sending' \/ Coming'
        PROVE  StopIsServed'
    BY <1>b DEF StopIsServed, Sending, Coming, Serving, In, Queued, Ahead
  <1>1. ASSUME apc # "send", UNCHANGED <<cmdq, todo, stopping>>
        PROVE  StopIsServed'
    BY <1>1, SameServed DEF Sending
  <1>2. CASE RunStart
    <2>1. /\ Calling("run") /\ apc = "start" /\ UNCHANGED <<todo, stopping>>
      BY <1>2 DEF RunStart, Start, Now, Calling, fields, task
    <2>2. CASE UNCHANGED cmdq
      BY <2>1, <2>2, <1>1
    <2>3. CASE ~task_run
      BY <2>1, <2>3, <1>b
    <2> QED BY <1>2, <2>2, <2>3 DEF RunStart
  <1>3. CASE RunCreate
    <2>1. /\ apc = "create" /\ UNCHANGED <<cmdq, stopping>>
          /\ audio_thread' = audio_thread + 1
          /\ todo' = [todo EXCEPT ![audio_thread'] = TaskStart]
      BY <1>3 DEF RunCreate
    <2>2. ASSUME NEW j \in Tasks, Serving(j)
          PROVE  Serving(j)'
      <3>1. todo[j] # <<>>
        BY <2>2, InEmpty DEF Serving
      <3>2. j # audio_thread'
        BY <3>1, <2>1, <1>0 DEF Shapes, TypeOK, Tasks
      <3>3. todo'[j] = todo[j]
        BY <2>1, <3>2, <1>0 DEF TypeOK
      <3> QED BY <2>2, <3>3 DEF Serving
    <2>3. Coming => Coming'
      BY <2>1, <2>2 DEF Coming
    <2>4. ~Sending
      BY <2>1 DEF Sending
    <2> QED BY <2>1, <2>3, <2>4, <1>b, ServedIs
  <1>4. CASE StopFlag
    <2>1. /\ Now("stop") /\ apc = "flag" /\ UNCHANGED <<cmdq, todo>>
          /\ IF stopping THEN Return("OK") ELSE Go("send")
      BY <1>4 DEF StopFlag, task
    <2>2. CASE stopping
      <3>1. Coming
        BY <2>1, <2>2, ServedIs DEF Sending
      <3>2. Coming'
        BY <3>1, <2>1 DEF Coming, Serving
      <3> QED BY <3>2, <1>b
    <2>3. CASE ~stopping
      <3>1. Sending'
        BY <2>1, <2>3 DEF Go, Sending, Now
      <3> QED BY <3>1, <1>b
    <2> QED BY <2>2, <2>3
  <1>5. CASE Send
    <2>1. /\ job # <<>> /\ apc = "send" /\ UNCHANGED todo
          /\ ~freed
      BY <1>5, <1>0 DEF Send, task, Places
    <2>2. CASE /\ cmdq' = Append(cmdq, CmdOf[Head(job)]) /\ UNCHANGED stopping
      <3>1. cmdq \in Seq(Commands) /\ CmdOf[Head(job)] \in Commands
        BY <2>1, AtPlace, <1>0 DEF CmdOf, Commands, TypeOK
      <3>2. CASE Head(job) = "stop"
        <4>1. CmdOf[Head(job)] = "STOP"
          BY <3>2 DEF CmdOf
        <4>2. In(cmdq', "STOP")
          BY <2>2, <3>1, <4>1, InAppend
        <4> QED BY <4>2, <1>b DEF Coming
      <3>3. CASE Head(job) # "stop"
        <4>1. stopping => Coming
          BY <3>3, ServedIs DEF Sending, Now
        <4>2. In(cmdq, "STOP") => In(cmdq', "STOP")
          BY <2>2, <3>1, InAppend
        <4>3. \A j \in Tasks : Serving(j) => Serving(j)'
          BY <2>1 DEF Serving
        <4>4. Coming => Coming'
          BY <4>2, <4>3 DEF Coming
        <4> QED BY <4>1, <4>4, <2>2, <1>b
      <3> QED BY <3>2, <3>3
    <2>3. CASE /\ stopping' = (stopping /\ ~Now("stop")) /\ UNCHANGED cmdq
      <3>1. stopping' => stopping /\ ~Sending
        BY <2>3, <1>0 DEF Sending, TypeOK
      <3>2. stopping' => Coming
        BY <3>1, ServedIs
      <3>3. Coming => Coming'
        BY <2>1, <2>3 DEF Coming, Serving
      <3> QED BY <3>2, <3>3, <1>b
    <2> QED BY <1>5, <2>2, <2>3 DEF Send
  <1>6. CASE ResumeStart \/ PauseStart \/ StopStart \/ WaitStart \/ TerminateStart
    <2>1. apc # "send" /\ UNCHANGED <<cmdq, todo, stopping>>
      BY <1>6 DEF ResumeStart, PauseStart, StopStart, WaitStart, TerminateStart,
         Start, fields, task
    <2> QED BY <2>1, <1>1
  <1>7. CASE PauseForce \/ StopMark \/ StopAbort \/ StopLook \/ ClearBit
    <2>1. apc # "send" /\ UNCHANGED <<cmdq, todo, stopping>>
      BY <1>7 DEF PauseForce, StopMark, StopAbort, StopLook, ClearBit, fields,
         task
    <2> QED BY <2>1, <1>1
  <1>8. CASE Wait \/ WaitEnd \/ ResetState \/ ResetRings \/ Free
    <2>1. apc # "send" /\ UNCHANGED <<cmdq, todo, stopping>>
      BY <1>8 DEF Wait, WaitEnd, ResetState, ResetRings, Free, Start, fields,
         task
    <2> QED BY <2>1, <1>1
  <1>9. CASE GroupStep
    <2>1. UNCHANGED <<cmdq, todo, stopping, app>>
      BY <1>9 DEF GroupStep, fields, task
    <2> QED BY <2>1, SameServed DEF Sending, Now, app
  <1> QED BY <1>2, <1>3, <1>4, <1>5, <1>6, <1>7, <1>8, <1>9 DEF AppStep

\* Every step, of a task, of the application or of neither.
LEMMA NextKeepsServed ==
  ASSUME Base, StopIsServed, [Next]_vars,
         Calling("run") /\ apc = "start" /\ ~task_run => ~stopping
  PROVE  StopIsServed'
  <1>1. CASE UNCHANGED vars
    <2>1. UNCHANGED <<cmdq, todo, stopping, job, apc, freed>>
      BY <1>1 DEF vars, fields, task, app
    <2> QED BY <2>1, SameServed DEF Sending, Now
  <1>2. ASSUME NEW k \in Tasks, TaskStep(k)
        PROVE  StopIsServed'
    BY <1>2, TaskKeepsServed DEF Base
  <1>3. ASSUME NEW c \in Calls, Call(c)
        PROVE  StopIsServed'
    <2>1. job = <<>> /\ UNCHANGED <<cmdq, todo, stopping>>
      BY <1>3 DEF Call, fields, task
    <2> QED BY <2>1, SameServed DEF Sending, Now
  <1>4. CASE AppStep
    BY <1>4, AppKeepsServed
  <1> QED BY <1>1, <1>2, <1>3, <1>4 DEF Next

\* While `stopping' is set a STOP is on its way, so the stop that
\* audio_element_stop swallows (line 1266) is never lost: for any number of
\* tasks and calls and any length of the queue.  A wait of
\* audio_element_terminate that expires, or a task that has failed to get its
\* buffer (line 461), could leave the flag set by a stop that the dying task
\* never sees, and the next audio_element_run would discard the command: hence
\* the assumption.
THEOREM StopIsServedHolds ==
  ASSUME MayExpire \/ MayFail => MaxTasks = 1
  PROVE  Spec => []StopIsServed
  <1> DEFINE Tame == ~MayExpire /\ ~MayFail
  <1>1. Init => StopIsServed
    BY DEF Init, StopIsServed
  <1>2. ASSUME Base, Tame => IInv
        PROVE  Calling("run") /\ apc = "start" /\ ~task_run => ~stopping
    <2>1. CASE Tame
      BY <1>2, <2>1 DEF IInv, Handshake, NoEndWhileStopping
    <2>2. CASE MaxTasks = 1
      BY <1>2, <2>2 DEF Base, Places, NoTaskNoStop, TypeOK
    <2> QED BY <2>1, <2>2
  <1>3. ASSUME Base, Tame => IInv, StopIsServed, [Next]_vars
        PROVE  StopIsServed'
    BY <1>2, <1>3, NextKeepsServed
  <1>4. Spec => []Base
    BY InitBase, NextKeepsBase, PTL DEF Spec
  <1>5. CASE ~Tame
    <2>1. Base /\ StopIsServed /\ [Next]_vars => StopIsServed'
      BY <1>3, <1>5
    <2> QED BY <1>1, <1>4, <2>1, PTL DEF Spec
  <1>6. CASE Tame
    <2>1. Spec => []IInv
      BY <1>6, ElementInvariance
    <2>2. IInv /\ StopIsServed /\ [Next]_vars => StopIsServed'
      BY <1>3 DEF IInv
    <2> QED BY <1>1, <2>1, <2>2, PTL DEF Spec
  <1> QED BY <1>5, <1>6

-----------------------------------------------------------------------------
(* The element is freed behind its task. *)

\* Only the last part of audio_element_deinit frees the element.
LEMMA OnlyFreeFrees ==
  ASSUME Base, [Next]_vars, ~freed, freed'
  PROVE  Free
  <1>1. ASSUME NEW k \in Tasks, TaskStep(k)
        PROVE  freed' = freed
    BY <1>1, TaskEffect DEF Frame, app
  <1>2. ASSUME NEW c \in Calls, Call(c)
        PROVE  freed' = freed
    BY <1>2 DEF Call
  <1>3. CASE UNCHANGED vars
    BY <1>3 DEF vars, app
  <1>4. ASSUME NEW x, Go(x) \/ Return(x)
        PROVE  freed' = freed
    BY <1>4 DEF Go, Return
  <1>5. CASE RunStart \/ ResumeStart \/ PauseStart \/ StopStart \/ WaitStart \/
             TerminateStart
    BY <1>4, <1>5 DEF RunStart, ResumeStart, PauseStart, StopStart, WaitStart,
       TerminateStart
  <1>6. CASE RunCreate \/ PauseForce \/ StopMark \/ StopAbort \/ StopLook \/
             ClearBit
    BY <1>4, <1>6 DEF RunCreate, PauseForce, StopMark, StopAbort, StopLook,
       ClearBit
  <1>7. CASE StopFlag \/ Send \/ Wait \/ WaitEnd \/ ResetState \/ ResetRings
    BY <1>4, <1>7 DEF StopFlag, Send, Wait, WaitEnd, ResetState, ResetRings
  <1>8. CASE GroupStep
    BY <1>8 DEF GroupStep, app
  <1> QED BY <1>1, <1>2, <1>3, <1>5, <1>6, <1>7, <1>8 DEF Next, AppStep

\* When audio_element_deinit frees the element, its task has at most the
\* cancellation of line 500 left to do: for any number of tasks and calls, any
\* queue and any calls before it, unless audio_element_terminate (line 1049)
\* failed.  It can fail here only because the queue is full, and
\* audio_element_deinit does not look at its result.  The task must have got
\* its buffer: without (line 461) it has cleared task_run already, and
\* terminate returns at once.
THEOREM FreedAfterEnd ==
  ASSUME ~MayExpire, ~MayFail
  PROVE  Spec => [][~freed /\ freed' /\ result # "FAIL" => FreedWhenLeft']_vars
  <1>1. ASSUME IInv, [Next]_vars, ~freed, freed', result # "FAIL"
        PROVE  FreedWhenLeft'
    <2>1. Free
      BY <1>1, OnlyFreeFrees DEF IInv
    <2>2. Calling("free") /\ UNCHANGED <<todo, at>>
      BY <2>1 DEF Free, Start, Now, Calling, task
    <2>3. ASSUME NEW k \in Tasks, Live(k)
          PROVE  Leaving(k)
      <3>1. k <= audio_thread
        BY <1>1, <2>3 DEF IInv, Base, Shapes, TypeOK, Tasks, Live
      <3>2. Left(k)
        BY <1>1, <2>2, <3>1 DEF IInv, Handshake, FreeAfterEnd
      <3> QED BY <3>2, LastStep DEF Left, Leaving
    <2> QED BY <2>2, <2>3 DEF FreedWhenLeft, Live, Leaving, Ahead
  <1>2. Spec => []IInv
    BY ElementInvariance
  <1>3. IInv /\ [Next]_vars =>
          [~freed /\ freed' /\ result # "FAIL" => FreedWhenLeft']_vars
    BY <1>1
  <1> QED BY <1>2, <1>3, PTL DEF Spec


\* audio_element_terminate finds room in the queue for its command.
Room == Calling("terminate") /\ apc = "send" => Len(cmdq) < QLen

\* audio_element_terminate gets the bit it waits for.
Granting ==
  Calling("terminate") /\ apc = "waiting" =>
    /\ wanted["app"] = Destroyed /\ ~clearing["app"]
    /\ phase["app"] = "out" => granted["app"]
    /\ phase["app"] = "awake" => Destroyed \in bits

NotRefused == Calling("free") => result # "FAIL"

Answered == Granting /\ NotRefused

\* A step of a task wakes audio_element_terminate only with its bit.
LEMMA TaskAnswers ==
  ASSUME Base, Answered, NEW k \in Tasks, TaskStep(k)
  PROVE  Answered'
  <1>1. Frame(k) /\ Effect(k)
    BY TaskEffect
  <1>2. UNCHANGED <<app, wanted>>
    BY <1>1 DEF Frame
  <1>5. Granting'
    <2>1. CASE UNCHANGED group
      BY <2>1, <1>2 DEF Answered, Granting, Calling, app, group
    <2>2. CASE TaskSet(k)
      <3>1. Event!SetBits({Arg(k)}) /\ Ready(k, "set")
        BY <2>2 DEF TaskSet
      <3>2. Arg(k) \in EventBits
        <4>1. CASE InLoop(k)
          BY <3>1, <4>1, PlainTail, PlainArgs DEF InLoop, Ready, Arg, EventBits
        <4>2. CASE Started(k)
          BY <4>2, BeginSteps DEF Started, Arg, Set, EventBits
        <4>3. ASSUME NEW i \in 1..9, "set" = Farewell[i][1],
                     Arg(k) = Farewell[i][2]
              PROVE  Arg(k) \in EventBits
          <5>1. i \in {1, 2, 3, 4, 5, 6, 7, 8, 9}
            OBVIOUS
          <5>2. i \in {2, 6, 7, 8}
            BY <5>1, <4>3, FarewellNames
          <5> QED BY <5>2, <4>3, FarewellNames DEF EventBits
        <4> QED BY <3>1, <4>1, <4>2, <4>3, ReadyAt
      <3>3. /\ bits' = bits \cup {Arg(k)}
            /\ UNCHANGED <<wanted, clearing, granted>>
            /\ phase'["app"] =
                 IF phase["app"] = "asleep" /\ wanted["app"] = Arg(k)
                 THEN "awake" ELSE phase["app"]
        BY <3>1, <3>2, SetWakes DEF Base
      <3> QED BY <3>3, <1>2 DEF Answered, Granting, Calling, app
    <2>3. CASE TaskClear(k)
      <3>1. Event!ClearBits({Arg(k)}) /\ Ready(k, "clear")
        BY <2>3 DEF TaskClear
      <3>2. Arg(k) = "STOPPED"
        BY <3>1, LoopStep, PlainArgs DEF Ready, Arg
      <3>3. /\ bits' = bits \ {"STOPPED"}
            /\ UNCHANGED <<phase, wanted, clearing, granted>>
        BY <3>1, <3>2 DEF Event!ClearBits
      <3> QED BY <3>3, <1>2 DEF Answered, Granting, Calling, app, Destroyed
    <2>4. UNCHANGED group \/ TaskSet(k) \/ TaskClear(k)
      <3>1. CASE TaskTo(k) \/ TaskField(k) \/ TaskClose(k) \/ TaskRings(k)
        BY <3>1 DEF TaskTo, TaskField, TaskClose, TaskRings
      <3>5. ASSUME NEW ok, TaskAlloc(k, ok)
            PROVE  UNCHANGED group
        BY <3>5 DEF TaskAlloc
      <3>2. CASE TaskEnter(k) \/ TaskCancel(k) \/ TaskCancelled(k)
        BY <3>2 DEF TaskEnter, TaskCancel, TaskCancelled
      <3>3. CASE TaskReceive(k) \/ TaskRun(k)
        BY <3>3 DEF TaskReceive, TaskRun
      <3>4. ASSUME NEW outcome, TaskOpen(k, outcome) \/ TaskProcess(k, outcome)
            PROVE  UNCHANGED group
        BY <3>4 DEF TaskOpen, TaskProcess
      <3> QED BY <3>1, <3>2, <3>3, <3>4, <3>5 DEF TaskStep
    <2> QED BY <2>1, <2>2, <2>3, <2>4
  <1>6. NotRefused'
    BY <1>2 DEF Answered, NotRefused, Calling, app
  <1> QED BY <1>5, <1>6 DEF Answered

\* So does a step of the application; terminate is not refused, as long as it
\* finds room.
LEMMA AppAnswers ==
  ASSUME Base, Answered, AppStep, ~MayExpire, Room
  PROVE  Answered'
  <1>0. TypeOK /\ Places /\ Granting /\ NotRefused
    BY DEF Base, Answered
  <1>a. ASSUME NEW next, Go(next), next # "waiting"
        PROVE  Answered'
    <2>1. UNCHANGED <<job, result>> /\ apc' = next
      BY <1>a DEF Go
    <2> QED BY <1>0, <1>a, <2>1 DEF Answered, Granting, NotRefused, Calling
  <1>b. ASSUME NEW r, Return(r), job # <<>>,
               Calling("terminate") => r # "FAIL",
               phase'["app"] = "out"
        PROVE  Answered'
    <2>1. /\ apc' = "start" /\ result' = r
          /\ Calling("free")' => Calling("terminate")
      BY <1>b, ReturnPlaces
    <2> QED BY <1>b, <2>1 DEF Answered, Granting, NotRefused
  <1>d. apc # "waiting" => phase["app"] = "out"
    BY <1>0 DEF Places
  <1>1. CASE RunStart
    <2>1. job # <<>> /\ ~Calling("terminate") /\ apc = "start"
          /\ phase' = phase
      BY <1>1 DEF RunStart, Start, Now, Calling, group
    <2>2. CASE Return("OK") /\ UNCHANGED cmdq
      BY <2>1, <2>2, <1>b, <1>d
    <2>3. CASE Go("clear") /\ cmdq' = <<>>
      BY <2>1, <2>3, <1>a
    <2> QED BY <1>1, <2>2, <2>3 DEF RunStart
  <1>2. CASE RunCreate
    <2>1. job # <<>> /\ apc = "create" /\ Go("wait") /\ UNCHANGED cmdq
      BY <1>2 DEF RunCreate, Now
    <2> QED BY <2>1, <1>a
  <1>3. CASE ResumeStart \/ PauseStart \/ StopStart
    <2>1. job # <<>> /\ ~Calling("terminate") /\ apc = "start"
          /\ phase' = phase
      BY <1>3 DEF ResumeStart, PauseStart, StopStart, Start, Now, Calling, group
    <2>2. (\E r : Return(r)) \/ (\E next : next # "waiting" /\ Go(next))
      BY <1>3 DEF ResumeStart, PauseStart, StopStart
    <2> QED BY <2>1, <2>2, <1>a, <1>b, <1>d
  <1>4. CASE PauseForce \/ StopMark
    <2>1. job # <<>> /\ ~Calling("terminate") /\ apc # "waiting"
          /\ UNCHANGED cmdq /\ Return("OK")
      BY <1>4 DEF PauseForce, StopMark, Now, Calling
    <2>2. phase'["app"] = "out"
      <3>1. CASE PauseForce
        BY <2>1, <3>1, <1>d DEF PauseForce, group
      <3>2. CASE StopMark
        <4>1. Event!SetBits({"STOPPED"}) /\ "STOPPED" \in EventBits
          BY <3>2 DEF StopMark, EventBits
        <4> QED BY <2>1, <4>1, <1>0, <1>d, SetWakes
      <3> QED BY <1>4, <3>1, <3>2
    <2> QED BY <2>1, <2>2, <1>b
  <1>5. CASE StopAbort \/ StopLook
    <2>1. job # <<>> /\ apc \in {"abort", "look"} /\ UNCHANGED cmdq
          /\ \E next : next # "waiting" /\ Go(next)
      BY <1>5 DEF StopAbort, StopLook, Now
    <2> QED BY <2>1, <1>a
  <1>6. CASE StopFlag
    <2>1. job # <<>> /\ ~Calling("terminate") /\ apc = "flag"
          /\ phase' = phase
          /\ (Return("OK") \/ Go("send"))
      BY <1>6 DEF StopFlag, Now, Calling, group
    <2> QED BY <2>1, <1>a, <1>b, <1>d
  <1>7. CASE WaitStart
    <2>1. job # <<>> /\ ~Calling("terminate") /\ apc = "start"
          /\ phase' = phase
          /\ ((\E r : Return(r)) \/ Go("wait"))
      BY <1>7 DEF WaitStart, Start, Now, Calling, group
    <2> QED BY <2>1, <1>a, <1>b, <1>d
  <1>8. CASE TerminateStart
    <2>1. job # <<>> /\ apc = "start"
          /\ phase' = phase
          /\ (Return("OK") \/ Go("clear"))
      BY <1>8 DEF TerminateStart, Start, Now, Calling, group
    <2> QED BY <2>1, <1>a, <1>b, <1>d
  <1>9. CASE ClearBit
    <2>1. job # <<>> /\ apc = "clear" /\ UNCHANGED cmdq
          /\ \E next : next # "waiting" /\ Go(next)
      BY <1>9 DEF ClearBit
    <2> QED BY <2>1, <1>a
  <1>10. CASE Send
    <2>1. job # <<>> /\ apc = "send" /\ phase' = phase /\ ~freed
      BY <1>10, <1>0 DEF Send, Places, group
    <2>2. CASE Calling("terminate")
      <3>1. Go("wait")
        BY <1>10, <2>2 DEF Send, Room, Calling, Now
      <3> QED BY <3>1, <1>a
    <2>3. CASE ~Calling("terminate")
      <3>1. Go("wait") \/ \E r : Return(r)
        BY <1>10 DEF Send
      <3> QED BY <2>1, <2>3, <3>1, <1>a, <1>b, <1>d
    <2> QED BY <2>2, <2>3
  <1>11. CASE Wait
    <2>1. /\ job # <<>> /\ apc = "wait"
          /\ UNCHANGED <<job, result>> /\ apc' = "waiting"
          /\ Event!WaitBits("app", BitOf(Head(job)), FALSE)
      BY <1>11 DEF Wait, Go
    <2>4. Granting'
      <3>1. /\ wanted'["app"] = BitOf(Head(job)) /\ clearing'["app"] = FALSE
            /\ phase["app"] = "out"
            /\ \/ granted'["app"] = TRUE
               \/ phase'["app"] = "asleep"
            /\ phase'["app"] # "awake"
        BY <2>1, <1>0 DEF Event!WaitBits, TypeOK, Event!TypeOK
      <3>2. Calling("terminate")' => BitOf(Head(job)) = Destroyed
        BY <2>1, HandshakeBits DEF Calling
      <3> QED BY <3>1, <3>2 DEF Granting
    <2>5. NotRefused'
      BY <2>1, <1>0 DEF NotRefused, Calling
    <2> QED BY <2>4, <2>5 DEF Answered
  <1>12. CASE GroupStep
    <2>1. UNCHANGED app /\ ~Event!Expire("app")
      BY <1>12 DEF GroupStep, Event!Expire
    <2>2. NotRefused'
      BY <2>1, <1>0 DEF NotRefused, Calling, app
    <2>3. Event!WaitReturn("app")
      BY <1>12, <2>1 DEF GroupStep
    <2>4. Granting'
      <3>1. /\ phase["app"] = "awake" /\ phase'["app"] = "out"
            /\ granted'["app"] = (wanted["app"] \in bits)
            /\ clearing' = clearing /\ wanted' = wanted
        BY <2>3, <1>0 DEF Event!WaitReturn, TypeOK, Event!TypeOK
      <3>2. Calling("terminate")' /\ apc' = "waiting" =>
              Calling("terminate") /\ apc = "waiting"
        BY <2>1 DEF Calling, app
      <3> QED BY <3>1, <3>2, <1>0 DEF Granting
    <2> QED BY <2>2, <2>4 DEF Answered
  <1>13. CASE WaitEnd
    <2>1. /\ job # <<>> /\ apc = "waiting" /\ phase["app"] = "out"
          /\ UNCHANGED <<cmdq, group>>
      BY <1>13 DEF WaitEnd
    <2>2. PICK r : /\ Return(r)
                   /\ granted["app"] => r = "OK"
      BY <1>13 DEF WaitEnd
    <2>3. Calling("terminate") => r # "FAIL"
      BY <2>1, <2>2, <1>0 DEF Granting
    <2> QED BY <2>1, <2>2, <2>3, <1>b DEF group
  <1>14. CASE ResetState \/ ResetRings
    <2>1. job # <<>> /\ ~Calling("terminate") /\ apc = "start"
          /\ phase' = phase /\ Return("OK")
      BY <1>14 DEF ResetState, ResetRings, Start, Now, Calling, group
    <2> QED BY <2>1, <1>b, <1>d
  <1>15. CASE Free
    <2>1. job' = <<>>
      BY <1>15 DEF Free
    <2> QED BY <2>1 DEF Answered, Granting, NotRefused, Calling
  <1> QED BY <1>1, <1>2, <1>3, <1>4, <1>5, <1>6, <1>7, <1>8, <1>9, <1>10,
             <1>11, <1>12, <1>13, <1>14, <1>15 DEF AppStep


\* A call that begins has not been refused anything.
LEMMA CallAnswers ==
  ASSUME Base, Answered, NEW c \in Calls, Call(c)
  PROVE  Answered'
  <1>1. apc' = "start" /\ c \in ApiCalls
    BY AudioElementAssumption DEF Call, Base, Places
  <1>2. Head(job') # "free"
    BY <1>1 DEF Call, ApiCalls
  <1> QED BY <1>1, <1>2 DEF Answered, Granting, NotRefused, Calling

\* FreedWhenLeft itself, in every behaviour in which audio_element_terminate
\* finds room in the queue for its command: audio_element_deinit never frees
\* the element under its task, for any number of tasks and calls and any length
\* of the queue.  (A terminate that is refused fails, and deinit frees all the
\* same: FreedAfterEnd is all that is left then.)
THEOREM FreedWhenLeftHolds ==
  ASSUME ~MayExpire, ~MayFail
  PROVE  Spec /\ []Room => []FreedWhenLeft
  <1>1. Init => Answered /\ FreedWhenLeft
    <2> SUFFICES ASSUME Init
                 PROVE  Answered /\ FreedWhenLeft
      OBVIOUS
    <2>1. job = <<>> /\ freed = FALSE
      BY DEF Init
    <2> QED BY <2>1 DEF Answered, Granting, NotRefused, Calling, FreedWhenLeft
  <1>2. ASSUME IInv, Room, Answered, [Next]_vars
        PROVE  Answered'
    <2>1. CASE UNCHANGED vars
      <3>1. UNCHANGED <<job, apc, result, wanted, clearing, phase, granted,
                        bits>>
        BY <2>1 DEF vars, app, group
      <3> QED BY <3>1, <1>2 DEF Answered, Granting, NotRefused, Calling
    <2>2. ASSUME NEW k \in Tasks, TaskStep(k)
          PROVE  Answered'
      BY <1>2, <2>2, TaskAnswers DEF IInv
    <2>3. ASSUME NEW c \in Calls, Call(c)
          PROVE  Answered'
      BY <1>2, <2>3, CallAnswers DEF IInv
    <2>4. CASE AppStep
      BY <1>2, <2>4, AppAnswers DEF IInv
    <2> QED BY <1>2, <2>1, <2>2, <2>3, <2>4 DEF Next
  <1>3. ASSUME IInv, Answered, FreedWhenLeft, [Next]_vars
        PROVE  FreedWhenLeft'
    <2>1. CASE ~freed /\ freed'
      <3>1. Calling("free")
        BY <1>3, <2>1, OnlyFreeFrees DEF IInv, Free, Start, Now, Calling
      <3>2. result # "FAIL"
        BY <3>1, <1>3 DEF Answered, NotRefused
      <3>3. UNCHANGED <<todo, at>>
        BY <1>3, <2>1, OnlyFreeFrees DEF IInv, Free, task
      <3>4. ASSUME NEW k \in Tasks, Live(k)
            PROVE  Leaving(k)
        <4>1. k <= audio_thread
          BY <1>3, <3>4 DEF IInv, Base, Shapes, TypeOK, Tasks, Live
        <4>2. Left(k)
          BY <1>3, <3>1, <3>2, <4>1 DEF IInv, Handshake, FreeAfterEnd
        <4> QED BY <4>2, LastStep DEF Left, Leaving
      <3> QED BY <3>3, <3>4 DEF FreedWhenLeft, Live, Leaving, Ahead
    <2>2. CASE freed
      <3>1. UNCHANGED <<todo, at>>
        <4>1. job = <<>>
          BY <1>3, <2>2 DEF IInv, Base, Places
        <4>2. ~\E k \in Tasks : TaskStep(k)
          BY <2>2 DEF TaskStep, TaskTo, TaskSet, TaskClear, TaskField, TaskClose,
             TaskRings, TaskEnter, TaskCancel, TaskCancelled, TaskReceive,
             TaskRun, TaskAlloc, TaskOpen, TaskProcess, Ready, Idle
        <4>3. AppStep => GroupStep
          BY <4>1, <2>2 DEF AppStep, RunStart, RunCreate, ResumeStart,
             PauseStart, PauseForce, StopStart, StopMark, StopAbort, StopLook,
             StopFlag, WaitStart, TerminateStart, ClearBit, Send, Wait, WaitEnd,
             ResetState, ResetRings, Free, Start, Now
        <4>4. GroupStep \/ UNCHANGED vars
          BY <1>3, <2>2, <4>2, <4>3 DEF Next, Call
        <4> QED BY <4>4 DEF GroupStep, vars, task
      <3> QED BY <2>2, <3>1, <1>3 DEF FreedWhenLeft, Live, Leaving, Ahead
    <2>3. CASE ~freed'
      BY <2>3 DEF FreedWhenLeft
    <2> QED BY <2>1, <2>2, <2>3
  <1>4. Spec => []IInv
    BY ElementInvariance
  <1> QED BY <1>1, <1>2, <1>3, <1>4, PTL DEF Spec

-----------------------------------------------------------------------------
(* The fields of an element whose clients do not pause it.                 *)
(*                                                                         *)
(* state, is_open and is_running are then written by the task alone, in    *)
(* the order of its handlers.  Fits(t, s, run, open, done) says which      *)
(* values s, run, open and done these fields and out_done can have when t  *)
(* is what the task has still to do: one disjunct per place of a handler   *)
(* at which they may disagree, and Settled for all the others.             *)

One == MaxTasks = 1

\* Where a stream has ended.
EndStates == {"STOPPED", "FINISHED", "ERROR"}

\* Steps that write none of the fields; with the reset of is_running, which
\* says nothing new once the element is closed.
Mild == {Set(b) : b \in {"STOPPED", "STARTED", "RESUMED"}} \cup
        {Clr("STOPPED"), Do("unstop"), Do("abort")}
MildHalt == Mild \cup {Do("halt")}

Settled(t, s, run, open, done) ==
  /\ t \in Seq(MildHalt)
  /\ run => t \in Seq(Mild)
  /\ s \in {"INIT", "RUNNING"} \cup EndStates
  /\ run <=> open
  /\ run <=> s = "RUNNING"
  /\ One /\ done => s \in EndStates

\* The handlers of stop, error and finish close, store the state and reset
\* is_running, in this order.
HeadIs(t, head) == t # <<>> /\ Head(t) = head
HaltsFirst(t) == HeadIs(t, Do("halt")) /\ Tail(t) \in Seq(MildHalt)
TurnsFirst(t) == \E x \in EndStates : HeadIs(t, To(x)) /\ HaltsFirst(Tail(t))

Halts(t, s, open)  == HaltsFirst(t) /\ ~open /\ s \in EndStates
Turns(t, open)     == TurnsFirst(t) /\ ~open
Closes(t)          == HeadIs(t, Do("close")) /\ TurnsFirst(Tail(t))

\* The handler of resume, up to the open callback.
Resume1(open) == <<Do("go"), Set("RESUMED"), To("INITIALIZING"), Do(open)>>
Resume2(open) == <<Set("RESUMED"), To("INITIALIZING"), Do(open)>>
Resume3(open) == <<To("INITIALIZING"), Do(open)>>
Resume(open)  == <<Do("reset_out")>> \o Resume1(open)
Resuming(t, s, run, open, done) ==
  \E x \in {"open", "reopen"} :
    /\ ~open
    /\ \/ t = Resume(x)
       \/ /\ One => ~done
          /\ \/ t = Resume1(x)
             \/ run /\ t \in {Resume2(x), Resume3(x)}
             \/ run /\ s = "INITIALIZING" /\ t = <<Do(x)>>

\* A resume of an element that runs.
Again(t, s, run, open, done) ==
  t = <<Do("go"), Set("RESUMED")>> /\ Settled(<<>>, s, run, open, done) /\ run

\* What follows the open callback.
Plays(t, run, open, done) ==
  /\ HeadIs(t, To("RUNNING")) /\ Tail(t) \in Seq(Mild)
  /\ run /\ open /\ (One => ~done)
Aborts(t, s) ==
  HeadIs(t, Do("on_stop")) /\ Tail(t) \in Seq(MildHalt) /\ s = "INITIALIZING"
ErrsFirst(t) == HeadIs(t, Do("on_error")) /\ Tail(t) \in Seq(MildHalt)
Fails(t)   == HeadIs(t, To("ERROR")) /\ ErrsFirst(Tail(t))
Errs(t, s) == ErrsFirst(t) /\ s = "ERROR"

\* The end of the stream.
Finishes(t, s) ==
  /\ t \in {<<Do("done_out"), Do("on_finish")>>, <<Do("on_finish")>>}
  /\ s = "RUNNING"

\* The beginning and the end of the task.
AtBegin(t, run, open, done) ==
  /\ t \in {TaskStart, Begun, Tail(Begun)}
  /\ ~run /\ ~open /\ (One => ~done)
\* The buffer is about to be allocated.
Allocates(t, s, run, open, done) ==
  t = Tail(Tail(Begun)) /\ s = "INIT" /\ ~run /\ ~open /\ (One => ~done)
AtExit(t, run, open) ==
  \E i \in 1..9 : t = From(i) /\ (i >= 2 => ~run) /\ (i >= 4 => ~open)

Fits(t, s, run, open, done) ==
  \/ Settled(t, s, run, open, done) \/ Halts(t, s, open) \/ Turns(t, open)
  \/ Closes(t) \/ Resuming(t, s, run, open, done)
  \/ Again(t, s, run, open, done) \/ Plays(t, run, open, done)
  \/ Aborts(t, s) \/ Fails(t) \/ Errs(t, s) \/ Finishes(t, s)
  \/ AtBegin(t, run, open, done) \/ Allocates(t, s, run, open, done)
  \/ AtExit(t, run, open)

\* The clients do not pause the element, nor reset its state.
Unpaused == ~Calling("pause") /\ ~Calling("reset_state") /\ ~Queued("PAUSE")

\* One task at a time has the element, and audio_element_run finds none.
Sole ==
  /\ \A k \in Tasks : k < audio_thread => Left(k)
  /\ Calling("run") /\ apc = "create" => ~task_run

\* A task that got no buffer has cleared task_run, and goes on to its end.
Unbuffered(k) == todo[k] \in {<<>>, <<Clr("STOPPED")>>}

\* The fields fit to what the task of the element has still to do.
Fitting ==
  /\ ~task_run => ~is_running /\ ~is_open
  /\ One /\ audio_thread = 0 => ~out_done
  /\ \A k \in Tasks : k = audio_thread /\ at[k] # "gone" =>
       /\ InLoop(k) \/ Started(k) => task_run \/ Unbuffered(k)
       /\ at[k] = "process" => todo[k] = <<>> /\ is_running
       /\ Fits(todo[k], state, is_running, is_open, out_done)

-----------------------------------------------------------------------------
\* What the steps of the kinds above are.
LEMMA MildParts ==
  /\ Mild \subseteq MildHalt
  /\ Do("halt") \in MildHalt
  /\ \A b \in {"STOPPED", "STARTED", "RESUMED"} : Set(b) \in Mild
  /\ Clr("STOPPED") \in Mild /\ Do("unstop") \in Mild /\ Do("abort") \in Mild
  /\ \A h \in Mild : \/ h[1] \in {"set", "clear"}
                     \/ h[1] = "do" /\ h[2] \in {"unstop", "abort"}
  /\ \A h \in MildHalt : h \in Mild \/ h = Do("halt")
  <1>1. /\ Mild \subseteq MildHalt
        /\ Do("halt") \in MildHalt
        /\ \A h \in MildHalt : h \in Mild \/ h = Do("halt")
    BY DEF MildHalt
  <1>2. /\ \A b \in {"STOPPED", "STARTED", "RESUMED"} : Set(b) \in Mild
        /\ Clr("STOPPED") \in Mild /\ Do("unstop") \in Mild
        /\ Do("abort") \in Mild
    BY DEF Mild
  <1>3. ASSUME NEW h \in Mild
        PROVE  \/ h[1] \in {"set", "clear"}
               \/ h[1] = "do" /\ h[2] \in {"unstop", "abort"}
    <2>1. CASE h \in {Clr("STOPPED"), Do("unstop"), Do("abort")}
      BY <2>1 DEF Clr, Do
    <2>2. CASE \E b \in {"STOPPED", "STARTED", "RESUMED"} : h = Set(b)
      BY <2>2 DEF Set
    <2> QED BY <2>1, <2>2 DEF Mild
  <1> QED BY <1>1, <1>2, <1>3

\* What is left of a sequence of such steps.
LEMMA MildTail ==
  ASSUME NEW t, t # <<>>
  PROVE  /\ t \in Seq(Mild) => Head(t) \in Mild /\ Tail(t) \in Seq(Mild)
         /\ t \in Seq(MildHalt) =>
              Head(t) \in MildHalt /\ Tail(t) \in Seq(MildHalt)
  <1>1. Mild \subseteq MildHalt
    BY MildParts
  <1> HIDE DEF Mild, MildHalt
  <1>2. t \in Seq(Mild) => Head(t) \in Mild /\ Tail(t) \in Seq(Mild)
    BY HeadTailProperties
  <1>3. t \in Seq(MildHalt) => Head(t) \in MildHalt /\ Tail(t) \in Seq(MildHalt)
    BY HeadTailProperties
  <1> QED BY <1>2, <1>3

\* The reset of is_running may be among these steps, it need not.
LEMMA MildSeq ==
  ASSUME NEW t \in Seq(Mild)
  PROVE  t \in Seq(MildHalt)
  <1>1. Mild \subseteq MildHalt
    BY MildParts
  <1> HIDE DEF Mild, MildHalt
  <1> QED BY <1>1

\* Sequences of one, two or three elements, and none.
LEMMA ShortSeq ==
  ASSUME NEW S
  PROVE  /\ <<>> \in Seq(S)
         /\ \A a \in S : <<a>> \in Seq(S)
         /\ \A a, b \in S : <<a, b>> \in Seq(S)
         /\ \A a, b, c \in S : <<a, b, c>> \in Seq(S)
  OBVIOUS

\* One or two steps before others.
LEMMA ConsSteps ==
  ASSUME NEW S, NEW u \in Seq(S)
  PROVE  \A a, b : /\ <<a>> \o u # <<>> /\ Head(<<a>> \o u) = a
                   /\ Tail(<<a>> \o u) = u
                   /\ <<a, b>> \o u # <<>> /\ Head(<<a, b>> \o u) = a
                   /\ Tail(<<a, b>> \o u) = <<b>> \o u
  <1> TAKE a, b
  <1>1. /\ <<a>> \o u # <<>> /\ Head(<<a>> \o u) = a /\ Tail(<<a>> \o u) = u
    OBVIOUS
  <1>2. /\ <<a, b>> \o u # <<>> /\ Head(<<a, b>> \o u) = a
        /\ Tail(<<a, b>> \o u) = <<b>> \o u
    OBVIOUS
  <1> QED BY <1>1, <1>2

\* The suffixes of the handler of resume.
LEMMA ResumeSteps ==
  ASSUME NEW x
  PROVE  /\ Head(Resume(x)) = Do("reset_out") /\ Tail(Resume(x)) = Resume1(x)
         /\ Head(Resume1(x)) = Do("go") /\ Tail(Resume1(x)) = Resume2(x)
         /\ Head(Resume2(x)) = Set("RESUMED") /\ Tail(Resume2(x)) = Resume3(x)
         /\ Head(Resume3(x)) = To("INITIALIZING") /\ Tail(Resume3(x)) = <<Do(x)>>
         /\ Head(<<Do(x)>>) = Do(x) /\ Tail(<<Do(x)>>) = <<>>
  <1>1. Head(Resume(x)) = Do("reset_out") /\ Tail(Resume(x)) = Resume1(x)
    <2>1. Resume1(x) \in
            Seq({Do("go"), Set("RESUMED"), To("INITIALIZING"), Do(x)})
      BY DEF Resume1
    <2> QED BY <2>1, ConsSteps DEF Resume
  <1>2. Head(Resume1(x)) = Do("go") /\ Tail(Resume1(x)) = Resume2(x)
    BY DEF Resume1, Resume2
  <1>3. Head(Resume2(x)) = Set("RESUMED") /\ Tail(Resume2(x)) = Resume3(x)
    BY DEF Resume2, Resume3
  <1>4. Head(Resume3(x)) = To("INITIALIZING") /\ Tail(Resume3(x)) = <<Do(x)>>
    BY DEF Resume3
  <1>5. Head(<<Do(x)>>) = Do(x) /\ Tail(<<Do(x)>>) = <<>>
    OBVIOUS
  <1> QED BY <1>1, <1>2, <1>3, <1>4, <1>5

\* Where in its handlers the task is, told from its first step.
LEMMA FitsHead ==
  ASSUME NEW t, NEW s, NEW run, NEW open, NEW done,
         Fits(t, s, run, open, done), t # <<>>
  PROVE  LET h == Head(t) IN
         \/ h \in MildHalt /\ Settled(t, s, run, open, done)
         \/ h = Do("halt") /\ Halts(t, s, open)
         \/ h[1] = "to" /\ Turns(t, open)
         \/ h = Do("close") /\ Closes(t)
         \/ /\ h \in {Do("reset_out"), Do("go"), Set("RESUMED"),
                      To("INITIALIZING"), Do("open"), Do("reopen")}
            /\ Resuming(t, s, run, open, done)
         \/ h = Do("go") /\ Again(t, s, run, open, done)
         \/ h = To("RUNNING") /\ Plays(t, run, open, done)
         \/ h = Do("on_stop") /\ Aborts(t, s)
         \/ h = To("ERROR") /\ Fails(t)
         \/ h = Do("on_error") /\ Errs(t, s)
         \/ h \in {Do("done_out"), Do("on_finish")} /\ Finishes(t, s)
         \/ /\ h \in {Do("task_run"), Set("TASK_CREATED"), To("INIT")}
            /\ AtBegin(t, run, open, done)
         \/ h = Do("alloc") /\ Allocates(t, s, run, open, done)
         \/ /\ \E i \in 1..9 : h = Farewell[i]
            /\ AtExit(t, run, open)
  <1>1. CASE Settled(t, s, run, open, done)
    BY <1>1, MildTail DEF Settled
  <1>2. CASE Halts(t, s, open) \/ Turns(t, open) \/ Closes(t)
    <2>1. CASE Halts(t, s, open)
      BY <2>1, Zenon DEF Halts, HaltsFirst, HeadIs
    <2>2. CASE Turns(t, open)
      <3>1. PICK x \in EndStates : Head(t) = To(x)
        BY <2>2 DEF Turns, TurnsFirst, HeadIs
      <3>2. Head(t)[1] = "to"
        BY <3>1 DEF To
      <3> QED BY <2>2, <3>2
    <2>3. CASE Closes(t)
      BY <2>3, Zenon DEF Closes, HeadIs
    <2> QED BY <1>2, <2>1, <2>2, <2>3
  <1>3. CASE Resuming(t, s, run, open, done)
    <2>1. PICK x \in {"open", "reopen"} :
            t \in {Resume(x), Resume1(x), Resume2(x), Resume3(x), <<Do(x)>>}
      BY <1>3 DEF Resuming
    <2>2. Head(t) \in {Do("reset_out"), Do("go"), Set("RESUMED"),
                       To("INITIALIZING"), Do(x)}
      BY <2>1, ResumeSteps
    <2> QED BY <1>3, <2>1, <2>2
  <1>4. CASE Again(t, s, run, open, done)
    <2>1. Head(t) = Do("go")
      BY <1>4 DEF Again
    <2> QED BY <1>4, <2>1
  <1>5. CASE Plays(t, run, open, done) \/ Aborts(t, s) \/ Fails(t)
             \/ Errs(t, s)
    BY <1>5, Zenon DEF Plays, Aborts, Fails, Errs, ErrsFirst, HeadIs
  <1>6. CASE Finishes(t, s)
    BY <1>6 DEF Finishes
  <1>7. CASE AtBegin(t, run, open, done)
    <2>1. Head(Tail(Begun)) = To("INIT")
      BY DEF Begun
    <2> QED BY <1>7, <2>1, BeginSteps DEF AtBegin
  <1>8. CASE AtExit(t, run, open)
    BY <1>8, FarewellSteps DEF AtExit
  <1>9. CASE Allocates(t, s, run, open, done)
    <2>1. Head(Tail(Tail(Begun))) = Do("alloc")
      BY DEF Begun
    <2> QED BY <1>9, <2>1 DEF Allocates
  <1> QED BY <1>1, <1>2, <1>3, <1>4, <1>5, <1>6, <1>7, <1>8, <1>9 DEF Fits

\* The steps after the first one of the beginning.
LEMMA BegunSteps ==
  /\ Tail(Begun) # <<>> /\ Head(Tail(Begun)) = To("INIT")
  /\ Tail(Tail(Begun)) = <<Do("alloc"), Clr("STOPPED")>>
  /\ Tail(Tail(Tail(Begun))) = <<Clr("STOPPED")>>
  BY DEF Begun

\* What the steps of the beginning and of the end of a task are.
LEMMA ExitParts ==
  ASSUME NEW i \in 1..9, NEW h, h = Farewell[i]
  PROVE  /\ h[1] \in {"set", "do"}
         /\ h[1] = "set" => i \in {2, 6, 7, 8}
         /\ h[1] = "do" => h[2] \in {"halt", "exit_close", "unstop", "task_end",
                                     "cancel"}
         /\ h[2] = "halt" => i = 1
         /\ h[2] = "exit_close" => i = 3
         /\ h[2] = "unstop" => i = 4
         /\ h[2] = "task_end" => i = 5
         /\ h[2] = "cancel" => i = 9
  <1>1. i \in {1, 2, 3, 4, 5, 6, 7, 8, 9}
    OBVIOUS
  <1>2. CASE i \in {1, 3, 4, 5, 9}
    BY <1>2, FarewellNames
  <1>3. CASE i \in {2, 6, 7, 8}
    BY <1>3, FarewellNames
  <1> QED BY <1>1, <1>2, <1>3

\* el->state = x.
LEMMA FitsTo ==
  ASSUME NEW t, NEW s, NEW run \in BOOLEAN, NEW open \in BOOLEAN,
         NEW done \in BOOLEAN,
         Fits(t, s, run, open, done), t # <<>>, Head(t)[1] = "to"
  PROVE  Fits(Tail(t), Head(t)[2], run, open, done)
  <1>1. \/ Turns(t, open)
        \/ /\ Head(t) = To("INITIALIZING")
           /\ Resuming(t, s, run, open, done)
        \/ Head(t) = To("RUNNING") /\ Plays(t, run, open, done)
        \/ Head(t) = To("ERROR") /\ Fails(t)
        \/ Head(t) = To("INIT") /\ AtBegin(t, run, open, done)
    <2>1. Head(t) \notin MildHalt
      BY MildParts DEF Do
    <2>2. \A x : Head(t) # Do(x) /\ Head(t) # Set(x)
      BY DEF Do, Set
    <2>3. \A i \in 1..9 : Head(t) # Farewell[i]
      BY ExitParts
    <2> QED BY <2>1, <2>2, <2>3, FitsHead
  <1>2. CASE Turns(t, open)
    <2>1. PICK x \in EndStates : Head(t) = To(x) /\ HaltsFirst(Tail(t))
      BY <1>2 DEF Turns, TurnsFirst, HeadIs
    <2>2. Head(t)[2] = x /\ ~open
      BY <1>2, <2>1 DEF To, Turns
    <2> QED BY <2>1, <2>2 DEF Fits, Halts
  <1>3. CASE Head(t) = To("INITIALIZING") /\ Resuming(t, s, run, open, done)
    <2>1. PICK x \in {"open", "reopen"} :
            /\ ~open
            /\ \/ t = Resume(x)
               \/ /\ One => ~done
                  /\ \/ t = Resume1(x)
                     \/ run /\ t \in {Resume2(x), Resume3(x)}
                     \/ t = <<Do(x)>>
      BY <1>3 DEF Resuming
    <2>2. t \notin {Resume(x), Resume1(x), Resume2(x), <<Do(x)>>}
      <3>1. /\ Head(t) # Head(Resume(x)) /\ Head(t) # Head(Resume1(x))
            /\ Head(t) # Head(Resume2(x)) /\ Head(t) # Head(<<Do(x)>>)
        <4>1. \A y : To("INITIALIZING") # Do(y) /\ To("INITIALIZING") # Set(y)
          BY DEF To, Do, Set
        <4> QED BY <1>3, <4>1, ResumeSteps
      <3> QED BY <3>1
    <2>3. t = Resume3(x) /\ run /\ (One => ~done)
      BY <2>1, <2>2
    <2>4. Tail(t) = <<Do(x)>> /\ Head(t)[2] = "INITIALIZING"
      BY <1>3, <2>3, ResumeSteps DEF To
    <2>5. Resuming(Tail(t), Head(t)[2], run, open, done)
      BY <2>1, <2>3, <2>4 DEF Resuming
    <2> QED BY <2>5 DEF Fits
  <1>4. CASE Head(t) = To("RUNNING") /\ Plays(t, run, open, done)
    <2>1. Head(t)[2] = "RUNNING" /\ Tail(t) \in Seq(Mild)
          /\ Tail(t) \in Seq(MildHalt)
      BY <1>4, MildTail, MildSeq DEF Plays, To
    <2>2. Settled(Tail(t), "RUNNING", run, open, done)
      BY <1>4, <2>1 DEF Plays, Settled
    <2> QED BY <2>1, <2>2 DEF Fits
  <1>5. CASE Head(t) = To("ERROR") /\ Fails(t)
    <2>1. Head(t)[2] = "ERROR"
      BY <1>5 DEF To
    <2> QED BY <1>5, <2>1 DEF Fails, Errs, Fits
  <1>6. CASE Head(t) = To("INIT") /\ AtBegin(t, run, open, done)
    <2>1. Head(t)[2] = "INIT" /\ Head(t)[1] = "to"
      BY <1>6 DEF To
    <2>2. t = Tail(Begun)
      BY <1>6, <2>1, BeginSteps DEF AtBegin, Do, Set
    <2>3. Allocates(Tail(t), "INIT", run, open, done)
      BY <1>6, <2>2 DEF AtBegin, Allocates
    <2> QED BY <2>1, <2>3 DEF Fits
  <1> QED BY <1>1, <1>2, <1>3, <1>4, <1>5, <1>6

\* A bit, or a store to task_run or `stopping'.
LEMMA FitsRest ==
  ASSUME NEW t, NEW s, NEW run \in BOOLEAN, NEW open \in BOOLEAN,
         NEW done \in BOOLEAN,
         Fits(t, s, run, open, done), t # <<>>,
         \/ Head(t)[1] \in {"set", "clear"}
         \/ /\ Head(t)[1] = "do"
            /\ Head(t)[2] \in {"unstop", "abort", "task_run", "task_end"}
  PROVE  Fits(Tail(t), s, run, open, done)
  <1>0. /\ \A x : Head(t) # To(x)
        /\ \A x \in {"halt", "alloc", "close", "reset_out", "go", "open", "reopen",
                     "on_stop", "on_error", "done_out", "on_finish"} :
             Head(t) # Do(x)
    BY DEF To, Do
  <1>1. \/ Settled(t, s, run, open, done)
        \/ Head(t) = Set("RESUMED") /\ Resuming(t, s, run, open, done)
        \/ AtBegin(t, run, open, done)
        \/ AtExit(t, run, open)
    <2>1. Head(t)[1] # "to"
      OBVIOUS
    <2> QED BY <1>0, <2>1, FitsHead
  <1>2. CASE Settled(t, s, run, open, done)
    <2>1. Settled(Tail(t), s, run, open, done)
      BY <1>2, MildTail DEF Settled
    <2> QED BY <2>1 DEF Fits
  <1>3. CASE Head(t) = Set("RESUMED") /\ Resuming(t, s, run, open, done)
    <2>1. PICK x \in {"open", "reopen"} :
            /\ ~open
            /\ \/ t = Resume(x)
               \/ /\ One => ~done
                  /\ \/ t = Resume1(x)
                     \/ run /\ t \in {Resume2(x), Resume3(x)}
                     \/ t = <<Do(x)>>
      BY <1>3 DEF Resuming
    <2>2. t \notin {Resume(x), Resume1(x), Resume3(x), <<Do(x)>>}
      <3>1. /\ Head(t) # Head(Resume(x)) /\ Head(t) # Head(Resume1(x))
            /\ Head(t) # Head(Resume3(x)) /\ Head(t) # Head(<<Do(x)>>)
        <4>1. \A y : Set("RESUMED") # Do(y) /\ Set("RESUMED") # To(y)
          BY DEF To, Do, Set
        <4> QED BY <1>3, <4>1, ResumeSteps
      <3> QED BY <3>1
    <2>3. t = Resume2(x) /\ run /\ (One => ~done)
      BY <2>1, <2>2
    <2>4. Tail(t) = Resume3(x)
      BY <2>3, ResumeSteps
    <2>5. Resuming(Tail(t), s, run, open, done)
      BY <2>1, <2>3, <2>4 DEF Resuming
    <2> QED BY <2>5 DEF Fits
  <1>4. CASE AtBegin(t, run, open, done)
    <2>1. Head(t) # Head(Tail(Begun))
      BY <1>0, BegunSteps
    <2>2. t \in {TaskStart, Begun}
      BY <1>4, <2>1 DEF AtBegin
    <2>3. Tail(t) \in {Begun, Tail(Begun)}
      BY <2>2, BeginSteps
    <2>4. AtBegin(Tail(t), run, open, done)
      BY <1>4, <2>3 DEF AtBegin
    <2> QED BY <2>4 DEF Fits
  <1>5. CASE AtExit(t, run, open)
    <2>1. PICK i \in 1..9 :
            t = From(i) /\ (i >= 2 => ~run) /\ (i >= 4 => ~open)
      BY <1>5 DEF AtExit
    <2>2. Head(t) = Farewell[i] /\ Tail(t) = From(i + 1)
      BY <2>1, FarewellSteps
    <2>3. i \in {2, 4, 5, 6, 7, 8}
      BY <2>2, ExitParts
    <2>4. i + 1 \in 1..9 /\ (i + 1 >= 2 => ~run) /\ (i + 1 >= 4 => ~open)
      BY <2>1, <2>3
    <2>5. AtExit(Tail(t), run, open)
      BY <2>2, <2>4 DEF AtExit
    <2> QED BY <2>5 DEF Fits
  <1> QED BY <1>1, <1>2, <1>3, <1>4, <1>5

\* The buffer of the element is asked for by a task that does nothing yet.
LEMMA AllocIsEarly ==
  ASSUME NEW t, NEW s, NEW run \in BOOLEAN, NEW open \in BOOLEAN,
         NEW done \in BOOLEAN,
         Fits(t, s, run, open, done), t # <<>>,
         Head(t)[1] = "do", Head(t)[2] = "alloc"
  PROVE  Allocates(t, s, run, open, done)
  <1>0. /\ \A x : Head(t) # To(x) /\ Head(t) # Set(x)
        /\ \A x \in {"task_run", "close", "halt", "reset_out", "go", "open",
                     "reopen", "on_stop", "on_error", "done_out", "on_finish"} :
             Head(t) # Do(x)
        /\ Head(t) \notin Mild
    BY MildParts DEF To, Do, Set
  <1>1. Head(t)[1] # "to"
    OBVIOUS
  <1>2. Head(t) \notin MildHalt
    BY <1>0, MildParts
  <1>3. \A i \in 1..9 : Head(t) # Farewell[i]
    BY ExitParts
  <1> QED BY <1>0, <1>1, <1>2, <1>3, FitsHead

\* With or without the buffer the task is settled.
LEMMA AllocSettles ==
  ASSUME NEW t, NEW s, NEW run \in BOOLEAN, NEW open \in BOOLEAN,
         NEW done \in BOOLEAN, Allocates(t, s, run, open, done)
  PROVE  /\ Tail(t) = <<Clr("STOPPED")>> /\ ~run /\ ~open
         /\ Fits(Tail(t), s, run, open, done)
  <1>2. /\ Tail(t) = <<Clr("STOPPED")>> /\ ~run /\ ~open /\ s = "INIT"
        /\ One => ~done
    BY BegunSteps DEF Allocates
  <1>3. Tail(t) \in Seq(Mild) /\ Tail(t) \in Seq(MildHalt)
    <2> HIDE DEF Mild, MildHalt
    <2>1. Clr("STOPPED") \in Mild
      BY MildParts
    <2>2. Tail(t) \in Seq(Mild)
      BY <1>2, <2>1, ShortSeq
    <2> QED BY <2>2, MildSeq
  <1>4. Settled(Tail(t), s, run, open, done)
    BY <1>2, <1>3 DEF Settled
  <1> QED BY <1>2, <1>4 DEF Fits

\* is_running = false
LEMMA FitsHalt ==
  ASSUME NEW t, NEW s, NEW run \in BOOLEAN, NEW open \in BOOLEAN,
         NEW done \in BOOLEAN,
         Fits(t, s, run, open, done), t # <<>>,
         Head(t)[1] = "do", Head(t)[2] = "halt"
  PROVE  Fits(Tail(t), s, FALSE, open, done)
  <1>0. /\ \A x : Head(t) # To(x) /\ Head(t) # Set(x)
        /\ \A x \in {"task_run", "alloc", "close", "reset_out", "go", "open", "reopen",
                     "on_stop", "on_error", "done_out", "on_finish"} :
             Head(t) # Do(x)
        /\ Head(t) \notin Mild
    BY MildParts DEF To, Do, Set
  <1>1. \/ Settled(t, s, run, open, done)
        \/ Halts(t, s, open)
        \/ AtExit(t, run, open)
    <2>1. Head(t)[1] # "to"
      OBVIOUS
    <2> QED BY <1>0, <2>1, FitsHead
  <1>2. CASE Settled(t, s, run, open, done)
    <2>1. ~run
      BY <1>0, <1>2, MildTail DEF Settled
    <2>2. Settled(Tail(t), s, FALSE, open, done)
      BY <1>2, <2>1, MildTail DEF Settled
    <2> QED BY <2>2 DEF Fits
  <1>3. CASE Halts(t, s, open)
    <2>1. s # "RUNNING"
      BY <1>3 DEF Halts, EndStates
    <2>2. Settled(Tail(t), s, FALSE, open, done)
      BY <1>3, <2>1 DEF Halts, HaltsFirst, Settled
    <2> QED BY <2>2 DEF Fits
  <1>4. CASE AtExit(t, run, open)
    <2>1. PICK i \in 1..9 : t = From(i)
      BY <1>4 DEF AtExit
    <2>2. Head(t) = Farewell[i] /\ Tail(t) = From(i + 1)
      BY <2>1, FarewellSteps
    <2>3. i = 1
      BY <2>2, ExitParts
    <2>4. AtExit(Tail(t), FALSE, open)
      BY <2>2, <2>3 DEF AtExit
    <2> QED BY <2>4 DEF Fits
  <1> QED BY <1>1, <1>2, <1>3, <1>4

\* is_running = true
LEMMA FitsGo ==
  ASSUME NEW t, NEW s, NEW run \in BOOLEAN, NEW open \in BOOLEAN,
         NEW done \in BOOLEAN,
         Fits(t, s, run, open, done), t # <<>>,
         Head(t)[1] = "do", Head(t)[2] = "go"
  PROVE  Fits(Tail(t), s, TRUE, open, done)
  <1>0. /\ \A x : Head(t) # To(x) /\ Head(t) # Set(x)
        /\ \A x \in {"task_run", "alloc", "close", "reset_out", "halt", "open", "reopen",
                     "on_stop", "on_error", "done_out", "on_finish"} :
             Head(t) # Do(x)
        /\ Head(t) \notin Mild
    BY MildParts DEF To, Do, Set
  <1>1. \/ Resuming(t, s, run, open, done)
        \/ Again(t, s, run, open, done)
    <2>1. Head(t)[1] # "to"
      OBVIOUS
    <2>2. Head(t) \notin MildHalt
      BY <1>0, MildParts
    <2>3. \A i \in 1..9 : Head(t) # Farewell[i]
      BY ExitParts
    <2> QED BY <1>0, <2>1, <2>2, <2>3, FitsHead
  <1>2. CASE Resuming(t, s, run, open, done)
    <2>1. PICK x \in {"open", "reopen"} :
            /\ ~open
            /\ \/ t = Resume(x)
               \/ /\ One => ~done
                  /\ \/ t = Resume1(x)
                     \/ t \in {Resume2(x), Resume3(x), <<Do(x)>>}
      BY <1>2 DEF Resuming
    <2>2. t \notin {Resume(x), Resume2(x), Resume3(x), <<Do(x)>>}
      <3>1. /\ Head(t) # Head(Resume(x)) /\ Head(t) # Head(Resume2(x))
            /\ Head(t) # Head(Resume3(x)) /\ Head(t) # Head(<<Do(x)>>)
        BY <1>0, ResumeSteps
      <3> QED BY <3>1
    <2>3. t = Resume1(x) /\ (One => ~done)
      BY <2>1, <2>2
    <2>4. Tail(t) = Resume2(x)
      BY <2>3, ResumeSteps
    <2>5. Resuming(Tail(t), s, TRUE, open, done)
      BY <2>1, <2>3, <2>4 DEF Resuming
    <2> QED BY <2>5 DEF Fits
  <1>3. CASE Again(t, s, run, open, done)
    <2>1. Tail(t) = <<Set("RESUMED")>> /\ run = TRUE
      BY <1>3 DEF Again
    <2>2. Tail(t) \in Seq(Mild) /\ Tail(t) \in Seq(MildHalt)
      <3> HIDE DEF Mild, MildHalt
      <3>1. Set("RESUMED") \in Mild
        BY MildParts
      <3>2. Tail(t) \in Seq(Mild)
        BY <2>1, <3>1, ShortSeq
      <3> QED BY <3>2, MildSeq
    <2>3. Settled(Tail(t), s, TRUE, open, done)
      BY <1>3, <2>1, <2>2 DEF Again, Settled
    <2> QED BY <2>3 DEF Fits
  <1> QED BY <1>1, <1>2, <1>3

\* The element is closed; at the end of the task this may change the state.
LEMMA FitsClose ==
  ASSUME NEW t, NEW s, NEW run \in BOOLEAN, NEW open \in BOOLEAN,
         NEW done \in BOOLEAN, NEW x,
         Fits(t, s, run, open, done), t # <<>>,
         Head(t)[1] = "do", Head(t)[2] \in {"close", "exit_close"},
         Head(t)[2] = "close" => x = s
  PROVE  Fits(Tail(t), x, run, FALSE, done)
  <1>0. /\ \A y : Head(t) # To(y) /\ Head(t) # Set(y)
        /\ \A y \in {"task_run", "alloc", "halt", "reset_out", "go", "open", "reopen",
                     "on_stop", "on_error", "done_out", "on_finish"} :
             Head(t) # Do(y)
        /\ Head(t) \notin Mild
    BY MildParts DEF To, Do, Set
  <1>1. Closes(t) \/ AtExit(t, run, open)
    <2>1. Head(t)[1] # "to"
      OBVIOUS
    <2>2. Head(t) \notin MildHalt
      BY <1>0, MildParts
    <2> QED BY <1>0, <2>1, <2>2, FitsHead
  <1>2. CASE Closes(t)
    <2>1. Turns(Tail(t), FALSE)
      BY <1>2 DEF Closes, Turns
    <2> QED BY <2>1 DEF Fits
  <1>3. CASE AtExit(t, run, open)
    <2>1. PICK i \in 1..9 : t = From(i) /\ (i >= 2 => ~run)
      BY <1>3 DEF AtExit
    <2>2. Head(t) = Farewell[i] /\ Tail(t) = From(i + 1)
      BY <2>1, FarewellSteps
    <2>3. i = 3
      BY <2>2, ExitParts
    <2>4. AtExit(Tail(t), run, FALSE)
      BY <2>1, <2>2, <2>3 DEF AtExit
    <2> QED BY <2>4 DEF Fits
  <1> QED BY <1>1, <1>2, <1>3

\* The output is reset before a stream, and is done at the end of one.
LEMMA FitsRings ==
  ASSUME NEW t, NEW s, NEW run \in BOOLEAN, NEW open \in BOOLEAN,
         NEW done \in BOOLEAN,
         Fits(t, s, run, open, done), t # <<>>, Head(t)[1] = "do"
  PROVE  /\ Head(t)[2] = "reset_out" => Fits(Tail(t), s, run, open, FALSE)
         /\ Head(t)[2] = "done_out" => Fits(Tail(t), s, run, open, TRUE)
  <1>1. ASSUME Head(t)[2] = "reset_out"
        PROVE  Fits(Tail(t), s, run, open, FALSE)
    <2>0. /\ \A x : Head(t) # To(x) /\ Head(t) # Set(x)
          /\ \A x \in {"task_run", "alloc", "close", "halt", "go", "open", "reopen",
                       "on_stop", "on_error", "done_out", "on_finish"} :
               Head(t) # Do(x)
          /\ Head(t) \notin Mild
      BY <1>1, MildParts DEF To, Do, Set
    <2>1. Resuming(t, s, run, open, done)
      <3>1. Head(t) \notin MildHalt
        BY <2>0, MildParts
      <3>2. \A i \in 1..9 : Head(t) # Farewell[i]
        BY <1>1, ExitParts
      <3>3. Head(t)[1] # "to"
        OBVIOUS
      <3> QED BY <2>0, <3>1, <3>2, <3>3, FitsHead
    <2>2. PICK x \in {"open", "reopen"} :
            /\ ~open
            /\ t \in {Resume(x), Resume1(x), Resume2(x), Resume3(x), <<Do(x)>>}
      BY <2>1 DEF Resuming
    <2>3. t \notin {Resume1(x), Resume2(x), Resume3(x), <<Do(x)>>}
      <3>1. /\ Head(t) # Head(Resume1(x)) /\ Head(t) # Head(Resume2(x))
            /\ Head(t) # Head(Resume3(x)) /\ Head(t) # Head(<<Do(x)>>)
        BY <2>0, ResumeSteps
      <3> QED BY <3>1
    <2>4. Tail(t) = Resume1(x)
      BY <2>2, <2>3, ResumeSteps
    <2>5. Resuming(Tail(t), s, run, open, FALSE)
      BY <2>2, <2>4 DEF Resuming
    <2> QED BY <2>5 DEF Fits
  <1>2. ASSUME Head(t)[2] = "done_out"
        PROVE  Fits(Tail(t), s, run, open, TRUE)
    <2>0. /\ \A x : Head(t) # To(x) /\ Head(t) # Set(x)
          /\ \A x \in {"task_run", "alloc", "close", "halt", "go", "open", "reopen",
                       "on_stop", "on_error", "reset_out", "on_finish"} :
               Head(t) # Do(x)
          /\ Head(t) \notin Mild
      BY <1>2, MildParts DEF To, Do, Set
    <2>1. Finishes(t, s)
      <3>1. Head(t) \notin MildHalt
        BY <2>0, MildParts
      <3>2. \A i \in 1..9 : Head(t) # Farewell[i]
        BY <1>2, ExitParts
      <3>3. Head(t)[1] # "to"
        OBVIOUS
      <3> QED BY <2>0, <3>1, <3>2, <3>3, FitsHead
    <2>2. Head(<<Do("on_finish")>>) = Do("on_finish")
      OBVIOUS
    <2>3. t = <<Do("done_out"), Do("on_finish")>> /\ s = "RUNNING"
      BY <2>0, <2>1, <2>2 DEF Finishes
    <2>4. Tail(t) = <<Do("on_finish")>>
      BY <2>3
    <2>5. Finishes(Tail(t), s)
      BY <2>3, <2>4 DEF Finishes
    <2> QED BY <2>5 DEF Fits
  <1> QED BY <1>1, <1>2

\* The application may take the mark of the end off the output at any time.
LEMMA FitsUndone ==
  ASSUME NEW t, NEW s, NEW run \in BOOLEAN, NEW open \in BOOLEAN,
         NEW done \in BOOLEAN,
         Fits(t, s, run, open, done)
  PROVE  Fits(t, s, run, open, FALSE)
  <1>1. \A u : Settled(u, s, run, open, done) => Settled(u, s, run, open, FALSE)
    BY DEF Settled
  <1>2. Again(t, s, run, open, done) => Again(t, s, run, open, FALSE)
    BY <1>1 DEF Again
  <1>3. Resuming(t, s, run, open, done) => Resuming(t, s, run, open, FALSE)
    <2> SUFFICES ASSUME Resuming(t, s, run, open, done)
                 PROVE  Resuming(t, s, run, open, FALSE)
      OBVIOUS
    <2>1. PICK x \in {"open", "reopen"} :
            /\ ~open
            /\ \/ t = Resume(x)
               \/ t = Resume1(x)
               \/ run /\ t \in {Resume2(x), Resume3(x)}
               \/ run /\ s = "INITIALIZING" /\ t = <<Do(x)>>
      BY DEF Resuming
    <2> QED BY <2>1 DEF Resuming
  <1>4. Plays(t, run, open, done) => Plays(t, run, open, FALSE)
    BY DEF Plays
  <1>5. AtBegin(t, run, open, done) => AtBegin(t, run, open, FALSE)
    BY DEF AtBegin
  <1>6. Allocates(t, s, run, open, done) => Allocates(t, s, run, open, FALSE)
    BY DEF Allocates
  <1> QED BY <1>1, <1>2, <1>3, <1>4, <1>5, <1>6, Zenon DEF Fits

\* The first element of a concatenation, and the others.
LEMMA ConcatSteps ==
  ASSUME NEW S, NEW t \in Seq(S), t # <<>>, NEW u \in Seq(S)
  PROVE  t \o u # <<>> /\ Head(t \o u) = Head(t) /\ Tail(t \o u) = Tail(t) \o u
  <1>1. /\ t \o u \in Seq(S) /\ Len(t \o u) = Len(t) + Len(u) /\ Len(t) >= 1
    OBVIOUS
  <1>2. t \o u # <<>> /\ Head(t \o u) = Head(t)
    BY <1>1
  <1>3. /\ Len(Tail(t) \o u) = Len(Tail(t \o u))
        /\ Tail(t) \o u \in Seq(S) /\ Tail(t \o u) \in Seq(S)
    BY <1>1, <1>2
  <1>4. \A i \in 1..Len(Tail(t \o u)) : Tail(t \o u)[i] = (Tail(t) \o u)[i]
    BY <1>1, <1>2
  <1> QED BY <1>2, <1>3, <1>4, SeqEqual

\* Steps that write no field are steps of the loop.
LEMMA MildPlain ==
  ASSUME NEW t \in Seq(MildHalt)
  PROVE  t \in Seq(Plain)
  <1>1. MildHalt \subseteq Plain
    <2>1. \A h \in MildHalt : \/ \E b \in {"STOPPED", "STARTED", "RESUMED"} :
                                   h = Set(b)
                              \/ h = Clr("STOPPED")
                              \/ h \in {Do("unstop"), Do("abort"), Do("halt")}
      BY DEF MildHalt, Mild
    <2> QED BY <2>1, PlainSteps
  <1> HIDE DEF MildHalt, Plain
  <1> QED BY <1>1

\* A handler that closes the element, called within another one.
LEMMA ClosesConcat ==
  ASSUME NEW c \in Seq(Plain), Closes(c), NEW u \in Seq(MildHalt)
  PROVE  Closes(c \o u)
  <1> HIDE DEF Plain, MildHalt
  <1>0. u \in Seq(Plain)
    BY MildPlain
  <1>1. c # <<>> /\ Head(c) = Do("close") /\ TurnsFirst(Tail(c))
    BY DEF Closes, HeadIs
  <1>2. PICK x \in EndStates :
          /\ Tail(c) # <<>> /\ Head(Tail(c)) = To(x)
          /\ HaltsFirst(Tail(Tail(c)))
    BY <1>1 DEF TurnsFirst, HeadIs
  <1>3. /\ Tail(Tail(c)) # <<>> /\ Head(Tail(Tail(c))) = Do("halt")
        /\ Tail(Tail(Tail(c))) \in Seq(MildHalt)
    BY <1>2 DEF HaltsFirst, HeadIs
  <1>4. Tail(c) \in Seq(Plain) /\ Tail(Tail(c)) \in Seq(Plain)
    BY <1>1, <1>2, PlainTail
  <1>5. /\ c \o u # <<>> /\ Head(c \o u) = Do("close")
        /\ Tail(c \o u) = Tail(c) \o u
    BY <1>0, <1>1, ConcatSteps
  <1>6. /\ Tail(c) \o u # <<>> /\ Head(Tail(c) \o u) = To(x)
        /\ Tail(Tail(c) \o u) = Tail(Tail(c)) \o u
    BY <1>0, <1>2, <1>4, ConcatSteps
  <1>7. /\ Tail(Tail(c)) \o u # <<>> /\ Head(Tail(Tail(c)) \o u) = Do("halt")
        /\ Tail(Tail(Tail(c)) \o u) = Tail(Tail(Tail(c))) \o u
    BY <1>0, <1>3, <1>4, ConcatSteps
  <1>8. Tail(Tail(Tail(c))) \o u \in Seq(MildHalt)
    BY <1>3
  <1>9. HaltsFirst(Tail(Tail(c)) \o u)
    BY <1>7, <1>8 DEF HaltsFirst, HeadIs
  <1>10. TurnsFirst(Tail(c) \o u)
    BY <1>6, <1>9 DEF TurnsFirst, HeadIs
  <1> QED BY <1>5, <1>10 DEF Closes, HeadIs

\* The handlers of stop, error and finish.
LEMMA ClosingHandlers ==
  /\ state \notin {"FINISHED", "STOPPED"} => Closes(OnStop)
  /\ state \in {"FINISHED", "STOPPED"} =>
       TurnsFirst(OnStop) \/ OnStop = <<Do("unstop")>>
  /\ state # "STOPPED" => Closes(OnError)
  /\ state \notin {"ERROR", "STOPPED"} => Closes(OnFinish)
  <1>1. <<Set("STOPPED")>> \in Seq(MildHalt)
    <2> HIDE DEF MildHalt
    <2>1. Set("STOPPED") \in MildHalt
      BY MildParts
    <2> QED BY <2>1, ShortSeq
  <1>2. <<Do("unstop"), Set("STOPPED")>> \in Seq(MildHalt)
    <2> HIDE DEF MildHalt
    <2>1. Set("STOPPED") \in MildHalt /\ Do("unstop") \in MildHalt
      BY MildParts
    <2> QED BY <2>1, ShortSeq
  <1> HIDE DEF MildHalt
  <1>3. ASSUME NEW t, NEW x \in EndStates, t # <<>>, Head(t) = To(x),
               HaltsFirst(Tail(t))
        PROVE  TurnsFirst(t)
    BY <1>3 DEF TurnsFirst, HeadIs
  <1>4. TurnsFirst(<<To("STOPPED"), Do("halt"), Do("unstop"), Set("STOPPED")>>)
    <2> DEFINE t == <<To("STOPPED"), Do("halt"), Do("unstop"), Set("STOPPED")>>
    <2>1. /\ t # <<>> /\ Head(t) = To("STOPPED") /\ Tail(t) # <<>>
          /\ Head(Tail(t)) = Do("halt")
          /\ Tail(Tail(t)) = <<Do("unstop"), Set("STOPPED")>>
      OBVIOUS
    <2> HIDE DEF t
    <2>2. HaltsFirst(Tail(t)) /\ "STOPPED" \in EndStates
      BY <2>1, <1>2 DEF HaltsFirst, HeadIs, EndStates
    <2>3. TurnsFirst(t)
      BY <2>1, <2>2, <1>3
    <2> QED BY <2>3 DEF t
  <1>5. ASSUME NEW x \in EndStates
        PROVE  TurnsFirst(<<To(x), Do("halt"), Set("STOPPED")>>)
    <2> DEFINE t == <<To(x), Do("halt"), Set("STOPPED")>>
    <2>1. /\ t # <<>> /\ Head(t) = To(x) /\ Tail(t) # <<>>
          /\ Head(Tail(t)) = Do("halt")
          /\ Tail(Tail(t)) = <<Set("STOPPED")>>
      OBVIOUS
    <2> HIDE DEF t
    <2>2. HaltsFirst(Tail(t))
      BY <2>1, <1>1 DEF HaltsFirst, HeadIs
    <2>3. TurnsFirst(t)
      BY <2>1, <2>2, <1>3
    <2> QED BY <2>3 DEF t
  <1>6. state \notin {"FINISHED", "STOPPED"} => Closes(OnStop)
    <2> SUFFICES ASSUME state \notin {"FINISHED", "STOPPED"}
                 PROVE  Closes(OnStop)
      OBVIOUS
    <2>1. OnStop = <<Do("close"), To("STOPPED"), Do("halt"), Do("unstop"),
                     Set("STOPPED")>>
      BY DEF OnStop
    <2>2. /\ OnStop # <<>> /\ Head(OnStop) = Do("close")
          /\ Tail(OnStop) =
               <<To("STOPPED"), Do("halt"), Do("unstop"), Set("STOPPED")>>
      BY <2>1
    <2> QED BY <2>2, <1>4 DEF Closes, HeadIs
  <1>7. state \in {"FINISHED", "STOPPED"} =>
          TurnsFirst(OnStop) \/ OnStop = <<Do("unstop")>>
    BY <1>4 DEF OnStop
  <1>8. ASSUME NEW t, NEW x \in EndStates,
               t = <<Do("close"), To(x), Do("halt"), Set("STOPPED")>>
        PROVE  Closes(t)
    <2>1. /\ t # <<>> /\ Head(t) = Do("close")
          /\ Tail(t) = <<To(x), Do("halt"), Set("STOPPED")>>
      BY <1>8
    <2> QED BY <2>1, <1>5 DEF Closes, HeadIs
  <1>9. state # "STOPPED" => Closes(OnError)
    BY <1>8 DEF OnError, EndStates
  <1>10. state \notin {"ERROR", "STOPPED"} => Closes(OnFinish)
    BY <1>8 DEF OnFinish, EndStates
  <1> QED BY <1>6, <1>7, <1>9, <1>10

\* The open callback is only called on a closed element, at the end of the
\* handler of resume.
LEMMA OpensAtEnd ==
  ASSUME NEW t, NEW s, NEW run \in BOOLEAN, NEW open \in BOOLEAN,
         NEW done \in BOOLEAN,
         Fits(t, s, run, open, done), t # <<>>,
         Head(t)[1] = "do", Head(t)[2] \in {"open", "reopen"}
  PROVE  /\ ~open /\ Tail(t) = <<>>
         /\ run /\ s = "INITIALIZING" /\ (One => ~done)
  <1>0. /\ \A x : Head(t) # To(x) /\ Head(t) # Set(x)
        /\ \A x \in {"task_run", "alloc", "close", "halt", "go", "reset_out",
                     "on_stop", "on_error", "done_out", "on_finish"} :
             Head(t) # Do(x)
        /\ Head(t) \notin Mild
    BY MildParts DEF To, Do, Set
  <1>1. Resuming(t, s, run, open, done)
    <2>1. Head(t) \notin MildHalt
      BY <1>0, MildParts
    <2>2. \A i \in 1..9 : Head(t) # Farewell[i]
      BY ExitParts
    <2>3. Head(t)[1] # "to"
      OBVIOUS
    <2> QED BY <1>0, <2>1, <2>2, <2>3, FitsHead
  <1>2. PICK x \in {"open", "reopen"} :
          /\ ~open
          /\ \/ t = Resume(x)
             \/ /\ One => ~done
                /\ \/ t \in {Resume1(x), Resume2(x), Resume3(x)}
                   \/ run /\ s = "INITIALIZING" /\ t = <<Do(x)>>
    BY <1>1 DEF Resuming
  <1>3. t \notin {Resume(x), Resume1(x), Resume2(x), Resume3(x)}
    <2>1. /\ Head(t) # Head(Resume(x)) /\ Head(t) # Head(Resume1(x))
          /\ Head(t) # Head(Resume2(x)) /\ Head(t) # Head(Resume3(x))
      BY <1>0, ResumeSteps
    <2> QED BY <2>1
  <1>4. /\ t = <<Do(x)>> /\ run /\ s = "INITIALIZING" /\ (One => ~done)
    BY <1>2, <1>3
  <1> QED BY <1>2, <1>4, ResumeSteps

\* What follows the open callback fits to an open element.
LEMMA FitsOpen ==
  ASSUME NEW t, NEW s, NEW run \in BOOLEAN, NEW open \in BOOLEAN,
         NEW done \in BOOLEAN, NEW outcome \in {"OK", "DONE", "ABORT", "FAIL"},
         Fits(t, s, run, open, done), t # <<>>,
         Head(t)[1] = "do", Head(t)[2] \in {"open", "reopen"}
  PROVE  Fits(Opened(Head(t)[2], outcome) \o Tail(t), s, run, TRUE, done)
  <1> DEFINE x == Head(t)[2]
  <1>3. x \in {"open", "reopen"}
    OBVIOUS
  <1>4. Tail(t) = <<>> /\ run /\ s = "INITIALIZING" /\ (One => ~done)
    BY OpensAtEnd
  <1> HIDE DEF x
  <1>6. Fits(Opened(x, outcome), s, run, TRUE, done)
    <2> DEFINE failed == <<Do("abort"), Do("halt")>> \o
                         (IF x = "open" THEN <<Set("STOPPED")>> ELSE <<>>)
    <2>1. failed \in Seq(MildHalt) /\ failed \in Seq(Plain)
      <3>1. failed \in Seq(MildHalt)
        <4> HIDE DEF MildHalt
        <4>1. /\ Do("abort") \in MildHalt /\ Do("halt") \in MildHalt
              /\ Set("STOPPED") \in MildHalt
          BY MildParts
        <4>2. /\ <<Do("abort"), Do("halt")>> \in Seq(MildHalt)
              /\ <<Set("STOPPED")>> \in Seq(MildHalt) /\ <<>> \in Seq(MildHalt)
          BY <4>1, ShortSeq
        <4> QED BY <4>2
      <3> QED BY <3>1, MildPlain
    <2> HIDE DEF failed
    <2>2. CASE outcome \in {"OK", "DONE"}
      <3> DEFINE u == IF outcome = "OK" THEN <<Set("STARTED"), Clr("STOPPED")>>
                                        ELSE <<Clr("STOPPED")>>
      <3>1. u \in Seq(Mild)
        <4> HIDE DEF Mild
        <4>1. Set("STARTED") \in Mild /\ Clr("STOPPED") \in Mild
          BY MildParts
        <4>2. /\ <<Set("STARTED"), Clr("STOPPED")>> \in Seq(Mild)
              /\ <<Clr("STOPPED")>> \in Seq(Mild)
          BY <4>1, ShortSeq
        <4> QED BY <4>2
      <3>2. /\ Opened(x, outcome) # <<>>
            /\ Head(Opened(x, outcome)) = To("RUNNING")
            /\ Tail(Opened(x, outcome)) = u
        <4>1. CASE outcome = "OK"
          <5>1. Opened(x, outcome) =
                  <<To("RUNNING"), Set("STARTED"), Clr("STOPPED")>>
            BY <4>1 DEF Opened
          <5>2. u = <<Set("STARTED"), Clr("STOPPED")>>
            BY <4>1
          <5> HIDE DEF u
          <5> QED BY <5>1, <5>2
        <4>2. CASE outcome = "DONE"
          <5>1. Opened(x, outcome) = <<To("RUNNING"), Clr("STOPPED")>>
            BY <4>2 DEF Opened
          <5>2. u = <<Clr("STOPPED")>>
            BY <4>2
          <5> HIDE DEF u
          <5> QED BY <5>1, <5>2
        <4> QED BY <2>2, <4>1, <4>2
      <3> HIDE DEF u
      <3>3. Plays(Opened(x, outcome), run, TRUE, done)
        BY <3>1, <3>2, <1>4 DEF Plays, HeadIs
      <3> QED BY <3>3 DEF Fits
    <2>3. CASE outcome = "ABORT"
      <3>1. Opened(x, outcome) = <<Do("on_stop")>> \o failed
        BY <2>3 DEF Opened, failed
      <3>2. /\ Opened(x, outcome) # <<>>
            /\ Head(Opened(x, outcome)) = Do("on_stop")
            /\ Tail(Opened(x, outcome)) = failed
        BY <2>1, <3>1, ConsSteps
      <3>3. Aborts(Opened(x, outcome), s)
        BY <2>1, <3>2, <1>4 DEF Aborts, HeadIs
      <3> QED BY <3>3 DEF Fits
    <2>4. CASE outcome = "FAIL"
      <3>1. Opened(x, outcome) = <<To("ERROR"), Do("on_error")>> \o failed
        BY <2>4 DEF Opened, failed
      <3>2. /\ Opened(x, outcome) # <<>>
            /\ Head(Opened(x, outcome)) = To("ERROR")
            /\ Tail(Opened(x, outcome)) = <<Do("on_error")>> \o failed
        BY <2>1, <3>1, ConsSteps
      <3>3. /\ Tail(Opened(x, outcome)) # <<>>
            /\ Head(Tail(Opened(x, outcome))) = Do("on_error")
            /\ Tail(Tail(Opened(x, outcome))) = failed
        BY <2>1, <3>2, ConsSteps
      <3>4. Fails(Opened(x, outcome))
        BY <2>1, <3>2, <3>3 DEF Fails, ErrsFirst, HeadIs
      <3> QED BY <3>4 DEF Fits
    <2> QED BY <2>2, <2>3, <2>4
  <1>7. Opened(x, outcome) \o <<>> = Opened(x, outcome)
    <2>1. Opened(x, outcome) \in Seq(Plain)
      BY <1>3, HandlersArePlain
    <2> QED BY <2>1, ConcatEmptySeq
  <1> QED BY <1>4, <1>6, <1>7 DEF x

\* A handler called within another one looks at the state.
LEMMA FitsEnter ==
  ASSUME NEW t, NEW run \in BOOLEAN, NEW open \in BOOLEAN,
         NEW done \in BOOLEAN,
         Fits(t, state, run, open, done), t # <<>>, Head(t)[1] = "do"
  PROVE  /\ Head(t)[2] = "on_stop" =>
              Fits(OnStop \o Tail(t), state, run, open, done)
         /\ Head(t)[2] = "on_error" =>
              Fits(OnError \o Tail(t), state, run, open, done)
         /\ Head(t)[2] = "on_finish" =>
              Fits(OnFinish \o Tail(t), state, run, open, done)
  <1>1. ASSUME Head(t)[2] \in {"on_stop", "on_error", "on_finish"}
        PROVE  \/ Head(t) = Do("on_stop") /\ Aborts(t, state)
               \/ Head(t) = Do("on_error") /\ Errs(t, state)
               \/ Head(t) = Do("on_finish") /\ Finishes(t, state)
    <2>1. /\ \A x : Head(t) # To(x) /\ Head(t) # Set(x)
          /\ \A x \in {"task_run", "alloc", "close", "halt", "go", "reset_out", "open",
                       "reopen", "done_out"} : Head(t) # Do(x)
          /\ Head(t) \notin Mild
      BY <1>1, MildParts DEF To, Do, Set
    <2>2. Head(t) \notin MildHalt
      BY <2>1, MildParts
    <2>3. \A i \in 1..9 : Head(t) # Farewell[i]
      BY <1>1, ExitParts
    <2>4. Head(t)[1] # "to"
      OBVIOUS
    <2> QED BY <2>1, <2>2, <2>3, <2>4, FitsHead
  <1>2. ASSUME NEW c \in Seq(Plain), Closes(c), NEW u \in Seq(MildHalt)
        PROVE  Fits(c \o u, state, run, open, done)
    BY <1>2, ClosesConcat DEF Fits
  <1>3. /\ \A x, y : Do(x) = Do(y) => x = y
        /\ \A x : Do(x)[2] = x
    BY DEF Do
  <1>4. ASSUME Head(t)[2] = "on_stop"
        PROVE  Fits(OnStop \o Tail(t), state, run, open, done)
    <2>1. Aborts(t, state)
      BY <1>1, <1>3, <1>4
    <2>2. Tail(t) \in Seq(MildHalt) /\ Closes(OnStop)
      BY <2>1, ClosingHandlers DEF Aborts
    <2> QED BY <2>2, <1>2, HandlersArePlain
  <1>5. ASSUME Head(t)[2] = "on_error"
        PROVE  Fits(OnError \o Tail(t), state, run, open, done)
    <2>1. Errs(t, state)
      BY <1>1, <1>3, <1>5
    <2>2. Tail(t) \in Seq(MildHalt) /\ Closes(OnError)
      BY <2>1, ClosingHandlers DEF Errs, ErrsFirst
    <2> QED BY <2>2, <1>2, HandlersArePlain
  <1>6. ASSUME Head(t)[2] = "on_finish"
        PROVE  Fits(OnFinish \o Tail(t), state, run, open, done)
    <2>1. Finishes(t, state) /\ Head(t) = Do("on_finish")
      BY <1>1, <1>3, <1>6
    <2>2. Head(<<Do("done_out"), Do("on_finish")>>) = Do("done_out")
      OBVIOUS
    <2>3. t = <<Do("on_finish")>> /\ state = "RUNNING"
      BY <2>1, <2>2, <1>3 DEF Finishes
    <2>4. Tail(t) = <<>> /\ Closes(OnFinish)
      BY <2>3, ClosingHandlers
    <2>5. <<>> \in Seq(MildHalt)
      <3> HIDE DEF MildHalt
      <3> QED BY ShortSeq
    <2> QED BY <2>4, <2>5, <1>2, HandlersArePlain
  <1> QED BY <1>4, <1>5, <1>6

\* A resume of an element at rest.
LEMMA FitsResume ==
  ASSUME NEW x \in {"open", "reopen"}, NEW run \in BOOLEAN,
         NEW open \in BOOLEAN, NEW done \in BOOLEAN,
         Settled(<<>>, state, run, open, done)
  PROVE  Fits(OnResume(x), state, run, open, done)
  <1>1. CASE state = "RUNNING"
    <2>1. OnResume(x) = <<Do("go"), Set("RESUMED")>>
      BY <1>1 DEF OnResume
    <2>2. Again(OnResume(x), state, run, open, done)
      BY <1>1, <2>1 DEF Again, Settled
    <2> QED BY <2>2 DEF Fits
  <1>2. CASE state = "INIT"
    <2>1. OnResume(x) = <<>> \o Resume1(x)
      BY <1>2 DEF OnResume, Resume1
    <2>2. Resume1(x) \in Seq({Do("go"), Set("RESUMED"), To("INITIALIZING"), Do(x)})
      BY DEF Resume1
    <2>3. OnResume(x) = Resume1(x)
      BY <2>1, <2>2, ConcatEmptySeq
    <2>4. ~open /\ (One => ~done)
      BY <1>2 DEF Settled, EndStates
    <2>5. Resuming(OnResume(x), state, run, open, done)
      BY <2>3, <2>4 DEF Resuming
    <2> QED BY <2>5 DEF Fits
  <1>3. CASE state \in EndStates
    <2>1. OnResume(x) = Resume(x)
      BY <1>3 DEF OnResume, Resume, Resume1, EndStates
    <2>2. ~open
      BY <1>3 DEF Settled, EndStates
    <2>3. Resuming(OnResume(x), state, run, open, done)
      BY <2>1, <2>2 DEF Resuming
    <2> QED BY <2>3 DEF Fits
  <1> QED BY <1>1, <1>2, <1>3 DEF Settled

\* The other commands, and the end of the process callback.
LEMMA FitsIdle ==
  ASSUME NEW run \in BOOLEAN, NEW open \in BOOLEAN, NEW done \in BOOLEAN,
         Settled(<<>>, state, run, open, done)
  PROVE  /\ Fits(OnStop, state, run, open, done)
         /\ Fits(From(1), state, run, open, done)
         /\ run => Fits(OnError, state, run, open, done)
         /\ run => Fits(<<Do("done_out"), Do("on_finish")>>, state, run, open, done)
  <1>1. Fits(OnStop, state, run, open, done)
    <2>1. CASE state \notin {"FINISHED", "STOPPED"}
      BY <2>1, ClosingHandlers DEF Fits
    <2>2. CASE state \in {"FINISHED", "STOPPED"} /\ TurnsFirst(OnStop)
      BY <2>2 DEF Fits, Turns, Settled
    <2>3. CASE OnStop = <<Do("unstop")>>
      <3>1. OnStop \in Seq(Mild) /\ OnStop \in Seq(MildHalt)
        <4> HIDE DEF Mild, MildHalt
        <4>1. Do("unstop") \in Mild
          BY MildParts
        <4>2. OnStop \in Seq(Mild)
          BY <2>3, <4>1, ShortSeq
        <4> QED BY <4>2, MildSeq
      <3>2. Settled(OnStop, state, run, open, done)
        BY <3>1 DEF Settled
      <3> QED BY <3>2 DEF Fits
    <2> QED BY <2>1, <2>2, <2>3, ClosingHandlers
  <1>2. Fits(From(1), state, run, open, done)
    <2>1. AtExit(From(1), run, open)
      BY DEF AtExit
    <2> QED BY <2>1 DEF Fits
  <1>3. run => Fits(OnError, state, run, open, done)
    <2>1. run => state # "STOPPED"
      BY DEF Settled
    <2> QED BY <2>1, ClosingHandlers DEF Fits
  <1>4. run => Fits(<<Do("done_out"), Do("on_finish")>>, state, run, open, done)
    <2>1. run => Finishes(<<Do("done_out"), Do("on_finish")>>, state)
      BY DEF Settled, Finishes
    <2> QED BY <2>1 DEF Fits
  <1> QED BY <1>1, <1>2, <1>3, <1>4

\* Between two handlers, and at the end of the task.
LEMMA FitsAtRest ==
  ASSUME NEW s, NEW run \in BOOLEAN, NEW open \in BOOLEAN, NEW done \in BOOLEAN
  PROVE  /\ Fits(<<>>, s, run, open, done) => Settled(<<>>, s, run, open, done)
         /\ \A t : /\ Fits(t, s, run, open, done) /\ t # <<>>
                   /\ Head(t)[1] = "do" /\ Head(t)[2] = "task_end"
                   => ~run /\ ~open
  <1>1. ASSUME Fits(<<>>, s, run, open, done)
        PROVE  Settled(<<>>, s, run, open, done)
    <2> DEFINE t == <<>>
    <2>1. ~Halts(t, s, open) /\ ~Turns(t, open) /\ ~Closes(t)
      BY DEF Halts, Turns, Closes, HaltsFirst, TurnsFirst, HeadIs
    <2>2. ~Resuming(t, s, run, open, done)
      <3>1. ASSUME NEW x
            PROVE  t \notin {Resume(x), Resume1(x), Resume2(x), Resume3(x), <<Do(x)>>}
        <4>1. /\ t # Resume1(x) /\ t # Resume2(x) /\ t # Resume3(x)
              /\ t # <<Do(x)>>
          BY DEF Resume1, Resume2, Resume3
        <4>2. Resume1(x) \in
                Seq({Do("go"), Set("RESUMED"), To("INITIALIZING"), Do(x)})
          BY DEF Resume1
        <4>3. t # Resume(x)
          BY <4>2, ConsSteps DEF Resume
        <4> QED BY <4>1, <4>3
      <3> QED BY <3>1 DEF Resuming
    <2>3. ~Again(t, s, run, open, done) /\ ~Finishes(t, s)
      BY DEF Again, Finishes
    <2>4. ~Plays(t, run, open, done) /\ ~Aborts(t, s) /\ ~Fails(t) /\ ~Errs(t, s)
      BY Zenon DEF Plays, Aborts, Fails, Errs, ErrsFirst, HeadIs
    <2>5. ~AtBegin(t, run, open, done) /\ ~Allocates(t, s, run, open, done)
      BY BeginSteps, BegunSteps DEF AtBegin, Allocates
    <2>6. ~AtExit(t, run, open)
      BY FarewellSteps DEF AtExit
    <2> QED BY <1>1, <2>1, <2>2, <2>3, <2>4, <2>5, <2>6 DEF Fits
  <1>2. ASSUME NEW t, Fits(t, s, run, open, done), t # <<>>,
               Head(t)[1] = "do", Head(t)[2] = "task_end"
        PROVE  ~run /\ ~open
    <2>1. /\ \A x : Head(t) # To(x) /\ Head(t) # Set(x)
          /\ \A x \in {"task_run", "alloc", "close", "halt", "go", "reset_out", "open",
                       "reopen", "done_out", "on_stop", "on_error",
                       "on_finish"} : Head(t) # Do(x)
          /\ Head(t) \notin Mild
      BY <1>2, MildParts DEF To, Do, Set
    <2>2. Head(t) \notin MildHalt
      BY <2>1, MildParts
    <2>3. Head(t)[1] # "to"
      BY <1>2
    <2>4. AtExit(t, run, open)
      BY <1>2, <2>1, <2>2, <2>3, FitsHead
    <2>5. PICK i \in 1..9 :
            t = From(i) /\ (i >= 2 => ~run) /\ (i >= 4 => ~open)
      BY <2>4 DEF AtExit
    <2>6. Head(t) = Farewell[i]
      BY <2>5, FarewellSteps
    <2>7. i = 5
      BY <1>2, <2>6, ExitParts
    <2> QED BY <2>5, <2>7
  <1> QED BY <1>1, <1>2

\* A task without a buffer takes the rest of its first steps, and its last
\* ones; it does not work.
LEMMA UnbufferedSteps ==
  ASSUME TypeOK, NEW k \in Tasks, Unbuffered(k), ~task_run,
         at[k] # "process", TaskStep(k)
  PROVE  \/ at'[k] = "gone" \/ todo'[k] = <<>> \/ todo'[k] = From(3)
  <1>1. ASSUME NEW where, at' = [at EXCEPT ![k] = where]
        PROVE  at'[k] = where
    BY <1>1 DEF TypeOK
  <1>2. CASE todo[k] = <<>>
    <2>1. /\ ~TaskTo(k) /\ ~TaskSet(k) /\ ~TaskClear(k) /\ ~TaskField(k)
          /\ ~TaskClose(k) /\ ~TaskRings(k) /\ ~TaskEnter(k) /\ ~TaskCancel(k)
          /\ \A ok : ~TaskAlloc(k, ok)
          /\ \A outcome : ~TaskOpen(k, outcome)
      BY <1>2 DEF TaskTo, TaskSet, TaskClear, TaskField, TaskClose, TaskRings,
         TaskEnter, TaskCancel, TaskAlloc, TaskOpen, Ready
    <2>2. \A outcome : ~TaskProcess(k, outcome)
      BY DEF TaskProcess, Idle
    <2>3. CASE TaskCancelled(k)
      BY <2>3, <1>1 DEF TaskCancelled
    <2>4. CASE TaskRun(k)
      BY <2>4, <1>2 DEF TaskRun
    <2>5. CASE TaskReceive(k)
      <3>1. todo' = [todo EXCEPT ![k] = TaskExit]
        BY <2>5 DEF TaskReceive
      <3> QED BY <3>1, ExitIsFarewell DEF TypeOK
    <2> QED BY <2>1, <2>2, <2>3, <2>4, <2>5 DEF TaskStep
  <1>3. CASE todo[k] = <<Clr("STOPPED")>>
    <2>1. /\ todo[k] # <<>> /\ Head(todo[k]) = Clr("STOPPED")
          /\ Tail(todo[k]) = <<>>
      BY <1>3
    <2>2. \A op : Ready(k, op) => op = "clear"
      BY <2>1 DEF Ready, Clr
    <2>3. /\ ~TaskTo(k) /\ ~TaskSet(k) /\ ~TaskField(k)
          /\ ~TaskClose(k) /\ ~TaskRings(k) /\ ~TaskEnter(k) /\ ~TaskCancel(k)
          /\ \A ok : ~TaskAlloc(k, ok)
          /\ \A outcome : ~TaskOpen(k, outcome)
      BY <2>2 DEF TaskTo, TaskSet, TaskField, TaskClose, TaskRings, TaskEnter,
         TaskCancel, TaskAlloc, TaskOpen
    <2>4. /\ ~TaskCancelled(k) /\ ~TaskReceive(k) /\ ~TaskRun(k)
          /\ \A outcome : ~TaskProcess(k, outcome)
      BY <2>1 DEF TaskCancelled, TaskReceive, TaskRun, TaskProcess, Idle
    <2>5. TaskClear(k)
      BY <2>3, <2>4 DEF TaskStep
    <2>6. todo' = [todo EXCEPT ![k] = Tail(@)]
      BY <2>5 DEF TaskClear, Rest
    <2> QED BY <2>1, <2>6 DEF TypeOK
  <1> QED BY <1>2, <1>3 DEF Unbuffered

\* Only the allocation takes the mark off a task in its loop.
LEMMA MarkIsLost ==
  ASSUME Base, NEW k \in Tasks, TaskStep(k), InLoop(k), task_run, ~task_run'
  PROVE  /\ Ready(k, "do") /\ Arg(k) = "alloc" /\ Rest(k)
         /\ UNCHANGED <<state, is_running, is_open, out_done>>
  <1>1. /\ ~TaskTo(k) /\ ~TaskSet(k) /\ ~TaskClear(k) /\ ~TaskClose(k)
        /\ ~TaskRings(k) /\ ~TaskEnter(k)
    BY DEF TaskTo, TaskSet, TaskClear, TaskClose, TaskRings, TaskEnter, fields
  <1>2. /\ ~TaskCancel(k) /\ ~TaskCancelled(k) /\ ~TaskReceive(k)
        /\ ~TaskRun(k)
        /\ \A outcome : ~TaskOpen(k, outcome) /\ ~TaskProcess(k, outcome)
    BY DEF TaskCancel, TaskCancelled, TaskReceive, TaskRun, TaskOpen,
       TaskProcess, fields
  <1>3. ~TaskField(k)
    <2>1. ASSUME TaskField(k)
          PROVE  FALSE
      <3>1. Ready(k, "do") /\ Arg(k) = "task_end"
        BY <2>1 DEF TaskField
      <3>2. todo[k] # <<>> /\ Head(todo[k]) \in Plain
        BY <3>1, PlainTail DEF Ready, InLoop
      <3> QED BY <3>1, <3>2, PlainArgs DEF Ready, Arg
    <2> QED BY <2>1
  <1>4. PICK ok \in BOOLEAN : TaskAlloc(k, ok)
    BY <1>1, <1>2, <1>3 DEF TaskStep
  <1> QED BY <1>4 DEF TaskAlloc, rings

\* A task in its loop has the mark that it runs, or got no buffer.
LEMMA WorkerRuns ==
  ASSUME Base, Fitting, NEW k \in Tasks, k = audio_thread, TaskStep(k)
  PROVE  /\ \/ at'[k] = "gone" \/ ~(InLoop(k)' \/ Started(k)')
            \/ task_run' \/ Unbuffered(k)'
         /\ InLoop(k) => task_run \/ Unbuffered(k)
         /\ Fits(todo[k], state, is_running, is_open, out_done)
         /\ at[k] = "process" => todo[k] = <<>> /\ is_running
         /\ audio_thread' = audio_thread
  <1>1. Frame(k) /\ Effect(k)
    BY TaskEffect
  <1>2. /\ at[k] # "gone" /\ audio_thread' = audio_thread
    BY <1>1 DEF Frame
  <1>3. /\ InLoop(k) \/ Started(k) => task_run \/ Unbuffered(k)
        /\ Fits(todo[k], state, is_running, is_open, out_done)
        /\ at[k] = "process" => todo[k] = <<>> /\ is_running
        /\ ~task_run => ~is_running
    BY <1>2 DEF Fitting
  <1>4. /\ \A i \in 1..9 : /\ From(i) \notin Seq(Plain) /\ From(i) # Begun
        /\ 3 \in 1..9
    BY FarewellSteps
  <1>5. \/ at'[k] = "gone" \/ ~(InLoop(k)' \/ Started(k)')
        \/ task_run' \/ Unbuffered(k)'
    <2>1. CASE Works(k) /\ task_run
      <3>1. CASE ~task_run'
        <4>1. Ready(k, "do") /\ Arg(k) = "alloc" /\ Rest(k)
          BY <2>1, <3>1, MarkIsLost DEF Works
        <4>2. /\ todo[k] # <<>> /\ Head(todo[k])[1] = "do"
              /\ Head(todo[k])[2] = "alloc"
          BY <4>1 DEF Ready, Arg
        <4>5. /\ is_running \in BOOLEAN /\ is_open \in BOOLEAN
              /\ out_done \in BOOLEAN
          BY DEF Base, TypeOK
        <4>6. Fits(todo[k], state, is_running, is_open, out_done)
          BY <1>3
        <4>7. Allocates(todo[k], state, is_running, is_open, out_done)
          BY <4>2, <4>5, <4>6, AllocIsEarly
        <4>3. Tail(todo[k]) = <<Clr("STOPPED")>>
          BY <4>7, BegunSteps DEF Allocates
        <4>4. todo'[k] = Tail(todo[k])
          BY <4>1, RestOf DEF Rest, Base
        <4> QED BY <4>3, <4>4 DEF Unbuffered
      <3> QED BY <3>1
    <2>2. CASE Works(k) /\ ~task_run
      <3>1. Unbuffered(k) /\ at[k] # "process"
        BY <2>2, <1>3 DEF Works
      <3>2. at'[k] = "gone" \/ todo'[k] = <<>> \/ todo'[k] = From(3)
        BY <2>2, <3>1, UnbufferedSteps DEF Base
      <3> QED BY <3>2, <1>4 DEF Unbuffered, InLoop, Started
    <2>3. CASE Begins(k) \/ Ends(k)
      BY <2>3 DEF Begins, Ends
    <2>4. CASE Announces(k)
      <3>1. todo[k] = Begun
        BY <2>4 DEF Announces, Started
      <3>2. ~Unbuffered(k)
        <4>1. Len(Begun) = 4 /\ Len(<<Clr("STOPPED")>>) = 1 /\ Len(<<>>) = 0
          BY DEF Begun
        <4> QED BY <3>1, <4>1 DEF Unbuffered
      <3> QED BY <2>4, <3>2, <1>3 DEF Announces
    <2>5. CASE Receives(k) \/ Quits(k)
      BY <2>5, <1>4 DEF Receives, Quits, InLoop, Started
    <2>6. ASSUME NEW i \in 1..8, Leaves(k, i)
          PROVE  ~(InLoop(k)' \/ Started(k)')
      BY <2>6, <1>4 DEF Leaves, InLoop, Started
    <2> QED BY <1>1, <2>1, <2>2, <2>3, <2>4, <2>5, <2>6 DEF Effect
  <1> QED BY <1>2, <1>3, <1>5

\* What has to be shown of a step of the task that has the element.
LEMMA OwnStepFits ==
  ASSUME Base, Fitting, NEW k \in Tasks, k = audio_thread, TaskStep(k),
         is_running' => is_running \/ task_run,
         is_open' => is_open \/ task_run,
         task_run /\ ~task_run' => ~is_running' /\ ~is_open',
         \/ at'[k] = "gone"
         \/ /\ at'[k] = "process" => todo'[k] = <<>> /\ is_running'
            /\ Fits(todo'[k], state', is_running', is_open', out_done')
  PROVE  Fitting'
  <1>1. /\ \/ at'[k] = "gone" \/ ~(InLoop(k)' \/ Started(k)')
           \/ task_run' \/ Unbuffered(k)'
        /\ audio_thread' = audio_thread
    BY WorkerRuns
  <1>2. ~task_run => ~is_running /\ ~is_open
    BY DEF Fitting
  <1>3. task_run \in BOOLEAN /\ audio_thread # 0
    BY DEF Base, TypeOK, Tasks
  <1>4. ~task_run' => ~is_running' /\ ~is_open'
    BY <1>2, <1>3
  <1> QED BY <1>1, <1>3, <1>4 DEF Fitting

\* A step of the task that has the element keeps the fields fitting.
LEMMA OwnTaskFits ==
  ASSUME Base, Unpaused, Fitting, NEW k \in Tasks, k = audio_thread, TaskStep(k)
  PROVE  Fitting'
  <1>0. /\ TypeOK /\ state \in States /\ is_running \in BOOLEAN
        /\ is_open \in BOOLEAN /\ out_done \in BOOLEAN /\ task_run \in BOOLEAN
    BY DEF Base, TypeOK
  <1>1. /\ InLoop(k) => task_run \/ Unbuffered(k)
        /\ Fits(todo[k], state, is_running, is_open, out_done)
        /\ at[k] = "process" => todo[k] = <<>> /\ is_running
    BY WorkerRuns
  <1>g. ASSUME Ready(k, "do"), InLoop(k)
        PROVE  task_run
    <2>1. todo[k] # <<>> /\ Head(todo[k])[1] = "do"
      BY <1>g DEF Ready
    <2>2. Head(<<Clr("STOPPED")>>)[1] = "clear"
      BY DEF Clr
    <2> QED BY <2>1, <2>2, <1>g, <1>1 DEF Unbuffered
  <1>e. /\ is_running \in BOOLEAN /\ is_open \in BOOLEAN /\ out_done \in BOOLEAN
        /\ Fits(todo[k], state, is_running, is_open, out_done)
    BY <1>0, <1>1
  \* A step of a handler.
  <1>a. ASSUME NEW op, Ready(k, op)
        PROVE  /\ todo[k] # <<>> /\ Head(todo[k])[1] = op
               /\ Head(todo[k])[2] = Arg(k)
               /\ at[k] # "process"
    BY <1>1, <1>a DEF Ready, Arg
  <1>b. ASSUME Rest(k)
        PROVE  todo'[k] = Tail(todo[k])
    BY <1>b, <1>0, RestOf DEF Rest
  \* A step between two handlers.
  <1>c. ASSUME NEW where, Idle(k, where)
        PROVE  /\ Settled(<<>>, state, is_running, is_open, out_done)
               /\ at[k] = where /\ todo[k] = <<>> /\ InLoop(k)
    <2>1. todo[k] = <<>> /\ at[k] = where
      BY <1>c DEF Idle
    <2>2. InLoop(k)
      <3> HIDE DEF Plain
      <3> QED BY <2>1, ShortSeq DEF InLoop
    <2> QED BY <2>1, <2>2, <1>0, <1>1, FitsAtRest
  <1>d. ASSUME NEW where, at' = [at EXCEPT ![k] = where]
        PROVE  at'[k] = where
    BY <1>d, <1>0 DEF TypeOK
  <1>2. CASE TaskTo(k)
    <2>1. /\ Ready(k, "to") /\ Rest(k) /\ state' = Arg(k)
          /\ UNCHANGED <<is_open, is_running, task_run, out_done, at>>
      BY <1>2 DEF TaskTo, rings
    <2>2. Fits(Tail(todo[k]), Arg(k), is_running, is_open, out_done)
      BY <2>1, <1>e, <1>a, FitsTo
    <2> QED BY <2>1, <2>2, <1>a, <1>b, OwnStepFits
  <1>3. CASE TaskSet(k) \/ TaskClear(k)
    <2>1. /\ Ready(k, "set") \/ Ready(k, "clear")
          /\ Rest(k)
          /\ UNCHANGED <<state, is_open, is_running, task_run, out_done, at>>
      BY <1>3 DEF TaskSet, TaskClear, rings, fields
    <2>2. Fits(Tail(todo[k]), state, is_running, is_open, out_done)
      BY <2>1, <1>e, <1>a, FitsRest
    <2> QED BY <2>1, <2>2, <1>a, <1>b, OwnStepFits
  <1>4. CASE TaskField(k)
    <2>1. /\ Ready(k, "do") /\ Rest(k)
          /\ Arg(k) \in {"go", "halt", "unstop", "task_run", "task_end"}
          /\ UNCHANGED <<state, is_open, out_done, at>>
      BY <1>4 DEF TaskField, rings
    <2>2. CASE Arg(k) = "go"
      <3>1. is_running' = TRUE /\ task_run' = task_run
        BY <1>4, <2>2 DEF TaskField
      <3>2. Fits(Tail(todo[k]), state, TRUE, is_open, out_done)
        BY <2>1, <2>2, <1>e, <1>a, FitsGo
      <3>3. task_run
        BY <2>1, <2>2, LoopStep, <1>g
      <3> QED BY <2>1, <3>1, <3>2, <3>3, <1>a, <1>b, OwnStepFits
    <2>3. CASE Arg(k) = "halt"
      <3>1. is_running' = FALSE /\ task_run' = task_run
        BY <1>4, <2>3 DEF TaskField
      <3>2. Fits(Tail(todo[k]), state, FALSE, is_open, out_done)
        BY <2>1, <2>3, <1>e, <1>a, FitsHalt
      <3> QED BY <2>1, <3>1, <3>2, <1>a, <1>b, OwnStepFits
    <2>4. CASE Arg(k) \in {"unstop", "task_run", "task_end"}
      <3>1. /\ is_running' = is_running
            /\ Arg(k) = "unstop" => task_run' = task_run
            /\ Arg(k) = "task_run" => task_run'
        BY <1>4, <2>4 DEF TaskField
      <3>2. Fits(Tail(todo[k]), state, is_running, is_open, out_done)
        BY <2>1, <2>4, <1>e, <1>a, FitsRest
      <3>3. Arg(k) = "task_end" => ~is_running /\ ~is_open
        BY <2>1, <1>e, <1>a, FitsAtRest
      <3> QED BY <2>1, <2>4, <3>1, <3>2, <3>3, <1>a, <1>b, OwnStepFits
    <2> QED BY <2>1, <2>2, <2>3, <2>4
  <1>13. ASSUME NEW ok \in BOOLEAN, TaskAlloc(k, ok)
         PROVE  Fitting'
    <2>1. /\ Ready(k, "do") /\ Rest(k) /\ Arg(k) = "alloc"
          /\ UNCHANGED <<state, is_open, is_running, out_done, at>>
      BY <1>13 DEF TaskAlloc, rings
    <2>2. /\ Fits(Tail(todo[k]), state, is_running, is_open, out_done)
          /\ ~is_running /\ ~is_open
      <3> DEFINE t == todo[k]
      <3>1. /\ t # <<>> /\ Head(t)[1] = "do" /\ Head(t)[2] = "alloc"
        BY <2>1, <1>a
      <3>2. Allocates(t, state, is_running, is_open, out_done)
        BY <3>1, <1>e, AllocIsEarly
      <3> QED BY <3>2, <1>0, AllocSettles
    <2> QED BY <2>1, <2>2, <1>a, <1>b, OwnStepFits
  <1>5. CASE TaskClose(k)
    <2>1. /\ Ready(k, "do") /\ Rest(k) /\ Arg(k) \in {"close", "exit_close"}
          /\ is_open' = FALSE /\ (Arg(k) = "close" => state' = state)
          /\ UNCHANGED <<is_running, task_run, out_done, at>>
      BY <1>5 DEF TaskClose, rings
    <2>2. Fits(Tail(todo[k]), state', is_running, FALSE, out_done)
      <3> DEFINE t == todo[k]
                 new == state'
      <3>1. /\ t # <<>> /\ Head(t)[1] = "do"
            /\ Head(t)[2] \in {"close", "exit_close"}
        BY <2>1, <1>a
      <3>2. Head(t)[2] = "close" => new = state
        BY <2>1, <1>a
      <3>3. Fits(t, state, is_running, is_open, out_done)
        BY <1>e
      <3> HIDE DEF t, new
      <3>4. Fits(Tail(t), new, is_running, FALSE, out_done)
        BY ONLY <1>e, <3>1, <3>2, <3>3, FitsClose, ZenonT(20)
      <3> QED BY <3>4 DEF t, new
    <2> QED BY <2>1, <2>2, <1>a, <1>b, OwnStepFits
  <1>6. CASE TaskRings(k)
    <2>1. /\ Ready(k, "do") /\ Rest(k)
          /\ \/ Arg(k) = "abort" /\ out_done' = out_done
             \/ Arg(k) = "reset_out" /\ out_done' = FALSE
             \/ Arg(k) = "done_out" /\ out_done' = TRUE
          /\ UNCHANGED <<state, is_open, is_running, task_run, at>>
      BY <1>6 DEF TaskRings, fields
    <2>2. Fits(Tail(todo[k]), state, is_running, is_open, out_done')
      <3>1. CASE Arg(k) = "abort" /\ out_done' = out_done
        BY <2>1, <3>1, <1>e, <1>a, FitsRest
      <3>2. CASE Arg(k) # "abort"
        BY <2>1, <3>2, <1>e, <1>a, FitsRings
      <3> QED BY <2>1, <3>1, <3>2
    <2> QED BY <2>1, <2>2, <1>a, <1>b, OwnStepFits
  <1>7. ASSUME NEW outcome \in {"OK", "DONE", "ABORT", "FAIL"},
               TaskOpen(k, outcome)
        PROVE  Fitting'
    <2>1. /\ Ready(k, "do") /\ Arg(k) \in {"open", "reopen"} /\ is_open' = TRUE
          /\ todo' = [todo EXCEPT ![k] = Opened(Arg(k), outcome) \o Tail(@)]
          /\ UNCHANGED <<state, is_running, task_run, out_done, at>>
      BY <1>7 DEF TaskOpen, rings
    <2>2. Fits(Opened(Arg(k), outcome) \o Tail(todo[k]), state, is_running, TRUE,
               out_done)
      <3> DEFINE t == todo[k]
      <3>1. /\ t # <<>> /\ Head(t)[1] = "do" /\ Head(t)[2] \in {"open", "reopen"}
        BY <2>1, <1>a
      <3>2. Fits(t, state, is_running, is_open, out_done)
        BY <1>e
      <3>3. Head(t)[2] = Arg(k)
        BY <2>1, <1>a
      <3> HIDE DEF t
      <3>4. Fits(Opened(Head(t)[2], outcome) \o Tail(t), state, is_running, TRUE,
                 out_done)
        BY ONLY <1>e, <1>7, <3>1, <3>2, FitsOpen
      <3> QED BY <3>3, <3>4 DEF t
    <2>3. todo'[k] = Opened(Arg(k), outcome) \o Tail(todo[k])
      BY <2>1, <1>0 DEF TypeOK
    <2>4. task_run
      BY <2>1, LoopStep, <1>g
    <2> QED BY <2>1, <2>2, <2>3, <2>4, <1>a, OwnStepFits
  <1>8. CASE TaskEnter(k)
    <2>1. /\ Ready(k, "do")
          /\ \/ /\ Arg(k) = "on_stop"
                /\ todo' = [todo EXCEPT ![k] = OnStop \o Tail(@)]
             \/ /\ Arg(k) = "on_error"
                /\ todo' = [todo EXCEPT ![k] = OnError \o Tail(@)]
             \/ /\ Arg(k) = "on_finish"
                /\ todo' = [todo EXCEPT ![k] = OnFinish \o Tail(@)]
          /\ UNCHANGED <<state, is_open, is_running, task_run, out_done, at>>
      BY <1>8 DEF TaskEnter, rings, fields
    <2>2. \/ Arg(k) = "on_stop" /\ todo'[k] = OnStop \o Tail(todo[k])
          \/ Arg(k) = "on_error" /\ todo'[k] = OnError \o Tail(todo[k])
          \/ Arg(k) = "on_finish" /\ todo'[k] = OnFinish \o Tail(todo[k])
      BY <2>1, <1>0 DEF TypeOK
    <2>3. Fits(todo'[k], state, is_running, is_open, out_done)
      <3>1. /\ todo[k] # <<>> /\ Head(todo[k])[1] = "do"
            /\ Head(todo[k])[2] = Arg(k)
        BY <2>1, <1>a
      <3>2. /\ Arg(k) = "on_stop" => Fits(OnStop \o Tail(todo[k]), state,
                                         is_running, is_open, out_done)
            /\ Arg(k) = "on_error" => Fits(OnError \o Tail(todo[k]), state,
                                          is_running, is_open, out_done)
            /\ Arg(k) = "on_finish" => Fits(OnFinish \o Tail(todo[k]), state,
                                           is_running, is_open, out_done)
        BY <3>1, <1>0, <1>1, FitsEnter
      <3> QED BY <2>2, <3>2
    <2> QED BY <2>1, <2>3, <1>a, OwnStepFits
  <1>9. CASE TaskCancel(k) \/ TaskCancelled(k)
    <2>1. /\ at' = [at EXCEPT ![k] = "gone"]
          /\ UNCHANGED <<is_open, is_running, task_run>>
      BY <1>9 DEF TaskCancel, TaskCancelled, fields
    <2>2. at'[k] = "gone"
      BY <2>1, <1>d
    <2> QED BY <2>1, <2>2, OwnStepFits
  <1>10. CASE TaskReceive(k)
    <2>1. /\ Idle(k, "cmd")
          /\ UNCHANGED <<state, is_open, is_running, task_run, out_done>>
      BY <1>10 DEF TaskReceive, fields, rings
    <2>2. /\ Settled(<<>>, state, is_running, is_open, out_done)
          /\ todo[k] = <<>> /\ at[k] = "cmd"
      BY <2>1, <1>c
    <2>3. \/ at' = [at EXCEPT ![k] = "run"]
          \/ at' = at
      BY <1>10 DEF TaskReceive
    <2>6. \/ todo' = todo
          \/ /\ cmdq # <<>>
             /\ todo' = [todo EXCEPT ![k] = OnCmd(Head(cmdq))]
          \/ /\ ~task_run
             /\ todo' = [todo EXCEPT ![k] = TaskExit]
      BY <1>10 DEF TaskReceive
    <2>4. Fits(todo'[k], state, is_running, is_open, out_done)
      <3>1. CASE todo' = todo
        BY <3>1, <1>1
      <3>2. CASE cmdq # <<>> /\ todo' = [todo EXCEPT ![k] = OnCmd(Head(cmdq))]
        <4>1. todo'[k] = OnCmd(Head(cmdq))
          BY <3>2, <1>0 DEF TypeOK
        <4>2. Head(cmdq) \in {"STOP", "RESUME", "DESTROY"}
          <5>1. Head(cmdq) \in Commands /\ Head(cmdq) = cmdq[1]
                /\ 1 \in DOMAIN cmdq
            BY <3>2, <1>0, HeadTailProperties DEF TypeOK
          <5> QED BY <5>1 DEF Unpaused, Queued, Commands
        <4>3. CASE Head(cmdq) = "STOP"
          <5>1. OnCmd("STOP") = OnStop
            BY DEF OnCmd
          <5> QED BY <4>1, <4>3, <5>1, <2>2, <1>0, FitsIdle
        <4>4. CASE Head(cmdq) = "RESUME"
          <5>1. OnCmd("RESUME") = OnResume("open")
            BY Zenon DEF OnCmd
          <5> QED BY <4>1, <4>4, <5>1, <2>2, <1>0, FitsResume
        <4>5. CASE Head(cmdq) = "DESTROY"
          BY <4>1, <4>5, ExitIsFarewell, <2>2, <1>0, FitsIdle
        <4> QED BY <4>2, <4>3, <4>4, <4>5
      <3>3. CASE ~task_run /\ todo' = [todo EXCEPT ![k] = TaskExit]
        <4>1. todo'[k] = From(3) /\ 3 \in 1..9
          BY <3>3, <1>0, ExitIsFarewell DEF TypeOK
        <4>2. ~is_running /\ ~is_open
          BY <3>3 DEF Fitting
        <4>3. AtExit(From(3), is_running, is_open)
          BY <4>1, <4>2 DEF AtExit
        <4> QED BY <4>1, <4>3 DEF Fits
      <3> QED BY <2>6, <3>1, <3>2, <3>3
    <2>5. at'[k] # "process"
      BY <2>2, <2>3, <1>d
    <2> QED BY <2>1, <2>4, <2>5, OwnStepFits
  <1>11. CASE TaskRun(k)
    <2>1. /\ Idle(k, "run")
          /\ UNCHANGED <<state, is_open, is_running, task_run, out_done, todo>>
          /\ at' = [at EXCEPT ![k] =
                      IF state \in {"INIT", "INITIALIZING"} \/ ~is_running
                      THEN "cmd" ELSE "process"]
      BY <1>11 DEF TaskRun, fields, rings
    <2>2. at'[k] = "process" => is_running
      BY <2>1, <1>0 DEF TypeOK
    <2>3. todo'[k] = <<>>
      BY <2>1, <1>c
    <2> QED BY <2>1, <2>2, <2>3, <1>1, OwnStepFits
  <1>12. ASSUME NEW outcome \in {"more", "DONE", "ABORT", "FAIL"},
                TaskProcess(k, outcome)
         PROVE  Fitting'
    <2>1. /\ Idle(k, "process") /\ at' = [at EXCEPT ![k] = "cmd"]
          /\ UNCHANGED <<state, is_open, is_running, task_run, out_done>>
      BY <1>12 DEF TaskProcess, fields, rings
    <2>2. /\ Settled(<<>>, state, is_running, is_open, out_done)
          /\ todo[k] = <<>> /\ is_running /\ state = "RUNNING"
      BY <2>1, <1>1, <1>c DEF Settled
    <2>3. todo'[k] \in {<<>>, OnStop, OnError, <<Do("done_out"), Do("on_finish")>>}
      BY <1>12, <2>2, <1>0 DEF TaskProcess, TypeOK
    <2>4. Fits(todo'[k], state, is_running, is_open, out_done)
      BY <2>2, <2>3, <1>0, <1>1, FitsIdle
    <2>5. at'[k] = "cmd"
      BY <2>1, <1>d
    <2> QED BY <2>1, <2>4, <2>5, OwnStepFits
  <1> QED BY <1>2, <1>3, <1>4, <1>5, <1>6, <1>7, <1>8, <1>9, <1>10, <1>11,
             <1>12, <1>13 DEF TaskStep

\* A task that has given the element up writes none of the fields.
LEMMA OldTaskFits ==
  ASSUME Base, Sole, Fitting, NEW k \in Tasks, k # audio_thread, TaskStep(k)
  PROVE  Fitting'
  <1>0. TypeOK
    BY DEF Base
  <1>1. Frame(k)
    BY TaskEffect
  <1>2. at[k] \notin {"none", "gone"} /\ k < audio_thread
    BY <1>1 DEF Frame, Base, Shapes, TypeOK, Tasks
  <1>3. todo[k] = From(9)
    BY <1>2 DEF Sole, Left
  <1>4. todo[k] # <<>> /\ Head(todo[k]) = Do("cancel")
    BY <1>3, FarewellSteps DEF Farewell
  <1>5. TaskCancel(k)
    <2>1. Head(todo[k])[1] = "do" /\ Head(todo[k])[2] = "cancel"
      BY <1>4 DEF Do
    <2>2. /\ ~TaskTo(k) /\ ~TaskSet(k) /\ ~TaskClear(k)
      BY <2>1 DEF TaskTo, TaskSet, TaskClear, Ready
    <2>3. ~TaskField(k) /\ ~TaskClose(k) /\ ~TaskRings(k)
      BY <2>1 DEF TaskField, TaskClose, TaskRings, Arg
    <2>4. /\ ~TaskEnter(k) /\ (\A outcome : ~TaskOpen(k, outcome))
          /\ \A ok : ~TaskAlloc(k, ok)
      BY <2>1 DEF TaskEnter, TaskOpen, TaskAlloc, Arg
    <2>5. /\ ~TaskCancelled(k) /\ ~TaskReceive(k) /\ ~TaskRun(k)
          /\ \A outcome : ~TaskProcess(k, outcome)
      BY <1>4 DEF TaskCancelled, TaskReceive, TaskRun, TaskProcess, Idle
    <2> QED BY <2>2, <2>3, <2>4, <2>5 DEF TaskStep
  <1>6. /\ UNCHANGED <<fields, rings>>
        /\ \A j \in Tasks : j # k => todo'[j] = todo[j] /\ at'[j] = at[j]
    BY <1>1, <1>5 DEF TaskCancel, Frame
  <1> QED BY <1>6 DEF Fitting, fields, rings, InLoop, Started, Unbuffered

\* The application writes the fields that tell where the task is in one call
\* only, audio_element_run.
LEMMA AppWrites ==
  ASSUME Unpaused, AppStep
  PROVE  \/ RunCreate
         \/ UNCHANGED <<state, is_open, is_running, task_run, audio_thread, at,
                        todo>> /\ out_done' \in {out_done, FALSE}
  <1>1. ~PauseForce /\ ~ResetState
    BY DEF Unpaused, PauseForce, ResetState, Start, Now, Calling
  <1>2. CASE RunStart \/ ResumeStart \/ PauseStart \/ StopStart \/ StopLook
             \/ WaitStart \/ TerminateStart \/ ClearBit \/ Wait \/ WaitEnd
    BY <1>2 DEF RunStart, ResumeStart, PauseStart, StopStart, StopLook,
       WaitStart, TerminateStart, ClearBit, Wait, WaitEnd, fields, rings, task
  <1>3. CASE StopMark \/ StopAbort \/ StopFlag \/ Send \/ GroupStep
             \/ ResetRings \/ Free
    BY <1>3 DEF StopMark, StopAbort, StopFlag, Send, GroupStep, ResetRings,
       Free, fields, rings, task
  <1> QED BY <1>1, <1>2, <1>3 DEF AppStep

\* A step of the application keeps the fields fitting.
LEMMA AppFits ==
  ASSUME Base, Sole, Unpaused, Fitting, AppStep
  PROVE  Fitting'
  <1>0. /\ TypeOK /\ is_running \in BOOLEAN /\ is_open \in BOOLEAN
        /\ out_done \in BOOLEAN /\ audio_thread \in 0..MaxTasks
        /\ MaxTasks \in Nat
    BY AudioElementAssumption DEF Base, TypeOK
  <1>1. CASE RunCreate
    <2>1. /\ Calling("run") /\ apc = "create"
          /\ audio_thread' = audio_thread + 1
          /\ at' = [at EXCEPT ![audio_thread'] = "cmd"]
          /\ todo' = [todo EXCEPT ![audio_thread'] = TaskStart]
          /\ UNCHANGED <<state, is_open, is_running, task_run, out_done>>
      BY <1>1 DEF RunCreate, Now, Calling, rings
    <2>2. ~is_running /\ ~is_open
      BY <2>1 DEF Sole, Fitting
    <2>3. One => ~out_done
      <3>1. audio_thread < MaxTasks
        BY <2>1 DEF Base, Places
      <3> QED BY <3>1, <1>0 DEF Fitting, One
    <2>4. audio_thread' \in Tasks
      BY <2>1, <1>0 DEF Base, Places, Tasks
    <2>5. /\ todo'[audio_thread'] = TaskStart
          /\ at'[audio_thread'] = "cmd"
      BY <2>1, <2>4, <1>0 DEF TypeOK
    <2>6. TaskStart \notin Seq(Plain) /\ TaskStart # Begun
      BY BeginSteps
    <2>7. Fits(TaskStart, state, is_running, is_open, out_done)
      BY <2>2, <2>3 DEF Fits, AtBegin
    <2>8. audio_thread' # 0
      BY <2>1, <1>0
    <2> HIDE DEF Plain
    <2> QED BY <2>1, <2>2, <2>5, <2>6, <2>7, <2>8 DEF Fitting, InLoop, Started, Unbuffered
  <1>2. CASE UNCHANGED <<state, is_open, is_running, task_run, audio_thread, at,
                         todo>> /\ out_done' \in {out_done, FALSE}
    <2>1. ASSUME NEW k \in Tasks, k = audio_thread, at[k] # "gone"
          PROVE  Fits(todo[k], state, is_running, is_open, out_done')
      <3>1. Fits(todo[k], state, is_running, is_open, out_done)
        BY <2>1 DEF Fitting
      <3>2. Fits(todo[k], state, is_running, is_open, FALSE)
        BY <3>1, <1>0, FitsUndone
      <3> QED BY <1>2, <3>1, <3>2
    <2>2. One /\ audio_thread = 0 => ~out_done'
      BY <1>2 DEF Fitting
    <2> HIDE DEF One, Fits, Plain, Begun
    <2> QED BY <1>2, <2>1, <2>2 DEF Fitting, InLoop, Started, Unbuffered
  <1> QED BY <1>1, <1>2, AppWrites

\* The fields fit whatever step is taken.
LEMMA NextKeepsFitting ==
  ASSUME Base, Sole, Unpaused, Fitting, [Next]_vars
  PROVE  Fitting'
  <1>1. ASSUME UNCHANGED <<fields, rings, task>>
        PROVE  Fitting'
    BY <1>1 DEF Fitting, fields, rings, task, InLoop, Started,
       Unbuffered
  <1>2. ASSUME NEW k \in Tasks, TaskStep(k)
        PROVE  Fitting'
    BY <1>2, OwnTaskFits, OldTaskFits
  <1>3. ASSUME NEW c \in Calls, Call(c)
        PROVE  Fitting'
    BY <1>1, <1>3 DEF Call
  <1>4. CASE AppStep
    BY <1>4, AppFits
  <1>5. CASE UNCHANGED vars
    BY <1>1, <1>5 DEF vars
  <1> QED BY <1>2, <1>3, <1>4, <1>5 DEF Next

\* What is in a queue after a command was received, or sent.
LEMMA QueueParts ==
  ASSUME NEW S, NEW q \in Seq(S), NEW c, c \in S
  PROVE  /\ \A a \in S : \A i \in DOMAIN Append(q, a) :
              Append(q, a)[i] = c => a = c \/ \E j \in DOMAIN q : q[j] = c
         /\ q # <<>> => \A i \in DOMAIN Tail(q) :
              Tail(q)[i] = c => \E j \in DOMAIN q : q[j] = c
  <1>1. ASSUME NEW a \in S, NEW i \in DOMAIN Append(q, a), Append(q, a)[i] = c,
               a # c
        PROVE  \E j \in DOMAIN q : q[j] = c
    BY <1>1
  <1>2. ASSUME q # <<>>, NEW i \in DOMAIN Tail(q), Tail(q)[i] = c
        PROVE  \E j \in DOMAIN q : q[j] = c
    <2>1. i + 1 \in DOMAIN q /\ q[i + 1] = c
      BY <1>2
    <2> QED BY <2>1
  <1> QED BY <1>1, <1>2

\* No step of a task sends a command.
LEMMA TaskSendsNothing ==
  ASSUME NEW k \in Tasks, TaskStep(k)
  PROVE  /\ job' = job
         /\ cmdq' = cmdq \/ (cmdq # <<>> /\ cmdq' = Tail(cmdq))
  <1>1. UNCHANGED app
    <2>1. CASE \/ TaskTo(k) \/ TaskSet(k) \/ TaskClear(k) \/ TaskField(k)
               \/ TaskClose(k) \/ TaskRings(k) \/ TaskEnter(k)
      BY <2>1 DEF TaskTo, TaskSet, TaskClear, TaskField, TaskClose, TaskRings,
         TaskEnter
    <2>2. CASE TaskCancel(k) \/ TaskCancelled(k) \/ TaskReceive(k) \/ TaskRun(k)
      BY <2>2 DEF TaskCancel, TaskCancelled, TaskReceive, TaskRun
    <2>3. CASE \/ \E outcome \in {"OK", "DONE", "ABORT", "FAIL"} :
                    TaskOpen(k, outcome)
               \/ \E outcome \in {"more", "DONE", "ABORT", "FAIL"} :
                    TaskProcess(k, outcome)
               \/ \E ok \in BOOLEAN : TaskAlloc(k, ok)
      BY <2>3 DEF TaskOpen, TaskProcess, TaskAlloc
    <2> QED BY <2>1, <2>2, <2>3 DEF TaskStep
  <1>2. cmdq' = cmdq \/ (cmdq # <<>> /\ cmdq' = Tail(cmdq))
    <2>1. CASE \/ TaskTo(k) \/ TaskSet(k) \/ TaskClear(k) \/ TaskField(k)
               \/ TaskClose(k) \/ TaskRings(k) \/ TaskEnter(k)
      BY <2>1 DEF TaskTo, TaskSet, TaskClear, TaskField, TaskClose, TaskRings,
         TaskEnter
    <2>2. CASE TaskCancel(k) \/ TaskCancelled(k) \/ TaskReceive(k) \/ TaskRun(k)
      BY <2>2 DEF TaskCancel, TaskCancelled, TaskReceive, TaskRun
    <2>3. CASE \/ \E outcome \in {"OK", "DONE", "ABORT", "FAIL"} :
                    TaskOpen(k, outcome)
               \/ \E outcome \in {"more", "DONE", "ABORT", "FAIL"} :
                    TaskProcess(k, outcome)
               \/ \E ok \in BOOLEAN : TaskAlloc(k, ok)
      BY <2>3 DEF TaskOpen, TaskProcess, TaskAlloc
    <2> QED BY <2>1, <2>2, <2>3 DEF TaskStep
  <1> QED BY <1>1, <1>2 DEF app

\* What the application does to its call and to the queue.
LEMMA AppSends ==
  ASSUME AppStep
  PROVE  /\ job' = job \/ (job # <<>> /\ job' \in {Tail(job), <<>>})
         /\ \/ cmdq' \in {cmdq, <<>>}
            \/ Send /\ cmdq' = Append(cmdq, CmdOf[Head(job)])
  <1>1. CASE \/ RunStart \/ RunCreate \/ ResumeStart \/ PauseStart \/ PauseForce
             \/ StopStart \/ StopMark \/ StopAbort \/ StopLook \/ StopFlag
    BY <1>1 DEF RunStart, RunCreate, ResumeStart, PauseStart, PauseForce,
       StopStart, StopMark, StopAbort, StopLook, StopFlag, Start, Now, Go,
       Return
  <1>2. CASE \/ WaitStart \/ TerminateStart \/ ClearBit \/ Wait \/ GroupStep
             \/ WaitEnd \/ ResetState \/ ResetRings \/ Free
    BY <1>2 DEF WaitStart, TerminateStart, ClearBit, Wait, GroupStep, WaitEnd,
       ResetState, ResetRings, Free, Start, Now, Go, Return, app
  <1>3. CASE Send
    BY <1>3 DEF Send, Go, Return
  <1> QED BY <1>1, <1>2, <1>3 DEF AppStep

\* A call of the application is one of Calls, or part of audio_element_deinit.
LEMMA NextKeepsUnpaused ==
  ASSUME Calls \cap {"pause", "reset_state"} = {}, Base, Unpaused, [Next]_vars
  PROVE  Unpaused'
  <1>0. /\ cmdq \in Seq(Commands) /\ "PAUSE" \in Commands
        /\ job \in Jobs
    BY DEF Base, TypeOK, Commands, Places
  <1>1. ASSUME cmdq # <<>>, cmdq' = Tail(cmdq)
        PROVE  ~Queued("PAUSE")'
    BY <1>0, <1>1, QueueParts DEF Unpaused, Queued
  <1>2. ASSUME cmdq' \in {cmdq, <<>>}
        PROVE  ~Queued("PAUSE")'
    BY <1>2 DEF Unpaused, Queued
  <1>3. ASSUME job # <<>>, job' = Tail(job)
        PROVE  ~Calling("pause")' /\ ~Calling("reset_state")'
    BY <1>0, <1>3, JobTails DEF Calling
  <1>4. ASSUME job' \in {job, <<>>}
        PROVE  ~Calling("pause")' /\ ~Calling("reset_state")'
    BY <1>4 DEF Unpaused, Calling
  <1>5. ASSUME NEW k \in Tasks, TaskStep(k)
        PROVE  Unpaused'
    BY <1>1, <1>2, <1>4, <1>5, TaskSendsNothing DEF Unpaused
  <1>6. ASSUME NEW c \in Calls, Call(c)
        PROVE  Unpaused'
    <2>1. /\ job' = IF c = "deinit"
                    THEN <<"stop", "wait_for_stop", "terminate", "free">>
                    ELSE <<c>>
          /\ cmdq' = cmdq
      BY <1>6 DEF Call
    <2>2. Head(job') \notin {"pause", "reset_state"}
      BY <2>1, <1>6
    <2> QED BY <2>1, <2>2, <1>2 DEF Unpaused, Calling
  <1>7. CASE AppStep
    <2>1. ~Calling("pause")' /\ ~Calling("reset_state")'
      BY <1>3, <1>4, <1>7, AppSends
    <2>2. CASE Send /\ cmdq' = Append(cmdq, CmdOf[Head(job)])
      <3>1. job # <<>> /\ apc = "send"
        BY <2>2 DEF Send
      <3>2. Head(job) \in {"resume", "stop", "terminate"}
        BY <3>1, <1>0, JobTails DEF Base, Places, PlacesOf, Unpaused, Calling,
           ApiCalls
      <3>3. CmdOf[Head(job)] \in Commands /\ CmdOf[Head(job)] # "PAUSE"
        BY <3>2 DEF CmdOf, Commands
      <3>4. ~Queued("PAUSE")'
        BY <2>2, <3>3, <1>0, QueueParts DEF Unpaused, Queued
      <3> QED BY <2>1, <3>4 DEF Unpaused
    <2> QED BY <2>1, <2>2, <1>2, <1>7, AppSends DEF Unpaused
  <1>8. CASE UNCHANGED vars
    <2>1. cmdq' = cmdq /\ job' = job
      BY <1>8 DEF vars, app
    <2> QED BY <2>1, <1>2, <1>4 DEF Unpaused
  <1> QED BY <1>5, <1>6, <1>7, <1>8 DEF Next

-----------------------------------------------------------------------------
\* With one task there is no older one, and with more audio_element_run has
\* waited for its end.
LEMMA SoleHolds ==
  /\ IInv => Sole
  /\ Base /\ MaxTasks = 1 => Sole
  <1>1. IInv => Sole
    BY DEF IInv, Handshake, Creation, Sole
  <1>2. ASSUME Base, MaxTasks = 1
        PROVE  Sole
    <2>1. \A k \in Tasks : ~(k < audio_thread)
      BY <1>2 DEF Base, TypeOK, Tasks
    <2>2. Calling("run") /\ apc = "create" => ~task_run
      BY <1>2 DEF Base, TypeOK, Places, NoTaskNoStop
    <2> QED BY <2>1, <2>2 DEF Sole
  <1> QED BY <1>1, <1>2

\* The invariant of the fields, in every state of an element that its clients
\* do not pause.
LEMMA FieldsFit ==
  ASSUME Calls \cap {"pause", "reset_state"} = {},
         MayExpire \/ MayFail => MaxTasks = 1
  PROVE  Spec => [](Base /\ Sole /\ Fitting)
  <1>1. Init => Base /\ Unpaused /\ Fitting
    <2> SUFFICES ASSUME Init
                 PROVE  Unpaused /\ Fitting
      BY InitBase
    <2>1. /\ job = <<>> /\ cmdq = <<>> /\ audio_thread = 0 /\ ~is_running
          /\ ~is_open /\ ~out_done
      BY DEF Init
    <2>2. \A k \in Tasks : k # audio_thread
      BY <2>1 DEF Tasks
    <2> QED BY <2>1, <2>2 DEF Unpaused, Fitting, Calling, Queued
  <1>2. Base /\ [Next]_vars => Base'
    BY NextKeepsBase
  <1>3. Base /\ Unpaused /\ [Next]_vars => Unpaused'
    BY NextKeepsUnpaused
  <1>4. Base /\ Sole /\ Unpaused /\ Fitting /\ [Next]_vars => Fitting'
    BY NextKeepsFitting
  <1>5. Spec => []Sole
    <2>1. CASE ~MayExpire /\ ~MayFail
      <3>1. Spec => []IInv
        BY <2>1, ElementInvariance
      <3>2. IInv => Sole
        BY SoleHolds
      <3> QED BY <3>1, <3>2, PTL
    <2>2. CASE MaxTasks = 1
      <3>1. Init => Base
        BY InitBase
      <3>2. Base => Sole
        BY <2>2, SoleHolds
      <3> QED BY <3>1, <3>2, <1>2, PTL DEF Spec
    <2> QED BY <2>1, <2>2
  <1> QED BY <1>1, <1>2, <1>3, <1>4, <1>5, PTL DEF Spec

\* audio_element.c keeps is_running, is_open and state apart and writes them
\* one after the other; whenever the task polls its queue, or is about to call
\* the process callback, they agree.  For any calls of the application, in any
\* order, that neither pause the element nor reset its state: those two store
\* to el->state from the application's thread (lines 1169 and 506), whatever
\* the task is doing.  With one task waits may expire and the buffer may be
\* missing (line 461), with any number of tasks neither.
THEOREM QuietIsConsistentHolds ==
  ASSUME Calls \cap {"pause", "reset_state"} = {},
         MayExpire \/ MayFail => MaxTasks = 1
  PROVE  Spec => []QuietIsConsistent
  <1>1. ASSUME Base, Sole, Fitting
        PROVE  QuietIsConsistent
    <2> SUFFICES ASSUME NEW k \in Tasks, Live(k), todo[k] = <<>>
                 PROVE  /\ is_running <=> is_open
                        /\ is_running <=> state = "RUNNING"
      BY DEF QuietIsConsistent
    <2>0. is_running \in BOOLEAN /\ is_open \in BOOLEAN /\ out_done \in BOOLEAN
      BY <1>1 DEF Base, TypeOK
    <2>1. k = audio_thread
      <3>1. k <= audio_thread
        BY <1>1 DEF Live, Base, Shapes, TypeOK, Tasks
      <3>2. ~Left(k)
        <4>1. From(9) # <<>>
          BY FarewellSteps
        <4> QED BY <4>1 DEF Live, Left
      <3> QED BY <1>1, <3>1, <3>2 DEF Base, TypeOK, Tasks, Sole
    <2>2. Fits(<<>>, state, is_running, is_open, out_done)
      BY <1>1, <2>1 DEF Fitting, Live
    <2>3. Settled(<<>>, state, is_running, is_open, out_done)
      BY <2>0, <2>2, FitsAtRest
    <2> QED BY <2>3 DEF Settled
  <1>2. Spec => [](Base /\ Sole /\ Fitting)
    BY FieldsFit
  <1> QED BY <1>1, <1>2, PTL

\* The process callback never writes to an output that rb_done_write has
\* ended: audio_element_on_cmd_resume (line 273) resets it after every end of a
\* stream, and nothing but a resume leads back to RUNNING.  For one task and
\* any number of calls but pause and reset_state, with waits that expire and a
\* buffer that may be missing; a second task would start with the state of the
\* first one's output.
THEOREM WritesLiveStreamHolds ==
  ASSUME Calls \cap {"pause", "reset_state"} = {}, MaxTasks = 1
  PROVE  Spec => []WritesLiveStream
  <1>1. ASSUME Base, Sole, Fitting
        PROVE  WritesLiveStream
    <2> SUFFICES ASSUME NEW k \in Tasks, at[k] = "process", todo[k] = <<>>
                 PROVE  ~out_done
      BY DEF WritesLiveStream
    <2>0. is_running \in BOOLEAN /\ is_open \in BOOLEAN /\ out_done \in BOOLEAN
      BY <1>1 DEF Base, TypeOK
    <2>1. k = audio_thread
      BY <1>1 DEF Base, Shapes, TypeOK, Tasks
    <2>2. /\ Fits(<<>>, state, is_running, is_open, out_done)
          /\ is_running
      BY <1>1, <2>1 DEF Fitting
    <2>3. Settled(<<>>, state, is_running, is_open, out_done)
      BY <2>0, <2>2, FitsAtRest
    <2> QED BY <2>2, <2>3 DEF Settled, One, EndStates
  <1>2. Spec => [](Base /\ Sole /\ Fitting)
    BY FieldsFit
  <1> QED BY <1>1, <1>2, PTL
=============================================================================
