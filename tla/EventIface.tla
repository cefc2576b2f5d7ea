----------------------------- MODULE EventIface -----------------------------
(***************************************************************************)
(* audio_event_iface.c over the POSIX message queues of audio_queue.c.     *)
(* Every interface has an internal queue; external_queue[i] is the         *)
(* interface whose internal queue hears what i reports (None: nobody).     *)
(*                                                                         *)
(* A queue opened without O_NONBLOCK (Blocking) makes a sender wait for    *)
(* room; otherwise a message that finds the queue full is lost.            *)
(***************************************************************************)
EXTENDS Naturals, Sequences

CONSTANTS
  Ifaces,
  None,
  Size,        (* internal_queue_size of every interface (5 by default)     *)
  Blocking     (* the interfaces whose queue is opened without O_NONBLOCK   *)

VARIABLES internal_queue, external_queue

\* audio_event_iface_init of every interface, with the default configuration.
Init ==
  /\ internal_queue = [i \in Ifaces |-> <<>>]
  /\ external_queue = [i \in Ifaces |-> None]

TypeOK(msgs) ==
  /\ internal_queue \in [Ifaces -> Seq(msgs)]
  /\ \A i \in Ifaces : Len(internal_queue[i]) <= Size
  /\ external_queue \in [Ifaces -> Ifaces \cup {None}]

\* Is there room in the queue that audio_queue_create made?
Room(q) == Len(internal_queue[q]) < Size

\* audio_queue_send with wait_time 0: mq_send.
Send(q, msg) ==
  /\ Room(q) \/ q \notin Blocking
  /\ internal_queue' = IF Room(q) THEN [internal_queue EXCEPT ![q] = Append(@, msg)]
                       ELSE internal_queue

\* audio_event_iface_cmd; it fails when there is no room.
Cmd(i, msg) == Send(i, msg) /\ UNCHANGED external_queue

\* audio_event_iface_sendout
SendOut(i, msg) ==
  /\ IF external_queue[i] = None THEN UNCHANGED internal_queue
     ELSE Send(external_queue[i], msg)
  /\ UNCHANGED external_queue

\* audio_queue_recv of a queue that holds a message.
Available(q) == internal_queue[q] # <<>>
Recv(q) ==
  /\ Available(q)
  /\ internal_queue' = [internal_queue EXCEPT ![q] = Tail(@)]
  /\ UNCHANGED external_queue

\* audio_event_iface_waiting_cmd_msg: the next command, which the caller hands
\* to on_cmd.
WaitingCmdMsg(i) == Recv(i)

\* audio_event_iface_listen, audio_event_iface_read: the next message of the
\* interface's own queue; they fail when none comes in time.
Listen(i) == Recv(i)

\* audio_event_iface_discard empties the queue the interface reports to, then
\* its own.  A message that arrives in between is discarded as well.
Discarded(i) ==
  [q \in Ifaces |-> IF q \in {i, external_queue[i]} THEN <<>> ELSE internal_queue[q]]

Discard(i) == internal_queue' = Discarded(i) /\ UNCHANGED external_queue

SetListener(i, listener) ==
  /\ internal_queue' = Discarded(listener)
  /\ external_queue' = [external_queue EXCEPT ![i] = listener]

\* audio_event_iface_remove_listener; it fails when there is none.
RemoveListener(listener, i) ==
  IF external_queue[i] = None THEN UNCHANGED <<internal_queue, external_queue>>
  ELSE /\ internal_queue' = Discarded(listener)
       /\ external_queue' = [external_queue EXCEPT ![i] = None]
=============================================================================
