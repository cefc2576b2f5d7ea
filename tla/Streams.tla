------------------------------ MODULE Streams -------------------------------
(***************************************************************************)
(* The elements at the ends of a pipeline: file streams (fatfs_stream.c),  *)
(* the HTTP stream (http_stream.c, esp_http_client.c) and PCM devices      *)
(* (pcm_stream.c).  One element of a given kind is opened, processes,      *)
(* pauses, stops, finishes or fails, and is opened again; the position it  *)
(* keeps in its info is all that tells one session from the next.  Data is *)
(* counted in blocks; the element's task runs commands between two calls   *)
(* of process, so a command is one action with all that it does.           *)
(***************************************************************************)
EXTENDS Integers

CONSTANTS
  Size,           (* blocks of the file that is read, or of the HTTP body   *)
  MaxPos,         (* bound: the largest position, in blocks                 *)
  MaxErrors       (* bound: HTTP reads that fail                            *)

ASSUME StreamsAssumption == Size \in Nat /\ MaxPos \in Nat /\ MaxErrors \in Nat

VARIABLES
  kind,           (* which stream the element is (see Kinds)                *)
  state,          (* of the element                                         *)
  is_open,        (* of the stream                                          *)
  byte_pos,       (* info.byte_pos                                          *)
  file,           (* the descriptor: "none" (-1), "open" or "stale"         *)
  offset,         (* where the descriptor or the socket is; -1: before the  *)
                  (* header of the HTTP response                            *)
  client,         (* the HTTP client: "none", or what its response says     *)
  wav,            (* [header, data]: the size in the WAV header, the blocks *)
  session         (* ghost: [next, at, due, resumed, errors] (see below)    *)

vars == <<kind, state, is_open, byte_pos, file, offset, client, wav, session>>

Files == {"file_reader", "file_writer"}
Https == {"http_reader", "http_writer"}
Kinds == Files \cup Https \cup {"pcm"}

\* session.next: the block that is to be read next; at and due: where the last
\* read began and should have begun; resumed: the writer was opened again
\* after a pause.
NewSession == [next |-> 0, at |-> 0, due |-> 0, resumed |-> FALSE, errors |-> 0]

\* AUDIO_ELEMENT_INFO_DEFAULT
InfoDefault == state = "init" /\ byte_pos = 0

\* fatfs_stream_init: the stream is zeroed, and 0 is a descriptor of another
\* file, unlike the -1 that close asks for.
FatfsInit == kind \in Files /\ ~is_open /\ file = "stale" /\ client = "none"

\* http_stream_init: the client is made when the stream is opened.
HttpInit == kind \in Https /\ ~is_open /\ file = "none" /\ client = "none"

\* pcm_stream_init
PcmInit == kind = "pcm" /\ ~is_open /\ file = "none" /\ client = "none"

Init ==
  /\ kind \in Kinds /\ is_open = FALSE
  /\ file \in {"none", "stale"} /\ client = "none"
  /\ InfoDefault /\ (FatfsInit \/ HttpInit \/ PcmInit)
  /\ offset = 0
  /\ wav = [header |-> 0, data |-> 0]
  /\ session = NewSession

-----------------------------------------------------------------------------
(* close *)

\* (mutant: the position is set back in every close)
PositionAlwaysZero(st) ==
  /\ byte_pos' = 0
  /\ session' = IF st = "paused" THEN session ELSE [session EXCEPT !.next = 0]

\* _pcm_close and the end of _fatfs_close: the position is kept for a pause;
\* any other close ends the session.
EndPosition(st) ==
  /\ byte_pos' = IF st = "paused" THEN byte_pos ELSE 0
  /\ session' = IF st = "paused" THEN session ELSE [session EXCEPT !.next = 0]

\* wav_head_init, wav_head_size: the header tells the bytes that were written.
WavHeader == [wav EXCEPT !.header = byte_pos]

\* _fatfs_close, in element state st.  Without memory for the header it
\* returns at once, and the stream stays open.  A header that is written to a
\* stale descriptor does not reach the file.
FatfsClose(st, nomem) ==
  IF kind = "file_writer" /\ file # "none" /\ nomem
  THEN UNCHANGED <<is_open, file, byte_pos, wav, session>>
  ELSE /\ wav' = IF kind = "file_writer" /\ file = "open" THEN WavHeader ELSE wav
       /\ file' = IF is_open THEN "stale" ELSE file
       /\ is_open' = FALSE
       /\ EndPosition(st)

\* esp_http_client_close, esp_http_client_cleanup
ClientCleanup == client' = "none"

\* _http_close
HttpClose ==
  /\ ClientCleanup
  /\ is_open' = FALSE
  /\ session' = [session EXCEPT !.next = 0]
  /\ UNCHANGED <<byte_pos, file, wav>>

Close(st, nomem) ==
  CASE kind \in Files -> FatfsClose(st, nomem) /\ UNCHANGED <<client, offset>>
    [] kind \in Https -> HttpClose /\ UNCHANGED offset
    [] kind = "pcm" -> /\ is_open' = FALSE
                       /\ EndPosition(st)
                       /\ UNCHANGED <<file, client, wav, offset>>

-----------------------------------------------------------------------------
(* open *)

\* audio_element_process_init and what follows a failure: an element whose
\* open failed is closed like one that ran.
Resumes == state \in {"init", "paused", "stopped", "finished", "error"}

Runs == state' = "running"

\* _fatfs_open: a reader goes on at byte_pos, a writer begins a new file.
FatfsOpen ==
  /\ Resumes /\ kind \in Files /\ ~is_open
  /\ Runs
  /\ is_open' = TRUE /\ file' = "open"
  /\ offset' = IF kind = "file_reader" THEN byte_pos ELSE 0
  /\ wav' = IF kind = "file_writer" THEN [header |-> 0, data |-> 0] ELSE wav
  /\ session' = [session EXCEPT !.resumed = (byte_pos > 0)]
  /\ UNCHANGED <<kind, byte_pos, client>>

\* There is no uri, the stream is open already, the file cannot be opened, or
\* the seek fails after it was opened (then the descriptor is lost).
FatfsOpenFails(how, nomem) ==
  /\ Resumes /\ kind \in Files
  /\ how # "uri" => (is_open <=> how = "already")
  /\ how = "seek" => kind = "file_reader" /\ byte_pos > 0
  /\ state' = "error"
  /\ IF how \in {"uri", "already"} THEN FatfsClose("error", nomem)
     ELSE /\ file' = IF how = "missing" THEN "none" ELSE "open"
          /\ EndPosition("error")
          /\ UNCHANGED <<is_open, wav>>
  /\ UNCHANGED <<kind, offset, client>>

\* parse_header: status 200 with a body, another status, or no content length.
Responses == {"ok", "not_found", "empty"}

\* esp_http_client_init: a client without a response, when there is none.
ClientInit(response) == IF client = "none" THEN response ELSE client

\* esp_http_client_open: the header of the response is read, and the socket
\* left at the body, unless the client has a response already.
ClientOpen(response) ==
  /\ client' = ClientInit(response)
  /\ offset' = IF client = "none" THEN 0 ELSE -1

\* _http_open: refused when it is open already, or by the client, which is then
\* closed with the element.
HttpOpen(response) ==
  /\ Resumes /\ kind \in Https /\ ~is_open
  /\ IF ClientInit(response) = "ok"
     THEN /\ Runs
          /\ ClientOpen(response)
          /\ is_open' = TRUE
          /\ UNCHANGED <<byte_pos, file, wav, session>>
     ELSE state' = "error" /\ HttpClose /\ UNCHANGED offset
  /\ UNCHANGED kind

\* esp_http_client_connect: no socket or no connection ends the program.
HttpExit ==
  /\ Resumes /\ kind \in Https /\ ~is_open
  /\ state' = "exited"
  /\ UNCHANGED <<kind, is_open, byte_pos, file, offset, client, wav, session>>

\* _pcm_open
PcmOpen(ready) ==
  /\ Resumes /\ kind = "pcm"
  /\ IF is_open \/ ready
     THEN Runs /\ is_open' = TRUE /\ UNCHANGED <<byte_pos, session>>
     ELSE state' = "error" /\ EndPosition("error") /\ UNCHANGED is_open
  /\ UNCHANGED <<kind, file, offset, client, wav>>

-----------------------------------------------------------------------------
(* process *)

Took(n) == session' = [session EXCEPT !.next = @ + n, !.at = offset, !.due = session.next]

\* The bytes a read returned: audio_element_update_byte_pos.
UpdateBytePos(n) == byte_pos' = byte_pos + n

\* _fatfs_read: n blocks, fewer than asked for at the end of the file.  What
\* becomes of them in audio_element_output (_fatfs_process) is left out.
FatfsRead(n) ==
  /\ state = "running" /\ kind = "file_reader"
  /\ n \in 1..(Size - offset) /\ byte_pos + n <= MaxPos
  /\ UpdateBytePos(n)
  /\ offset' = offset + n
  /\ Took(n)
  /\ UNCHANGED <<kind, state, is_open, file, client, wav>>

\* The end of the file: read returns 0, and the element finishes.
FatfsReadEnd ==
  /\ state = "running" /\ kind = "file_reader"
  /\ offset >= Size
  /\ state' = "finished"
  /\ Close("running", FALSE)
  /\ UNCHANGED kind

FatfsReadFails ==
  /\ state = "running" /\ kind = "file_reader"
  /\ state' = "error"
  /\ Close("running", FALSE)
  /\ UNCHANGED kind

\* _http_read, esp_http_client_read, _http_process: what the socket has.
HttpRead(n) ==
  /\ state = "running" /\ kind = "http_reader"
  /\ n \in 1..(Size - offset) /\ byte_pos + n <= MaxPos
  /\ UpdateBytePos(n)
  /\ offset' = offset + n
  /\ Took(n)
  /\ UNCHANGED <<kind, state, is_open, file, client, wav>>

\* The connection is closed behind the body: 0 is added, the element finishes.
HttpReadEnd ==
  /\ state = "running" /\ kind = "http_reader"
  /\ offset = Size
  /\ state' = "finished"
  /\ Close("running", FALSE)
  /\ UNCHANGED kind

\* A failing read returns -1, which is added like a length.
HttpReadFails ==
  /\ state = "running" /\ kind = "http_reader"
  /\ session.errors < MaxErrors
  /\ state' = "error"
  /\ UpdateBytePos(-1)
  /\ ClientCleanup /\ is_open' = FALSE
  /\ session' = [session EXCEPT !.next = 0, !.errors = @ + 1]
  /\ UNCHANGED <<kind, file, offset, wav>>

\* (mutant: a short write is counted as a whole one)
FatfsWriteCountsAll(n) ==
  /\ state = "running" /\ kind = "file_writer"
  /\ byte_pos + 2 <= MaxPos
  /\ UpdateBytePos(2)
  /\ wav' = [wav EXCEPT !.data = @ + n]
  /\ UNCHANGED <<kind, state, is_open, file, offset, client, session>>

\* _fatfs_write: n blocks were written, perhaps fewer than asked for.
FatfsWrite(n) ==
  /\ state = "running" /\ kind = "file_writer"
  /\ byte_pos + n <= MaxPos
  /\ UpdateBytePos(n)
  /\ wav' = [wav EXCEPT !.data = @ + n]
  /\ UNCHANGED <<kind, state, is_open, file, offset, client, session>>

\* _pcm_write, _pcm_read: they set the whole info with the new position.
PcmTransfer(n) ==
  /\ state = "running" /\ kind = "pcm"
  /\ byte_pos + n <= MaxPos
  /\ byte_pos' = byte_pos + n
  /\ UNCHANGED <<kind, state, is_open, file, offset, client, wav, session>>

\* The input of a writer is done, or its device fails (a write of _http_write
\* that succeeds changes nothing).
WriterEnds(how, nomem) ==
  /\ state = "running" /\ kind \in {"file_writer", "http_writer", "pcm"}
  /\ state' = how
  /\ Close("running", nomem)
  /\ UNCHANGED kind

-----------------------------------------------------------------------------
(* Commands: audio_element_on_cmd, and the end of the element *)

Pause(nomem) ==
  /\ state = "running"
  /\ state' = "paused"
  /\ Close("paused", nomem)
  /\ UNCHANGED kind

Stop(nomem) ==
  /\ state = "running"
  /\ state' = "stopped"
  /\ Close("running", nomem)
  /\ UNCHANGED kind

\* A stop of an element that does not run: STOP comes behind the PAUSE, or behind
\* the end, and nothing is closed any more.  The position of a pause is kept, and
\* the next run begins there.  (audio_element_stop of an element that has paused
\* already does not even send STOP: it stays "paused", with the same outcome.)
StopLate ==
  /\ state \in {"paused", "finished", "error"}
  /\ state' = "stopped"
  /\ UNCHANGED <<kind, is_open, byte_pos, file, offset, client, wav, session>>

\* audio_element_deinit of an element that is not running, with the destroy
\* callbacks: the streams are freed, not closed.
FatfsDestroy == Resumes /\ kind \in Files /\ state' = "destroyed" /\ UNCHANGED client
HttpDestroy == Resumes /\ kind \in Https /\ state' = "destroyed" /\ client' = "none"
PcmDestroy == Resumes /\ kind = "pcm" /\ state' = "destroyed" /\ UNCHANGED client

Destroy ==
  /\ FatfsDestroy \/ HttpDestroy \/ PcmDestroy
  /\ UNCHANGED <<kind, is_open, byte_pos, file, offset, wav, session>>

Next ==
  \/ FatfsOpen
  \/ \E how \in {"uri", "already", "missing", "seek"}, nomem \in BOOLEAN : FatfsOpenFails(how, nomem)
  \/ \E response \in Responses : HttpOpen(response)
  \/ HttpExit
  \/ \E ready \in BOOLEAN : PcmOpen(ready)
  \/ \E n \in 1..2 : FatfsRead(n) \/ HttpRead(n) \/ FatfsWrite(n) \/ PcmTransfer(n)
  \/ FatfsReadEnd \/ FatfsReadFails
  \/ HttpReadEnd \/ HttpReadFails
  \/ \E how \in {"finished", "error"}, nomem \in BOOLEAN : WriterEnds(how, nomem)
  \/ \E nomem \in BOOLEAN : Pause(nomem) \/ Stop(nomem)
  \/ StopLate
  \/ Destroy

Spec == Init /\ [][Next]_vars

-----------------------------------------------------------------------------
\* Every read of a file begins where the last one ended, also across a pause,
\* in which the file is closed and only byte_pos is kept, and even when the
\* paused element is stopped before it runs again; it begins at the beginning
\* after any other end of a session.  A read of an HTTP body begins at the body
\* and never at the header of a response that an earlier client has left.
ReadsGoOn == session.at = session.due

\* The size in the header of a WAV file that is closed is the size of its
\* data: after short writes, failed opens and a close that had no memory.  (A
\* writer that was paused has lost what it wrote before, see the README.)
HeaderIsTrue ==
  (kind = "file_writer" /\ ~is_open /\ ~session.resumed) => wav.header = wav.data
=============================================================================
