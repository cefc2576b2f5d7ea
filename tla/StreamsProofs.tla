--------------------------- MODULE StreamsProofs ----------------------------
(***************************************************************************)
(* Proofs about Streams, for every size of the file or the body and every  *)
(* bound of the positions and of the failures.  The inductive invariant    *)
(* says, for each kind of stream, where the three positions that the code  *)
(* keeps apart (info.byte_pos, the descriptor or socket, the data written) *)
(* agree, in the states between two sessions as well as in a session.      *)
(***************************************************************************)
EXTENDS Streams, TLAPS

Wavs == [header : Int, data : Int]

Sessions == [next : Int, at : Int, due : Int, resumed : BOOLEAN, errors : Int]

States == {"init", "running", "paused", "stopped", "finished", "error", "exited", "destroyed"}

TypeOK ==
  /\ kind \in Kinds
  /\ state \in States
  /\ is_open \in BOOLEAN
  /\ byte_pos \in Int
  /\ file \in {"none", "open", "stale"}
  /\ offset \in Int
  /\ client \in Responses \cup {"none"}
  /\ wav \in Wavs
  /\ session \in Sessions

\* A file that is read is open while the element runs; the position in the
\* info is where the next read belongs, and the descriptor is there.
ReaderAgrees ==
  kind = "file_reader" => /\ byte_pos = session.next
                          /\ state = "running" => offset = byte_pos

\* A client with a response is kept only while the stream is open; so a
\* session begins behind the header, at the body.
BodyAgrees ==
  kind = "http_reader" => /\ state = "running" => is_open /\ offset = session.next
                          /\ ~is_open => client = "none" /\ session.next = 0

\* Only the descriptor of an open stream is open, and its element has counted
\* the blocks it wrote, unless it was paused before.
WriterAgrees ==
  kind = "file_writer" => /\ byte_pos >= 0
                          /\ state = "running" => is_open
                          /\ is_open <=> file = "open"
                          /\ is_open /\ ~session.resumed => wav.data = byte_pos

Inv ==
  /\ TypeOK
  /\ ReaderAgrees
  /\ BodyAgrees
  /\ WriterAgrees
  /\ ReadsGoOn
  /\ HeaderIsTrue

-----------------------------------------------------------------------------
\* What a step leaves of the session.
Leaves(next, at, due, resumed) ==
  /\ session' \in Sessions
  /\ session'.next = next /\ session'.at = at /\ session'.due = due
  /\ session'.resumed = resumed

\* Each way in which a step changes what is known of the session: it ends, a
\* file is opened, a read is done, a read fails.
LEMMA SessionSteps ==
  ASSUME session \in Sessions, byte_pos \in Int, offset \in Int
  PROVE  /\ session.next \in Int
         /\ \A st : EndPosition(st) =>
              Leaves(IF st = "paused" THEN session.next ELSE 0,
                     session.at, session.due, session.resumed)
         /\ HttpClose => Leaves(0, session.at, session.due, session.resumed)
         /\ FatfsOpen => Leaves(session.next, session.at, session.due, byte_pos > 0)
         /\ \A n \in 1..2 : Took(n) =>
              Leaves(session.next + n, offset, session.next, session.resumed)
         /\ HttpReadFails => Leaves(0, session.at, session.due, session.resumed)
<1>1. session.next \in Int
  BY DEF Sessions
<1>2. ASSUME NEW st, EndPosition(st)
      PROVE  Leaves(IF st = "paused" THEN session.next ELSE 0,
                    session.at, session.due, session.resumed)
  <2>1. CASE st = "paused"
    BY <1>2, <2>1 DEF EndPosition, Leaves
  <2>2. CASE st # "paused"
    BY <1>2, <2>2 DEF EndPosition, Leaves, Sessions
  <2> QED
    BY <2>1, <2>2
<1>3. ASSUME HttpClose
      PROVE  Leaves(0, session.at, session.due, session.resumed)
  BY <1>3 DEF HttpClose, Leaves, Sessions
<1>4. ASSUME FatfsOpen
      PROVE  Leaves(session.next, session.at, session.due, byte_pos > 0)
  <2> DEFINE b == byte_pos > 0
  <2>1. b \in BOOLEAN /\ session' = [session EXCEPT !.resumed = b]
    BY <1>4 DEF FatfsOpen
  <2> HIDE DEF b
  <2>2. Leaves(session.next, session.at, session.due, b)
    BY <2>1 DEF Leaves, Sessions
  <2> QED
    BY <2>2 DEF b
<1>5. ASSUME NEW n \in 1..2, Took(n)
      PROVE  Leaves(session.next + n, offset, session.next, session.resumed)
  <2> DEFINE m == session.next + n
  <2>1. m \in Int
    BY <1>1
  <2>2. session' = [session EXCEPT !.next = m, !.at = offset, !.due = session.next]
    BY <1>5 DEF Took, Sessions
  <2> HIDE DEF m
  <2>3. Leaves(m, offset, session.next, session.resumed)
    BY <1>1, <2>1, <2>2 DEF Leaves, Sessions
  <2> QED
    BY <2>3 DEF m
<1>6. ASSUME HttpReadFails
      PROVE  Leaves(0, session.at, session.due, session.resumed)
  <2> DEFINE m == session.errors + 1
             z == 0
  <2>1. m \in Int /\ z \in Int
    BY DEF Sessions
  <2>2. session' = [session EXCEPT !.next = z, !.errors = m]
    BY <1>6 DEF HttpReadFails, Sessions
  <2> HIDE DEF m, z
  <2>3. Leaves(z, session.at, session.due, session.resumed)
    BY <2>1, <2>2 DEF Leaves, Sessions
  <2> QED
    BY <2>3 DEF z
<1> QED
  BY <1>1, <1>2, <1>3, <1>4, <1>5, <1>6, Zenon

\* A close in any state, with or without memory for the header, leaves the
\* positions of the next session agreeing; what follows in the same step (the
\* new state) opens nothing.
LEMMA CloseKeepsAgreement ==
  ASSUME Inv, NEW st \in {"running", "paused", "error"}, NEW nomem \in BOOLEAN,
         Close(st, nomem), UNCHANGED kind,
         state' \in States, state' # "running"
  PROVE  Inv'
<1> DEFINE next == IF st = "paused" THEN session.next ELSE 0
           pos  == IF st = "paused" THEN byte_pos ELSE 0
<1> USE DEF Inv, TypeOK, Files, Https
<1>1. CASE kind \in Files
  <2>1. CASE kind = "file_writer" /\ file # "none" /\ nomem
    BY <1>1, <2>1 DEF Close, FatfsClose,
                      ReaderAgrees, BodyAgrees, WriterAgrees, ReadsGoOn, HeaderIsTrue
  <2>2. CASE ~(kind = "file_writer" /\ file # "none" /\ nomem)
    <3>1. Leaves(next, session.at, session.due, session.resumed)
      BY <1>1, <2>2, SessionSteps DEF Close, FatfsClose
    <3>2. /\ is_open' \in BOOLEAN /\ ~is_open' /\ byte_pos' = pos
          /\ file' = IF is_open THEN "stale" ELSE file
          /\ UNCHANGED <<client, offset>>
      BY <1>1, <2>2 DEF Close, FatfsClose, EndPosition
    <3>3. CASE kind = "file_writer" /\ file = "open"
      <4>1. wav' \in Wavs /\ wav'.header = byte_pos /\ wav'.data = wav.data
        BY <1>1, <2>2, <3>3 DEF Close, FatfsClose, WavHeader, Wavs
      <4> QED
        BY <3>1, <3>2, <3>3, <4>1
        DEF Leaves, ReaderAgrees, BodyAgrees, WriterAgrees, ReadsGoOn, HeaderIsTrue
    <3>4. CASE ~(kind = "file_writer" /\ file = "open")
      <4>1. wav' = wav
        BY <1>1, <2>2, <3>4 DEF Close, FatfsClose
      <4>2. TypeOK'
        BY <3>1, <3>2, <4>1 DEF Leaves
      <4> QED
        BY <1>1, <3>1, <3>2, <3>4, <4>1, <4>2
        DEF Leaves, ReaderAgrees, BodyAgrees, WriterAgrees, ReadsGoOn, HeaderIsTrue
    <3> QED
      BY <3>3, <3>4
  <2> QED
    BY <2>1, <2>2
<1>2. CASE kind \in Https
  <2>1. Leaves(0, session.at, session.due, session.resumed)
    BY <1>2, SessionSteps DEF Close
  <2>2. is_open' \in BOOLEAN /\ ~is_open' /\ client' = "none" /\ UNCHANGED <<byte_pos, file, wav, offset>>
    BY <1>2 DEF Close, HttpClose, ClientCleanup
  <2> QED
    BY <1>2, <2>1, <2>2
    DEF Leaves, ReaderAgrees, BodyAgrees, WriterAgrees, ReadsGoOn, HeaderIsTrue
<1>3. CASE kind = "pcm"
  <2>1. Leaves(next, session.at, session.due, session.resumed)
    BY <1>3, SessionSteps DEF Close
  <2>2. is_open' \in BOOLEAN /\ ~is_open' /\ byte_pos' = pos /\ UNCHANGED <<file, client, wav, offset>>
    BY <1>3 DEF Close, EndPosition
  <2> QED
    BY <1>3, <2>1, <2>2
    DEF Leaves, ReaderAgrees, BodyAgrees, WriterAgrees, ReadsGoOn, HeaderIsTrue
<1> QED
  BY <1>1, <1>2, <1>3 DEF Kinds

\* The agreement holds from the creation of the element on and no open, read,
\* write, failure or command ends it.
THEOREM StreamsInvariance == Spec => []Inv
<1> USE DEF Files, Https, Resumes
<1>1. Init => Inv
  <2> SUFFICES ASSUME Init
               PROVE  Inv
    OBVIOUS
  <2>1. session \in Sessions /\ wav \in Wavs
    BY DEF Init, NewSession, Sessions, Wavs
  <2>2. session.next = 0 /\ session.at = session.due /\ wav.header = wav.data
    BY DEF Init, NewSession
  <2>3. /\ kind \in Kinds /\ state = "init" /\ byte_pos = 0 /\ offset = 0
        /\ client = "none" /\ file \in {"none", "stale"} /\ is_open \in BOOLEAN /\ ~is_open
    BY DEF Init, InfoDefault
  <2> QED
    BY <2>1, <2>2, <2>3
    DEF States, Inv, TypeOK, ReaderAgrees, BodyAgrees, WriterAgrees, ReadsGoOn, HeaderIsTrue
<1>2. Inv /\ [Next]_vars => Inv'
  <2> SUFFICES ASSUME Inv, [Next]_vars
               PROVE  Inv'
    OBVIOUS
  <2> USE DEF Inv, TypeOK
  <2>1. CASE FatfsOpen
    <3>1. Leaves(session.next, session.at, session.due, byte_pos > 0)
      BY <2>1, SessionSteps
    <3>2. /\ kind \in Files /\ state' = "running" /\ is_open' \in BOOLEAN /\ is_open' /\ file' = "open"
          /\ offset' = IF kind = "file_reader" THEN byte_pos ELSE 0
          /\ UNCHANGED <<kind, byte_pos, client>>
      BY <2>1 DEF FatfsOpen, Runs
    <3>3. wav' \in Wavs /\ (kind = "file_writer" => wav'.data = 0)
      BY <2>1 DEF FatfsOpen, Wavs
    <3>4. session'.resumed <=> byte_pos > 0
      BY <3>1 DEF Leaves
    <3> QED
      BY <3>1, <3>2, <3>3, <3>4
      DEF Leaves, States, ReaderAgrees, BodyAgrees, WriterAgrees, ReadsGoOn, HeaderIsTrue
  <2>2. ASSUME NEW how \in {"uri", "already", "missing", "seek"}, NEW nomem \in BOOLEAN,
               FatfsOpenFails(how, nomem)
        PROVE  Inv'
    <3>1. CASE how \in {"uri", "already"}
      <4>1. Close("error", nomem) /\ state' = "error" /\ UNCHANGED kind
        BY <2>2, <3>1 DEF FatfsOpenFails, Close
      <4> QED
        BY <4>1, CloseKeepsAgreement DEF States
    <3>2. CASE how \in {"missing", "seek"}
      <4>1. Leaves(0, session.at, session.due, session.resumed)
        BY <2>2, <3>2, SessionSteps DEF FatfsOpenFails
      <4>2. /\ kind \in Files /\ ~is_open /\ state' = "error" /\ byte_pos' = 0
            /\ file' \in {"none", "open"} /\ (kind = "file_writer" => file' = "none")
            /\ UNCHANGED <<kind, is_open, offset, client, wav>>
        BY <2>2, <3>2 DEF FatfsOpenFails, EndPosition
      <4> QED
        BY <4>1, <4>2
        DEF Leaves, States, ReaderAgrees, BodyAgrees, WriterAgrees, ReadsGoOn, HeaderIsTrue
    <3> QED
      BY <3>1, <3>2
  <2>3. ASSUME NEW response \in Responses, HttpOpen(response)
        PROVE  Inv'
    <3>1. CASE ClientInit(response) = "ok"
      BY <2>3, <3>1
      DEF HttpOpen, ClientInit, ClientOpen, Runs, States, Responses,
          ReaderAgrees, BodyAgrees, WriterAgrees, ReadsGoOn, HeaderIsTrue
    <3>2. CASE ClientInit(response) # "ok"
      <4>1. Close("error", FALSE) /\ state' = "error" /\ UNCHANGED kind
        BY <2>3, <3>2 DEF HttpOpen, Close
      <4> QED
        BY <4>1, CloseKeepsAgreement DEF States
    <3> QED
      BY <3>1, <3>2
  <2>4. CASE HttpExit
    BY <2>4 DEF HttpExit, States, ReaderAgrees, BodyAgrees, WriterAgrees, ReadsGoOn, HeaderIsTrue
  <2>5. ASSUME NEW ready \in BOOLEAN, PcmOpen(ready)
        PROVE  Inv'
    <3>1. CASE is_open \/ ready
      BY <2>5, <3>1
      DEF PcmOpen, Runs, States, ReaderAgrees, BodyAgrees, WriterAgrees, ReadsGoOn, HeaderIsTrue
    <3>2. CASE ~(is_open \/ ready)
      <4>1. Leaves(0, session.at, session.due, session.resumed)
        BY <2>5, <3>2, SessionSteps DEF PcmOpen
      <4>2. /\ kind = "pcm" /\ state' = "error" /\ byte_pos' = 0
            /\ UNCHANGED <<kind, is_open, file, offset, client, wav>>
        BY <2>5, <3>2 DEF PcmOpen, EndPosition
      <4> QED
        BY <4>1, <4>2
        DEF Leaves, States, ReaderAgrees, BodyAgrees, WriterAgrees, ReadsGoOn, HeaderIsTrue
    <3> QED
      BY <3>1, <3>2
  <2>6. ASSUME NEW n \in 1..2, FatfsRead(n) \/ HttpRead(n)
        PROVE  Inv'
    <3>1. Leaves(session.next + n, offset, session.next, session.resumed)
      BY <2>6, SessionSteps DEF FatfsRead, HttpRead
    <3>2. /\ kind \in {"file_reader", "http_reader"} /\ state = "running"
          /\ byte_pos' = byte_pos + n /\ offset' = offset + n
          /\ UNCHANGED <<kind, state, is_open, file, client, wav>>
      BY <2>6 DEF FatfsRead, HttpRead, UpdateBytePos
    <3> QED
      BY <3>1, <3>2, SessionSteps
      DEF Leaves, ReaderAgrees, BodyAgrees, WriterAgrees, ReadsGoOn, HeaderIsTrue
  <2>7. ASSUME NEW n \in 1..2, FatfsWrite(n) \/ PcmTransfer(n)
        PROVE  Inv'
    <3>1. CASE FatfsWrite(n)
      <4>1. wav' \in Wavs /\ wav'.data = wav.data + n
        BY <3>1 DEF FatfsWrite, Wavs
      <4>2. /\ kind = "file_writer" /\ state = "running" /\ byte_pos' = byte_pos + n
            /\ UNCHANGED <<kind, state, is_open, file, offset, client, session>>
        BY <3>1 DEF FatfsWrite, UpdateBytePos
      <4> QED
        BY <4>1, <4>2 DEF ReaderAgrees, BodyAgrees, WriterAgrees, ReadsGoOn, HeaderIsTrue
    <3>2. CASE PcmTransfer(n)
      BY <3>2
      DEF PcmTransfer, ReaderAgrees, BodyAgrees, WriterAgrees, ReadsGoOn, HeaderIsTrue
    <3> QED
      BY <2>7, <3>1, <3>2
  <2>8. CASE FatfsReadEnd \/ FatfsReadFails \/ HttpReadEnd
    BY <2>8, CloseKeepsAgreement DEF FatfsReadEnd, FatfsReadFails, HttpReadEnd, States
  <2>9. CASE HttpReadFails
    <3>1. Leaves(0, session.at, session.due, session.resumed)
      BY <2>9, SessionSteps
    <3>2. /\ kind = "http_reader" /\ state' = "error" /\ byte_pos' = byte_pos + (-1)
          /\ client' = "none" /\ is_open' \in BOOLEAN /\ ~is_open'
          /\ UNCHANGED <<kind, file, offset, wav>>
      BY <2>9 DEF HttpReadFails, UpdateBytePos, ClientCleanup
    <3> QED
      BY <3>1, <3>2
      DEF Leaves, States, ReaderAgrees, BodyAgrees, WriterAgrees, ReadsGoOn, HeaderIsTrue
  <2>10. ASSUME NEW how \in {"finished", "error"}, NEW nomem \in BOOLEAN,
                WriterEnds(how, nomem)
         PROVE  Inv'
    BY <2>10, CloseKeepsAgreement DEF WriterEnds, States
  <2>11. ASSUME NEW nomem \in BOOLEAN, Pause(nomem) \/ Stop(nomem)
         PROVE  Inv'
    BY <2>11, CloseKeepsAgreement DEF Pause, Stop, States
  <2>12. CASE Destroy
    BY <2>12 DEF Destroy, FatfsDestroy, HttpDestroy, PcmDestroy, States,
                 ReaderAgrees, BodyAgrees, WriterAgrees, ReadsGoOn, HeaderIsTrue
  <2>13. CASE StopLate
    BY <2>13 DEF StopLate, States, ReaderAgrees, BodyAgrees, WriterAgrees, ReadsGoOn, HeaderIsTrue
  <2>14. CASE UNCHANGED vars
    BY <2>14 DEF vars, ReaderAgrees, BodyAgrees, WriterAgrees, ReadsGoOn, HeaderIsTrue
  <2> QED
    BY <2>1, <2>2, <2>3, <2>4, <2>5, <2>6, <2>7, <2>8, <2>9, <2>10, <2>11, <2>12, <2>13, <2>14
    DEF Next
<1> QED
  BY <1>1, <1>2, PTL DEF Spec

\* Reads of a file and of a body go on where they stopped, across pauses,
\* failures, refused opens and new sessions, whatever the size of the file.
THEOREM ReadsGoOnHolds == Spec => []ReadsGoOn
BY StreamsInvariance, PTL DEF Inv

\* A WAV file that is closed has the header of its data, unless its writer was
\* opened again after a pause.
THEOREM HeaderIsTrueHolds == Spec => []HeaderIsTrue
BY StreamsInvariance, PTL DEF Inv
=============================================================================
