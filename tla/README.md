# TLA+ models of libaudio_pipeline

libaudio_pipeline is a port of the ESP-ADF audio pipeline to Linux: audio
*elements* (sources, decoders, sinks), each with a thread of its own, are
linked by *ring buffers* and controlled through a *pipeline* object. POSIX
threads, message queues, semaphores and condition variables stand in for the
FreeRTOS primitives of the original. These modules model the parts of it where
threads meet, where state is kept from one call, frame or session to the next,
and where buffers are bounded. TLC checks them on small instances; TLAPS proves
the central properties for all instances.

## The system

Paths are relative to `src/libaudio/components/` unless they start with `src/`.

| Component | Source | State it keeps | Operations | Modules |
|---|---|---|---|---|
| Ring buffer | `audio_pipeline/ringbuf.c` | read and write pointers, fill level, two counting semaphores, a mutex, four flags | `rb_read`, `rb_write`, `rb_done_write`, `rb_abort`, `rb_unblock_reader`, `rb_reset` | `ByteStream`, `RingBuf`, `MCRingBuf`, `RingBufProofs` |
| Event group | `audio_sal/event_groups.c` | up to 8 bits, a mutex, a condition variable per bit | `xEventGroupSetBits`, `ClearBits`, `WaitBits` | `EventGroup`, `MCEventGroup`, `EventGroupProofs` |
| Audio element | `audio_pipeline/audio_element.c` | `state`, `is_open`, `is_running`, `task_run`, `stopping`, event group, command queue, thread | task loop and command handlers; `run`, `resume`, `pause`, `stop`, `wait_for_stop`, `terminate`, `deinit` | `AudioElement`, `MCAudioElement`, `AudioElementProofs` |
| Event interface, queues | `audio_pipeline/audio_event_iface.c`, `audio_sal/audio_queue.c` | internal queue, listener's queue, wait time | `cmd`, `waiting_cmd_msg`, `sendout`, `listen`, `set_listener`, `discard` | `EventIface` |
| Pipeline linking | `audio_pipeline/audio_pipeline.c` | list of elements, list of ring buffers, `linked` and `kept_ctx` marks, the static ring buffer of the link | `register`, `link`, `link_insert`, `unlink`, `relink`, `breakup_elements`, `deinit` | `PipelineLink`, `MCPipelineLink`, `PipelineLinkProofs` |
| Pipeline control | `audio_pipeline/audio_pipeline.c` | pipeline state, `el_state` per element | `run`, `stop`, `wait_for_stop`, `pause`, `resume`, `terminate`, `listen_more`, `check_items_state`, the resets | `PipelineRun` |
| Threads, mutexes | `audio_sal/audio_thread.c`, `audio_mutex.c` | none | create, cancel; lock with an 18-hour limit | in `AudioElement`, `RingBuf` |
| Streams | `audio_stream/*.c` | open handle, byte position in the element's info | `open`, `process`, `close`, `destroy` | `Streams`, `StreamsProofs` |
| HTTP client | `src/libaudio/idf_components/esp_http_client` | socket, response header | `init`, `open`, `read`, `close`, `cleanup` | `Streams` |
| WAV header | `.../lib/processing/wav_head.c` | none | fills a header | `Streams`, `StreamsProofs` |
| MP3 element | `eswin-adf-libs/eswin_codec/lib/codec/mp3_decode.c` | input window, `last_left`, frame information | `open`, `process`, `close` | `Mp3Element`, `Mp3ElementProofs`, `MCMp3Element` |
| Helix decoder | `.../soft_decoder/mp3/src` | bit reservoir, scale factors, overlap and synthesis buffers | `MP3Decode` and the functions it calls | `Mp3Tables`, `BitReader`, `MainData`, `Helix`, `HelixProofs`, `MCHelix` |
| Log levels | `src/libaudio/idf_components/log` | list of tag levels, cache of tags kept as a heap | `esp_log_level_set`, `esp_log_level_get`, `esp_log_write` | `LruCache`, `LogCache`, `LogCacheProofs`, `MCLogCache` |

How they interact:

- Two neighbouring elements share one ring buffer: the upstream task calls
  `rb_write` and at the end `rb_done_write`, the downstream task calls
  `rb_read`; the application thread calls `rb_abort` (from
  `audio_element_stop`), and `rb_reset` is called from the upstream task
  (`audio_element_on_cmd_resume`) or from the application
  (`audio_pipeline_reset_ringbuffer`).
- The application thread controls an element by messages in its command queue
  (5 entries, non-blocking), waits for its answers on the bits of the event
  group, and also reads and writes fields of the element directly, without a
  lock.
- Elements report their status to a listener's queue, from which
  `audio_pipeline_check_items_state` concludes whether all have finished.
- The element's task calls the callbacks of a stream or codec: `open` and
  `close` at the ends of a session, also around a pause, and `process` over and
  over. The MP3 element's `process` calls `MP3Decode` on a window of its input.

What is hard: the control is lock-free except inside `rb_read`, `rb_write` and
the event group. Flags are stored and tested on different threads, event bits
are stale when an operation forgets to clear them, waits time out after two
seconds and the command is still in the queue, a task goes on using the
element after it has announced its end, and buffers are reset under a reader.
The streams and the decoder are sequential, but what they keep from one session
or frame to the next decides what the next one does. `PROJECT.json` lists
these hazards at their lines.

## Modules

### Ring buffer

- `ByteStream.tla` is what a ring buffer promises: a bounded stream whose bytes
  come out once each and in order, and an end-of-stream report that comes only
  after the writer has closed and fewer than `Slack` bytes remain.
- `RingBuf.tla` is `ringbuf.c`: one reader, one writer and a third thread. The
  lock is held from the test of the fill level to the copy (`ReadLock` ..
  `ReadCopy`); every access outside of it is a step of its own: the three flag
  tests, the release of the other side's semaphore, the wait, the final post,
  the reset of `unblock_reader_flag`. Variables have the names of the fields of
  `struct ringbuf`; `rpc`, `rlen`, `rsize`, `rtotal`, `rret` (and `w..`) are the
  locals of the calls. A byte is its position in the stream. `sent`, `taken`,
  `received`, `ended` are history.
- `MCRingBuf.tla` adds fairness and the liveness properties,
  `RingBufProofs.tla` holds the proofs.

`ended` says that the last `rb_read` returned `RB_DONE`. `ResetAnytime = FALSE`
means that `rb_reset` is called between calls, as
`audio_pipeline_reset_ringbuffer` is; `TRUE` lets it run beside `rb_read`, as
the call in `audio_element_on_cmd_resume` does.

### Event group

- `EventGroup.tla` is `event_groups.c`. Setting and clearing hold the mutex all
  the way and are one step each; waiting is two: up to the return or the sleep
  (`WaitBits`), and from the moment the mutex is back (`WaitReturn`). Between
  them the sleeper is signalled or its sleep ends by itself (`Expire`: the limit
  is over, or a spurious wake-up). `Signalled(B)` is what one
  `pthread_cond_signal` per bit may wake.
- `Shared` says whether two threads may wait for one bit at a time. Inside the
  library only the application thread waits, so it is `FALSE` there.
- `MCEventGroup.tla` adds the symmetry of the threads, `EventGroupProofs.tla`
  the proof.

### Audio element

- `AudioElement.tla` is one element with its task, controlled by one
  application thread. A handler of the task is a sequence of stores and calls
  (`OnStop`, `OnResume`, `OnPause`, `TaskExit`, ...), chosen by the fields it
  tests when it starts; `todo[k]` is what is left of it, and each element of
  the sequence is a step of its own (`TaskTo`, `TaskSet`, `TaskField`, ...), so
  the application reads and writes between any two stores. `at[k]` is the place
  of the task between handlers: at `audio_event_iface_waiting_cmd_msg`
  (`"cmd"`), before the test of `audio_element_process_running` (`"run"`), or in
  the process callback.
- A call of the application is the chain of its accesses to shared state:
  `StopStart` (test), `StopAbort`, `StopLook`, `ClearBit`, `StopFlag`, `Send`
  for `audio_element_stop`; calls that wait share `ClearBit`, `Send`, `Wait` and
  `WaitEnd`. The waiting itself is `EventGroup`, instantiated with one waiter.
- `audio_element_deinit` runs the three calls it makes and then `Free`.
- An element can have several tasks one after the other (`run`, `terminate`,
  `run`); `audio_thread` is the newest one, whatever the older ones think.
- The open callback may succeed, end (`AEL_IO_DONE`), abort or fail; the process
  callback may go on, end or fail, and abort when a ring buffer is aborted.
- The task announces its creation before it allocates the element's buffer; when
  that fails (`TaskAlloc`, under `MayFail`) it clears `task_run` and goes on with its
  last steps.
- `cancelled` are the tasks that another one has cancelled. A task that ends cancels
  `audio_thread`, as a rule itself; then it is over anyway and not in the set.
- External: the callbacks, `pthread_cancel` (it acts where the task waits) and
  the POSIX message queue (first in, first out, refusing at `QLen`).
- `MCAudioElement.tla` holds fairness and the properties.

### Pipeline

- `EventIface.tla` is `audio_event_iface.c` over the message queues: commands,
  reports to a listener, listening, and the discards that `set_listener`,
  `remove_listener` and `audio_element_run` make. A full queue loses a message
  or, when opened without `O_NONBLOCK` (`Blocking`), makes the sender wait.
- `PipelineLink.tla` (proofs in `PipelineLinkProofs.tla`) is the sequential part of `audio_pipeline.c`: two lists,
  the input and output buffer of every element, the marks, and the static
  variable through which `link` hands a ring buffer from one element to the
  next, and that of `relink`. `live` is the set of buffers that exist, `chain` the
  elements that the latest link or relink connected. A `link` of one element, and a
  `relink` after an allocation that failed unnoticed, read these variables as an
  earlier call, for this or another pipeline, has left them: they find any
  address or none, and `stale` is the set of those that are in use. `MayFail` lets
  every allocation of `link` and `relink` fail.
- `PipelineRun.tla` composes two elements with their tasks, the ring buffer
  between them (as blocks, what `ByteStream` promises of it), `EventIface` and
  the control functions. `AudioElement` shows an element store by store; here a
  handler has two steps, the second of which starts with the report, where the
  task may have to wait. A loop over the elements is one step per element.
  `heard` is what the sink has played, as pairs of stream and block;
  `latePause`, `lateStop`, `staleStop`, `gaveUp` are history: the application went on
  although an element had not done as it was told (see Observations). The
  properties that exclude them do so by name. An application is a set of calls
  out of `Clients`.

### Streams and decoder

- `Streams.tla` is one file reader, file writer, HTTP reader, HTTP writer or PCM
  device: the callbacks with every failure they handle, within the life of the
  element. `session` is history: where the next read is due and where it took
  place. The transfers are counted in blocks. Files, sockets and devices are
  external; they may fail and transfer less than asked. `StopLate` is a STOP
  that comes behind a pause or an end: nothing is closed, and the position of a
  paused element is kept.
- `Mp3Element.tla` is `mp3_decoder_process` with its window. A byte is a cell
  that knows its frame, its place in it, and the length and the size that the
  header of this frame gives, so that a decode from a wrong place is seen and a
  stream may change its bitrate from frame to frame. `fits` says that a stream is
  one the element is made for: the first frame is within reach of the window,
  and no frame is longer than `process` takes it to be, first (`Longest`) or after it
  has decoded any earlier one (`NoneLonger`). At a constant or a falling bitrate
  none is; a frame that is longer than its predecessor may be, and then ends
  the stream with an error.
- `Helix.tla` is `MP3Decode`, one action per function it calls for a granule:
  what the functions leave for one another, for the other channel and for the
  next granule. Samples are left out; a line of the spectrum, a block of the
  overlap and a tap of the synthesis filter are represented by where they are
  from. `BitReader.tla` has the two bit caches (`GetBits` and the loops of
  `huffman.c`) with code words as lengths, `MainData.tla` the bit reservoir,
  `Mp3Tables.tla` the tables of `mp3tabs.c` and `scalfact.c` as they are.

### Log levels

- `LogCache.tla` is `log.c`: list, cache and heap. Each operation holds the
  mutex and is a step. `LruCache.tla` is what the cache promises, and
  `LogCache` implements it.

## Runs

| Run | What it asks | Bounds |
|---|---|---|
| `ringbuf_safety` | order, no loss, no early end (`InOrder`, `EndIsTheEnd`), refinement of `ByteStream` (`StreamSpec`), the inductive invariant, with waits that may expire in the middle of a call | buffer of 4, words of 2, calls of 0, 2, 3 and 5 bytes, 6 bytes, two third-thread calls |
| `ringbuf_progress` | `rb_abort` ends both calls; no lost wake-up; the end is reported | buffer of 3, calls of 1 and 4 bytes, 5 bytes, one abort or reset |
| `event_group` | nobody sleeps on a set bit | three threads, three bits |
| `element_control` | two successive tasks, `pause`, `reset_state` and `deinit`: one task owns the element, calls return, stops are carried out, nothing is freed too early | five calls, two tasks that get their buffer, queue of 3 |
| `element_timeout` | waits that expire, a queue that fills up and a buffer that cannot be allocated: a swallowed stop is served, fields agree, no stream is written behind its end | six calls, one task, queue of 3 |
| `pipeline_link` | after any sequence of calls, with allocations that fail in link and relink: the elements of a link that got its buffers are connected in order, no element has a destroyed buffer (but an input out of a static variable), none is leaked, kept ones are kept | three elements, chains of one to three, three buffer addresses, one left-over buffer in use at a time (`MaxStale`) |
| `pipeline_run` | the sink plays one stream without a gap through pauses, stops and restarts; FINISHED means played to the end; threads, opens and process calls may fail | two blocks, a ring of one, six calls, queues of 2 |
| `pipeline_progress` | control calls return and started elements come to their end although reports are lost, unless the application `WentOn`; `check_items_state` is true | one block, six calls of one of two kinds of application (`Clients`: one that listens and resets states, one that pauses, resumes and terminates), queues of 1 that do not block |
| `log_cache` | heap order, no level change hidden, least recently used tag evicted (refinement of `LruCache`) | a cache of 7 (three levels of the heap), eight tags, 9 generations |
| `mp3_decoder` | code words and side information fit their bits; a frame is decoded from its own data and factors; no line, overlap or synthesis value is lost or stale | two frames with errors between, four headers, eight kinds of blocks |
| `mp3_element` | frames come out in order; a clean stream plays to its last frame | two of seven streams (constant, falling and rising bitrates), a window of 12 for 1024, reads of 1, 7 or all |
| `streams` | a read goes on where the last one ended; a WAV header is true | three blocks, positions to 6, two HTTP errors |

Why the bounds are enough. A ring buffer of 3 or 4 with words of 2 has every
split (in the middle, at the end, one past it), leftovers smaller than a word,
and calls longer than the buffer that wait in the middle; the code is the same
for larger ones, and the safety part is proved for all. Six calls are a run, a
resume, two stops and a restart of the task, or run, wait, reset and a second run
and wait with a call to spare; the longest counterexample met while
the models were built needs five. Three elements give a first, a middle
and a last one, and three buffer addresses two for a whole chain and one that
is kept, free or left over; the proofs set no bound on either.
A ring of one block makes both elements wait; two blocks tell a gap from an end.
A cache of 7 has an inner level, so bubbling down takes two steps. Two frames
of two granules and channels show all that one frame leaves for the next. In
the window of 12 a frame may be cut at every place, and two streams show what
`last_left` carries over. `Word` is 4 in the code and 2 in the runs, `QLen` and
`Size` are 5 in the code: a smaller queue is full earlier.

`CHECK_DEADLOCK FALSE` is set where the application may stop calling, a task may
end, or the input is used up; the ring buffer and the event group run with
deadlock checking.

## Fairness

- Ring buffer: weak fairness of every step of a call that has started, and
  strong fairness of taking the lock: a thread that finds it free again and
  again gets it. A POSIX mutex does not promise that in so many words, but it is
  held for a bounded copy only and dropped in every round of both loops; with
  weak fairness alone TLC finds a thread that never gets it. A wait ends when
  its semaphore is positive. `WriteReturns` and `EndIsReported` are stated for a
  reader that keeps reading, as the loop of `audio_element_task` does.
- Element: weak fairness of the task and of the application's started calls; no
  call has to be made. This includes that the open and process callbacks
  return. A callback that blocks in `rb_read` with an endless limit returns only
  when its neighbour or `rb_abort` lets it, which is not part of this model
  (it is of `PipelineRun`); `audio_element_stop` aborts the ring buffers first
  for that reason, `pause` does not.
- Pipeline: weak fairness of each thread: the source's task with its process
  callback, the sink's with its own (it waits while the ring has no room, or no
  data), and the application within a call that has started.

## Proofs

`RingBufProofs` (for every size, word, set of lengths and number of calls, under
`ResetAnytime = FALSE`):

- `RingBufSafety`: `IInv` is an invariant. It consists of the types and of
  `Coherent`: the fill level is what was sent minus what was taken, the contents
  between the pointers are the stream's bytes in order, the sizes computed under
  the lock still fit when they are copied, the lock is held by whom the program
  counters say, and nobody is inside a call during a reset. Order alone is not
  inductive: a copy is only right if the size chosen a step before still fits,
  and that needs the lock, because the other side changes the fill level. The
  induction goes over the steps of `rb_read`, `rb_write` and the third thread,
  one lemma each.
- `DeliveredInOrder`, `EndLeavesLessThanAWord` follow from it.
- `ImplementsStream`: six actions change what `ByteStream` shows, all others
  stutter (`OtherStepsStutter`), and each of the six is a step of it.

`EventGroupProofs`: `NobodyOversleeps`, for any threads and bits, under
`~Shared`. The invariant needs `OneWaiter`: otherwise the signal could go to
another sleeper of the same bit.

`AudioElementProofs`, for any number of tasks and calls of the application, any
length of the command queue, any set of calls the application makes and any
behaviour of the three callbacks:

- `ElementTypes`: types, with or without waits that expire and allocations that
  fail.
- `ElementInvariance`, under `~MayExpire` and `~MayFail`. `OneOwner` and `StopIsServed` are about
  `task_run`, `stopping` and the queue, which no lock protects; by themselves
  they are not inductive. What makes them true is a handshake: `run` and
  `terminate` clear a bit, make the task begin or end and stay in their call
  until the task has set the bit. The invariant therefore says where both sides
  are. `Shapes`: a task is in its loop, or has a suffix of the fixed first or
  last steps before it. `Places`: the calls that are left for the application
  and the lines within a call that it may be at. The other parts relate the two:
  while the application waits for a bit, the command that answers it is in the
  queue or the step that sets it is still to come; when it does not wait, no such
  step is left. The proof has one lemma for each command handler, each step of
  the task and each call.
- `OneOwnerHolds`, `StopIsServedHolds` follow from it. With waits that expire or
  allocations that fail they are proved for one task (`MaxTasks = 1`). This is what
  the code does and not a limit of the proof: when the 2 seconds of `run` are over, or
  a task without its buffer has cleared `task_run`, a second `run` may
  create a second task, and when those of `terminate` are over, `stopping` may
  stay set by a STOP that the dying task never sees and that the next `run`
  discards.
- `FreedAfterEnd`: under `~MayExpire` and `~MayFail`, a step of `audio_element_deinit`
  whose terminate was not refused frees the element only after its task has left it.
- `FreedWhenLeftHolds`: `FreedWhenLeft` itself, in every behaviour in which a
  terminate that is about to send finds room in the queue (`[]Room`). A bound on
  the number of calls would not do for the hypothesis: `reset_state` lets resumes
  return with their RESUME still in the queue, so that a long enough sequence of
  calls fills it whatever its length (see Observations). `Answered` is the invariant that carries it: from the
  terminate of `deinit` on, either its result is a failure or the task has left.
- `QuietIsConsistentHolds`, `WritesLiveStreamHolds`, for clients that
  neither pause the element nor reset its state; those two calls store to
  `el->state` from the application's thread, and with them the properties are
  false (see Observations). Between two handlers the fields agree, but no handler
  writes them at once, so the invariant (`Fitting`) says for every place of every
  handler which of `state`, `is_open`, `is_running` and `out_done` may disagree there.
  `Fits` has one disjunct for each kind of place, e.g. `Halts`: the element is
  closed, its end state is stored, and the reset of `is_running` comes next. There
  is one lemma for each kind of step (`FitsTo`, `FitsClose`, `FitsGo`, ...) and
  one for the handlers that begin (`FitsIdle`, `FitsResume`, `FitsEnter`). That no
  second task writes the same fields is `Sole`: it comes from the handshake, or,
  when waits may expire or allocations fail, from `MaxTasks = 1`. `WritesLiveStreamHolds` is about one
  task, because a second one starts with the ring buffer as the first one left
  it.

`HelixProofs`, for any set of headers and side information that satisfies
`HelixAssumption`, i.e. what `UnpackFrameHeader` accepts and the widths of the
fields of `UnpackSideInfo`, and for any sequence of frames. The invariant has
four layers, each proved with the ones below it (`HelixInvariance`); the synthesis
filter, the loops over code words and `mainBuf` have invariants of their own:

- `MainBufNeverOverruns`, for every buffer that holds the largest reservoir and the
  largest frame: the decoder's copies into `mainBuf`, which have no test, never
  pass its end. With the numbers of the code (511 bytes of reservoir, at most
  1440 + 1 - 4 - 9 bytes of main data, a buffer of 1940) the assumption holds for
  every frame with a bitrate; see Observations for free format.
- `Reading`: where `MP3Decode` is in its loops, which side information it has
  taken, and that the bits left are those of the granule. It is inductive with
  `part23 <= mainBits` at the place before `DecodeHuffman`, the test of
  `mp3dec.c` that the scale factors, which are read without one, rely on. Gives
  `ReadsOwnDataHolds`, with `MainBufNeverOverruns`.
- `Fresh`: the band of long blocks that is never sent stays zero, and the factors
  that granule 1 copies were sent with granule 0 of the same frame, if that was
  one of long blocks (`LastIsZero`, `MayBeCopied`). Lemma `ReadsAllBands`: the bands that
  each version reads are all that its blocks have. Gives `FactorsAreFreshHolds`, whose
  one exception, copies from a granule of short blocks (`CopiedFromShort`), is what
  the code does (see Observations).
- `Covered`: `BelowBound` while the channels of a granule are under way. The lemmas
  are about the bounds themselves: reordering fills no band above the window
  that determined the bound (`ReorderedBelowBound`), stereo takes the larger one,
  alias reduction moves lines by at most a half block (`AliasedBelowBound`) and the
  rounded number of blocks reaches them (`BlocksCover`). They use the band tables
  of `mp3tabs.c`, each of which is checked by `ClassesCover`. Gives
  `SpectrumIsKeptHolds`.
- `Windowed`: the types of the per-channel information and `OverlapIsKnown`, which is
  inductive given that blocks without a long transform are short, which is in
  `Covered`: a block between `nBlocksLong` and `nBlocksTotal` is windowed as a
  short one. Gives `OverlapIsKnownHolds`.
- `Filtered`: between granules, the last sixteen blocks of a channel are in the
  places of `vbuf` that their numbers give (`Index`, `Second`, `Odd`), as far back
  as the channel was decoded without a break, and the last two have read what
  they should. Within a granule that is `Filtering`, carried over the 18 blocks by
  `AfterEachBlock`. The rest is arithmetic modulo 8: a block is never put on one of
  the last fifteen (`PlacesDiffer`), and a tap of a given age points at the
  first or the second copy of that block (`TapPlaces`). Gives
  `SynthesisHistoryHolds`, which no other layer is needed for.
- `Accounts`, the invariant of the loops of `huffman.c`: what is cached plus what is left,
  without the padding, are the bits not used yet, and padding is there only when
  nothing is left. It is carried over the look-ups of a code word
  (`LookupsAccount`), its escapes (`EscapesAccount`) and all words (`WordsAccount`), again by
  `AfterEachBlock`, for any number of words, bits and any first bit.
  `PairsCountBits`: words that fit are accepted and cost their own bits, also those of
  several look-ups. That words which do not fit are refused is shown for words
  of one look-up (`Simple`): with more it is not so, because of the second padding
  (see Observations). `QuadsStopInTime` says the same of the count1 region.
  Together they give `CodeWordsFitHolds`. To reason about these loops, the model
  states them as functions of the number of rounds.

`Mp3ElementProofs`, for any streams, one after the other, in whatever pieces they
are read, and any sizes of the buffer, of the guess and of a header:

- `Mp3Invariance`. Both properties are about what was put out, and say nothing of
  the window it came from, so they are not inductive. `Playing` relates the
  window to the stream: it holds the bytes that follow the `Gone` ones before it,
  except for the first `w`, which were left over from another stream, or wiped
  after a timeout, and do not look like a frame. Three facts about the frames are
  kept with it: the frame that was put out last lies before the window
  (`IsBehind`, which gives the order); without a timeout the next one begins where
  the window does (`IsNext`: none is left out); and, if the stream fits, what
  `process` takes a frame to need is enough for each that is to come and within the window
  (`Roomy`: no frame is given to the decoder before it is complete, and the window is
  never full without a complete one).
- `SyncIs`: in such a window `MP3FindSyncWord` finds the first frame of the stream whose
  two bytes of sync word are in it, or there is none. `DecodeIs`: `MP3Decode` at this
  place decodes that frame and leaves a window behind it, or the frame is not
  complete; with the offset -1 of a missing sync word, which the drain of `process`
  does not test, it finds no header. `NextFrame`, `AllFrames`: this is the
  next frame to be put out, and at the end of the stream there is no other. The
  places of the frames are arithmetic (`BeforeNext`, `CellsAre`, `HeadersAre`).
- `FramesInSequenceHolds`, `CleanStreamPlaysHolds` follow from it.

`LogCacheProofs`, for every odd size of the cache and every set of tags, levels
and addresses with one text each:

- `LogCacheInvariance`: generations are distinct and not above the counter, a tag is
  cached once, with the level the list gives it, and parents are older. The
  sift-down of `heap_bubble_down` is described without recursion, as the least
  set of places that is closed under going to the older child (`Path`); the
  lemmas show that it is a chain without branches and that shifting along it
  keeps the order. An even size is excluded as `log.c` excludes it: the last
  entry would have no sibling.
- `HeapOrderHolds`, `CachedIsCurrentHolds` follow. `OldestIsReplaced`: only a miss in a
  full cache loses a tag, and it loses the oldest. This is the safety part of
  the refinement of `LruCache`.

`StreamsProofs`, for every file size and every set of positions the application
may set:

- `StreamsInvariance`: for each kind of stream, how `byte_pos`, the descriptor or
  socket and the written data agree, within a session and between two sessions,
  where the position was kept or cleared by the state at the time of the close.
- `ReadsGoOnHolds`, `HeaderIsTrueHolds` follow.

`PipelineLinkProofs`, for any elements, any length of a chain and any number of
ring buffers, with allocations of `link` and `relink` that fail at any point:

- `LinkInvariance`. `NoDangling` and `KeptIsHeld` are not inductive: `unlink`
  destroys the buffers of the list, `relink` hands those that look free to other
  elements, and neither property says that an element with such a buffer is one
  that the same call disconnects. `Sound` says who answers for a buffer: an element that
  writes to one is named as its host, the buffer is kept, or it is linked and
  its host is linked too; and only linked elements read, from buffers of the
  list or from a left-over one (`stale`). `Chained` says that the elements a link or
  relink connected follow one another by these buffers. After a relink that
  lacked memory `chain` is empty: the exception in the comment of `ChainIsConnected`.
- The loops of `link`, `breakup_elements` and `relink` are recursive functions. Their
  loop invariants are shown by `AfterEachStep`, an induction on the number of
  rounds that goes back to the least counterexample. After the loop of
  `breakup_elements` every buffer that is still written to is kept
  (`BreakupLoopKeeps`); the loop of `relink` carries the chain built so far and the
  number of new buffers it has used.
- `NoDanglingHolds`, `KeptIsHeldHolds`, `ChainIsConnectedHolds` follow. `NoLeakHolds` needs
  `~MayAbandon`, i.e. an application that does not deinitialize a pipeline that
  was broken up or whose link failed; see Observations.

Assumptions on the constants are the `ASSUME`s of the modules: sizes are natural
numbers, `Size >= Word`. A ring buffer smaller than a word is excluded because
`rb_read` rounds down to whole words (`ringbuf.c:193`), so with `Size` 1, 2 or 3
a reader and a writer wake each other for ever and no byte moves. The library
itself creates buffers of kilobytes. The streams of the MP3 element have frames that
hold their header and side information (the smallest with a bitrate in the
tables has 24 bytes, of which those take 23 at most), and what is cut off a stream is
a part of its last frame.

Only model-checked:

- Liveness (`CallReturns`, `StopIsCarriedOut`, the progress of ring buffers and
  pipelines): fairness and `ENABLED` are out of the prover's reach.
- `FrameLayout`: a formula without parameters about the tables and the fields of the
  side information, of which TLC evaluates every case. It reads the fields with a
  fold, of which the provers know only the definition.
- The refinement of `LruCache`: its recency order is a sequence that is rebuilt by a
  filter, again a fold. `OldestIsReplaced` is the part that was proved directly.
- `PipelineRun`, `EventIface`: left open, see the plan.

## Observations

What the models show of the code, beyond the properties that hold. A property
that excludes one of these situations, by its form or by the constants of its
run, says so in its comment.

Ring buffer and event group

- `is_done_write` is tested twice (`ringbuf.c:194`, `:204`); when
  `rb_done_write` falls in between, `RB_DONE` comes with 1 to 3 bytes left.
- `rb_reset` takes no lock: beside an `rb_read` it leaves a wrong fill level
  (`ResetAnytime = TRUE` violates `InOrder`).
- With two waiters for one bit (`Shared = TRUE`) only one is woken
  (`event_groups.c:233`), where `event_groups.h:386` promises all.

Audio element

- `wait_for_stop` may return on the `STOPPED_BIT` of an earlier stop
  (`audio_element.c:1253`, `:276`, `:284`; compare `audio_element.h:358`), also
  while the element is INITIALIZING.
- A pause right after a resume returns OK while the element runs (`:1168`;
  compare `audio_element.h:384`): `pause` and `reset_state` store the state over
  a running task.
- A task that ends cancels `el->audio_thread`, which may be its successor
  (`:500`; compare `audio_element.h:304`); `deinit` frees the element while this
  line is still to come.
- When the wait of `run` expires, `run` may be called again and two tasks own
  one element.
- The task announces its creation before it allocates the element's buffer. When
  that fails (`:461`) it clears `task_run` and goes to its end: a second `run` then
  creates a task beside it, `audio_element_terminate` returns OK at once, so that
  `audio_element_deinit` frees the element under it, and a pause that still saw
  `task_run` waits for a bit that nobody sets. `MayFail` is FALSE in
  `element_control` for that reason, and TRUE in `element_timeout`.
- The calls do not bound the commands that wait in the queue: `reset_state`
  while the process callback runs lets the next `resume` return with its RESUME
  still in the queue. When the queue is full, `audio_element_terminate` fails at
  once, and `audio_element_deinit`, which does not look at its result (`:1049`),
  frees the element under a task that is alive. `FreedWhenLeft` holds in its run
  because that makes fewer calls than fill the queue, and is proved for
  behaviours in which terminate finds room.
- `on_cmd_resume` resets the output ring buffer only outside of INIT and PAUSED:
  after `terminate` and a new `run`, a pause, or `reset_state`, an element writes behind
  its own `rb_done_write` unless the client resets the buffer.
- After `reset_state` on an element that is open, a process callback that ends calls
  the open callback once more, without a close (`:343`).

Linking

- `breakup_elements` keeps the first element that works even when it is given
  no element to keep; with the last element kept, it stays linked and wired.
- `relink` creates ring buffers although enough are free; the kept mark stays after
  `unlink`; `register_more` marks elements as linked.
- `relink` ignores a failed `el_item_link` (`:970`, `:1012`): it reports success and sets
  `linked` over a broken chain, and the element behind the one that failed gets as
  its input what the static variable of `:866` holds, the buffer of an element
  further up or one that an earlier relink has left, which may be destroyed.
- A link or relink of a single element gives it the buffer of an earlier link as its input
  (`:461`, `:866`), of another pipeline too, which may be destroyed.
- `deinit` of a pipeline that was broken up, or whose link failed, leaks its ring
  buffers (`audio_pipeline.c:522`, compare `audio_pipeline.h:72`); `MayAbandon`
  is FALSE in the run for that reason.

Control

- A pause that races with the end of the stream overwrites FINISHED, and the
  next resume plays against a ring buffer that is done (`latePause`).
- A pause of an element that is blocked in the ring buffer is given up after its
  limit and returns OK (`audio_pipeline.c:334`). The next resume passes over the
  element, which is still RUNNING; then the PAUSE is served and stops it, and a
  `wait_for_stop` for the end of the stream waits for ever (`latePause`).
- `run`, `wait_for_stop`, `reset_ringbuffer`, `run`, `wait_for_stop`: the second wait may return on the
  `STOPPED_BIT` of the first run, which only `audio_element.c:284` clears, and store
  INIT over a source that runs (`audio_pipeline.c:424`). When its callback ends, that element is
  opened once more instead of finished, and the sink may wait for ever (`staleStop`).
- `wait_for_stop` may also be over with a STOP still in the queue. A next run or resume
  may then find the queue full and start the sink alone, for which a later wait has no
  end; and the STOP is carried out, and its report counted, in the next run
  (`lateStop`).
- A terminate of a playing pipeline ends the source, and leaves the sink blocked in
  `rb_read` when its limit is over; one that finds the queue full leaves the task
  alive (`gaveUp`).
- A stop of a paused pipeline keeps the state and the position of the source, and the
  next run goes on there (`audio_element.c:1245`). A restart by
  `resume` after stop and wait, without `reset_ringbuffer`, finds the ring
  buffers aborted or done.
- `audio_element_run` discards the messages in the listener's queue, those of
  other elements too. `check_items_state` counts errors and STOPPED as FINISHED.
  `listen_more` takes one message at most (`audio_pipeline.c:636`).
- `terminate` leaves the pipeline's state, so that a later `run` does nothing. A
  second resume while INITIALIZING leaves a RESUME in the queue that starts a
  finished element again.
- With a listener queue that blocks, as the test programs create it, a full
  queue makes the task wait in `sendout`, while the application may be waiting
  for that task: `CallsReturn` is checked for queues that do not block.
  `portMAX_DELAY` is 65535 seconds here.

Streams

- A file writer resumed after a pause truncates its file while `byte_pos` goes
  on: the header is then too large (`session.resumed`). A failed `lseek` in open
  loses the descriptor; `close` without memory leaves the stream open, so that
  the next open fails; `destroy` frees without closing; after a WAV session an
  open that fails before the descriptor is replaced makes `close` write a header
  to a descriptor that is closed.
- A resumed HTTP stream starts the body again, `byte_pos` is never reset and
  error codes are added to it. A failed connect exits the program. The read
  does not count the content length, so with keep-alive it blocks at the end of
  the body. A response of 206 that the stream would accept is refused by the
  client.
- The PCM callbacks read the info, block in the device and write the info back,
  over changes made in between; `_pcm_read` ignores the length it is given;
  negative results other than -1 to -5 are not seen by the element's loop.

MP3

- `last_left` is 1 after a normal end and may be negative after a cut last
  frame, in which case the next read is placed before the buffer. A leftover
  0xFF makes a following stream without a tag fail.
- A tag with which the first frame is not within the window ends the stream
  without an error. A frame longer than 512 bytes (160 kbit/s and more) that is
  the first, or, in a stream of variable bitrate, longer than the size of the frame
  decoded before the call, ends the stream with an error (`mp3_decode.c:119`, `:140`);
  frames longer than the window never fit. A read that times out wipes the window with the beginning of a
  frame in it. A failed output leaves `last_left` as it was, so frames are
  repeated. A stream that starts in the middle fails on the missing reservoir.
- Layers 1 and 2 are accepted by the header, and the frame size is computed with
  a sample rate of zero (`mp3_decode.c:166`).
- `scfsi` is obeyed whatever the blocks of granule 0 are (`scalfact.c:128`-`:138`): when
  they are short, the factors that granule 1 copies are what an earlier frame left in
  the array.
- A code word of more than one look-up is padded twice near the end of its
  region, so that a cut word may be accepted (`huffman.c:190`-`:215`).
  `GetBits` does not indicate an overrun. Free-format frames are not bounded by
  `MAINBUF_SIZE`.
- After a change between mono and stereo, or a restart, overlap, synthesis
  buffer and reservoir are those of the stream before (`since`).

Log levels

- Two addresses with one tag text have separate cache entries, of which
  `esp_log_level_set` updates the first only; `CachedIsCurrent` is checked with
  one address per text.

## Not modelled

- The arithmetic of the Helix decoder (dequantization, transforms, filter), its
  Huffman code tables, free format and the getters of frame information:
  computation on samples, which a small instance does not exercise.
- Elements without a task (`task_stack` 0), multiple inputs and outputs, and
  `audio_element_wait_for_buffer`. `audio_element_deinit` beside other callers,
  and several application threads: the API is documented for one.
- URL parsing and the text of HTTP headers; the volume of the PCM device; the
  memory helpers; the output of log lines: strings and I/O without state.
- The test programs, which are used as a reference for what clients do.

## Plan

All modules of the plan are written. One proof is left open: `PipelineRun` and
`EventIface`, that messages are heard in the order they were reported, and what
the application concludes from them (`PlaysOneStream`, `FinishedIsComplete`).
