# TLA+ models of the Ecwid console downloader

The program downloads the files of a task list over HTTP, at most `-n` at a time and at
no more than `-l` bytes per second for all of them together. It is single-threaded: one
libuv loop delivers every event, and what is hard about it is the order in which the
events of sockets, timers, file requests (which libuv's thread pool completes) and the
user arrive, and which of them fail.

## Inventory

| Component | State | Operations | What makes it correct |
|---|---|---|---|
| `DownloaderSimple` (`include/downloader_simple.h`), one per download | `m_status`, the socket, the timer, the resolver, the file request, the queue `buffer`, `offset_file`, the flags `receive_done`, `socket_connected`, `file_openned`, `file_operation_started` | `run`, `stop`; handlers of AddrInfo, Connect, Write, Data, End, Error, Timer, Shutdown events and of the file's Open, Write, Close and Error events | no byte lost, repeated or out of order; one file request at a time; the socket is stopped while the queue is full and resumed afterwards; one final notification, `Done` only when the file is complete, no file after a failure; every download ends |
| `TCPSocketBandwidth` (`src/aio/tcp_bandwidth.cpp`), one per connection | `buffer`, `buffer_used`, `paused`, `stopped`, `eof`, `closed` | `read`, `stop`, `close`, `transfer`, and the events of the wrapped socket | the network is paused exactly while the buffer is full; the end comes after the data, and comes; a stopped socket is inactive |
| `ControllerSimple` (`include/aio/bandwidth_controller.h`), one | the list of streams, `sheduled`, its timer, the clock's last reading | `add_stream`, `remove_stream`, `shedule_transfer`, `transfer`, `defer_transfer` | never more than the limit; whatever is buffered is handed on in time; streams may go while it iterates |
| The job list: `main.cpp`, `OnTickSimple`, `FactorySimple`, `DashboardSimple`, `TaskListSimple` | `job_list`, the factory (shared by `main`, weakly known to `OnTickSimple`), the totals, the position in the task file | the start loop, `invoke` (`next_task`, `redirect`, `find_job`), the SIGINT handler, the idle handler | jobs, running downloaders and tasks correspond; at most `-n` jobs and as many as possible; redirects bounded; nothing starts after the break; the totals are those of what is done; the program ends |
| `HttpParser` (`src/http.cpp`) | header mode, collected headers, result | `response_parse` and the callbacks of http-parser; `uri_parse` | the header is put together as it was sent, wherever the reads cut it; the result is what the response says; no body after a redirect or an error, nothing after the result |
| Program options (`src/program_options.cpp`) | none | parsing | the limit is what the user wrote |
| `TCPSocketSimple`, socket factories, `AIO_UVW` | a `closed` flag | forwarding | events are forwarded until `close` |

How they interact: `main` and `OnTickSimple` make downloaders through the factory. A
downloader calls `on_tick->invoke` at every change of its status; on a final one the job
list erases its job and starts the next task, or a new downloader for a redirect. A
downloader reads from a `TCPSocketBandwidth`, which buffers what the wrapped socket
delivers and asks the controller for a transfer; the controller calls `transfer` on every
stream, which publishes the data to the downloader, whose handler may stop or close the
stream in the middle of the controller's loop. The idle handler ends the program when the
job list is empty, and SIGINT drops the factory and stops every downloader.

The hazards are listed, each at its line, in `PROJECT.json`.

## Modules

| Module | Models |
|---|---|
| `DownloaderContract` | abstract: what a downloader promises to the job list. `run` answers once; a started download makes progress notifications and exactly one final one |
| `Downloader` | `DownloaderSimple`, one action per event the loop delivers |
| `MCDownloader` | bounds for `Downloader` |
| `DownloaderProofs` | the theorems about `Downloader` |
| `SocketContract` | abstract: what a throttled socket promises to the reader behind it. Each byte handed on once, on demand; the end told once, with the last byte; the network not read while the buffer is full |
| `Throttle` | `TCPSocketBandwidth` and `ControllerSimple` together |
| `MCThrottle` | bounds for `Throttle` |
| `ThrottleProofs` | the theorems about `Throttle` |
| `Receiving` | composition: the sockets and the controller of `Throttle` (which it extends), with the chunks in a socket's buffer, and downloads as the readers |
| `MCReceiving` | bounds for `Receiving` |
| `ReceivingProofs` | the theorems about `Receiving`: those of `Throttle` with downloads as readers, and those about the readers |
| `PopBufferProofs` | the recursion of `pop_buffer`, and `BytesInOrder` |
| `HttpParser` | the response parser, one action per callback of http-parser |
| `MCHttpParser` | bounds for `HttpParser` |
| `HttpParserProofs` | the theorems about `HttpParser` |
| `JobPool` | abstract: what the user is promised of the tasks as a whole. Taken in order, at most so many at a time, replaced as they end |
| `Jobs` | the job list and all that changes it |
| `MCJobs` | bounds for `Jobs` |
| `JobsProofs` | the theorems about `Jobs`, the refinement of `JobPool` among them |
| `InductionLemmas` | induction for a set, and the sum of a function over a finite set |
| `DashboardProofs` | the totals of the dashboard |

A definition whose name has a suffix (`Advance_Late`) is a mutated form of the definition
that follows it. It models a plausible mistake, is used by no action, and shows that the
property named with it in `PROJECT.json` would find that mistake.

### Downloader

The fields of the class keep their names. `net` is the network step whose event is
awaited (which `once` handlers are registered on resolver and socket), `timer` and
`reading` are the timer and `socket->active()`, `fop` the file request in flight, `disk`
the target file, and `told` and `finals` what the owner was notified of. The body is the
byte positions 0, 1, 2, ...; a chunk of the queue is an interval of positions, so a lost,
repeated or misplaced byte shows as a gap or an overlap.

Each action runs the whole handler, the calls inside it included: `on_read` parses (at
most two body callbacks, a bound), runs `on_data` for each of them, and then does what
the result of the parse asks for. What fails at once inside a handler has a path of its
own: a connect, a socket's write or the start of the timer in `Issue`, a file request made
by a parse in `FileRefused` (the early return of `on_read`), one made by a completion in
`WriteRefused` and `CloseRefused`. The end of the stream can leave the parser waiting
(`net = "ended"`): then the download is `OnTheGo` with nobody sending, until the timer
fires.

The constant `Adversity` names eight troubles that break, or could be thought to break,
a promise; each run says which of them may happen. Everything else (lookup, connection,
request, response and parse errors, timeouts at any moment, failing opens and writes,
`stop` at any moment) may always happen.

The environment is modelled from its use: a completed shutdown, an event for each request
in flight, an unlink that succeeds. `terminate_handles` cancels the file request in flight
and closes an open file with the same file object. An accepted cancel drops the request;
with `cancel_refused` the request may already be running in the pool. A running open then
completes with no handler (`fop = "orphan"`) and the file appears. Behind a running write
or close a second request is made of the file object (`"clash"`), which is undefined in
uvw: the model lets its handler run or be lost (`ClashEnds`). With `write_refused` the
same happens within one parse: the write of the first body callback fails at once and the
second one writes over the close (`"rewrite"`). `OneRequestAtATime` says that
neither happens otherwise, and `FileRequest` would make a `"clash"` of any other second
request. `ResumeHasSocket` is about the pointer `socket`, which `close_handles` resets: a
file request that may resume it completes only while the response is being received.

### Throttle

One record of variables per stream, and the locals of `ControllerSimple::transfer` (`it`,
`left`, `chunk`, `pending`) as variables: a call of `transfer` is a sequence of visits (`ctl
= "pass"`), because each visit runs the reader's handler, and no other event of the loop is
delivered in between. What a handler does to streams other than its own is a step behind its
visit, possible once one has run (`HandlerRan`): it may add a stream to the list being
iterated (`Create`; in the program a download that fails starts the next), and close the
streams in `Removable` (`Close`; the program does not, but the controller is made for it,
see the test `remove_other_stream`). A stream added when the iterator has reached the end of
the list is in front of the end and behind the iterator, so the round does not visit it.
When a budget rounds down to nothing the time is consumed and the timer started
(`Postpone`). `left` is a `size_t` and wraps modulo `SizeMod`. `budget` and `spent` are
history: what one call may publish and what it has published. Bytes are counted, not told
apart (when the end may be told depends only on how many are left); removing a stream leaves
`Null` in the list, as the code does, and the next pass erases it. `Reactions` says what the
reader of each stream may do in its DataEvent handler; a stream whose reader never stops it
is `Patient`, and promises of delivery are about those.

`KeepsSocketContract` maps all this to `SocketContract`: what was handed on is what has come
and is not buffered any more, and a reader asks for data as long as its stream is not
stopped. The contract has neither a controller nor a budget nor a list, so that what one
reader does cannot matter to another. `VisitsLeft` counts how many steps a call of
`transfer` can still make, one for each stream, those still to be made included, in each
round that the rest of the budget pays for; `TransferComesToEnd` says that each step of the
transfer lowers it and nothing a handler does raises it. (Measured by the streams in the
list alone it does rise, when a failed download starts the next.) Steps at which the budget
wraps are excepted: that is finding 3, and there the remainder grows. `OverrunAtMinimum`
says when that can be: nothing is left and the next stream still takes the least share, or
some stopped stream, open or closed by another's handler, holds data (`HeldBack`).

### Receiving

What is between the network and the file: a wrapped socket that is paused and resumed, a
buffer, a controller with a budget, and a reader that stops and resumes the throttled
socket, all of them acting on the same flags (`stopped`, `paused`, `inner`). Three things
are added to `Throttle`. `buffer` is the socket's queue of chunks, intervals of the
positions of the connection's bytes, and `pop_buffer` cuts it as the loop of the code
does, one `PopOnce` per turn; `Throttle` only counts (`used`), and `BytesInOrder` says that
the two agree. `phase`, `queue` and `fop` are the part of a download that concerns its
socket: `OnRead` is `on_read` with the `on_data` calls of its parse, run inside the
visit of the controller, and `Reaction` is what it does to the socket there. `FileDone`
is the completion of an open or a write with the `on_write` that follows. Every way to
fail (a timeout, `stop()`, an error of the network or of the file) is one action,
`Abort`, because all of them end in `terminate_handles`; what tells them apart is in
`Downloader`. `Deliver` replaces `VisitAny` of `Throttle`: its reactions are those of the
reader instead of any. `Connect` starts a download between two transfers or behind a visit
in which one has failed (`VisitFailed`), as `on_error` does through `on_tick->invoke`,
`next_task`, `run` and `create_handles`. `VisitFailed` stays true until the next step of
the iterator, so more than one download may start there where the code starts at most one:
more than the program does, never less.

A stopped socket hands nothing on, and a reader without a file request that is left with
one waits for its timeout (`Stalled`). It happens (finding 5), but only with the wrapped
socket paused in between: `StallTakesAPause`.

### HttpParser

The response is drawn in `Init` and http-parser is the environment: it gives the elements
of the response in their order, each text in any number of parts (`Part`), an empty part
included when a read ends where the text does. Texts are short sequences of pieces, so that
they can be cut, repeated, and be each other's prefixes. `http_errno` and `state` are what
the callbacks set; a paused parser gives nothing more, which is how http-parser behaves.
A call of `response_parse` is not a step: callbacks are what changes the state, and a call
makes any number of them. `Malformed` is the one thing it does itself, to turn an error of
http-parser into a result.

### Jobs

`pc` is the place in `main`: the start loop, the event loop, the SIGINT handler, the end.
`life` lists the downloaders made so far and what became of each. `next_task`'s loop over
refused tasks is one step (`Attempts` lists how far it may go), since it runs without
returning to the loop. `StopNext` is a step of the signal handler, and takes the whole
notification with it. `fate`, `size`, `tries` and `broken` are history.
A downloader is what `DownloaderContract` says, except that with `Unreliable` it may
notify again after its end, which is what `find_job` answers with an exception.
`ImplementsPool` is the refinement: `fate` is the status of each task in `JobPool`, and
the pool is open until the break. It says of every single step what the code promises
only across several notifications: tasks are taken in order, a task is passed over only
by failing, and one that ends is replaced in the same step while there are tasks.
SIGINT before the handler is registered simply kills the program and is left out.

## Runs

All runs have `CHECK_DEADLOCK FALSE`: a download that is over, a set of closed
connections and a program that has exited really do stop.

| Run | Shows |
|---|---|
| `DownloadAny` | all troubles allowed: types, `QueueIsContiguous`, `BacklogStopsReading`, `WriterIsAwake`, `ResumeHasSocket` |
| `DownloadSound` | no trouble: the downloader implements `DownloaderContract`, liveness included; something always leads on to the end (`AnswerIsAwaited`); a failed download leaves no file (`FailureLeavesNoFile`); the file object serves one request at a time (`OneRequestAtATime`); `Done` means stored; nothing told or changed after the end |
| `DownloadEarlyShutdown`, `DownloadSilentEnd` | violations, see below |
| `ThrottleAny` | two streams, one with a reader that stops and closes as it likes and one with a reader that only may close, either of which may be opened or closed by the other's handler: types, `KeepsSocketContract`, `PauseTracksBuffer`, `TransferComesToEnd`, `OverrunAtMinimum`; `AloneWithinBudget`, in the behaviours that never have both streams open; for the second reader `NoForgottenData` and `EveryByteDelivered` |
| `ThrottleOverrun`, `ThrottleLostEnd` | violations, see below |
| `ReceivingAny` | two downloads on throttled sockets, of which one may start inside the transfer in which the other fails: `TransferComesToEnd`, `ReaderTypeOK` (the backlog), `BytesInOrder`, `FinishedReaderGetsNothing`, `StallTakesAPause` |
| `ReceivingStall` | violation, see below |
| `ParserAny` | every response within the bounds, cut in every way: `HeadersAsSent`, `ResultIsVerdict`, `ResultInTime` |
| `JobsAny` | refused starts and unreliable downloaders included: `JobsAreAlive`, `DashboardAgrees`, `RedirectsBounded`, `AllTasksProcessed`, `SlotsStayInUse` (never more than `-n`, and finding 6 is the only way to lose a slot), `NothingStartsAfterBreak`, `BreakStopsJobs`, `ImplementsPool`, `EveryStepCounts`, `ProgramEnds` |
| `JobsLostSlot` | violation, see below |

### Bounds

* `Downloader`: `Backlog = 2` (10 in the code) is filled by one read or by two; chunks of 1
  and 2 bytes are written whole or in part; 3 or 4 reads let the socket be stopped, resumed
  and stopped again before the end. `MaxReads` is the only bound on the length of a run. The
  violations need 2 or 3 reads. The theorems need none of these bounds.
* `Throttle`: two streams, so that shares compete, one finishes before the other, and one is
  closed or opened while the list is iterated. In `ThrottleAny` a unit of time is worth half
  a byte and the times 1, 3, 7 and 13 give budgets of 0, 1, 3 and 6 bytes, each rounded
  down: nothing, less than a byte per stream, an uneven and an even share. The timer's delay
  of 2 is the least that is worth a byte. The violations use a byte per unit. 6 bytes last for
  rounds of several bytes while a stopped stream holds data, without which
  `OverrunAtMinimum` would hold with its exception left out. The buffer pauses at 4 bytes,
  and packets of 1 and 2 bytes hit and overshoot that. `MaxBytes` bounds what a connection
  delivers. `SizeMod = 64` is far above every sum, so that wrapping can only come from a
  subtraction below zero.
* `Receiving`: two streams in `ReceivingAny`, so that one can start in the middle of a
  transfer that visits the other. The buffer pauses at 4 bytes, which is two packets, and a
  third is left for a reader that has finished; budgets of 1 and 3 bytes cut the packets
  and span them. A queue is full at one chunk, and a read makes one or none, so either can
  fill first. `ReceivingStall` has one stream, smaller packets and a queue of two chunks.
* `HttpParser`: up to two fields in the header and one behind the body, of two names (one a
  prefix of the other) and three values (one empty), so that a name can be repeated in the
  header and behind it; a success, a redirect and an error; up to two chunks of body.
* `Jobs`: four tasks in two slots with one redirect each; a slot changes hands several times
  by success, failure, refusal and redirect, and the break can come at any point.

### Fairness

* `Downloader`: every request in flight is answered (lookup, shutdown, file requests,
  unlink), since libuv always calls back, and a running timer fires. Nothing obliges a
  server to send anything; a silent server is ended by the timer, as in the code.
* `Receiving`, `HttpParser`: none; their properties are invariants and action properties.
* `Throttle`: a call of `transfer` that has begun returns, and a running timer fires.
  Neither the network nor the reader is fair.
* `Jobs`: `main` and the signal handler run on, the idle handler is called, and some
  running downloader ends: that is the liveness of `DownloaderContract`, checked of
  `Downloader` by `DownloadSound`. The user need not interrupt.

### What the code does otherwise than said

The violation runs are disagreements between the code and its tests or documents:

1. `DownloadEarlyShutdown`: a connection that closes while the file is being opened makes
   the download `Done` with nothing written, and then once more
   (`downloader_simple.h:291`).
2. `DownloadSilentEnd`: a response that ends in a read without body bytes, while the
   writer is idle, never ends the download (`downloader_simple.h:287`).
3. `ThrottleOverrun`: shares of at least one byte can exceed the budget, which wraps, and
   everything buffered is published at once (`bandwidth_controller.h:118`). There are two
   ways to it, and `OverrunsExplained` proves that there is no third: the budget is used up
   in the middle of a round and the next stream still takes its byte; or a stopped stream
   with data takes a share in each round, which the round before, dividing by the streams
   that asked for more, has not counted (lines 112-120).
4. `ThrottleLostEnd`: an end with an empty buffer is not published
   (`tcp_bandwidth.cpp:40`).
5. `ReceivingStall`: a download stops its socket when its queue is full, in the middle of a
   transfer; if that transfer makes room in a paused socket it reads on from the network
   (`tcp_bandwidth.cpp:124`), and `active()` is true although the socket is stopped. When
   the file has caught up, `on_write` finds the socket active and does not resume it: what
   arrives stays in the buffer until the response timeout fails the download
   (`downloader_simple.h:347`). Neither component's own model shows it; it needs the
   pause of the one and the stop of the other.
6. `JobsLostSlot`: a download refused in the start loop costs its slot, and if all the
   first ones are refused the program ends with the other tasks untried (`main.cpp:49`).

`PROJECT.json` quotes the other side of each. Three more traces are found by changing one
constant of a configuration, and have no run of their own:

* `DownloadSilentEnd.cfg` with `Adversity <- ShutdownRefused`: a shutdown that fails leaves
  neither a handler nor a timer, and the download never ends (`downloader_simple.h:437`).
* `ReceivingStall.cfg` with the invariant that, between transfers, the data buffered for a
  download whose socket is not stopped have a transfer scheduled: a visit takes a stopped
  stream's share as sent and schedules nothing for it (`bandwidth_controller.h:119`), so
  after the download has resumed they wait for the next packet, or, if they are the last
  of the response, for the timeout.
* `ThrottleAny.cfg` with `Millis = 16`: a limit of less than
  one byte per period of the timer (20 bytes per second) transfers nothing
  (`bandwidth_controller.h:92`).

## Proofs

`DownloaderProofs` proves, for every `Backlog`, every set of chunk lengths, every number
of reads and every set of troubles:

* `TypeCorrect`: `Spec => []TypeOK`. Inductive as `TypeInv`, which adds that a write in
  flight has a chunk to write; without it the `Head` of the queue in `FileWritten` has no
  type. `ParsedRun` and `AdvanceType` say what a parse and a partial write yield.
* `QueueCorrect`: `Spec => []QueueIsContiguous`, from `TypeInv` and two lemmas on intervals:
  appending a contiguous run (`ContiguousConcat`) and advancing the front
  (`ContiguousAdvance`).
* `HandOverCorrect`: `BacklogStopsReading`, `WriterIsAwake`, `ResumeHasSocket` and
  `RequestIsFlagged`, which no run lists beside `OneRequestAtATime`: a request that is not
  flagged is followed by a second one. None is inductive alone: a request in flight is flagged because an idle
  writer has an empty queue, which holds because the writer is woken by `on_data`, which
  looks at the flag. `HandOverInv` states them together with which file request is possible
  in which state of the connection (`ControlInv`), and what holds before `run`
  (`BeforeRun`).
* `RequestsTakeTurns`: if `cancel_refused` and `write_refused` are not among the troubles,
  `Spec => []OneRequestAtATime`. It rests on `HandOverInv`: a request is made only where no
  other is flagged, and what is not flagged is not in flight.
* `ContractKept`: if `early_shutdown` and `timer_error` are not among the troubles, `Spec =>
  ToldOnce`: each step of `Downloader` is a step of `DownloaderContract` or leaves what it
  speaks of unchanged. The invariant `OwnerInv` says which events can still be pending once
  the final notification is made.
* `FinalIsFrozen`, if `early_shutdown` and `write_refused` are not among the troubles, and
  `DoneIsStored`, if only `early_shutdown` is not: `Spec => FinalStatusIsFrozen` and `Spec
  => []DoneMeansStored`. The first needs nothing beyond `OwnerInv` but that no write goes
  over a close (`NoRewrite`). The second rests on `Released` (a file request that only
  removes the file belongs to a download whose connection is torn down) and on `StoredInv`:
  the file is closed only with an empty queue, and a download that has told `Done` has
  nothing queued, no file request and no open file.
* `AnswerIsDue`: if `silent_end` and `shutdown_error` are not among the troubles, `Spec =>
  []AnswerIsAwaited`, the safety core of `EveryDownloadEnds`: in every state there is an
  event that fairness will bring. `PendingInv` adds what is due in each state of the
  connection: the timer runs in every step that awaits the server but the shutdown, and once
  the response is complete and the connection closed a file request is in flight.
* `FailedFilesGo`: if `cancel_refused`, `write_refused`, `close_error` and `late_stop` are
  not among the troubles, `Spec => []FailedFileGoes`: a file that exists after the failure
  is being closed and unlinked. It is the safety core of `FailureLeavesNoFile`, and no run
  lists it beside that. `DiskInv` relates the file to its flags: one that exists is marked
  as open until it is removed, unless it was closed behind a complete response, when no
  timer runs any more that could fail the download.

`RequestsTakeTurns` and the last five assume more than the assumptions on the constants:
that one to four named troubles are absent. Every other trouble is allowed there, while
`DownloadSound` allows none. The assumptions are the weakest: TLC finds each of the
properties violated with any one of the troubles its theorem excludes alone, and not with
all the others together.

`ThrottleProofs` proves, for any set of streams, any limit, period and clock within
`LimitAssumption` (which excludes a product `limit * elapsed` that wraps), and any packets:

* `TypeCorrect`: `Spec => []TypeOK`. `TypeInv` adds what the flags of a socket have to do
  with each other (`SocketInv`) and what the list holds while `transfer` iterates over it
  (`Listed`: the open streams and no others, `Null` where one was removed).
* `PauseCorrect` (`PauseTracksBuffer`) and `EndComesLast` (`EndAfterData`, which the
  contract below implies) follow from `SocketInv`. The hard step is the visit: the handler
  runs between the publication and the test for the pause (`TransferSocket`).
* `NothingForgotten` (`NoForgottenData`). `AwaitedInv` extends it into the passes, where it
  is not true as it stands: data that wait have their stream still ahead in this pass, or
  another round of it, or bytes counted as pending, for which `EndPass` starts the timer
  (`Coming`). A removed stream is why this needs care: erasing `Null` shifts what is ahead.
* `ContractKept`: `Safe => KeepsSocketContract`, where `Safe` is `Spec` without fairness.
  Each step is a step of `SocketContract` or leaves what that speaks of as it is; the visit
  is the hard one (`TransferHandsOn`). `HandedInv` adds that a buffer never holds more than
  has come.
* `AloneKeepsLimit`: `Safe => AloneWithinBudget`. `BudgetInv`: what was published and what
  is left are together at most the budget, and the share is at most what is left as long as
  there is a stream still to visit; since each stream is in the list once (`Once`), the only
  one is visited once in a round, and one that is opened in the middle has nothing yet. So
  the wrap of `ThrottleOverrun` takes two hungry streams, and a single download never
  exceeds the limit, whatever the limit is.
* `TransferReturns`: `Safe => TransferComesToEnd`, where the set of streams is finite: the
  measure counts the streams that handlers may still add (`NewStreams`), which a transfer's
  own steps leave alone (`NewStay`), and adding one moves it to the list. `PassBounds` keeps
  the iterator within the list; `PassStep` says what each kind of step does to the list, the
  iterator, the budget and the streams that ask for another round.
* `OverrunsExplained`: `Safe => OverrunAtMinimum`. `ShareInv` says, while no stopped stream
  holds data: unless the share is the least one, what is left is enough to give it to all
  streams with data that are still to be visited (`Ahead`); and of the visited ones no more
  have data left (`Behind`) than are counted in `pending`, by which the next round divides.
  Both are sets of streams, so the steps are about cardinalities: `ListFinite` bounds them
  by the list, which has each stream once (`Once`), and a visit moves at most one stream
  from one to the other.

`ReceivingProofs` and `PopBufferProofs` prove of `Receiving`, assuming that `Reactions`
does not restrict the readers (`AnyReader`, which `MCReceiving` satisfies):

* `DownloadsKeepContract`: what a download does in its handlers, the start of the next one
  included, is among what `Throttle` allows (the lemma `ThrottleImplemented`), so the
  sockets of the composition keep `SocketContract`, and the limit while one is open at a
  time; and `TransferComesToEnd` and `OverrunAtMinimum` hold of its transfers.
* `QueueBounded` (`ReaderTypeOK`) and `NothingAfterResult` (`FinishedReaderGetsNothing`)
  from `ReaderInv`, which relates the phase and queue of a download to its socket's being
  stopped.
* `StallsTakeAPause` (`StallTakesAPause`): while the wrapped socket has never been paused,
  stopping the socket has stopped the network (`Quiet`), so `active()` is right and
  `on_write` resumes.
* `BufferCorrect`: `RSpec => []BytesInOrder`. `pop_buffer` is a recursive function over the
  queue, so two things come first: that the function exists (`TurnsExist`) and what it
  returns (`PopBufferHolds`). Both are inductions over the turns of the loop. The induction
  theorems of the library take an operator; in `InductionLemmas` the induction is stated for
  a set, by its least missing element (`SetInduction`). `Holds(q, from, to)` says that a
  queue is the positions from `from` to `to`, cut in non-empty intervals, and is what a
  turn, an append and a whole `pop_buffer` keep.

`HttpParserProofs` proves, for any names and values that are sequences of `Pieces`, any
number of fields and chunks, and any cuts:

* `ResultStays` (`ResultIsFinal`), from the fact that a callback that sets a result pauses
  the parser (`StoppedByResult`). No run lists it beside `ResultIsVerdict`, which
  a callback that changes a response's result or delivers more of its body breaks as well.
* `TypeCorrect`, `HeadersCorrect` (`HeadersAsSent`) and `ResultCorrect` (`ResultIsVerdict`)
  from `ParserInv`. Its main part is `HeaderInv`: at each element of the response and each
  offset in it, what the map holds (`Stored(i)`, the first `i` fields, first one of a name),
  which part of a name or value is collected, and in which mode. `Located` says which
  element is where in the response, `PartStep` how an offset moves on.
* `ResultNotLate` (`ResultInTime`) from `EndsWithResult`, which adds to it that the last
  element is the end of the message, whose callback sets the result.

`JobsProofs` proves, for any number of tasks, slots and redirects, with refused starts and
unreliable downloaders:

* `TypeCorrect`, `SlotsBounded` (`ConcurrencyBound`) and `BreakIsFinal`
  (`NothingStartsAfterBreak`) from `JobInv`: during the start loop there are fewer jobs than
  slots tried, and the factory is gone exactly after the break.
* `JobsCorrespond` (`JobsAreAlive`) and `RedirectsEnd` (`RedirectsBounded`) from
  `LedgerInv`: a bijection of jobs with running downloaders and running tasks (`Alive`), the
  tasks not yet taken untouched (`Fresh`), and the counter of each job one behind the
  downloaders of its task (`Tally`). `NextTaskLedger` carries it through the loop over refused
  tasks.
* `PoolImplemented`: `Spec => ImplementsPool`.
* `TasksTried` (`AllTasksProcessed`) from `WorkInv`: once a download has started, and unless
  there was a break, there is a job or there is no task left.
* `SlotsKept` (`SlotsStayInUse`) from `SlotInv`, which counts jobs and refused starts
  through the start loop as well.
* `BreakStopsAll` (`BreakStopsJobs`) from `BreakInv`: what is still to be stopped is what
  runs, once each. The list the signal handler iterates over is made once, and each of its
  steps ends one downloader, whose notification, without a factory, starts none.

`DashboardProofs` proves `TotalsCorrect` (`DashboardAgrees`) from `LedgerInv`: the task of a
job that notifies was running and `next_task` takes waiting tasks only, so at most one task is
done by a step and none is undone. `SumAdd` and `SumAgree` of `InductionLemmas` say what that
does to the sum, whose definition goes through the set in an order nobody knows. It also
proves `StepsAreFinite` (`EveryStepCounts`): each step lowers `ToCome`, the sum of how many
downloaders each task can still get and of what `main` has still to do (`SumLess`,
`SumSmaller`). With `JobsCorrespond` and `BreakStopsAll` this is the safety part of
`ProgramEnds`; what it leaves to fairness is that a step is taken at all.

Beside the theorems' own assumptions everything rests on the named assumptions of the
modules on their constants only; TLC evaluates them in the runs.

Every invariant and every action property of the passing runs is proved, and so are the
safety part of `KeepsContract`, `AloneWithinBudget`, `StallTakesAPause` and the refinements
`ImplementsPool` and `KeepsSocketContract`. Only model-checked, because liveness under
fairness is out of the prover's reach: `ProgramEnds`, `EveryByteDelivered`,
`FailureLeavesNoFile` (a failure is followed by a file that stays absent) and the liveness
part of `KeepsContract`. What each of them rests on is proved: `StepsAreFinite`;
`NothingForgotten` and `TransferReturns`; `FailedFilesGo`; `AnswerIsDue`.

## Plan

Done: `Downloader` and `Throttle`, each against its contract, their meeting in `Receiving`,
`HttpParser`, `Jobs` against `JobPool`, and the theorems above.

Left, in this order:

1. `Jobs` over downloaders that are `Downloader`s instead of what the contract says of
   them, so that the exception of `find_job` follows from finding 1 and not from `Unreliable`.
2. `Downloader`'s `Parsed` (what a read yields) taken from `HttpParser`.
3. The limit: its suffixes, and the width of `size_t` in `limit * 4` and `limit * elapsed`.

## Not modelled

* `uri_parse` (`http.cpp`): a pure function that copies what `http_parser_parse_url` finds;
  a link it refuses is a refused start.
* The program's options: docopt and a regular expression do nearly all of it; the models
  take the results as constants. So a limit that does not fit its type is outside.
* `TCPSocketSimple`, the socket factories, `AIO_UVW`: forwarding and construction. The events
  of the wrapped socket that `TCPSocketBandwidth` only passes on (connect, write, shutdown)
  are no actions of `Throttle`; `Downloader` has them.
* Texts, addresses, the content length and the printing; the lines of the task file, and an
  input stream that fails; TLS (the factory has none).
* A response with an empty reason phrase: whether http-parser then calls `on_status` depends
  on its version, and its sources are a submodule that is absent. `HttpParser` always calls it.
* Failures of memory. A start that is refused after its socket was made, which adds a stream
  to the controller and closes it again.
* What a file object of uvw really does with two requests at once; the model takes it as
  undefined within `ClashEnds` and `Rewritten`.
* The clock: a timer that runs may fire at any time.

libuv, uvw and http-parser are environment, modelled from how the code uses them.
