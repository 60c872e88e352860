# Rinx in TLA+

Rinx is a reactor-style HTTP server library: one thread accepts clients, one or
more threads run event loops that own the clients' sockets, and a thread pool
runs what would block a loop.  This directory holds TLA+ models of its
concurrent core, TLC configurations that check them on small instances, and
TLAPS proofs of their main properties for every instance.

    tlc -config MC_EventLoop.cfg MC_EventLoop      # or any other MC_*.cfg
    tlapm EventLoop_proofs.tla                     # or any other *_proofs.tla

## The system

| Component | State | Operations | Meets |
|---|---|---|---|
| `RxEventLoop` (`src/Network/EventLoop.cpp`) | `_is_running`, `_defer_functors` under a mutex, an eventfd, timers, a table of handlers | `start_event_loop` (check timers, compute the timeout, `epoll_wait`, dispatch, run the deferred works, `on_finish`), `stop_event_loop`, `queue_work`, `async` | every thread, through `queue_work` |
| `RxEventPoller` (`EventPoller.cpp`) | an epoll instance, edge-triggered | `wait`, `add_fd_event`, `del_fd_event` | its loop |
| `RxTimer`, `RxTimerHeap` | a binary heap of expiry times, each timer's index in it, a map from ids | `start_timer`, `stop`, `check_timer_expiry` and the callbacks | its loop only |
| `RxThreadPool` (`ThreadPool.cpp`, `.h`) | a queue, a flag, a mutex and a condition variable for each worker, `_stop`, `_index` | `post`, the workers' loop with stealing, `stop` | loops post to it; tasks queue works to loops |
| `RxThreadPool::Queue` | a linked list with a mutex for each end | `push_back`, `try_pop`, `empty` | posters and all workers |
| `RxConnection`, `RxServer` | one slot for each descriptor number: descriptor, buffers, processor, `_seq_id` | `on_acceptable`, `init`, `activate`, the stream handlers, `close` | main loop, sub loop, finish callbacks |
| `MakeAsync` (`HttpResponse.cpp`) | the status of the response, the captured connection and its sequence number | the task in the pool, the finish callback in the loop | pool, loop and connection |
| `RxProtoHttp1Processor`, `HttpResponse` | request, response with status, filters, generator | parse, respond, flush, resume | connection, parser, buffer |
| `HttpParser` over `HFSMParser` | the state of a hierarchical machine | `parse` of any fragment | the processor |
| `RxChainBuffer` | a chain of slices of shared chunks | append, prepend, slice, consume, read, write | everything that moves bytes |
| `RxWorkerThreadLoops` | the loops and their threads | `init`, `start`, `stop` | `RxServer` |
| `RxSignalManager` | one `sig_atomic_t` | the handler, the check at the end of a round | main loop |
| router, request, definitions, utilities | tables | lookups | the processor |

What is hard here: who wakes a thread that is about to sleep (`queue_work`
against `epoll_wait`, `post` against the worker's wait, both `stop`s); a list
that two mutexes protect from two ends; indexes that follow every swap of a heap
while callbacks change it; a slot that has no lock and changes hands between
threads by the order of the steps alone, and is used again for the next client
while tasks of the last one may still be running; and, in the HTTP pipeline, a
response that is produced in parts under back-pressure; requests that are cut
anywhere into chunks of memory that their bodies go on sharing; an
edge-triggered listener at its limits, and the stop of it all.  `PROJECT.json`
lists each hazard at its line with the properties that watch it.

Nearly all of `src/` is vendored (`include/3rd`, Boost above all); Rinx itself
is about 5500 lines, and it is those the models are of.

## The modules

`SerialExecutor`, `FifoQueue` are what components promise; the others are the
code.  A step of a model is one access to what threads share, or one critical
section where that cannot be told from one access.

| Module | Models | State and actions |
|---|---|---|
| `SerialExecutor` | the promise of `queue_work`: each work once, in the order queued | `Submit`, `Execute`, and both in one step |
| `EventLoop` | one loop, the threads that call it, its timers and descriptors | a place for each line of `start_event_loop`; `QueueWork` and `StopEventLoop` are followed by a separate `WakeUp`; the eventfd is a counter above zero and an edge |
| `FifoQueue` | the promise of the pool's queue: a call takes effect in one moment between its start and its return | `Begin`, `Take effect`, `Return` of each call |
| `TaskQueue` | the linked list, access by access | one action for each statement of `push_back`, `try_pop`, `empty`, with both mutexes |
| `ThreadPool` | workers, posters and `stop()`, over FIFO queues | the scan queue by queue, the three steps of the wait (predicate, decision, sleep), the test of `is_idle` outside the mutex |
| `TimerHeap` | the timers of one loop | an iteration of `heap_sift_up` or `heap_sift_down` is a step; users start and stop timers between checks and in callbacks |
| `ConnectionTable` | the slots, the main and the sub thread, the pool's tasks | every store of `init` and `close` is a step; handlers, finish callbacks, and clients that hang up at any time, also while the pool works for them; a step through a null pointer has no outcome and is not taken (`Undefined`) |
| `Http1` | one HTTP/1.1 connection: parsing, responding, flushing, sending and resuming | the loops of `extract_and_handle_request`, `try_output_response` and `resume` call by call; the response's status, flags and generator; a socket that takes part of what it is given; the pool's task |
| `HttpParser` | the state machines of the request line, header, content and chunks | one action for each sub state: its events, its transition, the bytes it steps over; a symbol stands for a byte or a word that is told apart |
| `Buffer` | the chain of slices over shared memory | append, slice, consume and the iterator as functions on sequences of slices; an iterator is what is left of the chain from where it points, so that each of its operations is a recursion over the slices |
| `HttpInput` | the way of the bytes: `recv`, `parse` over the buffer's iterator, bodies sliced out, what was parsed consumed | a byte is the number of its place in the stream, so that a lost, moved or overwritten one shows |
| `Server` | the main loop: the end of `listen` and the start of the loops, `on_acceptable`, the end of a round with its signals, `RxServer::stop` with the joined loops and the stop of the pool | `_start` and each `_is_running` are set in steps of their own; every return of `on_acceptable` is an action; the listener is a backlog and an edge; `stop` is a place for each of its calls, in every thread that may call it |

Composition: `TaskQueue` implements `FifoQueue`, which is what `ThreadPool` uses
for its queues; `EventLoop` implements `SerialExecutor`, and `ThreadPool` runs
what is posted, which is what `ConnectionTable` and `Http1` assume of the loop
and the pool.  `Http1` is what happens inside the handlers of one slot of
`ConnectionTable`, where nobody else touches it.  `HttpInput` composes `Buffer`
and `HttpParser` with the loop that feeds one from the other; it hands over the
requests `Http1` answers, and leaves out how.  `Server` is the main thread of
`ConnectionTable` with its whole loop: there an accepted connection is a
descriptor that is closed some time, in `ConnectionTable` the listener is a
client that comes.

Every module that changes a definition to test its properties has the changed
form next to it (`..._NoWakeUp`, `..._Copies` and the like, marked "A variant");
`PROJECT.json` pairs each property with the variant that breaks it.

## The runs

| Run | Shows | Instance |
|---|---|---|
| `event_loop` | no wake-up is lost (`NoLostWakeup`, `NoLostStop`), the loop is a serial FIFO executor (`ExecutesInOrder`), works are executed and a stopped loop ends | 2 threads, 3 works, 1 descriptor, 1 timer: one work in the batch, one in the vector, one still to come |
| `event_loop_due_timer` | **violated**: a timer due between `check_timers` and `get_poll_timeout` is slept over (`EventLoop.cpp:88`) | 1 thread, 2 timers |
| `task_queue` | the list is a linearizable queue, without a data race, and every call returns | 3 threads, 3 tasks: the three cases of `try_pop` |
| `thread_pool` | each task once, no post is slept over, everything posted is run | 2 workers, 3 tasks, 2 posters, a stopper |
| `thread_pool_stop` | **violated**: a worker misses the notification of `stop()` and `join` waits for ever (`ThreadPool.cpp:103`) | 2 workers, 1 task |
| `timer_heap` | the heap is in order, every timer knows its index, the heap holds the awaited timers and they expire in turn | 4 timers, one may repeat, a clock up to 2 |
| `connection_table` | a slot is not shared but with a callback that came too late, handlers meet their own connection, callbacks tell their own connection by its number but in the middle of `init`, tasks are called back, descriptors released | 2 descriptor numbers, 2 clients that hang up at any time |
| `connection_table_hang_up` | **violated**: the finish callback of a client that hung up takes the next client's connection for its own (`Connection.cpp:20`, `HttpResponse.cpp:141`) | 1 number, 2 clients |
| `http1` | responses are sent whole and in order, the loop keeps off a response that the pool writes, `close` takes nothing from a client that is still there, every request is answered | 2 requests of 2 pieces each, 5 kinds of response, 2 chunks, a socket of 2 units |
| `http_input` | handlers get what was sent, once and in order, wherever the reads cut it; nothing that was read is left behind; a waiting body stays as it was; pieces have bytes and fit | streams of one or two messages of each kind, 22 to 40 bytes, chunks of 8 |
| `http_input_exact_fill` | **violated**: parse steps into the empty slice that `recv` leaves behind a chunk that is just full (`Buffer.h:273`) | 1 message |
| `server` | the backlog is not slept over, descriptors are owned, signals handled; a stop after the start ends every loop, joins each sub loop once, and returns if the stop of the pool does | 2 clients, 3 numbers of which the table has 2, 2 turns, 2 loops, a file, a signal, a thread that stops |

`PROJECT.json` tells of more findings that no run is kept for.  Where a model
has them, this shows them:

- a `stop_event_loop` before `start_event_loop` is undone by it
  (`EventLoop.cpp:47`): `EarlyStop = TRUE` and `Timers = {}` in `MC_EventLoop.cfg`,
  `StopEndsLoop`.  The main loop has the same window between `_start = true`
  (`Server.h:47`) and its `_is_running = true`, and the sub loops until their
  threads get there: in `Server`, `StopEndsServer` without `Started`;
- `close` destroys the request and the response of a client that has hung up while
  a task of the pool goes on with references to them (`Connection.cpp:84`,
  `EventLoop.h:69`): `RequestsOutliveTasks` as an invariant of
  `MC_ConnectionTable.cfg`;
- a responder wrapped in `MakeAsync` that sets a generator changes the status while
  it still runs, and the loop flushes the response under it (`HttpResponse.h:197`):
  `"async_generator"` in the `Kinds` of `MC_Http1.cfg`, `ResponderIsAlone`;
- a repeating timer stopped by its own callback comes back (`TimerHeap.cpp:83`):
  `OwnRepeat = TRUE` in `MC_TimerHeap.cfg`, `ExpiresInTurn`;
- the second chunked response of a connection lacks its last chunk
  (`HttpResponse.cpp:104`): `"chunked"` in the `Kinds` of `MC_Http1.cfg`,
  `AnsweredIsWhole`;
- a connection that a malformed request has marked to be closed stays open when
  the socket is full (`Http1ProtoProcessor.cpp:108`): in `Http1`,
  `marked ~> (closed \/ gone)`;
- two threads that stop the server at the same time join a loop twice
  (`Server.cpp:20`): `OneByOne = FALSE` in `MC_Server.cfg`, `JoinedOnce`;
- a signal between the check and the next `epoll_wait` is slept over, one that
  comes while a handler runs is cleared with the other (`Signal.cpp:42`): in
  `Server`, `signo # 0 ~> signo = 0`.

Bounds.  Works, tasks and clients are used once each, so queues are as long as
there are names.  `MaxNow` stops the clock.  `EarlyStop`, `OwnRepeat` and
`MayStop` switch on the situations in which the code goes wrong; with them
off a run shows that everything else holds, with one of them on a run shows what
happens.  They are assumptions on the users of the code: a loop is stopped only
after it has started; a callback does not stop its own repeating timer, or
restart it as one.

Nothing is assumed of the clients of `ConnectionTable`, which are not users of the
code.  A client that hangs up while the pool works for it leaves two things behind.
Its task goes on with a request and a response that are destroyed: what it reads
and writes there is undefined and not looked at, it ends as any other.  Its finish
callback may meet a slot that the next client is getting, and then closes or resumes
what is not its own, as `connection_table_hang_up` shows.  The properties of the run
say what holds all the same: `SlotNotShared` leaves out the steps of such a callback
(`Stale`) and nothing else, `StaleCallbacksAreToldApart` says when the number tells it
apart.  Such a callback, or the main thread behind it, may get to a null pointer; the
thread stops there in the model, and the two liveness properties are about the
behaviours that do not end like this (`<>[]Undefined`).

`Http1` has two requests, one to be answered and one to wait for it or to find
what it left behind; its `Kinds` leave out `"chunked"`, with which
`AnsweredIsWhole` fails, and `"async_generator"`, with which `ResponderIsAlone`
fails (a generator that is set in the pool makes the status `Providing` while
the responder still runs, `HttpResponse.h:197`).  Its `Close` drops the output
buffer and destroys the response; the callback of a task then finds the connection
closed, and what the task does to the destroyed response is not looked at.

Four timers are the most the clock and callbacks leave room for; that a removal
sifts up needs six, and is proved (below).  Chunks of memory have 8 bytes where
the code has 9012: every field of a request then crosses a border somewhere, and
bodies share chunks with the requests behind them.  `ExactFills = FALSE` assumes
that `recv` does not end with a chunk just full.  A client may stop after any
byte.  Three descriptor numbers are one more than the table has slots, and the
file takes one of them; two turns of `on_acceptable` are reached by two clients,
and one of them can come while the other is accepted.  `OneByOne` is the assumption that `stop` is not called while it runs.
`HttpInput` and `Server` may come to rest, with a client that sends no more, a
server that was stopped or is out of descriptors: their runs do not check for
deadlock, the liveness of `Server` is checked instead.

Fairness.  A thread that can take a step takes it (`WF` on the steps of a
thread); a mutex that is given back again and again is got some time (`SF` where
threads compete for one, in `TaskQueue`); a round of the loop ends (`SF` on
`TimersChecked` says that callbacks do not outrun the timers they arm); each
round polls and runs works (`SF` on both in `ConnectionTable`, which has no
rounds); a client reads its responses (`WF` on `ClientReads` in `Http1`), and a
generator yields content or is done whenever it is called.  In
`Server` the main loop goes on (`WF`, as it never waits but in `epoll_wait` and
`stop`), the thread of a sub loop starts it, a sub loop that was told to stop ends,
which is `StopEndsLoop` of `EventLoop`, and so does each step of `stop` but one: the
stop of the pool joins its workers and may wait for ever, as `thread_pool_stop`
shows, so `StopPool` has no fairness and `SignalsAreHandled` and `StopEndsServer`
leave out a thread that stays in it.  What the stop does before it gets there, it
does always.  Nobody has to call, post, connect, send, stop or hang up, no signal has
to interrupt a wait, and no condition variable has to wake spuriously.

## The proofs

`EventLoop_proofs` proves for any numbers of threads, works, descriptors and
timers: `TypeCorrect`; `WorkIsNotSleptOver` and `StopIsNotSleptOver`, that is
`NoLostWakeup` and `NoLostStop`; and `LoopIsSerialExecutor`, the refinement
`ExecutesInOrder`.  `NoLostWakeup` alone is not inductive, since the loop is
asleep only in one place: `WorkWakes` says for every place from which the loop
reaches the wait without looking at the vector that a pushed work has a wake-up
under way or an edge left, and `StopWakes` says the same for a stop after the
test of the flag.  `BatchOnlyInRun` (the swapped vector is empty outside
`run_defers`) is what makes a swap a stuttering step of the executor.

`TimerHeap_proofs` proves, when no callback restarts or stops its own repeating
timer, `TypeCorrect`, `TimersKnowTheirPlace` (`IndexesRight`), `HeapInOrder`
(`HeapOrdered`), `HeapHoldsAwaited` (`HoldsAwaited`) and `TimersExpireInTurn`
(`ExpiresInTurn`), for heaps of any size.  The inductive invariant `PlacesRight`
adds to the indexes that the timers in the heap are exactly those in the map and
the active ones, that the entry being sifted is inside the heap, that a timer
about to be added is outside it, and that the one whose callback runs is too.
`HeapOrdered` is inductive over it: its second part, that the children of the
entry being sifted are in order with its parent, is there for that.  The lemmas
`SwapKeepsPlaces`, `DropKeepsPlaces`, `SiftUpKeepsOrder`, `SiftDownKeepsOrder`
and `GapKeepsOrder` carry the argument for the operations.  `AwaitedRight` says of
each timer the user waits for that it is in the heap at the time it is due, is the
entry about to be added, or is in its own callback and will be armed again;
`SwapKeepsDue` and `GapKeepsDue` keep the first part.  That the root is due before
all others (`TopIsLeast`) is an induction down the tree, which is made by way of
the least index that would be due earlier: its parent would be earlier still.

`Http1_proofs` proves, for any number of requests and chunks and any socket:
`LoopLeavesResponseAlone` (`ResponderIsAlone`) and `TypeCorrect`, for all kinds of
responses but `"async_generator"`; `StreamIsOrdered` (`ResponsesInOrder`) and
`AnsweredInFull` (`AnsweredIsWhole`), for the kinds of `KindsInFull`, which are
those of the run: with the two others (`"chunked"`, `"async_generator"`) the code
breaks these properties, as the findings say.  For the first, `TaskKeepsStatus`
says that the status is `ExecAsyncTask` from `MakeAsync` to the finish callback and
that the thread is not past the test of the status meanwhile; it needs
`InputTyped`, by which a completed request is one of the client's.  For the
stream, `StreamInv` is an equation: what was written and what waits in the output
buffer are the responses to the answered requests followed by `Sent`, what was
flushed of the next one.  On a closed connection nothing waits and what was written
is the beginning of that (`ClosedStream`); that the loop closes only a client that is
gone, or while no task runs, is `ClosedInv`.  `StreamInv` is inductive over `RequestInv`, which ties what was
read to what is answered and to the task, and `ResponseInv`, which gives the
fields of the response before it is made, before its head is flushed and after:
a generator has more to come or is done with all of its chunks, any other kind was
flushed as a whole.  `SentGrows` shows that a flush appends the next part of the
response, `SendMoves` that a send only moves the border between the two
sequences.  The responses are a flattened sequence, which the library defines
recursively; `FlattenNext` (flattening one sequence more appends it) is derived
from that definition by the least number for which it would fail (`LeastMember`,
`AllNumbers`), since the induction theorems cannot be used.

`HttpInput_proofs` proves about the parser alone, for any numbers and their values
and fragments of any lengths, `TypeCorrect` and `PiecesHaveBytes` (`PiecesFit`): a
step over of 0 bytes would make `parse` emit an event without its range and skip a
byte.  The inductive invariant adds `AwaitsContent`, that bytes of the body or chunk
are still due whenever the parser is in the state that takes them.

About `HttpInput` as a whole it proves, for any stream of messages of the five
kinds, any numbers, bodies and chunks of any lengths, any number and size of raws,
and wherever and whenever `recv` cuts the bytes: `HandedInOrder`
(`HandsWhatWasSent`), `NothingIsLeft` (`NothingLeftBehind`), `BodiesAreKept`
(`BodyStays`), `IteratorStaysInside` (`ReadsWhatIsThere`) and `PiecesFitTheBuffer`
(`PiecesFit`).  All have the hypothesis `~ExactFills`, that `recv` does not end with
a chunk just full: without it an empty slice comes into the buffer and the run
`http_input_exact_fill` refutes `ReadsWhatIsThere`.  The argument has four layers.

1. *Recursion over chains.*  `Advanced`, `Sliced`, `CommitConsumed` and `ToEnd` are
   recursive functions.  That they are what their definitions say
   (`TailRecursion`, `ChainRecursion`, then `AdvancedIs`, `SlicedIs`,
   `CommitConsumedIs`, `ToEndIs`) is proved by building the function up to a length
   and joining these; facts about all chains are proved by the least length for
   which they would fail (`LeastMember`, `AllChains`).
2. *What the operations of `Buffer` do to the bytes.*  `Rest(mem, a, c, n)` says that
   the chain `a` is `c` without its first `n` bytes, and that its slices end where
   those of `c` in the same memory end; `++`, `+=` and `commit_consume` all give it (`IncrementedRest`,
   `AdvancedRest`, `CommittedRest`), which is why the iterator and the consumed
   buffer agree.  `Piece` says that a chain is the first `n` bytes of another, in
   the same memory (`SlicedPiece`).  `FilledTail` and `FreedIs` say what a write
   and the end of a raw leave alone.
3. *The buffers* (`InputInv`).  The content of the input buffer is, as numbers of
   bytes, the last that were received; no slice in it is empty, no raw is in it
   twice, and no slice of the body ends behind the slice of the buffer in the same
   raw, so that appending never writes to a body (`Apart`).  A round of `parse` that
   takes `k` bytes then moves `Place`, the number of bytes parsed, by `k`, reads the
   byte that was sent there and adds to the body what was sent there
   (`ParseStepKeeps`).  Here nothing is known of messages.
4. *The story* (`Story`).  The first `m` messages were told, and the parser is between
   two messages, in the header, the body, a size line, the data or the end of a
   chunk, or the last line of the message behind them, or has failed in it.  For each
   of these it says what was read of this part, what comes behind it in the bytes,
   the variables of the parser that matter, and how much of the body there is.  Each
   is kept by a byte or a piece (`HeaderByte`, `ChunksRound` and the lemmas before
   them), and no cut of the input appears in it: this is what makes the result
   independent of the cuts.

`InputCorrect` is the invariant of all four, and the five theorems follow from it
without another step.

`Server_proofs` proves for any numbers of descriptors, slots, clients, turns,
loops and callers: `TypeCorrect`; `BacklogIsNotSleptOver` (`BacklogIsSeen`) and
`NoDescriptorIsLost` (`DescriptorsAreOwned`), over `AcceptInv`, which says for
each place of the main loop who has the edge, the backlog and the accepted
descriptor; and, when `stop` is called by one at a time, `LoopsAreJoinedOnce`
(`JoinedOnce`), over `StopInv`: a thread inside `stop` has joined the loops below
its `nth` and no others, and while nobody is inside it `start` says whether any
was joined.

`ThreadPool_proofs` proves for any numbers of workers, tasks and posters, whether
the pool is stopped or not: `TypeCorrect`; `PostIsSeen` (`PostIsNotSleptOver`) and
`TasksRunOnce` (`EachTaskOnce`).  `PostIsNotSleptOver` speaks of a worker that
waits; `SleepInv` says the same from the moment the worker has decided to, and
that its flag stays raised from then on, which is why the test of `is_idle`
outside the mutex does no harm (`MutexInv` keeps a notification out of the moment
between the decision and the wait).  `OnceInv` adds to `EachTaskOnce` that a task
about to be pushed is nowhere else.

`ConnectionTable_proofs` proves for any numbers of descriptors and clients, without
an assumption on the clients: `TypeCorrect`; `ThreadsKeepApart` (`SlotNotShared`),
`EventsMeetTheirConnection` (`HandlersMeetTheirOwn`), `CallbacksAreToldApart`
(`StaleCallbacksAreToldApart`) and `TasksAreUndisturbed` (`TasksAreLeftAlone`: while
the pool has a task, the loop neither parses into its request nor sends, resumes or
clears its response; that `close` may destroy both is the finding about
`RequestsOutliveTasks`).  `TableInv` has one part for each thing that is shared: what
is monitored is open or being closed and not being prepared (`KernelInv`); the sub
thread handles events of what is monitored, has no events left when it closes, and is
in the main thread's slot only with a callback that came late (`SubInv`); a processor
is in one slot, and no task refers to one that is not its client's any more
(`ProcessorInv`); the processor of a task is there as long as its descriptor is
(`TaskInv`); a callback works on the slot its task has captured (`CallbackInv`), which
is still its client's, or invalid, or in `init`, or has another number (`SeqInv`); each
callback is queued once (`DefersInv`).  None is inductive without the others.

`TaskQueue_proofs` proves for any threads and tasks, assuming only that the names
differ: `TypeCorrect`; `NoRaces` (`NoDataRace`); and `QueueIsFifo`, the refinement
`Linearizable`.  `ListInv` says that the pointers from `_head` lead through the
tasks in order to `_tail` and end there, but for a node that is being pushed;
`PushInv` that this node is nobody else's; `MutexInv` who holds what; and `PopInv`
that a `try_pop` which lets the pushers in has more than one task in front of it,
which is why the pusher's writes at the tail and the popper's at the head never
meet.  `push_back` takes effect where it moves `_tail`, `empty` where it compares,
`try_pop` where it finds the list empty, takes its last node or unlinks its
first; all other steps are stuttering steps of `FifoQueue`.

Only model-checked: everything about liveness, since fairness and `ENABLED` are out
of the prover's reach.  Every invariant, action property and refinement of the
passing runs is proved, those of `HttpInput`, `Http1`, `Server` and `TimerHeap`
where the assumptions named with their runs hold.

## Not modelled

The filters of the user and `send_file`, `send_file_direct` and the static file
handler: their hazards (a `sendfile` that sends a part, a response still in the
buffer) are listed, and would be a module beside `Http1`.  Of `Buffer`, what only
the output uses (`prepend`, appended chains, streams and files, `write_to_fd`),
which `Http1` counts in units, and the steps back of the iterator, which nobody
takes.  The echo protocol, the router and the definitions of HTTP are tables or a
line of code.  The loggers and everything under `include/3rd` is not Rinx.
Registering signals, masks and listeners, and creating threads, come before the
models start.  What is undefined in C++ (a timer destroyed in its own callback,
an uncaught exception of `stoull`) is excluded by an assumption that is named at
the hazard.

## The plan

1. `Http1`: filters of the user that stop a response, `send_file` and
   `send_file_direct` with the static file handler.
2. The output side of `Buffer`, with the echo protocol, which swaps its buffers.
3. That `HttpInput` hands over what `Http1` takes as its requests, as a refinement;
   it needs the events of `HttpInput` as actions of `Http1`.
