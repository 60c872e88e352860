---------------------------- MODULE EventLoop ----------------------------
(***************************************************************************)
(* One RxEventLoop (src/Network/EventLoop.cpp): the thread that runs       *)
(* start_event_loop, the threads that call queue_work on it, and the       *)
(* threads that call stop_event_loop.  They share                          *)
(*   - _defer_functors, a vector under _defer_mutex,                       *)
(*   - the eventfd, whose write is what ends an epoll_wait,                *)
(*   - _is_running, an atomic flag.                                        *)
(* The loop thread alone owns its timers and its handlers.                 *)
(*                                                                         *)
(* Every critical section of _defer_mutex holds one access to the vector,  *)
(* so a critical section is one step.  queue_work and stop_event_loop      *)
(* take two steps: the shared state, then wake_up_loop.                    *)
(***************************************************************************)
EXTENDS Sequences, Functions

CONSTANTS
  Threads,      \* threads other than the loop's that queue work or stop it
  Works,        \* the callbacks that are queued, each one once
  Fds,          \* monitored descriptors other than the eventfd
  Timers,       \* one-shot timers of this loop's heap
  EarlyStop     \* may stop_event_loop come before start_event_loop?

ASSUME ConstantsAssumption ==
  /\ EarlyStop \in BOOLEAN
  /\ "event_fd" \notin Fds

VARIABLES
  running,      \* _is_running
  loop,         \* where the loop thread is
  timeout,      \* what get_poll_timeout returned: "none" is -1
  defers,       \* _defer_functors
  batch,        \* the vector run_defers swapped out
  executed,     \* history: the works executed, in order
  readable,     \* is the eventfd's counter above zero?
  edge,         \* is the eventfd in epoll's ready list (EPOLLET)?
  ready,        \* monitored descriptors with an event to report
  events,       \* what epoll_wait returned and is not yet dispatched
  timer,        \* each timer: "idle", "armed" or "due"
  caller,       \* where each other thread is
  stopAsked     \* history: a stop_event_loop has cleared the flag

vars == <<running, loop, timeout, defers, batch, executed, readable, edge,
          ready, events, timer, caller, stopAsked>>

----------------------------------------------------------------------------
Places == {"start", "while", "check_timers", "get_poll_timeout", "wait",
           "dispatch", "swap", "run_defers", "exited"}

\* The works that were handed to queue_work.
Queued == Range(executed) \union Range(batch) \union Range(defers)

TypeOK ==
  /\ running \in BOOLEAN
  /\ loop \in Places
  /\ timeout \in {"none", "until_top"}
  /\ defers \in Seq(Works) /\ batch \in Seq(Works) /\ executed \in Seq(Works)
  /\ readable \in BOOLEAN
  /\ edge \in BOOLEAN
  /\ ready \subseteq Fds
  /\ events \subseteq Fds \union {"event_fd"}
  /\ timer \in [Timers -> {"idle", "armed", "due"}]
  /\ caller \in [Threads -> {"out", "pushed", "cleared"}]
  /\ stopAsked \in BOOLEAN

Init ==
  /\ running = FALSE
  /\ loop = "start"
  /\ timeout = "none"
  /\ defers = <<>> /\ batch = <<>> /\ executed = <<>>
  /\ readable = FALSE
  /\ edge = FALSE
  /\ ready = {} /\ events = {}
  /\ timer \in [Timers -> {"idle", "armed"}]
  /\ caller = [c \in Threads |-> "out"]
  /\ stopAsked = FALSE

----------------------------------------------------------------------------
(* The other threads. *)

\* eventfd_write(fd, 1): the counter is above zero and the descriptor gets an edge.
wake_up_loop ==
  /\ readable' = TRUE
  /\ edge' = TRUE

\* A variant to test the properties with: the push without the wake-up.
QueueWork_NoWakeUp(c, w) ==
  /\ caller[c] = "out"
  /\ w \notin Queued
  /\ defers' = Append(defers, w)
  /\ UNCHANGED <<running, loop, timeout, batch, executed, readable, edge,
                 ready, events, timer, caller, stopAsked>>

\* queue_work, under _defer_mutex.
QueueWork(c, w) ==
  /\ caller[c] = "out"
  /\ w \notin Queued
  /\ defers' = Append(defers, w)
  /\ caller' = [caller EXCEPT ![c] = "pushed"]
  /\ UNCHANGED <<running, loop, timeout, batch, executed, readable, edge,
                 ready, events, timer, stopAsked>>

\* A variant: the flag is cleared and nobody is woken.
StopEventLoop_NoWakeUp(c) ==
  /\ caller[c] = "out"
  /\ loop = "start" => EarlyStop
  /\ running' = FALSE
  /\ stopAsked' = TRUE
  /\ UNCHANGED <<loop, timeout, defers, batch, executed, readable, edge,
                 ready, events, timer, caller>>

\* stop_event_loop's store to _is_running.
StopEventLoop(c) ==
  /\ caller[c] = "out"
  /\ loop = "start" => EarlyStop
  /\ running' = FALSE
  /\ stopAsked' = TRUE
  /\ caller' = [caller EXCEPT ![c] = "cleared"]
  /\ UNCHANGED <<loop, timeout, defers, batch, executed, readable, edge,
                 ready, events, timer>>

\* What both end with, outside the mutex.
WakeUp(c) ==
  /\ caller[c] \in {"pushed", "cleared"}
  /\ wake_up_loop
  /\ caller' = [caller EXCEPT ![c] = "out"]
  /\ UNCHANGED <<running, loop, timeout, defers, batch, executed, ready,
                 events, timer, stopAsked>>

----------------------------------------------------------------------------
(* The loop thread. *)

At(p) == loop = p
GoTo(p) == loop' = p

\* What a handler, a timer's callback or a deferred work may do to the loop
\* that runs it: nothing, queue a work, arm a timer, stop the loop.  The
\* push and the wake-up of the loop's own thread need no step of their own:
\* the only thread that could sleep between them is the one that runs them.
CallbackEffect(timers) ==
  \/ /\ timer' = timers
     /\ UNCHANGED <<running, stopAsked, defers, readable, edge>>
  \/ /\ \E w \in Works \ Queued : defers' = Append(defers, w)
     /\ wake_up_loop
     /\ timer' = timers
     /\ UNCHANGED <<running, stopAsked>>
  \/ /\ \E t \in Timers :
          /\ timers[t] = "idle"
          /\ timer' = [timers EXCEPT ![t] = "armed"]
     /\ UNCHANGED <<running, stopAsked, defers, readable, edge>>
  \/ /\ running' = FALSE /\ stopAsked' = TRUE
     /\ wake_up_loop
     /\ timer' = timers
     /\ UNCHANGED defers

StartEventLoop ==
  /\ At("start") /\ GoTo("while")
  /\ running' = TRUE
  /\ UNCHANGED <<timeout, defers, batch, executed, readable, edge, ready,
                 events, timer, caller, stopAsked>>

WhileRunning ==
  /\ At("while")
  /\ GoTo(IF running THEN "check_timers" ELSE "exited")
  /\ UNCHANGED <<running, timeout, defers, batch, executed, readable, edge,
                 ready, events, timer, caller, stopAsked>>

\* check_timer_expiry pops a timer that is due and calls it back.
FireTimer(t) ==
  /\ At("check_timers")
  /\ timer[t] = "due"
  /\ CallbackEffect([timer EXCEPT ![t] = "idle"])
  /\ UNCHANGED <<loop, timeout, batch, executed, ready, events, caller>>

\* ... until the top of the heap is not due at the time it is looked at.
TimersChecked ==
  /\ At("check_timers") /\ GoTo("get_poll_timeout")
  /\ \A t \in Timers : timer[t] # "due"
  /\ UNCHANGED <<running, timeout, defers, batch, executed, readable, edge,
                 ready, events, timer, caller, stopAsked>>

\* A variant: the 0 of get_timeout_interval is handed to epoll_wait.
PollTimeout_Zero ==
  IF /\ \E t \in Timers : timer[t] = "armed"
     /\ \A t \in Timers : timer[t] # "due"
  THEN "until_top" ELSE "zero"

\* get_timeout_interval is 0 when the heap is empty and also when its top is
\* already due; get_poll_timeout turns 0 into -1, wait for ever.
PollTimeout ==
  IF /\ \E t \in Timers : timer[t] = "armed"
     /\ \A t \in Timers : timer[t] # "due"
  THEN "until_top" ELSE "none"

GetPollTimeout ==
  /\ At("get_poll_timeout") /\ GoTo("wait")
  /\ timeout' = PollTimeout
  /\ UNCHANGED <<running, defers, batch, executed, readable, edge, ready,
                 events, timer, caller, stopAsked>>

\* The eventfd is reported once for an edge, and only while it is readable.
EventFdReported == edge /\ readable

\* epoll_wait returns the descriptors of its ready list, edge-triggered.
WaitReturns ==
  /\ At("wait") /\ GoTo("dispatch")
  /\ EventFdReported \/ ready # {}
  /\ events' = ready \union (IF EventFdReported THEN {"event_fd"} ELSE {})
  /\ edge' = FALSE
  /\ ready' = {}
  /\ UNCHANGED <<running, timeout, defers, batch, executed, readable, timer,
                 caller, stopAsked>>

\* epoll_wait times out, or a signal interrupts it: nothing to dispatch.
WaitTimesOut ==
  /\ At("wait") /\ GoTo("swap")
  /\ timeout = "until_top"
  /\ \E t \in Timers : timer[t] = "due"
  /\ UNCHANGED <<running, timeout, defers, batch, executed, readable, edge,
                 ready, events, timer, caller, stopAsked>>

WaitInterrupted ==
  /\ At("wait") /\ GoTo("swap")
  /\ UNCHANGED <<running, timeout, defers, batch, executed, readable, edge,
                 ready, events, timer, caller, stopAsked>>

\* The eventfd's handler reads its counter, which resets it.
ReadEventFd ==
  /\ At("dispatch")
  /\ "event_fd" \in events
  /\ events' = events \ {"event_fd"}
  /\ readable' = FALSE
  /\ UNCHANGED <<running, loop, timeout, defers, batch, executed, edge,
                 ready, timer, caller, stopAsked>>

\* Any other handler, which may call back into the loop.
DispatchIo(f) ==
  /\ At("dispatch")
  /\ f \in events \ {"event_fd"}
  /\ events' = events \ {f}
  /\ CallbackEffect(timer)
  /\ UNCHANGED <<loop, timeout, batch, executed, ready, caller>>

\* A variant: a round that dispatched events does not run the defers.
Dispatched_SkipsDefers ==
  /\ At("dispatch") /\ GoTo("while")
  /\ events = {}
  /\ UNCHANGED <<running, timeout, defers, batch, executed, readable, edge,
                 ready, events, timer, caller, stopAsked>>

Dispatched ==
  /\ At("dispatch") /\ GoTo("swap")
  /\ events = {}
  /\ UNCHANGED <<running, timeout, defers, batch, executed, readable, edge,
                 ready, events, timer, caller, stopAsked>>

\* A variant: the vector is copied, not swapped.
SwapDefers_Copies ==
  /\ At("swap") /\ GoTo("run_defers")
  /\ batch' = defers
  /\ UNCHANGED <<running, timeout, defers, executed, readable, edge, ready,
                 events, timer, caller, stopAsked>>

\* run_defers takes the whole vector under the mutex ...
SwapDefers ==
  /\ At("swap") /\ GoTo("run_defers")
  /\ batch' = defers
  /\ defers' = <<>>
  /\ UNCHANGED <<running, timeout, executed, readable, edge, ready, events,
                 timer, caller, stopAsked>>

\* ... and runs it outside.
RunDefer ==
  /\ At("run_defers")
  /\ batch # <<>>
  /\ executed' = Append(executed, Head(batch))
  /\ batch' = Tail(batch)
  /\ CallbackEffect(timer)
  /\ UNCHANGED <<loop, timeout, ready, events, caller>>

\* on_finish, and back to the condition of the while.
DefersRun ==
  /\ At("run_defers") /\ GoTo("while")
  /\ batch = <<>>
  /\ UNCHANGED <<running, timeout, defers, batch, executed, readable, edge,
                 ready, events, timer, caller, stopAsked>>

----------------------------------------------------------------------------
(* The environment: time passes, descriptors become ready. *)

Tick(t) ==
  /\ timer[t] = "armed"
  /\ timer' = [timer EXCEPT ![t] = "due"]
  /\ UNCHANGED <<running, loop, timeout, defers, batch, executed, readable,
                 edge, ready, events, caller, stopAsked>>

FdReady(f) ==
  /\ f \notin ready
  /\ ready' = ready \union {f}
  /\ UNCHANGED <<running, loop, timeout, defers, batch, executed, readable,
                 edge, events, timer, caller, stopAsked>>

LoopStep ==
  \/ StartEventLoop \/ WhileRunning \/ TimersChecked
  \/ \E t \in Timers : FireTimer(t)
  \/ GetPollTimeout \/ WaitReturns \/ WaitTimesOut
  \/ ReadEventFd \/ Dispatched
  \/ \E f \in Fds : DispatchIo(f)
  \/ SwapDefers \/ RunDefer \/ DefersRun

Next ==
  \/ LoopStep
  \/ WaitInterrupted
  \/ \E c \in Threads : \E w \in Works : QueueWork(c, w)
  \/ \E c \in Threads : StopEventLoop(c) \/ WakeUp(c)
  \/ \E t \in Timers : Tick(t)
  \/ \E f \in Fds : FdReady(f)

\* The loop thread and a caller inside queue_work or stop_event_loop keep
\* running, and time passes.  Nobody has to call, no descriptor has to
\* become ready, no signal has to interrupt.  check_timer_expiry reads the
\* clock anew for every top of the heap: callbacks that take longer than the
\* intervals they arm keep it from ever returning, and SF on TimersChecked
\* is the assumption that they do not.
Fairness ==
  /\ WF_vars(LoopStep)
  /\ SF_vars(TimersChecked)
  /\ \A c \in Threads : WF_vars(WakeUp(c))
  /\ \A t \in Timers : WF_vars(Tick(t))

Spec == Init /\ [][Next]_vars /\ Fairness

----------------------------------------------------------------------------
(* Properties. *)

\* Whoever sleeps in epoll_wait with works in _defer_functors is about to be
\* woken: the eventfd has an edge to report, or the thread that pushed the
\* work has not reached its wake_up_loop yet (queue_work pushes, unlocks,
\* and only then writes the eventfd).
NoLostWakeup ==
  At("wait") /\ defers # <<>> =>
    EventFdReported \/ \E c \in Threads : caller[c] = "pushed"

\* The same for stop_event_loop: a loop asleep with _is_running cleared is
\* about to be woken.
NoLostStop ==
  At("wait") /\ ~running =>
    EventFdReported \/ \E c \in Threads : caller[c] = "cleared"

\* The loop is a serial executor of the queued works: each runs once, in the
\* order of the pushes, through the swap of run_defers and through works
\* that queue works.
Executor == INSTANCE SerialExecutor WITH pending <- batch \o defers
ExecutesInOrder == Executor!Spec

\* A queued work is executed, unless the loop is stopped first: whatever the
\* timers do, and though no other descriptor ever becomes ready.
QueuedIsExecuted ==
  \A w \in Works :
    (w \in Queued) ~> (w \in Range(executed) \/ loop = "exited")

\* stop_event_loop "stop eventloop asynchronously" (EventLoop.h:54): once it
\* was called the loop thread leaves start_event_loop, so that it can be
\* joined.
StopEndsLoop == stopAsked ~> (loop = "exited")

\* The loop may not sleep without a timeout while a timer waits for it
\* (include/Rinx/Network/README.md:8).
SleepsWithinTimers ==
  At("wait") /\ timeout = "none" => \A t \in Timers : timer[t] = "idle"
=========================================================================
