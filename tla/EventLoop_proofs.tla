------------------------ MODULE EventLoop_proofs ------------------------
(***************************************************************************)
(* Proofs about EventLoop, for any number of threads, works, descriptors   *)
(* and timers.                                                             *)
(***************************************************************************)
EXTENDS EventLoop, SequenceTheorems, TLAPS

(* What a callback may do to the loop keeps the types of what it touches. *)
LEMMA CallbackType ==
  ASSUME TypeOK, NEW STATE timers, timers \in [Timers -> {"idle", "armed", "due"}],
         CallbackEffect(timers)
  PROVE  /\ running' \in BOOLEAN /\ stopAsked' \in BOOLEAN
         /\ readable' \in BOOLEAN /\ edge' \in BOOLEAN
         /\ defers' \in Seq(Works)
         /\ timer' \in [Timers -> {"idle", "armed", "due"}]
<1>1. timer' \in [Timers -> {"idle", "armed", "due"}]
  BY DEF CallbackEffect
<1>2. defers' \in Seq(Works)
  <2>1. \A w \in Works : Append(defers, w) \in Seq(Works)
    BY DEF TypeOK
  <2>2. QED
    BY <2>1, Zenon DEF TypeOK, CallbackEffect
<1>3. QED
  BY <1>1, <1>2, Zenon DEF TypeOK, CallbackEffect, wake_up_loop

(* Every variable keeps its type. *)
THEOREM TypeCorrect == Spec => []TypeOK
<1>1. Init => TypeOK
  <2>1. [Timers -> {"idle", "armed"}] \subseteq [Timers -> {"idle", "armed", "due"}]
    OBVIOUS
  <2>2. <<>> \in Seq(Works)
    OBVIOUS
  <2>3. QED
    BY <2>1, <2>2 DEF Init, TypeOK, Places
<1>2. TypeOK /\ [Next]_vars => TypeOK'
  <2> SUFFICES ASSUME TypeOK, [Next]_vars PROVE TypeOK'
    OBVIOUS
  <2> USE DEF TypeOK, Places, At, GoTo
  <2>1. CASE StartEventLoop
    BY <2>1 DEF StartEventLoop
  <2>2. CASE WhileRunning
    BY <2>2 DEF WhileRunning
  <2>3. CASE TimersChecked
    BY <2>3 DEF TimersChecked
  <2>4. ASSUME NEW t \in Timers, FireTimer(t) PROVE TypeOK'
    <3>1. [timer EXCEPT ![t] = "idle"] \in [Timers -> {"idle", "armed", "due"}]
      OBVIOUS
    <3>2. QED
      BY <2>4, <3>1, CallbackType DEF FireTimer
  <2>5. CASE GetPollTimeout
    BY <2>5 DEF GetPollTimeout, PollTimeout
  <2>6. CASE WaitReturns
    BY <2>6 DEF WaitReturns
  <2>7. CASE WaitTimesOut \/ WaitInterrupted
    BY <2>7 DEF WaitTimesOut, WaitInterrupted
  <2>8. CASE ReadEventFd
    BY <2>8 DEF ReadEventFd
  <2>9. CASE Dispatched
    BY <2>9 DEF Dispatched
  <2>10. ASSUME NEW f \in Fds, DispatchIo(f) PROVE TypeOK'
    BY <2>10, CallbackType DEF DispatchIo
  <2>11. CASE SwapDefers
    BY <2>11 DEF SwapDefers
  <2>12. CASE RunDefer
    <3>1. Head(batch) \in Works /\ Tail(batch) \in Seq(Works)
      BY <2>12, HeadTailProperties DEF RunDefer
    <3>2. executed' \in Seq(Works) /\ batch' \in Seq(Works)
      BY <2>12, <3>1, AppendProperties DEF RunDefer
    <3>3. QED
      BY <2>12, <3>2, CallbackType DEF RunDefer
  <2>13. CASE DefersRun
    BY <2>13 DEF DefersRun
  <2>14. ASSUME NEW c \in Threads, NEW w \in Works, QueueWork(c, w) PROVE TypeOK'
    BY <2>14 DEF QueueWork
  <2>15. ASSUME NEW c \in Threads, StopEventLoop(c) \/ WakeUp(c) PROVE TypeOK'
    BY <2>15 DEF StopEventLoop, WakeUp, wake_up_loop
  <2>16. ASSUME NEW t \in Timers, Tick(t) PROVE TypeOK'
    BY <2>16 DEF Tick
  <2>17. ASSUME NEW f \in Fds, FdReady(f) PROVE TypeOK'
    BY <2>17 DEF FdReady
  <2>18. CASE UNCHANGED vars
    BY <2>18 DEF vars
  <2>19. QED
    BY <2>1, <2>2, <2>3, <2>4, <2>5, <2>6, <2>7, <2>8, <2>9, <2>10, <2>11,
       <2>12, <2>13, <2>14, <2>15, <2>16, <2>17, <2>18 DEF Next, LoopStep
<1>3. QED
  BY <1>1, <1>2, PTL DEF Spec
----------------------------------------------------------------------------
(* The wake-ups.  A work in _defer_functors has its wake-up still to come, *)
(* or in the eventfd, or the loop has been woken and is on its way to      *)
(* run_defers; the flag that stops the loop likewise.                      *)
Waking(place) == \E c \in Threads : caller[c] = place

WorkWakes ==
  defers # <<>> => \/ EventFdReported
                   \/ Waking("pushed")
                   \/ loop \in {"dispatch", "swap", "exited"}

StopWakes ==
  /\ ~running
  /\ loop \in {"check_timers", "get_poll_timeout", "wait"}
  => EventFdReported \/ Waking("cleared")

\* A callback never leaves the eventfd less ready than it was, and if it
\* queues a work or stops the loop it has written the eventfd.
LEMMA CallbackWakes ==
  ASSUME NEW STATE timers, CallbackEffect(timers)
  PROVE  /\ EventFdReported => EventFdReported'
         /\ EventFdReported' \/ defers' = defers
         /\ EventFdReported' \/ running' = running
BY DEF CallbackEffect, EventFdReported, wake_up_loop

LEMMA WakesInductive ==
  ASSUME TypeOK, WorkWakes, StopWakes, [Next]_vars
  PROVE  WorkWakes' /\ StopWakes'
<1> USE DEF WorkWakes, StopWakes, Waking, EventFdReported, At, GoTo
<1>1. CASE StartEventLoop
  BY <1>1 DEF StartEventLoop
<1>2. CASE WhileRunning
  BY <1>2 DEF WhileRunning
<1>3. CASE TimersChecked \/ GetPollTimeout
  BY <1>3 DEF TimersChecked, GetPollTimeout
<1>4. ASSUME NEW t \in Timers, FireTimer(t) PROVE WorkWakes' /\ StopWakes'
  BY <1>4, CallbackWakes DEF FireTimer
<1>5. CASE WaitReturns \/ WaitTimesOut \/ WaitInterrupted
  BY <1>5 DEF WaitReturns, WaitTimesOut, WaitInterrupted
<1>6. CASE ReadEventFd \/ Dispatched
  BY <1>6 DEF ReadEventFd, Dispatched
<1>7. ASSUME NEW f \in Fds, DispatchIo(f) PROVE WorkWakes' /\ StopWakes'
  BY <1>7, CallbackWakes DEF DispatchIo
<1>8. CASE SwapDefers
  BY <1>8 DEF SwapDefers
<1>9. CASE RunDefer
  BY <1>9, CallbackWakes DEF RunDefer
<1>10. CASE DefersRun
  BY <1>10 DEF DefersRun
<1>11. ASSUME NEW c \in Threads, NEW w \in Works, QueueWork(c, w)
       PROVE  WorkWakes' /\ StopWakes'
  <2>1. caller'[c] = "pushed"
    BY <1>11 DEF QueueWork, TypeOK
  <2>2. \A d \in Threads : d # c => caller'[d] = caller[d]
    BY <1>11 DEF QueueWork, TypeOK
  <2>3. QED
    BY <1>11, <2>1, <2>2 DEF QueueWork
<1>12. ASSUME NEW c \in Threads, StopEventLoop(c) PROVE WorkWakes' /\ StopWakes'
  <2>1. caller'[c] = "cleared"
    BY <1>12 DEF StopEventLoop, TypeOK
  <2>2. \A d \in Threads : d # c => caller'[d] = caller[d]
    BY <1>12 DEF StopEventLoop, TypeOK
  <2>3. QED
    BY <1>12, <2>1, <2>2 DEF StopEventLoop
<1>13. ASSUME NEW c \in Threads, WakeUp(c) PROVE WorkWakes' /\ StopWakes'
  BY <1>13 DEF WakeUp, wake_up_loop
<1>14. ASSUME NEW t \in Timers, Tick(t) PROVE WorkWakes' /\ StopWakes'
  BY <1>14 DEF Tick
<1>15. ASSUME NEW f \in Fds, FdReady(f) PROVE WorkWakes' /\ StopWakes'
  BY <1>15 DEF FdReady
<1>16. CASE UNCHANGED vars
  BY <1>16 DEF vars
<1>17. QED
  BY <1>1, <1>2, <1>3, <1>4, <1>5, <1>6, <1>7, <1>8, <1>9, <1>10, <1>11,
     <1>12, <1>13, <1>14, <1>15, <1>16 DEF Next, LoopStep

LEMMA Wakes == Spec => [](WorkWakes /\ StopWakes)
<1>1. Init => WorkWakes /\ StopWakes
  BY DEF Init, WorkWakes, StopWakes
<1>2. QED
  BY <1>1, TypeCorrect, WakesInductive, PTL DEF Spec

\* The loop never sleeps over a queued work that nobody will wake it for.
THEOREM WorkIsNotSleptOver == Spec => []NoLostWakeup
<1>1. WorkWakes => NoLostWakeup
  BY DEF WorkWakes, NoLostWakeup, Waking, At
<1>2. QED
  BY <1>1, Wakes, PTL

\* The loop never sleeps over a stop_event_loop that nobody will wake it for.
THEOREM StopIsNotSleptOver == Spec => []NoLostStop
<1>1. StopWakes => NoLostStop
  BY DEF StopWakes, NoLostStop, Waking, At
<1>2. QED
  BY <1>1, Wakes, PTL

----------------------------------------------------------------------------
(* The refinement.  The abstract queue is what is left of the batch        *)
(* followed by the vector, so the swap of run_defers is a stutter: that    *)
(* needs the batch to be empty whenever the swap can happen.               *)
BatchOnlyInRun == loop # "run_defers" => batch = <<>>

LEMMA BatchInductive == BatchOnlyInRun /\ [Next]_vars => BatchOnlyInRun'
<1> SUFFICES ASSUME BatchOnlyInRun, [Next]_vars PROVE BatchOnlyInRun'
  OBVIOUS
<1> USE DEF BatchOnlyInRun, At, GoTo
<1>1. CASE StartEventLoop \/ WhileRunning \/ TimersChecked \/ GetPollTimeout
  BY <1>1 DEF StartEventLoop, WhileRunning, TimersChecked, GetPollTimeout
<1>2. ASSUME NEW t \in Timers, FireTimer(t) \/ Tick(t) PROVE BatchOnlyInRun'
  BY <1>2 DEF FireTimer, Tick
<1>3. CASE WaitReturns \/ WaitTimesOut \/ WaitInterrupted
  BY <1>3 DEF WaitReturns, WaitTimesOut, WaitInterrupted
<1>4. CASE ReadEventFd \/ Dispatched
  BY <1>4 DEF ReadEventFd, Dispatched
<1>5. ASSUME NEW f \in Fds, DispatchIo(f) \/ FdReady(f) PROVE BatchOnlyInRun'
  BY <1>5 DEF DispatchIo, FdReady
<1>6. CASE SwapDefers \/ RunDefer \/ DefersRun
  BY <1>6 DEF SwapDefers, RunDefer, DefersRun
<1>7. ASSUME NEW c \in Threads, NEW w \in Works, QueueWork(c, w)
      PROVE  BatchOnlyInRun'
  BY <1>7 DEF QueueWork
<1>8. ASSUME NEW c \in Threads, StopEventLoop(c) \/ WakeUp(c)
      PROVE  BatchOnlyInRun'
  BY <1>8 DEF StopEventLoop, WakeUp
<1>9. CASE UNCHANGED vars
  BY <1>9 DEF vars
<1>10. QED
  BY <1>1, <1>2, <1>3, <1>4, <1>5, <1>6, <1>7, <1>8, <1>9 DEF Next, LoopStep

LEMMA AppendToConcat ==
  ASSUME NEW S, NEW s \in Seq(S), NEW t \in Seq(S), NEW e \in S
  PROVE  s \o Append(t, e) = Append(s \o t, e)
OBVIOUS

LEMMA TailOfConcat ==
  ASSUME NEW S, NEW s \in Seq(S), NEW t \in Seq(S), s # <<>>
  PROVE  /\ s \o t # <<>>
         /\ Head(s \o t) = Head(s)
         /\ Tail(s \o t) = Tail(s) \o t
OBVIOUS

\* A work that is not queued is new to the abstract executor.
LEMMA QueuedIsNew ==
  ASSUME TypeOK, NEW w, w \notin Queued
  PROVE  Executor!New(w)
<1>1. Range(batch \o defers) = Range(batch) \union Range(defers)
  BY RangeConcatenation DEF TypeOK
<1>2. QED
  BY <1>1 DEF Queued, Executor!New, Executor!Range, Range

\* What a callback does to the vector: nothing, or a push of a new work.
LEMMA CallbackPushes ==
  ASSUME TypeOK, NEW STATE timers, CallbackEffect(timers)
  PROVE  \/ defers' = defers
         \/ \E w \in Works : Executor!New(w) /\ defers' = Append(defers, w)
BY QueuedIsNew DEF CallbackEffect

\* A step that runs no work maps to a submission or to a stutter.
LEMMA PushMapped ==
  ASSUME TypeOK, UNCHANGED <<batch, executed>>,
         \/ defers' = defers
         \/ \E w \in Works : Executor!New(w) /\ defers' = Append(defers, w)
  PROVE  [Executor!Next]_Executor!vars
<1>1. CASE defers' = defers
  BY <1>1 DEF Executor!vars
<1>2. ASSUME NEW w \in Works, Executor!New(w), defers' = Append(defers, w)
      PROVE  [Executor!Next]_Executor!vars
  <2>1. (batch \o defers)' = Append(batch \o defers, w)
    BY <1>2, AppendToConcat DEF TypeOK
  <2>2. QED
    BY <1>2, <2>1 DEF Executor!Next, Executor!Submit
<1>3. QED
  BY <1>1, <1>2

\* RunDefer maps to the execution of the oldest work.
LEMMA RunMapped ==
  ASSUME TypeOK, RunDefer
  PROVE  Executor!Execute
<1>1. /\ batch # <<>>
      /\ executed' = Append(executed, Head(batch))
      /\ batch' = Tail(batch)
      /\ CallbackEffect(timer)
  BY DEF RunDefer
<1>2. /\ batch \o defers # <<>>
      /\ Head(batch \o defers) = Head(batch)
      /\ Tail(batch \o defers) = batch' \o defers
  BY <1>1, TailOfConcat DEF TypeOK
<1>3. CASE defers' = defers
  BY <1>1, <1>2, <1>3 DEF Executor!Execute
<1>4. ASSUME NEW w \in Works, Executor!New(w), defers' = Append(defers, w)
      PROVE  Executor!Execute
  <2>1. batch' \in Seq(Works)
    BY <1>1, HeadTailProperties DEF TypeOK
  <2>2. (batch \o defers)' = Append(Tail(batch \o defers), w)
    <3>1. batch' \o Append(defers, w) = Append(batch' \o defers, w)
      BY <2>1, AppendToConcat DEF TypeOK
    <3>2. QED
      BY <1>2, <1>4, <3>1
  <2>3. QED
    BY <1>1, <1>2, <1>4, <2>2 DEF Executor!Execute
<1>5. QED
  BY <1>1, <1>3, <1>4, CallbackPushes

LEMMA StepMapped ==
  ASSUME TypeOK, BatchOnlyInRun, [Next]_vars
  PROVE  [Executor!Next]_Executor!vars
<1>1. CASE \/ StartEventLoop \/ WhileRunning \/ TimersChecked \/ GetPollTimeout
           \/ WaitReturns \/ WaitTimesOut \/ WaitInterrupted \/ ReadEventFd
           \/ Dispatched \/ DefersRun \/ UNCHANGED vars
  <2>1. UNCHANGED <<batch, defers, executed>>
    BY <1>1 DEF StartEventLoop, WhileRunning, TimersChecked, GetPollTimeout,
                WaitReturns, WaitTimesOut, WaitInterrupted, ReadEventFd,
                Dispatched, DefersRun, vars
  <2>2. QED
    BY <2>1, PushMapped
<1>2. ASSUME NEW t \in Timers, FireTimer(t) PROVE [Executor!Next]_Executor!vars
  BY <1>2, CallbackPushes, PushMapped DEF FireTimer
<1>3. ASSUME NEW f \in Fds, DispatchIo(f) PROVE [Executor!Next]_Executor!vars
  BY <1>3, CallbackPushes, PushMapped DEF DispatchIo
<1>4. CASE SwapDefers
  <2>1. batch = <<>> /\ batch' = defers /\ defers' = <<>> /\ executed' = executed
    BY <1>4 DEF SwapDefers, BatchOnlyInRun, At
  <2>2. (batch \o defers)' = batch \o defers
    BY <2>1 DEF TypeOK
  <2>3. QED
    BY <2>1, <2>2 DEF Executor!vars
<1>5. CASE RunDefer
  BY <1>5, RunMapped DEF Executor!Next
<1>6. ASSUME NEW c \in Threads, NEW w \in Works, QueueWork(c, w)
      PROVE  [Executor!Next]_Executor!vars
  BY <1>6, QueuedIsNew, PushMapped DEF QueueWork
<1>7. ASSUME NEW c \in Threads, StopEventLoop(c) \/ WakeUp(c)
      PROVE  [Executor!Next]_Executor!vars
  BY <1>7, PushMapped DEF StopEventLoop, WakeUp
<1>8. ASSUME NEW t \in Timers, Tick(t) PROVE [Executor!Next]_Executor!vars
  BY <1>8, PushMapped DEF Tick
<1>9. ASSUME NEW f \in Fds, FdReady(f) PROVE [Executor!Next]_Executor!vars
  BY <1>9, PushMapped DEF FdReady
<1>10. QED
  BY <1>1, <1>2, <1>3, <1>4, <1>5, <1>6, <1>7, <1>8, <1>9 DEF Next, LoopStep

\* The loop implements the serial executor: every queued work runs at most
\* once and in the order of the pushes, for any number of threads.
THEOREM LoopIsSerialExecutor == Spec => ExecutesInOrder
<1>1. Init => Executor!Init
  BY DEF Init, Executor!Init
<1>2. Init => BatchOnlyInRun
  BY DEF Init, BatchOnlyInRun
<1>3. Spec => []BatchOnlyInRun
  BY <1>2, BatchInductive, PTL DEF Spec
<1>4. QED
  BY <1>1, <1>3, TypeCorrect, StepMapped, PTL
  DEF Spec, ExecutesInOrder, Executor!Spec
=========================================================================
