--------------------------- MODULE ThreadPool ---------------------------
(***************************************************************************)
(* RxThreadPool (include/Rinx/Util/ThreadPool.h, src/Util/ThreadPool.cpp): *)
(* N workers with a queue each, the threads that post tasks, and the       *)
(* thread that stops the pool.  A worker takes tasks from its own queue    *)
(* and, when that is empty, from the others'.  A worker that found nothing *)
(* raises its is_idle flag and waits on its condition variable.            *)
(*                                                                         *)
(* The queues are FifoQueue's: TaskQueue shows that the linked list of the *)
(* code implements it, so push_back, try_pop and empty are one step each.  *)
(* A critical section of idle_mutex is one step where the thread in it     *)
(* touches nothing that others touch without the mutex; the worker's is    *)
(* three, because stop() sets _stop and notifies without it.               *)
(***************************************************************************)
EXTENDS Naturals, Sequences, Functions, FiniteSets

CONSTANTS
  N,          \* the number of workers
  Tasks,      \* the tasks, each posted at most once
  Posters,    \* the threads that post
  MayStop     \* may the pool be stopped?

ASSUME NAssumption == N \in Nat \ {0}
ASSUME MayStopAssumption == MayStop \in BOOLEAN
ASSUME NoTaskAssumption == "nullopt" \notin Tasks

Workers == 0 .. N - 1

VARIABLES
  queue,      \* queue[w]: worker w's task_queue
  idle,       \* is_idle
  mutex,      \* is idle_mutex held, by worker w itself?
  notified,   \* has a notification ended the wait of worker w?
  at,         \* where worker w is
  scan,       \* how many queues this scan of worker w has found empty
  task,       \* the task worker w runs
  index,      \* _index, modulo N
  poster,     \* where each poster is
  target,     \* the worker it posts to (0 when it does not)
  posting,    \* the task it posts
  stop,       \* _stop
  stopper,    \* where stop() is
  joining,    \* the worker stop() deals with
  done        \* history: the tasks that were run

vars == <<queue, idle, mutex, notified, at, scan, task, index, poster, target,
          posting, stop, stopper, joining, done>>
postVars == <<index, poster, target, posting>>
stopVars == <<stop, stopper, joining>>

TypeOK ==
  /\ queue \in [Workers -> Seq(Tasks)]
  /\ idle \in [Workers -> BOOLEAN]
  /\ mutex \in [Workers -> BOOLEAN]
  /\ notified \in [Workers -> BOOLEAN]
  /\ at \in [Workers -> {"while", "scan", "run", "lock", "check", "sleep",
                         "waiting", "exited"}]
  /\ scan \in [Workers -> 0 .. N]
  /\ task \in [Workers -> Tasks \union {"nullopt"}]
  /\ index \in Workers
  /\ poster \in [Posters -> {"out", "push", "test_idle", "notify"}]
  /\ target \in [Posters -> Workers]
  /\ posting \in [Posters -> Tasks \union {"nullopt"}]
  /\ stop \in BOOLEAN
  /\ stopper \in {"out", "notify", "join", "returned"}
  /\ joining \in 0 .. N
  /\ done \subseteq Tasks

Init ==
  /\ queue = [w \in Workers |-> <<>>]
  /\ idle = [w \in Workers |-> TRUE]
  /\ mutex = [w \in Workers |-> FALSE]
  /\ notified = [w \in Workers |-> FALSE]
  /\ at = [w \in Workers |-> "while"]
  /\ scan = [w \in Workers |-> 0]
  /\ task = [w \in Workers |-> "nullopt"]
  /\ index = 0
  /\ poster = [p \in Posters |-> "out"]
  /\ target = [p \in Posters |-> 0]
  /\ posting = [p \in Posters |-> "nullopt"]
  /\ stop = FALSE /\ stopper = "out" /\ joining = 0
  /\ done = {}

----------------------------------------------------------------------------
(* post *)

Posted ==
  (UNION {Range(queue[w]) : w \in Workers}) \union (Range(task) \ {"nullopt"}) \union done

\* The test of _stop, and the worker whose turn it is.
PostTurn(p, k) ==
  /\ poster[p] = "out"
  /\ ~stop
  /\ k \notin Posted \union Range(posting)
  /\ poster' = [poster EXCEPT ![p] = "push"]
  /\ posting' = [posting EXCEPT ![p] = k]
  /\ target' = [target EXCEPT ![p] = index]
  /\ index' = (index + 1) % N
  /\ UNCHANGED <<queue, idle, mutex, notified, at, scan, task, stopVars, done>>

PostPush(p) ==
  /\ poster[p] = "push"
  /\ queue' = [queue EXCEPT ![target[p]] = Append(@, posting[p])]
  /\ poster' = [poster EXCEPT ![p] = "test_idle"]
  /\ posting' = [posting EXCEPT ![p] = "nullopt"]
  /\ UNCHANGED <<idle, mutex, notified, at, scan, task, index, target,
                 stopVars, done>>

\* post returns.
Leave(p) ==
  /\ poster' = [poster EXCEPT ![p] = "out"]
  /\ target' = [target EXCEPT ![p] = 0]

\* A variant: the flag is tested as if it said that the worker is busy.
PostTestIdle_Inverted(p) ==
  /\ poster[p] = "test_idle"
  /\ IF idle[target[p]]
     THEN Leave(p)
     ELSE poster' = [poster EXCEPT ![p] = "notify"] /\ UNCHANGED target
  /\ UNCHANGED <<queue, idle, mutex, notified, at, scan, task, index, posting,
                 stopVars, done>>

\* if(worker.is_idle), before the mutex.
PostTestIdle(p) ==
  /\ poster[p] = "test_idle"
  /\ IF idle[target[p]]
     THEN poster' = [poster EXCEPT ![p] = "notify"] /\ UNCHANGED target
     ELSE Leave(p)
  /\ UNCHANGED <<queue, idle, mutex, notified, at, scan, task, index, posting,
                 stopVars, done>>

\* notify_one reaches the worker only if it waits.
Notify(w) ==
  notified' = [notified EXCEPT ![w] = @ \/ at[w] = "waiting"]

PostNotify(p) ==
  /\ poster[p] = "notify"
  /\ ~mutex[target[p]]
  /\ idle' = [idle EXCEPT ![target[p]] = FALSE]
  /\ Notify(target[p])
  /\ Leave(p)
  /\ UNCHANGED <<queue, mutex, at, scan, task, index, posting, stopVars, done>>

----------------------------------------------------------------------------
(* The worker's thread. *)

Goes(w, from, to) ==
  /\ at[w] = from
  /\ at' = [at EXCEPT ![w] = to]

WhileNotStopped(w) ==
  /\ Goes(w, "while", IF stop THEN "exited" ELSE "scan")
  /\ UNCHANGED <<queue, idle, mutex, notified, scan, task, postVars, stopVars, done>>

\* The scan starts with the worker's own queue.
Victim(w) == (w + scan[w]) % N

\* A variant: the task is copied out of the queue and left in it.
TakeTask_Copies(w) ==
  /\ Goes(w, "scan", "run")
  /\ scan[w] < N
  /\ queue[Victim(w)] # <<>>
  /\ task' = [task EXCEPT ![w] = Head(queue[Victim(w)])]
  /\ scan' = [scan EXCEPT ![w] = 0]
  /\ UNCHANGED <<queue, idle, mutex, notified, postVars, stopVars, done>>

TakeTask(w) ==
  /\ Goes(w, "scan", "run")
  /\ scan[w] < N
  /\ queue[Victim(w)] # <<>>
  /\ task' = [task EXCEPT ![w] = Head(queue[Victim(w)])]
  /\ queue' = [queue EXCEPT ![Victim(w)] = Tail(@)]
  /\ scan' = [scan EXCEPT ![w] = 0]
  /\ UNCHANGED <<idle, mutex, notified, postVars, stopVars, done>>

\* A variant: the scan goes on after the last queue.
NothingThere_NoEnd(w) ==
  /\ at[w] = "scan"
  /\ queue[Victim(w)] = <<>>
  /\ scan' = [scan EXCEPT ![w] = @ + 1]
  /\ UNCHANGED <<queue, idle, mutex, notified, at, task, postVars, stopVars, done>>

NothingThere(w) ==
  /\ at[w] = "scan"
  /\ scan[w] < N
  /\ queue[Victim(w)] = <<>>
  /\ scan' = [scan EXCEPT ![w] = @ + 1]
  /\ UNCHANGED <<queue, idle, mutex, notified, at, task, postVars, stopVars, done>>

\* (*task)(), and goto try_get_one_task: _stop is not looked at.
RunTask(w) ==
  /\ Goes(w, "run", "scan")
  /\ done' = done \union {task[w]}
  /\ task' = [task EXCEPT ![w] = "nullopt"]
  /\ UNCHANGED <<queue, idle, mutex, notified, scan, postVars, stopVars>>

\* No queue had a task: the mutex, and the flag.
BecomeIdle(w) ==
  /\ Goes(w, "scan", "check")
  /\ scan[w] = N
  /\ scan' = [scan EXCEPT ![w] = 0]
  /\ ~mutex[w]
  /\ mutex' = [mutex EXCEPT ![w] = TRUE]
  /\ idle' = [idle EXCEPT ![w] = TRUE]
  /\ UNCHANGED <<queue, notified, task, postVars, stopVars, done>>

\* A variant: the predicate forgets the worker's own queue.
MayLeave_NoQueue(w) == ~idle[w] \/ stop

\* The predicate of condition_not_idle.wait.
MayLeave(w) == queue[w] # <<>> \/ ~idle[w] \/ stop

LeaveWait(w) ==
  /\ Goes(w, "check", "while")
  /\ MayLeave(w)
  /\ mutex' = [mutex EXCEPT ![w] = FALSE]
  /\ UNCHANGED <<queue, idle, notified, scan, task, postVars, stopVars, done>>

StayInWait(w) ==
  /\ Goes(w, "check", "sleep")
  /\ ~MayLeave(w)
  /\ UNCHANGED <<queue, idle, mutex, notified, scan, task, postVars, stopVars, done>>

\* Atomically the mutex is released and the worker waits.
Sleep(w) ==
  /\ Goes(w, "sleep", "waiting")
  /\ mutex' = [mutex EXCEPT ![w] = FALSE]
  /\ UNCHANGED <<queue, idle, notified, scan, task, postVars, stopVars, done>>

\* Back from the wait with the mutex, to look at the predicate again.
Woken(w) ==
  /\ Goes(w, "waiting", "check")
  /\ ~mutex[w]
  /\ mutex' = [mutex EXCEPT ![w] = TRUE]
  /\ notified' = [notified EXCEPT ![w] = FALSE]
  /\ UNCHANGED <<queue, idle, scan, task, postVars, stopVars, done>>

WakeUp(w) == notified[w] /\ Woken(w)
SpuriousWakeUp(w) == ~notified[w] /\ Woken(w)

----------------------------------------------------------------------------
(* stop *)

SetStop ==
  /\ MayStop
  /\ stopper = "out"
  /\ stop' = TRUE
  /\ stopper' = "notify"
  /\ UNCHANGED <<queue, idle, mutex, notified, at, scan, task, postVars,
                 joining, done>>

\* notify_one, without idle_mutex.
StopNotify ==
  /\ stopper = "notify"
  /\ Notify(joining)
  /\ stopper' = "join"
  /\ UNCHANGED <<queue, idle, mutex, at, scan, task, postVars, stop, joining, done>>

Join ==
  /\ stopper = "join"
  /\ at[joining] = "exited"
  /\ joining' = joining + 1
  /\ stopper' = IF joining + 1 = N THEN "returned" ELSE "notify"
  /\ UNCHANGED <<queue, idle, mutex, notified, at, scan, task, postVars, stop, done>>

----------------------------------------------------------------------------
WorkerStep(w) ==
  \/ WhileNotStopped(w) \/ TakeTask(w) \/ NothingThere(w) \/ RunTask(w)
  \/ BecomeIdle(w) \/ LeaveWait(w) \/ StayInWait(w) \/ Sleep(w) \/ WakeUp(w)

PosterStep(p) == PostPush(p) \/ PostTestIdle(p) \/ PostNotify(p)

Next ==
  \/ \E p \in Posters : PosterStep(p) \/ \E k \in Tasks : PostTurn(p, k)
  \/ \E w \in Workers : WorkerStep(w) \/ SpuriousWakeUp(w)
  \/ SetStop \/ StopNotify \/ Join

\* The threads keep running.  Nobody has to post or to stop the pool, and no
\* wait has to end without a notification.  idle_mutex is held for a moment
\* at a time: WF is enough for the threads that take it.
Fairness ==
  /\ \A w \in Workers : WF_vars(WorkerStep(w))
  /\ \A p \in Posters : WF_vars(PosterStep(p))
  /\ WF_vars(StopNotify \/ Join)

Spec == Init /\ [][Next]_vars /\ Fairness

----------------------------------------------------------------------------
(* Properties. *)

\* A posted task is in one place: once in one queue, or with one worker that
\* runs it, or it was run; so no task is run twice, though every worker
\* takes tasks from every queue.
EachTaskOnce ==
  /\ \A w \in Workers : \A i, j \in DOMAIN queue[w] :
       i # j => queue[w][i] # queue[w][j]
  /\ \A v, w \in Workers : v # w =>
       /\ Range(queue[v]) \cap Range(queue[w]) = {}
       /\ task[v] = task[w] => task[v] = "nullopt"
  /\ \A v, w \in Workers : task[v] \notin Range(queue[w]) \union done
  /\ \A w \in Workers : Range(queue[w]) \cap done = {}

\* No wake-up of post is lost: a worker that waits while its own queue has a
\* task has been notified, or the thread that pushed the task is still to
\* test is_idle (and will find it raised) or to notify.
PostIsNotSleptOver ==
  \A w \in Workers :
    at[w] = "waiting" /\ ~notified[w] /\ queue[w] # <<>> =>
      \E p \in Posters :
        /\ target[p] = w
        /\ poster[p] = "notify" \/ (poster[p] = "test_idle" /\ idle[w])

\* Every posted task is run, unless the pool is stopped: whoever it was
\* posted to and whatever the others do, there comes a moment when all that
\* was posted has been run.
PostedIsRun == []<>(Posted = done \/ stop)

\* stop() returns: the predicate of the wait names _stop
\* (src/Util/ThreadPool.cpp:92), so a worker that waits leaves its loop when
\* the pool is stopped, and can be joined.
StopReturns == stop ~> (stopper = "returned")
=========================================================================
