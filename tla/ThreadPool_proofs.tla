----------------------- MODULE ThreadPool_proofs -----------------------
(***************************************************************************)
(* Proofs about ThreadPool, for any numbers of workers, tasks and posters, *)
(* whether the pool is stopped or not.                                     *)
(***************************************************************************)
EXTENDS ThreadPool, SequenceTheorems, TLAPS

WorkerPlaces == {"while", "scan", "run", "lock", "check", "sleep", "waiting", "exited"}

QueuesTyped == queue \in [Workers -> Seq(Tasks)]

FlagsTyped ==
  /\ idle \in [Workers -> BOOLEAN]
  /\ mutex \in [Workers -> BOOLEAN]
  /\ notified \in [Workers -> BOOLEAN]

WorkersTyped ==
  /\ at \in [Workers -> WorkerPlaces]
  /\ scan \in [Workers -> 0 .. N]
  /\ task \in [Workers -> Tasks \union {"nullopt"}]
  /\ \A w \in Workers : at[w] = "run" => task[w] \in Tasks

PostersTyped ==
  /\ index \in Workers
  /\ poster \in [Posters -> {"out", "push", "test_idle", "notify"}]
  /\ target \in [Posters -> Workers]
  /\ posting \in [Posters -> Tasks \union {"nullopt"}]
  /\ \A p \in Posters : poster[p] = "push" => posting[p] \in Tasks

StopTyped ==
  /\ stop \in BOOLEAN
  /\ stopper \in {"out", "notify", "join", "returned"}
  /\ joining \in 0 .. N
  /\ stopper \in {"out", "notify", "join"} => joining \in Workers

DoneTyped == done \subseteq Tasks

(* TypeOK, and that a thread which is about to use a task has one. *)
Typed ==
  /\ QueuesTyped /\ FlagsTyped /\ WorkersTyped /\ PostersTyped /\ StopTyped /\ DoneTyped

LEMMA TypedInit == Init => Typed
<1> SUFFICES ASSUME Init PROVE Typed
  OBVIOUS
<1> USE NAssumption DEF Init
<1>1. 0 \in Workers
  BY DEF Workers
<1>2. <<>> \in Seq(Tasks)
  OBVIOUS
<1>3. QueuesTyped
  BY <1>2 DEF QueuesTyped
<1>4. FlagsTyped
  BY DEF FlagsTyped
<1>5. WorkersTyped
  BY DEF WorkersTyped, WorkerPlaces
<1>6. PostersTyped
  BY <1>1 DEF PostersTyped
<1>7. StopTyped
  <2>1. stop \in BOOLEAN
    BY Zenon
  <2>2. QED
    BY <1>1, <2>1 DEF StopTyped
<1>8. DoneTyped
  BY DEF DoneTyped
<1>9. QED
  BY <1>3, <1>4, <1>5, <1>6, <1>7, <1>8 DEF Typed

(* post keeps the types of what it touches. *)
LEMMA PostTyped ==
  ASSUME Typed, NEW p \in Posters, PosterStep(p) \/ \E k \in Tasks : PostTurn(p, k)
  PROVE  Typed'
<1> USE NAssumption DEF Typed
<1>0. 0 \in Workers
  BY DEF Workers
<1>1. ASSUME NEW k \in Tasks, PostTurn(p, k) PROVE Typed'
  <2> USE <1>1 DEF PostTurn, stopVars
  <2>1. (index + 1) % N \in Workers
    BY DEF PostersTyped, Workers
  <2>2. PostersTyped'
    BY <2>1 DEF PostersTyped
  <2>3. QueuesTyped' /\ FlagsTyped' /\ WorkersTyped' /\ StopTyped' /\ DoneTyped'
    BY DEF QueuesTyped, FlagsTyped, WorkersTyped, StopTyped, DoneTyped
  <2>4. QED
    BY <2>2, <2>3
<1>2. CASE PostPush(p)
  <2> USE <1>2 DEF PostPush, stopVars
  <2>1. posting[p] \in Tasks /\ target[p] \in Workers
    BY DEF PostersTyped
  <2>2. Append(queue[target[p]], posting[p]) \in Seq(Tasks)
    BY <2>1 DEF QueuesTyped
  <2>3. QueuesTyped'
    BY <2>2 DEF QueuesTyped
  <2>4. PostersTyped'
    BY DEF PostersTyped
  <2>5. FlagsTyped' /\ WorkersTyped' /\ StopTyped' /\ DoneTyped'
    BY DEF FlagsTyped, WorkersTyped, StopTyped, DoneTyped
  <2>6. QED
    BY <2>3, <2>4, <2>5
<1>3. CASE PostTestIdle(p)
  <2> USE <1>3 DEF PostTestIdle, Leave, stopVars
  <2>1. PostersTyped'
    BY <1>0 DEF PostersTyped
  <2>2. QueuesTyped' /\ FlagsTyped' /\ WorkersTyped' /\ StopTyped' /\ DoneTyped'
    BY DEF QueuesTyped, FlagsTyped, WorkersTyped, StopTyped, DoneTyped
  <2>3. QED
    BY <2>1, <2>2
<1>4. CASE PostNotify(p)
  <2> USE <1>4 DEF PostNotify, Leave, Notify, stopVars
  <2>1. PostersTyped'
    BY <1>0 DEF PostersTyped
  <2>2. FlagsTyped'
    <3>1. idle' \in [Workers -> BOOLEAN]
      BY DEF FlagsTyped
    <3>2. notified[target[p]] \in BOOLEAN /\ notified' \in [Workers -> BOOLEAN]
      BY DEF FlagsTyped, PostersTyped
    <3>3. QED
      BY <3>1, <3>2 DEF FlagsTyped
  <2>3. QueuesTyped' /\ WorkersTyped' /\ StopTyped' /\ DoneTyped'
    BY DEF QueuesTyped, WorkersTyped, StopTyped, DoneTyped
  <2>4. QED
    BY <2>1, <2>2, <2>3
<1>5. QED
  BY <1>1, <1>2, <1>3, <1>4, Zenon DEF PosterStep

(* So do the workers. *)
LEMMA WorkTyped ==
  ASSUME Typed, NEW w \in Workers, WorkerStep(w) \/ SpuriousWakeUp(w)
  PROVE  Typed'
<1> USE NAssumption DEF Typed
<1>1. CASE TakeTask(w)
  <2> USE <1>1 DEF TakeTask, Goes, postVars, stopVars
  <2>1. Victim(w) \in Workers
    BY DEF Victim, Workers, WorkersTyped
  <2> HIDE DEF Victim
  <2>2. Head(queue[Victim(w)]) \in Tasks /\ Tail(queue[Victim(w)]) \in Seq(Tasks)
    BY <2>1 DEF QueuesTyped
  <2>3. QueuesTyped'
    BY <2>2 DEF QueuesTyped
  <2>4. WorkersTyped'
    BY <2>2 DEF WorkersTyped, WorkerPlaces
  <2>5. FlagsTyped' /\ PostersTyped' /\ StopTyped' /\ DoneTyped'
    BY DEF FlagsTyped, PostersTyped, StopTyped, DoneTyped
  <2>6. QED
    BY <2>3, <2>4, <2>5
<1>2. CASE RunTask(w)
  <2> USE <1>2 DEF RunTask, Goes, postVars, stopVars
  <2>1. WorkersTyped'
    BY DEF WorkersTyped, WorkerPlaces
  <2>2. DoneTyped'
    BY DEF DoneTyped, WorkersTyped
  <2>3. QueuesTyped' /\ FlagsTyped' /\ PostersTyped' /\ StopTyped'
    BY DEF QueuesTyped, FlagsTyped, PostersTyped, StopTyped
  <2>4. QED
    BY <2>1, <2>2, <2>3
<1>3. CASE NothingThere(w) \/ BecomeIdle(w)
  <2> USE <1>3 DEF NothingThere, BecomeIdle, Goes, postVars, stopVars
  <2>1. scan' \in [Workers -> 0 .. N]
    BY DEF WorkersTyped
  <2>2. WorkersTyped'
    BY <2>1 DEF WorkersTyped, WorkerPlaces
  <2>3. FlagsTyped'
    BY DEF FlagsTyped
  <2>4. QueuesTyped' /\ PostersTyped' /\ StopTyped' /\ DoneTyped'
    BY DEF QueuesTyped, PostersTyped, StopTyped, DoneTyped
  <2>5. QED
    BY <2>2, <2>3, <2>4
<1>4. CASE WhileNotStopped(w) \/ LeaveWait(w) \/ StayInWait(w) \/ Sleep(w) \/ Woken(w)
  <2> USE <1>4 DEF WhileNotStopped, LeaveWait, StayInWait, Sleep, Woken, Goes, postVars, stopVars
  <2>1. WorkersTyped'
    BY DEF WorkersTyped, WorkerPlaces
  <2>2. FlagsTyped'
    BY DEF FlagsTyped
  <2>3. QueuesTyped' /\ PostersTyped' /\ StopTyped' /\ DoneTyped'
    BY DEF QueuesTyped, PostersTyped, StopTyped, DoneTyped
  <2>4. QED
    BY <2>1, <2>2, <2>3
<1>5. QED
  BY <1>1, <1>2, <1>3, <1>4, Zenon DEF WorkerStep, WakeUp, SpuriousWakeUp

(* So does stop(). *)
LEMMA StopKeepsTypes ==
  ASSUME Typed, SetStop \/ StopNotify \/ Join
  PROVE  Typed'
<1> USE NAssumption DEF Typed, SetStop, StopNotify, Join, Notify, postVars
<1>1. StopTyped'
  <2>1. stop' \in BOOLEAN
    BY Zenon DEF StopTyped
  <2>2. joining' \in 0 .. N /\ (stopper' \in {"out", "notify", "join"} => joining' \in Workers)
    BY DEF StopTyped, Workers
  <2>3. stopper' \in {"out", "notify", "join", "returned"}
    BY DEF StopTyped
  <2>4. QED
    BY <2>1, <2>2, <2>3 DEF StopTyped
<1>2. FlagsTyped'
  BY DEF FlagsTyped
<1>3. QueuesTyped' /\ WorkersTyped' /\ PostersTyped' /\ DoneTyped'
  BY DEF QueuesTyped, WorkersTyped, PostersTyped, DoneTyped
<1>4. QED
  BY <1>1, <1>2, <1>3

LEMMA TypedStep == Typed /\ [Next]_vars => Typed'
<1> SUFFICES ASSUME Typed, [Next]_vars PROVE Typed'
  OBVIOUS
<1>1. CASE UNCHANGED vars
  BY <1>1 DEF Typed, QueuesTyped, FlagsTyped, WorkersTyped, PostersTyped, StopTyped,
              DoneTyped, vars
<1>2. CASE Next
  BY <1>2, PostTyped, WorkTyped, StopKeepsTypes, Zenon DEF Next
<1>3. QED
  BY <1>1, <1>2

(* Every variable keeps its type. *)
THEOREM TypeCorrect == Spec => []TypeOK
<1>1. Typed => TypeOK
  BY DEF Typed, QueuesTyped, FlagsTyped, WorkersTyped, WorkerPlaces, PostersTyped,
         StopTyped, DoneTyped, TypeOK
<1>2. QED
  BY <1>1, TypedInit, TypedStep, PTL DEF Spec

----------------------------------------------------------------------------
(* A worker holds its mutex where the code does, and its flag stays raised *)
(* while it goes to sleep and while it sleeps without a notification.      *)
Asleep(w) == at[w] = "sleep" \/ (at[w] = "waiting" /\ ~notified[w])
Pushed(w) == \E p \in Posters : target[p] = w /\ poster[p] \in {"test_idle", "notify"}

MutexInv == \A w \in Workers : mutex[w] <=> at[w] \in {"check", "sleep"}
IdleInv == \A w \in Workers : Asleep(w) => idle[w]

(* While its queue has a task meanwhile, the thread that pushed it is not  *)
(* done.                                                                   *)
SeenInv == \A w \in Workers : Asleep(w) => queue[w] = <<>> \/ Pushed(w)

SleepInv == MutexInv /\ IdleInv /\ SeenInv

(* Every step of a thread keeps that. *)
LEMMA SleepInvPost ==
  ASSUME Typed, SleepInv, NEW p \in Posters, PosterStep(p) \/ \E k \in Tasks : PostTurn(p, k)
  PROVE  SleepInv'
<1> USE DEF Typed, FlagsTyped, WorkersTyped, QueuesTyped, PostersTyped
<1>1. ASSUME NEW k \in Tasks, PostTurn(p, k) PROVE SleepInv'
  <2> USE <1>1 DEF PostTurn, SleepInv
  <2>1. MutexInv' /\ IdleInv'
    BY DEF MutexInv, IdleInv, Asleep
  <2>2. \A w \in Workers : Pushed(w) => Pushed(w)'
    BY DEF Pushed
  <2>3. SeenInv'
    BY <2>2 DEF SeenInv, Asleep
  <2>4. QED
    BY <2>1, <2>3
<1>2. CASE PostPush(p)
  <2> USE <1>2 DEF PostPush, SleepInv
  <2>1. MutexInv' /\ IdleInv'
    BY DEF MutexInv, IdleInv, Asleep
  <2>2. \A w \in Workers : Pushed(w) => Pushed(w)'
    BY DEF Pushed
  <2>3. Pushed(target[p])'
    BY DEF Pushed
  <2>4. \A w \in Workers : w # target[p] => queue'[w] = queue[w]
    OBVIOUS
  <2>5. SeenInv'
    BY <2>2, <2>3, <2>4 DEF SeenInv, Asleep
  <2>6. QED
    BY <2>1, <2>5
<1>3. CASE PostTestIdle(p)
  <2> USE <1>3 DEF PostTestIdle, Leave, SleepInv
  <2>1. MutexInv' /\ IdleInv'
    BY DEF MutexInv, IdleInv, Asleep
  <2>2. \A w \in Workers : Pushed(w) /\ idle[w] => Pushed(w)'
    BY DEF Pushed
  <2>3. SeenInv'
    BY <2>2 DEF SeenInv, IdleInv, Asleep
  <2>4. QED
    BY <2>1, <2>3
<1>4. CASE PostNotify(p)
  <2> USE <1>4 DEF PostNotify, Leave, Notify, SleepInv
  <2>1. ASSUME NEW w \in Workers, w = target[p] PROVE ~Asleep(w)'
    <3>1. at[w] # "sleep"
      BY <2>1 DEF MutexInv
    <3>2. at[w] = "waiting" => notified'[w]
      BY <2>1
    <3>3. QED
      BY <3>1, <3>2 DEF Asleep
  <2>2. ASSUME NEW w \in Workers, w # target[p]
        PROVE  (Asleep(w)' => Asleep(w)) /\ (idle[w] => idle'[w]) /\ (Pushed(w) => Pushed(w)')
    <3>1. notified'[w] = notified[w] /\ idle'[w] = idle[w]
      BY <2>2
    <3>2. Pushed(w) => Pushed(w)'
      BY <2>2 DEF Pushed
    <3>3. QED
      BY <3>1, <3>2, Zenon DEF Asleep
  <2>3. MutexInv'
    BY DEF MutexInv
  <2>4. IdleInv' /\ SeenInv'
    BY <2>1, <2>2, Zenon DEF IdleInv, SeenInv
  <2>5. QED
    BY <2>3, <2>4
<1>5. QED
  BY <1>1, <1>2, <1>3, <1>4, Zenon DEF PosterStep

LEMMA SleepInvWork ==
  ASSUME Typed, SleepInv, NEW w \in Workers, WorkerStep(w) \/ SpuriousWakeUp(w)
  PROVE  SleepInv'
<1> USE DEF Typed, FlagsTyped, WorkersTyped, QueuesTyped, WorkerPlaces, Goes, postVars, SleepInv
<1>0. ASSUME UNCHANGED postVars, NEW v \in Workers, Pushed(v) PROVE Pushed(v)'
  BY <1>0 DEF Pushed
<1>1. CASE TakeTask(w)
  <2>1. Victim(w) \in Workers
    BY NAssumption DEF Victim, Workers
  <2> HIDE DEF Victim
  <2> USE <1>1 DEF TakeTask
  <2>2. \A v \in Workers : queue[v] = <<>> => queue'[v] = <<>>
    BY <2>1
  <2>3. MutexInv' /\ IdleInv'
    BY DEF MutexInv, IdleInv, Asleep
  <2>4. SeenInv'
    BY <1>0, <2>2 DEF SeenInv, Asleep
  <2>5. QED
    BY <2>3, <2>4
<1>2. CASE WhileNotStopped(w) \/ NothingThere(w) \/ RunTask(w) \/ BecomeIdle(w) \/ LeaveWait(w) \/ Woken(w)
  <2> USE <1>2 DEF WhileNotStopped, NothingThere, RunTask, BecomeIdle, LeaveWait, Woken
  <2>1. ~Asleep(w)' /\ \A v \in Workers : Asleep(v)' => Asleep(v) /\ idle'[v] = idle[v]
    BY DEF Asleep
  <2>2. MutexInv'
    <3>1. CASE BecomeIdle(w) \/ Woken(w)
      BY <3>1 DEF MutexInv
    <3>2. CASE LeaveWait(w)
      BY <3>2 DEF MutexInv
    <3>3. CASE WhileNotStopped(w) \/ NothingThere(w) \/ RunTask(w)
      BY <3>3 DEF MutexInv
    <3>4. QED
      BY <1>2, <3>1, <3>2, <3>3, Zenon
  <2>3. IdleInv' /\ SeenInv'
    BY <1>0, <2>1 DEF IdleInv, SeenInv
  <2>4. QED
    BY <2>2, <2>3
<1>3. CASE StayInWait(w)
  <2> USE <1>3 DEF StayInWait, MayLeave
  <2>1. \A v \in Workers : v # w => Asleep(v)' = Asleep(v)
    BY DEF Asleep
  <2>2. MutexInv'
    BY DEF MutexInv
  <2>3. IdleInv' /\ SeenInv'
    BY <1>0, <2>1 DEF IdleInv, SeenInv
  <2>4. QED
    BY <2>2, <2>3
<1>4. CASE Sleep(w)
  <2> USE <1>4 DEF Sleep
  <2>1. \A v \in Workers : Asleep(v)' => Asleep(v)
    BY DEF Asleep
  <2>2. MutexInv'
    BY DEF MutexInv
  <2>3. IdleInv' /\ SeenInv'
    BY <1>0, <2>1 DEF IdleInv, SeenInv
  <2>4. QED
    BY <2>2, <2>3
<1>5. QED
  BY <1>1, <1>2, <1>3, <1>4, Zenon DEF WorkerStep, WakeUp, SpuriousWakeUp

LEMMA SleepInvStep == Typed /\ SleepInv /\ [Next]_vars => SleepInv'
<1> SUFFICES ASSUME Typed, SleepInv, [Next]_vars PROVE SleepInv'
  OBVIOUS
<1> USE DEF SleepInv, MutexInv, IdleInv, SeenInv, Pushed, Asleep
<1>1. CASE UNCHANGED vars
  BY <1>1 DEF vars
<1>2. CASE SetStop \/ StopNotify \/ Join
  BY <1>2 DEF SetStop, StopNotify, Join, Notify, postVars, Typed, FlagsTyped
<1>3. CASE Next
  <2> HIDE DEF SleepInv
  <2>1. QED
    BY <1>2, <1>3, SleepInvPost, SleepInvWork, Zenon DEF Next
<1>4. QED
  BY <1>1, <1>3

(* No worker sleeps over a task that was posted to it. *)
THEOREM PostIsSeen == Spec => []PostIsNotSleptOver
<1>1. Init => SleepInv
  BY DEF Init, SleepInv, MutexInv, IdleInv, SeenInv, Asleep
<1>2. SleepInv => PostIsNotSleptOver
  BY DEF SleepInv, IdleInv, SeenInv, Asleep, Pushed, PostIsNotSleptOver
<1>3. QED
  BY <1>1, <1>2, TypedInit, TypedStep, SleepInvStep, PTL DEF Spec

----------------------------------------------------------------------------
(* What a queue holds after push_back and after try_pop. *)
Distinct(s) == \A i, j \in DOMAIN s : i # j => s[i] # s[j]

LEMMA AppendHolds ==
  ASSUME NEW s \in Seq(Tasks), NEW k \in Tasks
  PROVE  /\ Range(Append(s, k)) = Range(s) \union {k}
         /\ Distinct(s) /\ k \notin Range(s) => Distinct(Append(s, k))
<1>1. /\ Append(s, k) \in Seq(Tasks) /\ DOMAIN s = 1 .. Len(s)
      /\ DOMAIN Append(s, k) = 1 .. Len(s) + 1
      /\ Append(s, k)[Len(s) + 1] = k
      /\ \A i \in 1 .. Len(s) : Append(s, k)[i] = s[i]
      /\ Len(s) \in Nat
  OBVIOUS
<1>2. Range(Append(s, k)) = Range(s) \union {k}
  BY <1>1 DEF Range
<1>3. ASSUME Distinct(s), k \notin Range(s) PROVE Distinct(Append(s, k))
  BY <1>1, <1>3 DEF Distinct, Range
<1>4. QED
  BY <1>2, <1>3

LEMMA TailHolds ==
  ASSUME NEW s \in Seq(Tasks), s # <<>>
  PROVE  /\ Head(s) \in Range(s)
         /\ Range(Tail(s)) \subseteq Range(s)
         /\ Distinct(s) => Distinct(Tail(s)) /\ Head(s) \notin Range(Tail(s))
<1>1. /\ Len(s) \in Nat \ {0} /\ DOMAIN s = 1 .. Len(s)
      /\ Head(s) = s[1]
      /\ DOMAIN Tail(s) = 1 .. Len(s) - 1
      /\ \A i \in 1 .. Len(s) - 1 : Tail(s)[i] = s[i + 1]
  OBVIOUS
<1>2. Head(s) \in Range(s) /\ Range(Tail(s)) \subseteq Range(s)
  BY <1>1 DEF Range
<1>3. ASSUME Distinct(s) PROVE Distinct(Tail(s)) /\ Head(s) \notin Range(Tail(s))
  BY <1>1, <1>3 DEF Distinct, Range
<1>4. QED
  BY <1>2, <1>3

(* A task has one place: a queue, a worker, the tasks that were run, or    *)
(* the thread that is about to push it.                                    *)
InQueue(k, w) == k \in Range(queue[w])

QueuesDiffer ==
  /\ \A w \in Workers : Distinct(queue[w])
  /\ \A v, w \in Workers : \A k \in Tasks : InQueue(k, v) /\ InQueue(k, w) => v = w

WorkersDiffer ==
  /\ \A v, w \in Workers : v # w /\ task[v] = task[w] => task[v] = "nullopt"
  /\ \A v, w \in Workers : ~InQueue(task[v], w)
  /\ \A w \in Workers : task[w] \notin done

DoneDiffers == \A w \in Workers : \A k \in done : ~InQueue(k, w)

PostersDiffer ==
  /\ \A p, q \in Posters : p # q /\ posting[p] = posting[q] => posting[p] = "nullopt"
  /\ \A p \in Posters : posting[p] # "nullopt" =>
       /\ posting[p] \notin done
       /\ \A w \in Workers : posting[p] # task[w] /\ ~InQueue(posting[p], w)

OnceInv == QueuesDiffer /\ WorkersDiffer /\ DoneDiffers /\ PostersDiffer

LEMMA QueuesHoldTasks ==
  ASSUME Typed, NEW w \in Workers
  PROVE  /\ Range(queue[w]) \subseteq Tasks
         /\ \A k : InQueue(k, w) => k \in Tasks
         /\ ~InQueue("nullopt", w)
<1>1. queue[w] \in Seq(Tasks)
  BY DEF Typed, QueuesTyped
<1>2. Range(queue[w]) \subseteq Tasks
  BY <1>1 DEF Range
<1>3. QED
  BY <1>2, NoTaskAssumption DEF InQueue

LEMMA OnceInit == Typed /\ Init => OnceInv
<1> SUFFICES ASSUME Typed, Init PROVE OnceInv
  OBVIOUS
<1>1. \A w \in Workers : queue[w] = <<>> /\ Range(queue[w]) = {} /\ Distinct(queue[w])
  BY DEF Init, Range, Distinct
<1>2. QED
  BY <1>1 DEF Init, OnceInv, QueuesDiffer, WorkersDiffer, DoneDiffers, PostersDiffer, InQueue

(* The steps that move a task. *)
LEMMA OncePost ==
  ASSUME Typed, OnceInv, NEW p \in Posters, PosterStep(p) \/ \E k \in Tasks : PostTurn(p, k)
  PROVE  OnceInv'
<1> USE DEF OnceInv
<1>1. ASSUME NEW k \in Tasks, PostTurn(p, k) PROVE OnceInv'
  <2> USE <1>1 DEF PostTurn, stopVars
  <2>1. QueuesDiffer' /\ WorkersDiffer' /\ DoneDiffers'
    BY DEF QueuesDiffer, WorkersDiffer, DoneDiffers, InQueue
  <2>2. /\ k \notin done /\ \A w \in Workers : k # task[w] /\ ~InQueue(k, w)
        /\ \A q \in Posters : posting[q] # k
    <3> DEFINE queues == UNION {Range(queue[w]) : w \in Workers}
    <3>a. k \notin Posted \union Range(posting)
      BY <1>1 DEF PostTurn
    <3>b. Posted = queues \union (Range(task) \ {"nullopt"}) \union done
      BY DEF Posted
    <3>c. ASSUME NEW w \in Workers PROVE Range(queue[w]) \subseteq queues
      BY <3>c
    <3> HIDE DEF queues
    <3>0. /\ k \notin done /\ k \notin Range(task) \ {"nullopt"} /\ k \notin Range(posting)
          /\ k \notin queues
      BY <3>a, <3>b
    <3>1. k \notin done /\ \A w \in Workers : ~InQueue(k, w)
      BY <3>0, <3>c DEF InQueue
    <3>2. k # "nullopt" /\ k \notin Range(task) /\ k \notin Range(posting)
      BY <3>0, NoTaskAssumption
    <3>3. DOMAIN task = Workers /\ DOMAIN posting = Posters
      BY DEF Typed, WorkersTyped, PostersTyped
    <3>4. QED
      BY <3>1, <3>2, <3>3 DEF Range
  <2>3. posting' = [posting EXCEPT ![p] = k] /\ DOMAIN posting = Posters
    BY DEF Typed, PostersTyped
  <2>4. PostersDiffer'
    BY <2>2, <2>3 DEF PostersDiffer, InQueue
  <2>5. QED
    BY <2>1, <2>4
<1>2. CASE PostPush(p)
  <2> USE <1>2 DEF PostPush, stopVars
  <2> DEFINE t == target[p]
             k == posting[p]
  <2>1. t \in Workers /\ k \in Tasks /\ k # "nullopt"
    BY NoTaskAssumption DEF Typed, PostersTyped
  <2>2. /\ queue[t] \in Seq(Tasks) /\ queue'[t] = Append(queue[t], k)
        /\ \A w \in Workers : w # t => queue'[w] = queue[w]
    BY <2>1 DEF Typed, QueuesTyped
  <2>3. k \notin done /\ \A w \in Workers : k # task[w] /\ ~InQueue(k, w)
    BY <2>1 DEF PostersDiffer
  <2>4. /\ \A w \in Workers : \A x : InQueue(x, w)' => InQueue(x, w) \/ (w = t /\ x = k)
        /\ \A w \in Workers : Distinct(queue'[w])
    BY <2>1, <2>2, <2>3, AppendHolds DEF InQueue, QueuesDiffer
  <2>5. /\ \A q \in Posters : q # p => posting'[q] = posting[q] /\ posting[q] # k
        /\ posting'[p] = "nullopt"
    BY <2>1 DEF Typed, PostersTyped, PostersDiffer
  <2> HIDE DEF t, k
  <2>6. QueuesDiffer'
    BY <2>1, <2>3, <2>4 DEF QueuesDiffer
  <2>7. WorkersDiffer' /\ DoneDiffers'
    BY <2>1, <2>3, <2>4 DEF WorkersDiffer, DoneDiffers
  <2>8. PostersDiffer'
    BY <2>4, <2>5 DEF PostersDiffer
  <2>9. QED
    BY <2>6, <2>7, <2>8
<1>3. CASE PostTestIdle(p) \/ PostNotify(p)
  BY <1>3 DEF PostTestIdle, PostNotify, stopVars, QueuesDiffer, WorkersDiffer, DoneDiffers, PostersDiffer, InQueue
<1>4. QED
  BY <1>1, <1>2, <1>3, Zenon DEF PosterStep

LEMMA OnceWork ==
  ASSUME Typed, OnceInv, NEW w \in Workers, WorkerStep(w) \/ SpuriousWakeUp(w)
  PROVE  OnceInv'
<1> USE DEF OnceInv, postVars, Goes
<1>1. CASE TakeTask(w)
  <2> USE <1>1 DEF TakeTask, stopVars
  <2> DEFINE t == Victim(w)
             k == Head(queue[t])
  <2>1. t \in Workers
    BY NAssumption DEF Victim, Workers, Typed, WorkersTyped
  <2>2. /\ queue[t] \in Seq(Tasks) /\ queue[t] # <<>> /\ queue'[t] = Tail(queue[t])
        /\ \A v \in Workers : v # t => queue'[v] = queue[v]
    BY <2>1 DEF Typed, QueuesTyped
  <2>3. InQueue(k, t) /\ k \in Tasks
    BY <2>1, <2>2, TailHolds, QueuesHoldTasks DEF InQueue
  <2>4. task'[w] = k /\ \A v \in Workers : v # w => task'[v] = task[v]
    BY DEF Typed, WorkersTyped
  <2>5. /\ \A v \in Workers : Range(queue'[v]) \subseteq Range(queue[v]) /\ Distinct(queue'[v])
        /\ k \notin Range(queue'[t])
    <3>1. /\ Range(Tail(queue[t])) \subseteq Range(queue[t])
          /\ Distinct(Tail(queue[t])) /\ k \notin Range(Tail(queue[t]))
      BY <2>1, <2>2, TailHolds DEF QueuesDiffer
    <3> HIDE DEF t, k
    <3>2. QED
      BY <3>1, <2>2 DEF QueuesDiffer
  <2> HIDE DEF t, k
  <2>6. \A v \in Workers : k \notin Range(queue'[v])
    BY <2>1, <2>3, <2>5 DEF QueuesDiffer, InQueue
  <2>7. k # "nullopt" /\ k \notin done /\ \A v \in Workers : task[v] # k
    BY <2>1, <2>3, NoTaskAssumption DEF DoneDiffers, WorkersDiffer
  <2>8. QueuesDiffer' /\ DoneDiffers'
    BY <2>5 DEF QueuesDiffer, DoneDiffers, InQueue
  <2>9. WorkersDiffer'
    <3>1. ASSUME NEW u \in Workers, NEW v \in Workers, u # v, task'[u] = task'[v]
          PROVE  task'[u] = "nullopt"
      BY <2>4, <2>7, <3>1 DEF WorkersDiffer
    <3>2. ASSUME NEW u \in Workers, NEW v \in Workers PROVE task'[u] \notin Range(queue'[v])
      <4>1. task[u] \notin Range(queue[v]) /\ k \notin Range(queue'[v])
        BY <2>6 DEF WorkersDiffer, InQueue
      <4>2. task'[u] = k \/ task'[u] = task[u]
        BY <2>4
      <4>3. QED
        BY <4>1, <4>2, <2>5
    <3>3. \A v \in Workers : task'[v] \notin done /\ done' = done
      BY <2>4, <2>7 DEF WorkersDiffer
    <3>4. QED
      BY <3>1, <3>2, <3>3 DEF WorkersDiffer, InQueue
  <2>10. PostersDiffer'
    BY <2>1, <2>3, <2>4, <2>5, ZenonT(60) DEF PostersDiffer, InQueue
  <2>11. QED
    BY <2>8, <2>9, <2>10
<1>2. CASE RunTask(w)
  <2> USE <1>2 DEF RunTask, stopVars
  <2>1. /\ task'[w] = "nullopt" /\ \A v \in Workers : v # w => task'[v] = task[v]
        /\ task[w] # "nullopt"
    BY NoTaskAssumption DEF Typed, WorkersTyped
  <2>2. \A v \in Workers : \A x : InQueue(x, v)' <=> InQueue(x, v)
    BY DEF InQueue
  <2>3. QueuesDiffer' /\ DoneDiffers'
    BY <2>2 DEF QueuesDiffer, DoneDiffers, WorkersDiffer
  <2>4. "nullopt" \notin done' /\ \A v \in Workers : ~InQueue("nullopt", v)
    BY <2>1, NoTaskAssumption, QueuesHoldTasks DEF Typed, DoneTyped, WorkersTyped
  <2>5. WorkersDiffer'
    BY <2>1, <2>2, <2>4 DEF WorkersDiffer
  <2>6. PostersDiffer'
    BY <2>1, <2>2 DEF PostersDiffer
  <2>7. QED
    BY <2>3, <2>5, <2>6
<1>3. CASE UNCHANGED <<queue, task, done, posting>>
  BY <1>3 DEF QueuesDiffer, WorkersDiffer, DoneDiffers, PostersDiffer, InQueue
<1>4. QED
  BY <1>1, <1>2, <1>3 DEF WorkerStep, WakeUp, SpuriousWakeUp, WhileNotStopped, NothingThere,
     BecomeIdle, LeaveWait, StayInWait, Sleep, Woken

LEMMA OnceStep == Typed /\ OnceInv /\ [Next]_vars => OnceInv'
<1> SUFFICES ASSUME Typed, OnceInv, [Next]_vars PROVE OnceInv'
  OBVIOUS
<1>1. CASE UNCHANGED vars \/ SetStop \/ StopNotify \/ Join
  <2>1. UNCHANGED <<queue, task, done, posting>>
    BY <1>1 DEF vars, SetStop, StopNotify, Join, postVars
  <2>2. QED
    BY <2>1 DEF OnceInv, QueuesDiffer, WorkersDiffer, DoneDiffers, PostersDiffer, InQueue
<1>2. CASE Next
  BY <1>1, <1>2, OncePost, OnceWork, Zenon DEF Next
<1>3. QED
  BY <1>1, <1>2

(* No task is run twice, or taken by two workers. *)
THEOREM TasksRunOnce == Spec => []EachTaskOnce
<1>1. Typed /\ OnceInv => EachTaskOnce
  <2> SUFFICES ASSUME Typed, OnceInv PROVE EachTaskOnce
    OBVIOUS
  <2>1. \A v, w \in Workers : v # w => Range(queue[v]) \cap Range(queue[w]) = {}
    BY QueuesHoldTasks DEF OnceInv, QueuesDiffer, InQueue
  <2>2. QED
    BY <2>1 DEF OnceInv, QueuesDiffer, WorkersDiffer, DoneDiffers, InQueue, Distinct, EachTaskOnce
<1>2. QED
  BY <1>1, TypedInit, TypedStep, OnceInit, OnceStep, PTL DEF Spec
=========================================================================
