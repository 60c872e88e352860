---------------------------- MODULE FifoQueue ----------------------------
(***************************************************************************)
(* A linearizable FIFO queue of tasks, what RxThreadPool::Queue promises   *)
(* to the threads that share it: a call takes effect at one moment between *)
(* its start and its return.  TaskQueue.tla implements this specification. *)
(***************************************************************************)
EXTENDS Sequences

CONSTANTS Threads, Values

VARIABLES queue,    \* the tasks, oldest first
          call      \* each thread's call, as <<"idle">> when there is none

vars == <<queue, call>>

Init ==
  /\ queue = <<>>
  /\ call = [t \in Threads |-> <<"idle">>]

Becomes(t, c) == call' = [call EXCEPT ![t] = c]

Start(t) ==
  /\ call[t] = <<"idle">>
  /\ \/ \E v \in Values : Becomes(t, <<"push_back", v>>)
     \/ Becomes(t, <<"try_pop">>)
     \/ Becomes(t, <<"empty">>)
  /\ UNCHANGED queue

PushBack(t, v) ==
  /\ call[t] = <<"push_back", v>>
  /\ queue' = Append(queue, v)
  /\ Becomes(t, <<"returns", "done">>)

TryPop(t) ==
  /\ call[t] = <<"try_pop">>
  /\ \/ /\ queue = <<>>
        /\ Becomes(t, <<"returns", "nullopt">>)
        /\ UNCHANGED queue
     \/ /\ queue # <<>>
        /\ Becomes(t, <<"returns", Head(queue)>>)
        /\ queue' = Tail(queue)

Empty(t) ==
  /\ call[t] = <<"empty">>
  /\ Becomes(t, <<"returns", IF queue = <<>> THEN "true" ELSE "false">>)
  /\ UNCHANGED queue

Return(t) ==
  /\ call[t][1] = "returns"
  /\ Becomes(t, <<"idle">>)
  /\ UNCHANGED queue

Next ==
  \E t \in Threads :
    \/ Start(t) \/ TryPop(t) \/ Empty(t) \/ Return(t)
    \/ \E v \in Values : PushBack(t, v)

Spec == Init /\ [][Next]_vars
=========================================================================
