------------------------- MODULE SerialExecutor -------------------------
(***************************************************************************)
(* What an event loop promises to the threads that hand it work            *)
(* (RxEventLoop::queue_work, include/Rinx/Network/EventLoop.h:57): a work  *)
(* queued from any thread is executed by one thread, once, in the order    *)
(* the works were queued.  EventLoop.tla implements this specification.    *)
(***************************************************************************)
EXTENDS Sequences, Functions

CONSTANT Works        \* the callbacks ever queued, each one once

VARIABLES pending,    \* queued and not yet executed, oldest first
          executed    \* executed, in the order of execution

vars == <<pending, executed>>

Init ==
  /\ pending = <<>>
  /\ executed = <<>>

New(w) == w \notin Range(pending) \union Range(executed)

Submit(w) ==
  /\ New(w)
  /\ pending' = Append(pending, w)
  /\ UNCHANGED executed

\* The oldest work is executed; as it runs it may queue another one.
Execute ==
  /\ pending # <<>>
  /\ executed' = Append(executed, Head(pending))
  /\ \/ pending' = Tail(pending)
     \/ \E w \in Works : New(w) /\ pending' = Append(Tail(pending), w)

Next == Execute \/ \E w \in Works : Submit(w)

Spec == Init /\ [][Next]_vars
=========================================================================
