---------------------------- MODULE TaskQueue ----------------------------
(***************************************************************************)
(* RxThreadPool::Queue (include/Rinx/Util/ThreadPool.h:22,                 *)
(* src/Util/ThreadPool.cpp:7): a linked list with a mutex for each end.    *)
(* The list always starts with a node that holds no task, _head, which no  *)
(* operation ever replaces; _tail is the last node, or _head when there is *)
(* no task.  push_back and empty take the mutex of the tail.  try_pop      *)
(* takes both, and gives the tail's back before it unlinks a node unless   *)
(* the node is the last one: then it moves _tail back to _head and leaves  *)
(* the node behind, to be destroyed by the next push_back.                 *)
(*                                                                         *)
(* One step is one access to the list under the mutexes that are held.  A  *)
(* task stands for the node that holds it; the address of a destroyed node *)
(* may be that of a new one.                                               *)
(***************************************************************************)
EXTENDS Sequences, Functions

CONSTANTS Threads,   \* the threads that share the queue
          Values     \* the tasks (and the addresses of their nodes)

\* The node without a task, the null pointer and the owner of a free mutex
\* are none of the tasks and none of the threads.
ASSUME NamesAssumption ==
  /\ {"head", "null", "done", "nullopt", "true", "false"} \cap Values = {}
  /\ "free" \notin Threads

VARIABLES
  next,      \* next[n]: the node n->next points to, or "null"
  tail,      \* _tail
  alive,     \* the nodes that are allocated
  headMutex, tailMutex,   \* the owner of each mutex, or "free"
  pc,        \* where each thread is
  reg,       \* a thread's argument, then its local `data', then its result
  contents   \* history: the tasks of the queue, oldest first

vars == <<next, tail, alive, headMutex, tailMutex, pc, reg, contents>>

Nodes == {"head"} \union Values

Places == {"out", "push_lock", "push_link", "push_tail", "pop_lock_head",
           "pop_lock_tail", "pop_check", "pop_read", "pop_unlink",
           "empty_lock", "empty_check", "returns"}

TypeOK ==
  /\ next \in [Nodes -> Values \union {"null"}]
  /\ tail \in Nodes
  /\ alive \subseteq Nodes
  /\ headMutex \in Threads \union {"free"}
  /\ tailMutex \in Threads \union {"free"}
  /\ pc \in [Threads -> Places]
  /\ reg \in [Threads -> Values \union {"null", "done", "nullopt", "true", "false"}]
  /\ contents \in Seq(Values)

Init ==
  /\ next = [n \in Nodes |-> "null"]
  /\ tail = "head"
  /\ alive = {"head"}
  /\ headMutex = "free" /\ tailMutex = "free"
  /\ pc = [t \in Threads |-> "out"]
  /\ reg = [t \in Threads |-> "null"]
  /\ contents = <<>>

Goto(t, from, to) ==
  /\ pc[t] = from
  /\ pc' = [pc EXCEPT ![t] = to]

\* The call returns r.
Returns(t, from, r) ==
  /\ Goto(t, from, "returns")
  /\ reg' = [reg EXCEPT ![t] = r]

LockHead(t) == headMutex = "free" /\ headMutex' = t
LockTail(t) == tailMutex = "free" /\ tailMutex' = t

----------------------------------------------------------------------------
(* push_back *)

\* The new node is made, v in it, before the mutex is taken.
PushCall(t, v) ==
  /\ v \notin alive \union Range(reg)
  /\ Goto(t, "out", "push_lock")
  /\ reg' = [reg EXCEPT ![t] = v]
  /\ next' = [next EXCEPT ![v] = "null"]
  /\ UNCHANGED <<tail, alive, headMutex, tailMutex, contents>>

PushLock(t) ==
  /\ Goto(t, "push_lock", "push_link")
  /\ LockTail(t)
  /\ UNCHANGED <<next, tail, alive, headMutex, reg, contents>>

\* _tail->next=std::move(new_node): what _tail->next held is destroyed.
PushLink(t) ==
  /\ Goto(t, "push_link", "push_tail")
  /\ next' = [next EXCEPT ![tail] = reg[t]]
  /\ alive' = (alive \ {next[tail]}) \union {reg[t]}
  /\ UNCHANGED <<tail, headMutex, tailMutex, reg, contents>>

\* _tail=_tail->next.get(), and the mutex is released.
PushTail(t) ==
  /\ Returns(t, "push_tail", "done")
  /\ tail' = next[tail]
  /\ contents' = Append(contents, reg[t])
  /\ tailMutex' = "free"
  /\ UNCHANGED <<next, alive, headMutex>>

----------------------------------------------------------------------------
(* try_pop *)

PopCall(t) ==
  /\ Goto(t, "out", "pop_lock_head")
  /\ UNCHANGED <<next, tail, alive, headMutex, tailMutex, reg, contents>>

PopLockHead(t) ==
  /\ Goto(t, "pop_lock_head", "pop_lock_tail")
  /\ LockHead(t)
  /\ UNCHANGED <<next, tail, alive, tailMutex, reg, contents>>

PopLockTail(t) ==
  /\ Goto(t, "pop_lock_tail", "pop_check")
  /\ LockTail(t)
  /\ UNCHANGED <<next, tail, alive, headMutex, reg, contents>>

\* A variant: the early return does not give the tail's mutex back.
PopEmpty_KeepsMutex(t) ==
  /\ tail = "head"
  /\ Returns(t, "pop_check", "nullopt")
  /\ headMutex' = "free"
  /\ UNCHANGED <<next, tail, alive, tailMutex, contents>>

PopEmpty(t) ==
  /\ tail = "head"
  /\ Returns(t, "pop_check", "nullopt")
  /\ headMutex' = "free" /\ tailMutex' = "free"
  /\ UNCHANGED <<next, tail, alive, contents>>

\* A variant: _tail follows the last node's next pointer.
PopLast_ToNext(t) ==
  /\ tail # "head"
  /\ next["head"] = tail
  /\ Returns(t, "pop_check", next["head"])
  /\ tail' = next[next["head"]]
  /\ contents' = Tail(contents)
  /\ headMutex' = "free" /\ tailMutex' = "free"
  /\ UNCHANGED <<next, alive>>

\* The only node: it stays linked behind _head, and out of the queue.
PopLast(t) ==
  /\ tail # "head"
  /\ next["head"] = tail
  /\ Returns(t, "pop_check", next["head"])
  /\ tail' = "head"
  /\ contents' = Tail(contents)
  /\ headMutex' = "free" /\ tailMutex' = "free"
  /\ UNCHANGED <<next, alive>>

\* A variant: the last node is unlinked like any other.
PopMany_EvenLast(t) ==
  /\ tail # "head"
  /\ Goto(t, "pop_check", "pop_read")
  /\ tailMutex' = "free"
  /\ UNCHANGED <<next, tail, alive, headMutex, reg, contents>>

\* Two nodes at least: the tail's mutex is not needed any more.
PopMany(t) ==
  /\ tail # "head"
  /\ next["head"] # tail
  /\ Goto(t, "pop_check", "pop_read")
  /\ tailMutex' = "free"
  /\ UNCHANGED <<next, tail, alive, headMutex, reg, contents>>

\* A variant: the head's mutex is released before the node is unlinked, by
\* someone who saw that the data has been copied.
PopRead_Unlocks(t) ==
  /\ Goto(t, "pop_read", "pop_unlink")
  /\ reg' = [reg EXCEPT ![t] = next["head"]]
  /\ headMutex' = "free"
  /\ UNCHANGED <<next, tail, alive, tailMutex, contents>>

PopRead(t) ==
  /\ Goto(t, "pop_read", "pop_unlink")
  /\ reg' = [reg EXCEPT ![t] = next["head"]]
  /\ UNCHANGED <<next, tail, alive, headMutex, tailMutex, contents>>

\* _head->next=std::move(_head->next->next): the node is destroyed.
PopUnlink(t) ==
  /\ Goto(t, "pop_unlink", "returns")
  /\ next' = [next EXCEPT !["head"] = next[next["head"]]]
  /\ alive' = alive \ {next["head"]}
  /\ contents' = Tail(contents)
  /\ headMutex' = "free"
  /\ UNCHANGED <<tail, tailMutex, reg>>

----------------------------------------------------------------------------
(* empty *)

EmptyCall(t) ==
  /\ Goto(t, "out", "empty_lock")
  /\ UNCHANGED <<next, tail, alive, headMutex, tailMutex, reg, contents>>

EmptyLock(t) ==
  /\ Goto(t, "empty_lock", "empty_check")
  /\ LockTail(t)
  /\ UNCHANGED <<next, tail, alive, headMutex, reg, contents>>

EmptyCheck(t) ==
  /\ Returns(t, "empty_check", IF tail = "head" THEN "true" ELSE "false")
  /\ tailMutex' = "free"
  /\ UNCHANGED <<next, tail, alive, headMutex, contents>>

Return(t) ==
  /\ Goto(t, "returns", "out")
  /\ reg' = [reg EXCEPT ![t] = "null"]
  /\ UNCHANGED <<next, tail, alive, headMutex, tailMutex, contents>>

\* A call that was made goes on.
Proceed(t) ==
  \/ PushLock(t) \/ PushLink(t) \/ PushTail(t)
  \/ PopLockHead(t) \/ PopLockTail(t) \/ PopEmpty(t) \/ PopLast(t)
  \/ PopMany(t) \/ PopRead(t) \/ PopUnlink(t)
  \/ EmptyLock(t) \/ EmptyCheck(t)
  \/ Return(t)

Next ==
  \E t \in Threads :
    \/ \E v \in Values : PushCall(t, v)
    \/ PopCall(t) \/ EmptyCall(t)
    \/ Proceed(t)

\* Nobody has to make a call.  A thread inside one keeps running, and a
\* mutex that is released again and again is not kept from it for ever.
Fairness == \A t \in Threads : SF_vars(Proceed(t))

Spec == Init /\ [][Next]_vars /\ Fairness

----------------------------------------------------------------------------
(* Properties. *)

\* The queue is a linearizable FIFO queue: every call takes effect at one
\* moment between its start and its return, though try_pop reads and unlinks
\* its node after it has let push_back in again.
Call(t) ==
  CASE pc[t] = "out" -> <<"idle">>
    [] pc[t] \in {"push_lock", "push_link", "push_tail"} -> <<"push_back", reg[t]>>
    [] pc[t] \in {"empty_lock", "empty_check"} -> <<"empty">>
    [] pc[t] = "returns" -> <<"returns", reg[t]>>
    [] OTHER -> <<"try_pop">>

Fifo == INSTANCE FifoQueue WITH queue <- contents,
                                call <- [t \in Threads |-> Call(t)]
Linearizable == Fifo!Spec

\* What the next step of a thread reads and writes of the list.  To destroy
\* a node is to write both its fields.
TailField == <<"queue", "tail">>
Fields(n) == IF n = "null" THEN {} ELSE {<<n, "next">>, <<n, "data">>}

Reads(t) ==
  CASE pc[t] \in {"push_link", "empty_check"} -> {TailField}
    [] pc[t] = "push_tail" -> {TailField, <<tail, "next">>}
    [] pc[t] = "pop_check" -> {TailField, <<"head", "next">>} \union
         (IF tail = next["head"] THEN {<<tail, "data">>} ELSE {})
    [] pc[t] = "pop_read" -> {<<"head", "next">>, <<next["head"], "data">>}
    [] pc[t] = "pop_unlink" -> {<<"head", "next">>, <<next["head"], "next">>}
    [] OTHER -> {}

Writes(t) ==
  CASE pc[t] = "push_link" -> {<<tail, "next">>} \union Fields(next[tail])
    [] pc[t] = "push_tail" -> {TailField}
    [] pc[t] = "pop_check" /\ next["head"] = tail -> {TailField}
    [] pc[t] = "pop_unlink" -> {<<"head", "next">>} \union Fields(next["head"])
    [] OTHER -> {}

\* No data race: no thread is about to write what another is about to read
\* or write.  A push_back and a try_pop that hold one mutex each never meet
\* on a node.
NoDataRace ==
  \A t, u \in Threads :
    t # u => Writes(t) \cap (Reads(u) \union Writes(u)) = {}

\* A call that was made returns.
CallsReturn == \A t \in Threads : pc[t] # "out" ~> pc[t] = "out"
=========================================================================
