------------------------ MODULE TaskQueue_proofs ------------------------
(***************************************************************************)
(* Proofs about TaskQueue, for any threads and tasks: there are no data    *)
(* races, and the list implements FifoQueue.                               *)
(***************************************************************************)
EXTENDS TaskQueue, SequenceTheorems, TLAPS

----------------------------------------------------------------------------
(* The inductive invariant.                                                *)

PushPlaces == {"push_lock", "push_link", "push_tail"}
HeadPlaces == {"pop_lock_tail", "pop_check", "pop_read", "pop_unlink"}
TailPlaces == {"push_link", "push_tail", "pop_check", "empty_check"}

\* Who is where a mutex is held holds it.
MutexInv ==
  \A t \in Threads :
    /\ pc[t] \in HeadPlaces <=> headMutex = t
    /\ pc[t] \in TailPlaces <=> tailMutex = t

\* A node that is being pushed is nobody else's, and last when it is linked.
PushInv ==
  \A t \in Threads :
    pc[t] \in PushPlaces =>
      /\ reg[t] \in Values
      /\ \A u \in Threads : u # t => reg[u] # reg[t]
      /\ next[reg[t]] = "null"
      /\ pc[t] # "push_tail" => reg[t] \notin alive
      /\ pc[t] = "push_tail" =>
           next[tail] = reg[t] /\ reg[t] \in alive \ Range(contents)

\* The node before the i-th task.
Before(i) == IF i = 1 THEN "head" ELSE contents[i - 1]

\* From _head the list leads through the tasks to _tail, and ends there but
\* for the node that is being pushed; without tasks, a node may be left.
ListInv ==
  /\ "head" \in alive
  /\ next["head"] \in alive \union {"null"}
  /\ \A i \in DOMAIN contents : next[Before(i)] = contents[i] /\ contents[i] \in alive
  /\ \A i, j \in DOMAIN contents : contents[i] = contents[j] => i = j
  /\ tail = Before(Len(contents) + 1)
  /\ contents # <<>> /\ next[tail] # "null" =>
       \E t \in Threads : pc[t] = "push_tail"

\* try_pop leaves more than one task to the pushers when it lets them in.
PopInv ==
  \A t \in Threads :
    /\ pc[t] \in {"pop_read", "pop_unlink"} => Len(contents) > 1
    /\ pc[t] = "pop_unlink" => reg[t] = next["head"]

QueueInv == MutexInv /\ PushInv /\ ListInv /\ PopInv
QueueSafe == TypeOK /\ QueueInv

USE NamesAssumption DEF Nodes, Places, PushPlaces, HeadPlaces, TailPlaces, Goto, Returns, LockHead, LockTail

LEMMA InitQueue == Init => QueueSafe
BY DEF Init, QueueSafe, TypeOK, QueueInv, MutexInv, PushInv, ListInv, PopInv, Before

\* The steps that change neither the list nor the tasks.
LEMMA OtherStepsKeep ==
  ASSUME QueueSafe, NEW t \in Threads,
         \/ PushLock(t) \/ PopCall(t) \/ PopLockHead(t) \/ PopLockTail(t)
         \/ PopEmpty(t) \/ PopMany(t) \/ PopRead(t)
         \/ EmptyCall(t) \/ EmptyLock(t) \/ EmptyCheck(t) \/ Return(t)
  PROVE  QueueSafe'
<1> USE DEF QueueSafe, QueueInv, TypeOK, MutexInv, PushInv, ListInv, PopInv, Before, Range
<1>1. CASE PushLock(t)     BY <1>1 DEF PushLock
<1>2. CASE PopCall(t)      BY <1>2 DEF PopCall
<1>3. CASE PopLockHead(t)  BY <1>3 DEF PopLockHead
<1>4. CASE PopLockTail(t)  BY <1>4 DEF PopLockTail
<1>5. CASE PopEmpty(t)     BY <1>5 DEF PopEmpty
<1>6. CASE PopMany(t)      BY <1>6 DEF PopMany
<1>7. CASE PopRead(t)      BY <1>7 DEF PopRead
<1>8. CASE EmptyCall(t)    BY <1>8 DEF EmptyCall
<1>9. CASE EmptyLock(t)    BY <1>9 DEF EmptyLock
<1>10. CASE EmptyCheck(t)  BY <1>10 DEF EmptyCheck
<1>11. CASE Return(t)      BY <1>11 DEF Return
<1>12. QED  BY <1>1, <1>2, <1>3, <1>4, <1>5, <1>6, <1>7, <1>8, <1>9, <1>10, <1>11

LEMMA PushCallKeeps ==
  ASSUME QueueSafe, NEW t \in Threads, NEW v \in Values, PushCall(t, v)
  PROVE  QueueSafe'
<1> USE DEF QueueSafe, QueueInv
<1>1. v # "null" /\ v \notin Range(contents) /\ v # tail /\ v # "head"
  BY DEF TypeOK, ListInv, PushCall, Before, Range
<1>2. \A u \in Threads : reg[u] # v  BY DEF TypeOK, PushCall, Range
<1>3. TypeOK'    BY DEF TypeOK, PushCall
<1>4. MutexInv'  BY DEF TypeOK, MutexInv, PushCall
<1>5. PushInv'   BY <1>1, <1>2 DEF TypeOK, PushInv, PushCall
<1>6. ListInv'   BY <1>1 DEF TypeOK, ListInv, PushCall, Before, Range
<1>7. PopInv'    BY <1>1 DEF TypeOK, PopInv, PushCall
<1>8. QED        BY <1>3, <1>4, <1>5, <1>6, <1>7

\* While a thread holds the mutex of the tail and is not about to move it, the
\* last node of a list with tasks has no successor.
LEMMA LastNodeIsLast ==
  ASSUME QueueSafe, NEW t \in Threads, pc[t] \in TailPlaces \ {"push_tail"}, contents # <<>>
  PROVE  next[tail] = "null"
BY DEF QueueSafe, QueueInv, MutexInv, ListInv

LEMMA TailIsANode ==
  ASSUME QueueSafe
  PROVE  /\ tail \in alive /\ tail \in Nodes
         /\ contents = <<>> <=> tail = "head"
         /\ contents # <<>> => tail = contents[Len(contents)]
         /\ \A i \in DOMAIN contents : Before(i) # tail
BY DEF QueueSafe, QueueInv, TypeOK, ListInv, Before

LEMMA PushLinkKeeps ==
  ASSUME QueueSafe, NEW t \in Threads, PushLink(t)
  PROVE  QueueSafe'
<1> USE DEF QueueSafe, QueueInv
<1>1. /\ tail \in alive /\ tail \in Nodes
      /\ contents = <<>> <=> tail = "head"
      /\ \A i \in DOMAIN contents : Before(i) # tail
  BY TailIsANode
<1>2. /\ reg[t] \in Values \ alive
      /\ next[reg[t]] = "null"
      /\ \A u \in Threads : u # t => pc[u] # "push_tail"
  BY DEF PushInv, MutexInv, PushLink
<1>3. contents # <<>> => next[tail] = "null"
  BY LastNodeIsLast DEF PushLink
<1>4. "head" \in alive' /\ reg[t] \in alive' /\ next'[tail] = reg[t]
  BY <1>1, <1>2 DEF TypeOK, PushLink, ListInv
<1>5. TypeOK'    BY <1>1, <1>2 DEF TypeOK, PushLink
<1>6. MutexInv'  BY DEF TypeOK, MutexInv, PushLink
<1>7. PushInv'
  <2> SUFFICES ASSUME NEW u \in Threads, pc'[u] \in PushPlaces
               PROVE  /\ reg[u] \in Values
                      /\ \A w \in Threads : w # u => reg[w] # reg[u]
                      /\ next'[reg[u]] = "null"
                      /\ pc'[u] # "push_tail" => reg[u] \notin alive'
                      /\ pc'[u] = "push_tail" =>
                           next'[tail] = reg[u] /\ reg[u] \in alive' \ Range(contents)
    BY DEF PushInv, PushLink
  <2>1. CASE u = t
    BY <2>1, <1>1, <1>2, <1>4 DEF TypeOK, PushInv, ListInv, PushLink, Range
  <2>2. CASE u # t
    BY <2>2, <1>1, <1>2 DEF TypeOK, PushInv, PushLink
  <2>3. QED  BY <2>1, <2>2
<1>8. ListInv'
  <2>1. next'["head"] \in alive' \union {"null"}
    BY <1>1, <1>2, <1>3, <1>4 DEF TypeOK, ListInv, PushLink
  <2>2. \A i \in DOMAIN contents : next'[Before(i)] = contents[i] /\ contents[i] \in alive'
    BY <1>1, <1>2, <1>3 DEF TypeOK, ListInv, PushLink, Before
  <2>3. pc'[t] = "push_tail"  BY DEF TypeOK, PushLink
  <2>4. QED  BY <1>4, <2>1, <2>2, <2>3 DEF ListInv, PushLink, Before
<1>9. PopInv'    BY <1>1 DEF TypeOK, PopInv, PushLink
<1>10. QED       BY <1>5, <1>6, <1>7, <1>8, <1>9

LEMMA PushTailKeeps ==
  ASSUME QueueSafe, NEW t \in Threads, PushTail(t)
  PROVE  QueueSafe'
<1> USE DEF QueueSafe, QueueInv
<1>1. /\ reg[t] \in Values /\ next[reg[t]] = "null" /\ next[tail] = reg[t]
      /\ reg[t] \in alive /\ reg[t] \notin Range(contents)
      /\ \A u \in Threads : u # t => pc[u] # "push_tail"
  BY DEF PushInv, MutexInv, PushTail
<1>2. contents' = Append(contents, reg[t]) /\ tail' = reg[t]
  BY <1>1 DEF PushTail
<1>3. TypeOK'    BY <1>1, <1>2 DEF TypeOK, PushTail
<1>4. MutexInv'  BY DEF TypeOK, MutexInv, PushTail
<1>5. PushInv'   BY <1>1 DEF TypeOK, PushInv, PushTail
<1>6. ListInv'
  <2> DEFINE n == Len(contents)
  <2>1. /\ n \in Nat /\ DOMAIN contents = 1..n /\ DOMAIN contents' = 1..(n + 1)
        /\ Len(contents') = n + 1 /\ contents'[n + 1] = reg[t]
        /\ \A i \in 1..n : contents'[i] = contents[i]
    BY <1>1, <1>2 DEF TypeOK
  <2>2. \A i \in 1..n : reg[t] # contents[i]
    BY <1>1, <2>1 DEF Range
  <2>3. \A i \in DOMAIN contents' : next'[Before(i)'] = contents'[i] /\ contents'[i] \in alive'
    BY <1>1, <2>1 DEF ListInv, PushTail, Before
  <2>4. \A i, j \in DOMAIN contents' : contents'[i] = contents'[j] => i = j
    BY <2>1, <2>2 DEF ListInv
  <2>5. tail' = Before(Len(contents) + 1)'
    BY <1>2, <2>1 DEF Before
  <2>6. next'[tail'] = "null"
    BY <1>1, <1>2 DEF PushTail
  <2>7. QED  BY <2>3, <2>4, <2>5, <2>6 DEF ListInv, PushTail
<1>7. PopInv'    BY <1>1, <1>2 DEF TypeOK, PopInv, PushTail
<1>8. QED        BY <1>3, <1>4, <1>5, <1>6, <1>7

LEMMA PopLastKeeps ==
  ASSUME QueueSafe, NEW t \in Threads, PopLast(t)
  PROVE  QueueSafe' /\ contents # <<>> /\ next["head"] = Head(contents)
<1> USE DEF QueueSafe, QueueInv
<1>1. /\ Len(contents) = 1 /\ contents[1] = next["head"] /\ next["head"] \in Values
      /\ next["head"] \in alive /\ contents' = <<>>
  <2> DEFINE n == Len(contents)
  <2>1. /\ tail # "head" /\ contents # <<>> /\ tail = contents[n]
        /\ next["head"] = tail /\ contents' = Tail(contents)
    BY TailIsANode DEF PopLast
  <2>2. n \in Nat /\ n > 0 /\ DOMAIN contents = 1..n
    BY <2>1 DEF TypeOK
  <2>3. contents[1] = next["head"] /\ contents[1] \in alive /\ contents[1] \in Values
    BY <2>2 DEF TypeOK, ListInv, Before
  <2>4. n = 1
    BY <2>1, <2>2, <2>3 DEF ListInv
  <2>5. contents' = <<>>
    BY <2>1, <2>4 DEF TypeOK
  <2>6. QED  BY <2>3, <2>4, <2>5
<1>2. \A u \in Threads : u # t => pc[u] \notin TailPlaces \union HeadPlaces
  BY DEF MutexInv, PopLast
<1>3. TypeOK'    BY <1>1 DEF TypeOK, PopLast
<1>4. MutexInv'  BY DEF TypeOK, MutexInv, PopLast
<1>5. PushInv'   BY <1>1, <1>2 DEF TypeOK, PushInv, PopLast
<1>6. ListInv'   BY <1>1 DEF TypeOK, ListInv, PopLast, Before
<1>7. PopInv'    BY <1>2 DEF TypeOK, PopInv, PopLast
<1>8. QED        BY <1>1, <1>3, <1>4, <1>5, <1>6, <1>7 DEF TypeOK

LEMMA PopUnlinkKeeps ==
  ASSUME QueueSafe, NEW t \in Threads, PopUnlink(t)
  PROVE  QueueSafe' /\ contents # <<>> /\ reg[t] = Head(contents)
<1> USE DEF QueueSafe, QueueInv
<1> DEFINE n == Len(contents)
<1>1. /\ n \in Nat /\ n > 1 /\ DOMAIN contents = 1..n
      /\ contents[1] = next["head"] /\ contents[2] = next[contents[1]]
      /\ reg[t] = contents[1] /\ contents[1] \in Values
  BY SMTT(30) DEF TypeOK, ListInv, PopInv, PopUnlink, Before
<1>2. /\ contents' = Tail(contents) /\ Len(contents') = n - 1 /\ DOMAIN contents' = 1..(n - 1)
      /\ \A i \in 1..(n - 1) : contents'[i] = contents[i + 1]
      /\ contents' \in Seq(Values)
  BY <1>1 DEF TypeOK, PopUnlink
<1>3. \A u \in Threads : u # t => pc[u] \notin HeadPlaces
  BY DEF MutexInv, PopUnlink
<1>4. TypeOK'    BY <1>1, <1>2 DEF TypeOK, PopUnlink
<1>5. MutexInv'  BY DEF TypeOK, MutexInv, PopUnlink
<1>6. PushInv'
  <2>1. \A x : x \notin Range(contents) => x \notin Range(contents')
    BY <1>1, <1>2 DEF Range
  <2>2. contents[1] \in Range(contents)  BY <1>1 DEF Range
  <2>3. QED  BY <1>1, <2>1, <2>2, TailIsANode DEF TypeOK, PushInv, PopUnlink
<1>7. ListInv'
  <2>1. /\ next'["head"] = contents[2]
        /\ \A i \in 1..n : next'[contents[i]] = next[contents[i]]
    BY <1>1 DEF TypeOK, PopUnlink
  <2>2. \A i \in 2..n : next[contents[i - 1]] = contents[i] /\ contents[i] \in alive'
    <3> SUFFICES ASSUME NEW i \in 2..n
                 PROVE  next[contents[i - 1]] = contents[i] /\ contents[i] \in alive'
      OBVIOUS
    <3>1. i \in DOMAIN contents /\ 1 \in DOMAIN contents /\ i # 1  BY <1>1
    <3>2. contents[i] # contents[1]  BY <3>1 DEF ListInv
    <3>3. next[contents[i - 1]] = contents[i] /\ contents[i] \in alive
      BY <3>1 DEF ListInv, Before
    <3>4. alive' = alive \ {contents[1]}  BY <1>1 DEF PopUnlink
    <3>5. QED  BY <3>2, <3>3, <3>4
  <2>3. \A i \in DOMAIN contents' : next'[Before(i)'] = contents'[i] /\ contents'[i] \in alive'
    BY <1>1, <1>2, <2>1, <2>2 DEF Before
  <2>4. \A i, j \in DOMAIN contents' : contents'[i] = contents'[j] => i = j
    BY <1>1, <1>2 DEF ListInv
  <2>5. tail' = tail /\ tail = contents[n]
    BY <1>1, TailIsANode DEF PopUnlink
  <2>6. tail' = Before(Len(contents) + 1)'
    BY <1>1, <1>2, <2>5 DEF Before
  <2>7. next'[tail'] = next[tail]
    BY <1>1, <2>1, <2>5
  <2>8. next'["head"] \in alive'  BY <1>1, <2>1, <2>2
  <2>9. "head" \in alive'  BY <1>1 DEF TypeOK, ListInv, PopUnlink
  <2>10. \A u \in Threads : pc[u] = "push_tail" => pc'[u] = "push_tail"
    BY DEF TypeOK, PopUnlink
  <2>11. QED  BY <1>1, <2>3, <2>4, <2>6, <2>7, <2>8, <2>9, <2>10 DEF ListInv
<1>8. PopInv'    BY <1>3 DEF TypeOK, PopInv, PopUnlink
<1>9. QED        BY <1>1, <1>4, <1>5, <1>6, <1>7, <1>8 DEF TypeOK

LEMMA StepKeepsQueueSafe ==
  ASSUME QueueSafe, [Next]_vars
  PROVE  QueueSafe'
<1>1. CASE UNCHANGED vars
  BY <1>1 DEF vars, QueueSafe, QueueInv, TypeOK, MutexInv, PushInv, ListInv, PopInv, Before
<1>2. ASSUME NEW t \in Threads, NEW v \in Values, PushCall(t, v) PROVE QueueSafe'
  BY <1>2, PushCallKeeps
<1>3. ASSUME NEW t \in Threads, PopCall(t) \/ EmptyCall(t) \/ Proceed(t) PROVE QueueSafe'
  BY <1>3, OtherStepsKeep, PushLinkKeeps, PushTailKeeps, PopLastKeeps, PopUnlinkKeeps
  DEF Proceed
<1>4. QED  BY <1>1, <1>2, <1>3 DEF Next

LEMMA AlwaysQueueSafe == Spec => []QueueSafe
BY InitQueue, StepKeepsQueueSafe, PTL DEF Spec

\* Every variable keeps its type, for any threads and tasks.
THEOREM TypeCorrect == Spec => []TypeOK
BY AlwaysQueueSafe, PTL DEF QueueSafe

----------------------------------------------------------------------------
(* Data races. *)

\* The pusher touches only the last node and the popper only the first, and
\* while a popper works without the tail's mutex those are two nodes.
LEMMA EndsApart ==
  ASSUME QueueSafe, NEW t \in Threads, NEW u \in Threads,
         pc[t] \in {"push_link", "push_tail", "empty_check"},
         pc[u] \in {"pop_read", "pop_unlink"}
  PROVE  /\ Writes(t) \cap (Reads(u) \union Writes(u)) = {}
         /\ Writes(u) \cap (Reads(t) \union Writes(t)) = {}
<1>1. /\ contents # <<>> /\ tail # "head" /\ next["head"] # tail /\ next["head"] # "null"
  <2> DEFINE n == Len(contents)
  <2>1. n \in Nat /\ n > 1 /\ DOMAIN contents = 1..n
    BY DEF QueueSafe, QueueInv, TypeOK, PopInv
  <2>2. next["head"] = contents[1] /\ contents[1] # contents[n] /\ contents[1] \in Values
    BY <2>1 DEF QueueSafe, QueueInv, TypeOK, ListInv, Before
  <2>3. QED  BY <2>1, <2>2, TailIsANode
<1>2. pc[t] = "push_link" => next[tail] = "null"
  BY <1>1, LastNodeIsLast
<1>3. /\ Writes(t) \subseteq {TailField, <<tail, "next">>}
      /\ Reads(t) \subseteq {TailField, <<tail, "next">>}
  BY <1>2 DEF Writes, Reads, Fields
<1>4. /\ Writes(u) \subseteq {<<"head", "next">>, <<next["head"], "next">>, <<next["head"], "data">>}
      /\ Reads(u) \subseteq {<<"head", "next">>, <<next["head"], "next">>, <<next["head"], "data">>}
  BY <1>1 DEF Writes, Reads, Fields
<1>5. {TailField, <<tail, "next">>} \cap
      {<<"head", "next">>, <<next["head"], "next">>, <<next["head"], "data">>} = {}
  BY <1>1 DEF TailField
<1>6. QED  BY <1>3, <1>4, <1>5

\* No step of one thread is about to write a field of the list that a step
\* of another is about to use: the two mutexes are enough.
THEOREM NoRaces == Spec => []NoDataRace
<1>1. ASSUME QueueSafe, NEW t \in Threads, NEW u \in Threads, t # u
      PROVE  Writes(t) \cap (Reads(u) \union Writes(u)) = {}
  <2>1. ASSUME NEW w \in Threads, pc[w] \notin TailPlaces \union {"pop_unlink"}
        PROVE  Writes(w) = {}
    BY <2>1 DEF Writes
  <2>2. ASSUME NEW w \in Threads, pc[w] \notin TailPlaces \union {"pop_read", "pop_unlink"}
        PROVE  Reads(w) = {} /\ Writes(w) = {}
    BY <2>2 DEF Writes, Reads
  <2>3. /\ ~(pc[t] \in TailPlaces /\ pc[u] \in TailPlaces)
        /\ ~(pc[t] \in HeadPlaces /\ pc[u] \in HeadPlaces)
    BY <1>1 DEF QueueSafe, QueueInv, MutexInv
  <2>4. CASE pc[t] \notin TailPlaces \union {"pop_unlink"}  BY <2>1, <2>4
  <2>5. CASE pc[u] \notin TailPlaces \union {"pop_read", "pop_unlink"}  BY <2>2, <2>5
  <2>6. CASE pc[t] \in TailPlaces /\ pc[u] \in {"pop_read", "pop_unlink"}
    <3>1. pc[t] \in {"push_link", "push_tail", "empty_check"}  BY <2>3, <2>6
    <3>2. QED  BY <1>1, <2>6, <3>1, EndsApart
  <2>7. CASE pc[t] = "pop_unlink" /\ pc[u] \in TailPlaces
    <3>1. pc[u] \in {"push_link", "push_tail", "empty_check"}  BY <2>3, <2>7
    <3>2. QED  BY <1>1, <2>7, <3>1, EndsApart
  <2>8. QED  BY <2>3, <2>4, <2>5, <2>6, <2>7
<1>2. QueueSafe => NoDataRace  BY <1>1 DEF NoDataRace
<1>3. QED  BY <1>2, AlwaysQueueSafe, PTL

----------------------------------------------------------------------------
(* The refinement. *)

\* Only the call of the thread that takes the step changes.
LEMMA OneCallChanges ==
  ASSUME NEW t \in Threads,
         \A u \in Threads \ {t} : pc'[u] = pc[u] /\ reg'[u] = reg[u]
  PROVE  [u \in Threads |-> Call(u)'] =
           [[u \in Threads |-> Call(u)] EXCEPT ![t] = Call(t)']
<1>1. \A u \in Threads \ {t} : Call(u)' = Call(u)  BY DEF Call
<1> HIDE DEF Call
<1>2. QED  BY <1>1

LEMMA StepMapped ==
  ASSUME QueueSafe, [Next]_vars
  PROVE  [Fifo!Next]_Fifo!vars
<1> USE DEF QueueSafe
<1>1. CASE UNCHANGED vars
  BY <1>1 DEF vars, Fifo!vars, Call
<1>2. ASSUME NEW t \in Threads, PopCall(t) \/ EmptyCall(t) \/ \E v \in Values : PushCall(t, v)
      PROVE  Fifo!Next
  <2>1. /\ Call(t) = <<"idle">> /\ contents' = contents
        /\ \/ \E v \in Values : Call(t)' = <<"push_back", v>>
           \/ Call(t)' = <<"try_pop">> \/ Call(t)' = <<"empty">>
    BY <1>2 DEF TypeOK, Call, PopCall, EmptyCall, PushCall
  <2>2. \A u \in Threads \ {t} : pc'[u] = pc[u] /\ reg'[u] = reg[u]
    BY <1>2 DEF TypeOK, PopCall, EmptyCall, PushCall
  <2> HIDE DEF Call
  <2>3. Fifo!Start(t)
    BY <2>1, <2>2, OneCallChanges DEF Fifo!Start, Fifo!Becomes
  <2>4. QED  BY <2>3 DEF Fifo!Next
<1>3. ASSUME NEW t \in Threads,
             \/ PushLock(t) \/ PushLink(t) \/ PopLockHead(t) \/ PopLockTail(t)
             \/ PopMany(t) \/ PopRead(t) \/ EmptyLock(t)
      PROVE  UNCHANGED Fifo!vars
  <2>1. \A u \in Threads : Call(u)' = Call(u)
    BY <1>3 DEF TypeOK, Call, PushLock, PushLink, PopLockHead, PopLockTail, PopMany,
                PopRead, EmptyLock
  <2>2. contents' = contents
    BY <1>3 DEF PushLock, PushLink, PopLockHead, PopLockTail, PopMany, PopRead, EmptyLock
  <2> HIDE DEF Call
  <2>3. QED  BY <2>1, <2>2 DEF Fifo!vars
<1>4. ASSUME NEW t \in Threads, PushTail(t) PROVE Fifo!Next
  <2>1. /\ Call(t) = <<"push_back", reg[t]>> /\ Call(t)' = <<"returns", "done">>
        /\ contents' = Append(contents, reg[t]) /\ reg[t] \in Values
    BY <1>4 DEF TypeOK, Call, PushTail, QueueInv, PushInv
  <2>2. \A u \in Threads \ {t} : pc'[u] = pc[u] /\ reg'[u] = reg[u]
    BY <1>4 DEF TypeOK, PushTail
  <2> HIDE DEF Call
  <2>3. Fifo!PushBack(t, reg[t])
    BY <2>1, <2>2, OneCallChanges DEF Fifo!PushBack, Fifo!Becomes
  <2>4. QED  BY <2>1, <2>3 DEF Fifo!Next
<1>5. ASSUME NEW t \in Threads, PopEmpty(t) \/ PopLast(t) \/ PopUnlink(t) PROVE Fifo!Next
  <2>1. /\ Call(t) = <<"try_pop">>
        /\ \/ contents = <<>> /\ contents' = contents /\ Call(t)' = <<"returns", "nullopt">>
           \/ /\ contents # <<>> /\ contents' = Tail(contents)
              /\ Call(t)' = <<"returns", Head(contents)>>
    <3>1. PopEmpty(t) => contents = <<>>  BY TailIsANode DEF PopEmpty
    <3>2. PopLast(t) => contents # <<>> /\ next["head"] = Head(contents)  BY PopLastKeeps
    <3>3. PopUnlink(t) => contents # <<>> /\ reg[t] = Head(contents)  BY PopUnlinkKeeps
    <3>4. QED  BY <1>5, <3>1, <3>2, <3>3 DEF TypeOK, Call, PopEmpty, PopLast, PopUnlink
  <2>2. \A u \in Threads \ {t} : pc'[u] = pc[u] /\ reg'[u] = reg[u]
    BY <1>5 DEF TypeOK, PopEmpty, PopLast, PopUnlink
  <2> HIDE DEF Call
  <2>3. Fifo!TryPop(t)
    BY <2>1, <2>2, OneCallChanges DEF Fifo!TryPop, Fifo!Becomes
  <2>4. QED  BY <2>3 DEF Fifo!Next
<1>6. ASSUME NEW t \in Threads, EmptyCheck(t) PROVE Fifo!Next
  <2>1. /\ Call(t) = <<"empty">> /\ contents' = contents
        /\ Call(t)' = <<"returns", IF contents = <<>> THEN "true" ELSE "false">>
    BY <1>6, TailIsANode DEF TypeOK, Call, EmptyCheck
  <2>2. \A u \in Threads \ {t} : pc'[u] = pc[u] /\ reg'[u] = reg[u]
    BY <1>6 DEF TypeOK, EmptyCheck
  <2> HIDE DEF Call
  <2>3. Fifo!Empty(t)
    BY <2>1, <2>2, OneCallChanges DEF Fifo!Empty, Fifo!Becomes
  <2>4. QED  BY <2>3 DEF Fifo!Next
<1>7. ASSUME NEW t \in Threads, Return(t) PROVE Fifo!Next
  <2>1. Call(t)[1] = "returns" /\ Call(t)' = <<"idle">> /\ contents' = contents
    BY <1>7 DEF TypeOK, Call, Return
  <2>2. \A u \in Threads \ {t} : pc'[u] = pc[u] /\ reg'[u] = reg[u]
    BY <1>7 DEF TypeOK, Return
  <2> HIDE DEF Call
  <2>3. Fifo!Return(t)
    BY <2>1, <2>2, OneCallChanges DEF Fifo!Return, Fifo!Becomes
  <2>4. QED  BY <2>3 DEF Fifo!Next
<1>8. QED
  BY <1>1, <1>2, <1>3, <1>4, <1>5, <1>6, <1>7 DEF Next, Proceed

\* The list implements the linearizable FIFO queue: push_back takes effect
\* where it moves _tail, empty where it compares, and try_pop where it finds
\* the list empty, takes its last node out or unlinks its first.
THEOREM QueueIsFifo == Spec => Linearizable
<1>1. Init => Fifo!Init
  BY DEF Init, Fifo!Init, Call
<1>2. QED
  BY <1>1, AlwaysQueueSafe, StepMapped, PTL DEF Spec, Linearizable, Fifo!Spec
=========================================================================
