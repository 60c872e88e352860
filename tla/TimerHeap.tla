---------------------------- MODULE TimerHeap ----------------------------
(***************************************************************************)
(* The timers of one event loop: RxTimer (src/Network/Timer.cpp) and the   *)
(* binary heap under it (src/Network/TimerHeap.cpp).  Only the loop's      *)
(* thread touches them: the user's code starts and stops timers, between   *)
(* two calls of check_timer_expiry or in the callback of one that expired. *)
(*                                                                         *)
(* An operation runs to its end before the next one starts.  It takes      *)
(* several steps because an iteration of heap_sift_up or heap_sift_down is *)
(* a step of its own; while one of these loops runs nothing else moves.    *)
(***************************************************************************)
EXTENDS Integers, Sequences

CONSTANTS
  Timers,       \* the RxTimer objects
  Durations,    \* the intervals they are started with
  Repeating,    \* the timers that may be started as repeating ones
  MaxNow,       \* bound: the clock stops here
  OwnRepeat     \* may a callback stop its own timer while that one repeats,
                \* or restart it as a repeating one?

ASSUME ConstantsAssumption ==
  /\ "nullptr" \notin Timers
  /\ Durations \subseteq Nat
  /\ Repeating \subseteq Timers
  /\ MaxNow \in Nat
  /\ OwnRepeat \in BOOLEAN

VARIABLES
  heap,         \* _timer_heap from index 1 on: [expire_time, timer]
  heap_index,   \* each timer's _heap_index; 0 is numeric_limits::max
  mapped,       \* the timers whose _id is a key of _timer_id_map
  active,       \* the timers with _is_active
  period,       \* _duration of a timer with _is_repeat, else Never
  now,          \* Clock::get_now_tick
  sift,         \* the loop that runs: "none", "up" or "down" ...
  index,        \* ... and its `index'
  toAdd,        \* the add_timer that is next, at most one
  check,        \* check_timer_expiry: "out", "loop" or "callback"
  expired,      \* the timer whose callback runs, or "nullptr"
  deadline      \* history: when the user expects each timer, or Never

vars == <<heap, heap_index, mapped, active, period, now, sift,
          index, toAdd, check, expired, deadline>>

Never == -1
Entry == [expire_time : Nat, timer : Timers]

TypeOK ==
  /\ heap \in Seq(Entry)
  /\ heap_index \in [Timers -> Nat]
  /\ mapped \subseteq Timers /\ active \subseteq Timers
  /\ period \in [Timers -> Nat \union {Never}]
  /\ now \in Nat
  /\ sift \in {"none", "up", "down"}
  /\ index \in Nat
  /\ toAdd \in Seq(Entry)
  /\ check \in {"out", "loop", "callback"}
  /\ expired \in Timers \union {"nullptr"}
  /\ deadline \in [Timers -> Nat \union {Never}]

Init ==
  /\ heap = <<>>
  /\ heap_index = [t \in Timers |-> 0]
  /\ mapped = {} /\ active = {}
  /\ period = [t \in Timers |-> Never]
  /\ now = 0
  /\ sift = "none" /\ index = 0
  /\ toAdd = <<>>
  /\ check = "out"
  /\ expired = "nullptr"
  /\ deadline = [t \in Timers |-> Never]

----------------------------------------------------------------------------
(* The heap. *)

Expire(i) == heap[i].expire_time
Size == Len(heap)

\* swap_heap_entry, on the vector and on the timers' own indexes.
SwappedEntries(i, j) == [heap EXCEPT ![i] = heap[j], ![j] = heap[i]]
\* A variant: the timers keep their indexes.
SwappedIndexes_Kept(i, j) == heap_index
SwappedIndexes(i, j) ==
  [heap_index EXCEPT ![heap[i].timer] = heap_index[heap[j].timer],
                     ![heap[j].timer] = heap_index[heap[i].timer]]

SwapHeapEntry(i, j) ==
  /\ heap' = SwappedEntries(i, j)
  /\ heap_index' = SwappedIndexes(i, j)

\* One iteration of heap_sift_up.  Equal expiry times are swapped too.
HeapSiftUp ==
  /\ sift = "up"
  /\ IF index <= 1 \/ Expire(index) > Expire(index \div 2)
     THEN /\ sift' = "none"
          /\ UNCHANGED <<heap, heap_index, index>>
     ELSE /\ SwapHeapEntry(index \div 2, index)
          /\ index' = index \div 2
          /\ UNCHANGED sift
  /\ UNCHANGED <<mapped, active, period, now, toAdd, check, expired, deadline>>

\* A variant: always the left child.
MinChild_Left(i) == 2 * i

\* child_min: the left child unless there is a right one that is not later.
MinChild(i) ==
  IF 2 * i + 1 > Size \/ Expire(2 * i) < Expire(2 * i + 1) THEN 2 * i ELSE 2 * i + 1

\* One iteration of heap_sift_down.
HeapSiftDown ==
  /\ sift = "down"
  /\ IF 2 * index > Size \/ Expire(index) < Expire(MinChild(index))
     THEN /\ sift' = "none"
          /\ UNCHANGED <<heap, heap_index, index>>
     ELSE /\ SwapHeapEntry(index, MinChild(index))
          /\ index' = heap_index[heap[MinChild(index)].timer]
          /\ UNCHANGED sift
  /\ UNCHANGED <<mapped, active, period, now, toAdd, check, expired, deadline>>

PopBack(h) == [i \in 1 .. Len(h) - 1 |-> h[i]]

\* Which way the last entry goes that has replaced the entry at i.
SiftFromGap(i) ==
  IF i > 1 /\ Expire(Size) < Expire(i \div 2) THEN "up" ELSE "down"

\* remove_timer of a timer that is in the map.
RemoveTimer(t) ==
  LET i == heap_index[t] IN
  /\ mapped' = mapped \ {t}
  /\ IF i = Size
     THEN /\ heap' = PopBack(heap)
          /\ heap_index' = [heap_index EXCEPT ![t] = 0]
          /\ UNCHANGED <<sift, index>>
     ELSE /\ heap' = PopBack(SwappedEntries(i, Size))
          /\ heap_index' = [SwappedIndexes(i, Size) EXCEPT ![t] = 0]
          /\ sift' = SiftFromGap(i)
          /\ index' = i

\* A variant: the timer's id does not get into the map.
AddTimer_NotMapped ==
  /\ sift = "none" /\ toAdd # <<>>
  /\ heap' = Append(heap, Head(toAdd))
  /\ heap_index' = [heap_index EXCEPT ![Head(toAdd).timer] = Size + 1]
  /\ active' = active \union {Head(toAdd).timer}
  /\ sift' = "up" /\ index' = Size + 1
  /\ toAdd' = Tail(toAdd)
  /\ UNCHANGED <<mapped, period, now, check, expired, deadline>>

\* add_timer and the set_active(true) that follows each call of it.
AddTimer ==
  /\ sift = "none" /\ toAdd # <<>>
  /\ heap' = Append(heap, Head(toAdd))
  /\ heap_index' = [heap_index EXCEPT ![Head(toAdd).timer] = Size + 1]
  /\ mapped' = mapped \union {Head(toAdd).timer}
  /\ active' = active \union {Head(toAdd).timer}
  /\ sift' = "up" /\ index' = Size + 1
  /\ toAdd' = Tail(toAdd)
  /\ UNCHANGED <<period, now, check, expired, deadline>>

----------------------------------------------------------------------------
(* The user's code. *)

\* No operation of the heap is under way.
Quiet == sift = "none" /\ toAdd = <<>>

InUserCode == Quiet /\ check \in {"out", "callback"}

\* Is t the timer whose callback this is?
Own(t) == check = "callback" /\ t = expired

\* RxTimer::start_timer: an active timer is stopped first.
StartTimer(t, d, r) ==
  /\ InUserCode
  /\ r => t \in Repeating
  /\ Own(t) /\ r => OwnRepeat
  /\ toAdd' = <<[expire_time |-> now + d, timer |-> t]>>
  /\ period' = [period EXCEPT ![t] = IF r THEN d ELSE Never]
  /\ deadline' = [deadline EXCEPT ![t] = now + d]
  /\ active' = active \ {t}
  /\ IF t \in active /\ t \in mapped
     THEN RemoveTimer(t)
     ELSE UNCHANGED <<heap, heap_index, mapped, sift, index>>
  /\ UNCHANGED <<now, check, expired>>

\* RxTimer::stop, called by the user or by the destructor.
StopTimer(t) ==
  /\ InUserCode
  /\ Own(t) /\ period[t] # Never => OwnRepeat
  /\ active' = active \ {t}
  /\ deadline' = [deadline EXCEPT ![t] = Never]
  /\ IF t \in mapped
     THEN RemoveTimer(t)
     ELSE UNCHANGED <<heap, heap_index, mapped, sift, index>>
  /\ UNCHANGED <<period, now, toAdd, check, expired>>

----------------------------------------------------------------------------
(* check_timer_expiry. *)

CheckTimerExpiry ==
  /\ Quiet /\ check = "out"
  /\ check' = "loop"
  /\ UNCHANGED <<heap, heap_index, mapped, active, period, now, sift,
                 index, toAdd, expired, deadline>>

\* A variant: the top is taken for due whenever there is one.
TopIsDue_Always == heap # <<>>
TopIsDue == heap # <<>> /\ Expire(1) <= now

\* pop_heap_top, set_active(false), and the callback is entered.  What the
\* user expects of a timer that repeats is settled when the callback is over.
Expires ==
  /\ Quiet /\ check = "loop"
  /\ TopIsDue
  /\ LET t == heap[1].timer IN
       /\ expired' = t
       /\ active' = active \ {t}
       /\ mapped' = mapped \ {t}
       /\ deadline' = IF period[t] # Never THEN deadline
                      ELSE [deadline EXCEPT ![t] = Never]
  /\ IF Size = 1
     THEN /\ heap' = <<>>
          /\ UNCHANGED <<heap_index, sift, index>>
     ELSE /\ heap' = PopBack(SwappedEntries(1, Size))
          /\ heap_index' = SwappedIndexes(1, Size)
          /\ sift' = "down" /\ index' = 1
  /\ check' = "callback"
  /\ UNCHANGED <<period, now, toAdd>>

\* A variant: any timer is added again, whatever is_repeat() says.
CallbackReturns_Rearms ==
  /\ Quiet /\ check = "callback"
  /\ check' = "loop"
  /\ expired' = "nullptr"
  /\ toAdd' = <<[expire_time |-> now + period[expired], timer |-> expired]>>
  /\ UNCHANGED <<heap, heap_index, mapped, active, period, now, sift, index,
                 deadline>>

\* The callback returns: is_repeat() is read only now.
CallbackReturns ==
  /\ Quiet /\ check = "callback"
  /\ check' = "loop"
  /\ expired' = "nullptr"
  /\ IF period[expired] # Never
     THEN /\ toAdd' = <<[expire_time |-> now + period[expired], timer |-> expired]>>
          /\ deadline' = [deadline EXCEPT ![expired] =
               IF @ = Never THEN Never ELSE now + period[expired]]
     ELSE UNCHANGED <<toAdd, deadline>>
  /\ UNCHANGED <<heap, heap_index, mapped, active, period, now, sift, index>>

CheckReturns ==
  /\ Quiet /\ check = "loop"
  /\ ~TopIsDue
  /\ check' = "out"
  /\ UNCHANGED <<heap, heap_index, mapped, active, period, now, sift,
                 index, toAdd, expired, deadline>>

\* The clock, at any moment that an operation can tell from another.
Tick ==
  /\ Quiet
  /\ now < MaxNow
  /\ now' = now + 1
  /\ UNCHANGED <<heap, heap_index, mapped, active, period, sift, index,
                 toAdd, check, expired, deadline>>

Next ==
  \/ HeapSiftUp \/ HeapSiftDown \/ AddTimer
  \/ \E t \in Timers :
       \/ \E d \in Durations, r \in BOOLEAN : StartTimer(t, d, r)
       \/ StopTimer(t)
  \/ CheckTimerExpiry \/ Expires \/ CallbackReturns \/ CheckReturns
  \/ Tick

Spec == Init /\ [][Next]_vars

----------------------------------------------------------------------------
(* Properties. *)

\* Between operations no entry expires before its parent's.  Inside them at
\* most the entry that is sifted is out of order, and only on the side it
\* moves to; its children are in order with its parent.
HeapOrdered ==
  /\ \A i \in 2 .. Size :
       \/ sift = "up" /\ i = index
       \/ sift = "down" /\ i \div 2 = index
       \/ Expire(i \div 2) <= Expire(i)
  /\ sift # "none" =>
       \A i \in 4 .. Size :
         i \div 2 = index => Expire(i \div 4) <= Expire(i)

\* Every timer in the heap knows its place there, so that remove_timer
\* removes that timer and no other, whatever has been swapped since.
IndexesRight ==
  \A i \in 1 .. Size : heap_index[heap[i].timer] = i

\* The heap holds the timers that the user waits for and no other, each with
\* the expiry time it was last started or re-armed with; these are the
\* active ones, and remove_timer finds them by their id.  (A callback's own
\* timer is the exception while the callback runs, and a timer that is being
\* added while the heap makes room for it.)
HeldTimers == {heap[i].timer : i \in 1 .. Size}
InTransit == {toAdd[i].timer : i \in 1 .. Len(toAdd)}
                \union (IF check = "callback" THEN {expired} ELSE {})

HoldsAwaited ==
  /\ \A i \in 1 .. Size : deadline[heap[i].timer] = Expire(i)
  /\ mapped = HeldTimers /\ active = HeldTimers
  /\ \A t \in Timers \ InTransit : deadline[t] # Never => t \in HeldTimers

\* A callback is called for a timer that the user waits for, not before its
\* time, and before those of all timers that are due later: a stopped timer
\* never expires.
Expiring(t) == check = "loop" /\ check' = "callback" /\ expired' = t

ExpiresInTurn ==
  [][\A t \in Timers : Expiring(t) =>
       /\ deadline[t] # Never /\ deadline[t] <= now
       /\ \A u \in Timers : deadline[u] # Never => deadline[t] <= deadline[u]]_vars
=========================================================================
