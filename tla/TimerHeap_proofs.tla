------------------------ MODULE TimerHeap_proofs ------------------------
(***************************************************************************)
(* Proofs about TimerHeap, for any number of timers, any durations and any *)
(* length of a run.                                                        *)
(***************************************************************************)
EXTENDS TimerHeap, SequenceTheorems, WellFoundedInduction, TLAPS

(* Halves: the parent of an entry and its parent, and the two children.    *)
LEMMA Halves ==
  ASSUME NEW i \in Nat
  PROVE  /\ i \div 2 \in Nat /\ i \div 2 <= i
         /\ i >= 2 => 1 <= i \div 2 /\ i \div 2 < i
         /\ i \div 4 = (i \div 2) \div 2
         /\ \A k \in Nat : i \div 2 = k <=> i = 2 * k \/ i = 2 * k + 1
OBVIOUS

(* swap_heap_entry exchanges two entries of the vector.                    *)
LEMMA SwapEntries ==
  ASSUME heap \in Seq(Entry), NEW i \in 1 .. Size, NEW j \in 1 .. Size
  PROVE  /\ SwappedEntries(i, j) \in Seq(Entry)
         /\ Len(SwappedEntries(i, j)) = Size
         /\ \A k \in 1 .. Size : SwappedEntries(i, j)[k] =
              IF k = j THEN heap[i] ELSE IF k = i THEN heap[j] ELSE heap[k]
BY ElementOfSeq DEF Size, SwappedEntries

(* pop_back drops the last entry.                                          *)
LEMMA PopLastEntry ==
  ASSUME NEW h \in Seq(Entry), h # <<>>
  PROVE  /\ PopBack(h) \in Seq(Entry)
         /\ Len(PopBack(h)) = Len(h) - 1
         /\ \A k \in 1 .. Len(h) - 1 : PopBack(h)[k] = h[k]
<1>1. Len(h) \in Nat \ {0}
  BY EmptySeq
<1>2. \A k \in 1 .. Len(h) - 1 : h[k] \in Entry
  BY <1>1, ElementOfSeq
<1>3. QED
  BY <1>1, <1>2 DEF PopBack

(* A child of an entry, where there is one, is an entry.                   *)
LEMMA ChildInBounds ==
  ASSUME TypeOK, index \in 1 .. Size, 2 * index <= Size
  PROVE  /\ MinChild(index) \in 1 .. Size /\ MinChild(index) # index
         /\ MinChild(index) \div 2 = index
<1>1. Size \in Nat
  BY DEF TypeOK, Size
<1>2. QED
  BY <1>1 DEF MinChild
----------------------------------------------------------------------------
(* Every variable keeps its type.  The steps of the heap need more than    *)
(* types: that the places they touch are in the vector follows from what   *)
(* the timers and the map know of the heap.                                *)

\* The entry that is sifted is in the vector.
SiftInBounds == sift # "none" => index \in 1 .. Size

\* The entries h are those of the timers m, which have the indexes x.
Places(h, x, m) ==
  /\ \A k \in 1 .. Len(h) : x[h[k].timer] = k /\ h[k].timer \in m
  /\ \A t \in m : x[t] \in 1 .. Len(h) /\ h[x[t]].timer = t

\* The indexes, the map and the flags are right about the heap.
MapRight == active = mapped /\ Places(heap, heap_index, mapped)

\* At most one timer is on its way into the heap, and it is not there yet.
OneToAdd ==
  /\ Len(toAdd) <= 1
  /\ toAdd # <<>> => Head(toAdd).timer \notin mapped

\* A repeating timer is out of the heap while its callback runs.
OwnIsOut ==
  check = "callback" =>
    /\ expired \in Timers
    /\ period[expired] # Never =>
         /\ expired \notin mapped
         /\ toAdd # <<>> => Head(toAdd).timer # expired

PlacesRight == TypeOK /\ SiftInBounds /\ MapRight /\ OneToAdd /\ OwnIsOut

(* The indexes follow a swap.                                              *)
LEMMA SwapKeepsPlaces ==
  ASSUME TypeOK, MapRight, NEW i \in 1 .. Size, NEW j \in 1 .. Size
  PROVE  /\ SwappedIndexes(i, j) \in [Timers -> Nat]
         /\ Places(SwappedEntries(i, j), SwappedIndexes(i, j), mapped)
<1> DEFINE h == SwappedEntries(i, j)
           x == SwappedIndexes(i, j)
<1>1. Size \in Nat /\ i \in Nat /\ j \in Nat
  BY DEF TypeOK, Size
<1>2. /\ Len(h) = Size
      /\ \A k \in 1 .. Size : h[k] = IF k = j THEN heap[i] ELSE IF k = i THEN heap[j] ELSE heap[k]
  BY SwapEntries DEF TypeOK
<1>3. \A k \in 1 .. Size : heap[k].timer \in Timers /\ heap[k].timer \in mapped
  BY DEF MapRight, Places, TypeOK, Size
<1>4. \A k \in 1 .. Size : heap_index[heap[k].timer] = k
  BY DEF MapRight, Places, Size
<1>5. x \in [Timers -> Nat]
  BY <1>1, <1>3, <1>4 DEF SwappedIndexes, TypeOK
<1>6. \A t \in Timers : x[t] = IF t = heap[j].timer THEN i
                               ELSE IF t = heap[i].timer THEN j ELSE heap_index[t]
  BY <1>1, <1>3, <1>4 DEF SwappedIndexes, TypeOK
<1> HIDE DEF h, x
<1>7. \A k \in 1 .. Size : h[k].timer \in mapped /\ h[k].timer \in Timers
  BY <1>2, <1>3
<1>8. ASSUME NEW k \in 1 .. Size PROVE x[h[k].timer] = k
  BY <1>2, <1>3, <1>4, <1>6
<1>9. ASSUME NEW t \in mapped PROVE x[t] \in 1 .. Size /\ h[x[t]].timer = t
  <2>1. heap_index[t] \in 1 .. Size /\ heap[heap_index[t]].timer = t
    BY DEF MapRight, Places, Size
  <2>2. h[x[t]] = heap[heap_index[t]] /\ x[t] \in 1 .. Size
    BY <1>2, <1>4, <1>6, <1>3, <2>1
  <2>3. QED
    BY <2>1, <2>2
<1>10. Places(h, x, mapped)
  BY <1>2, <1>7, <1>8, <1>9 DEF Places
<1>11. QED
  BY <1>5, <1>10 DEF h, x

(* What is left when the entry at i has been exchanged with the last one   *)
(* and dropped: all the others, each knowing its place.                    *)
LEMMA DropKeepsPlaces ==
  ASSUME TypeOK, MapRight, NEW i \in 1 .. Size, NEW x \in [Timers -> Nat],
         \A u \in Timers : u # heap[i].timer => x[u] = SwappedIndexes(i, Size)[u]
  PROVE  /\ PopBack(SwappedEntries(i, Size)) \in Seq(Entry)
         /\ Len(PopBack(SwappedEntries(i, Size))) = Size - 1
         /\ \A k \in 1 .. Size - 1 :
              PopBack(SwappedEntries(i, Size))[k] = IF k = i THEN heap[Size] ELSE heap[k]
         /\ Places(PopBack(SwappedEntries(i, Size)), x, mapped \ {heap[i].timer})
<1> DEFINE s == SwappedEntries(i, Size)
           h == PopBack(s)
           y == SwappedIndexes(i, Size)
<1>1. Size \in Nat /\ i \in Nat /\ Size \in 1 .. Size
  BY DEF TypeOK, Size
<1>2. /\ s \in Seq(Entry) /\ Len(s) = Size
      /\ \A k \in 1 .. Size : s[k] = IF k = Size THEN heap[i] ELSE IF k = i THEN heap[Size] ELSE heap[k]
  BY <1>1, SwapEntries DEF TypeOK
<1>3. y \in [Timers -> Nat] /\ Places(s, y, mapped)
  BY <1>1, SwapKeepsPlaces
<1>4. \A u \in Timers : u # heap[i].timer => x[u] = y[u]
  OBVIOUS
<1> HIDE DEF s, y
<1>5. /\ h \in Seq(Entry) /\ Len(h) = Size - 1
      /\ \A k \in 1 .. Size - 1 : h[k] = s[k]
  <2>1. s # <<>>
    BY <1>1, <1>2, EmptySeq
  <2>2. QED
    BY <1>2, <2>1, PopLastEntry
<1> HIDE DEF h
<1>6. s[Size].timer = heap[i].timer /\ mapped \subseteq Timers
  BY <1>1, <1>2 DEF TypeOK
<1>7. ASSUME NEW k \in 1 .. Size - 1
      PROVE  /\ h[k].timer \in mapped \ {heap[i].timer}
             /\ x[h[k].timer] = k
  <2>1. k \in 1 .. Size /\ k # Size
    BY <1>1
  <2>2. /\ h[k] = s[k] /\ y[s[k].timer] = k /\ y[s[Size].timer] = Size
        /\ s[k].timer \in mapped
    BY <1>1, <1>2, <1>3, <1>5, <2>1 DEF Places
  <2>3. h[k].timer # heap[i].timer
    BY <1>6, <2>1, <2>2
  <2>4. QED
    BY <1>4, <1>6, <2>2, <2>3
<1>8. ASSUME NEW t \in mapped \ {heap[i].timer}
      PROVE  x[t] \in 1 .. Size - 1 /\ h[x[t]].timer = t
  <2>1. x[t] = y[t] /\ y[t] \in 1 .. Size /\ s[y[t]].timer = t
    BY <1>2, <1>3, <1>4, <1>6 DEF Places
  <2>2. y[t] # Size
    BY <1>6, <2>1
  <2>3. QED
    BY <1>1, <1>5, <2>1, <2>2
<1>9. Places(h, x, mapped \ {heap[i].timer})
  BY <1>5, <1>7, <1>8 DEF Places
<1>10. \A k \in 1 .. Size - 1 : h[k] = IF k = i THEN heap[Size] ELSE heap[k]
  BY <1>1, <1>2, <1>5
<1>11. QED
  BY <1>5, <1>9, <1>10 DEF h, s

(* An entry exchanged with itself.                                         *)
LEMMA SwapWithItself ==
  ASSUME TypeOK, NEW i \in 1 .. Size
  PROVE  SwappedEntries(i, i) = heap /\ SwappedIndexes(i, i) = heap_index
<1>1. heap \in Seq(Entry) /\ heap[i] \in Entry
  BY ElementOfSeq DEF TypeOK, Size
<1>2. heap[i].timer \in Timers
  BY <1>1 DEF Entry
<1>3. SwappedIndexes(i, i) = heap_index
  BY <1>2 DEF SwappedIndexes, TypeOK
<1>4. SwappedEntries(i, i) = heap
  BY <1>1 DEF SwappedEntries
<1>5. QED
  BY <1>3, <1>4

(* remove_timer takes one timer out, and the rest keep knowing their place. *)
LEMMA RemoveKeepsPlaces ==
  ASSUME TypeOK, MapRight, sift = "none", NEW t \in mapped, RemoveTimer(t)
  PROVE  /\ heap' \in Seq(Entry) /\ Len(heap') = Size - 1
         /\ heap_index' \in [Timers -> Nat]
         /\ mapped' = mapped \ {t}
         /\ heap_index[t] \in 1 .. Size
         /\ \A k \in 1 .. Size - 1 : heap'[k] = IF k = heap_index[t] THEN heap[Size] ELSE heap[k]
         /\ Places(heap', heap_index', mapped')
         /\ sift' \in {"none", "up", "down"} /\ index' \in Nat
         /\ sift' # "none" => index' \in 1 .. Size - 1
<1> DEFINE i == heap_index[t]
<1>1. Size \in Nat /\ t \in Timers
  BY DEF TypeOK, Size
<1>2. i \in 1 .. Size /\ heap[i].timer = t
  BY DEF MapRight, Places, Size
<1>3. Size \in 1 .. Size
  BY <1>1, <1>2
<1>4. SwappedIndexes(i, Size) \in [Timers -> Nat]
  BY <1>2, <1>3, SwapKeepsPlaces
<1>5. heap' = PopBack(SwappedEntries(i, Size))
  <2>1. CASE i = Size
    BY <1>3, <2>1, SwapWithItself DEF RemoveTimer
  <2>2. CASE i # Size
    BY <2>2 DEF RemoveTimer
  <2>3. QED
    BY <2>1, <2>2
<1>6. heap_index' = [SwappedIndexes(i, Size) EXCEPT ![t] = 0]
  <2>1. CASE i = Size
    BY <1>3, <2>1, SwapWithItself DEF RemoveTimer
  <2>2. CASE i # Size
    BY <2>2 DEF RemoveTimer
  <2>3. QED
    BY <2>1, <2>2
<1>7. /\ heap_index' \in [Timers -> Nat]
      /\ \A u \in Timers : u # t => heap_index'[u] = SwappedIndexes(i, Size)[u]
  BY <1>1, <1>4, <1>6
<1>8. mapped' = mapped \ {t}
  BY DEF RemoveTimer
<1>9. /\ sift' \in {"none", "up", "down"} /\ index' \in Nat
      /\ sift' # "none" => index' \in 1 .. Size - 1
  BY <1>1, <1>2 DEF RemoveTimer, SiftFromGap, TypeOK
<1> HIDE DEF i
<1>10. /\ heap' \in Seq(Entry) /\ Len(heap') = Size - 1
       /\ \A k \in 1 .. Size - 1 : heap'[k] = IF k = i THEN heap[Size] ELSE heap[k]
       /\ Places(heap', heap_index', mapped \ {t})
  BY <1>2, <1>5, <1>7, DropKeepsPlaces, Zenon
<1>11. QED
  BY <1>2, <1>7, <1>8, <1>9, <1>10 DEF i

(* One iteration of either sift exchanges two entries or ends the loop.    *)
LEMMA SiftKeepsPlaces ==
  ASSUME PlacesRight, HeapSiftUp \/ HeapSiftDown PROVE PlacesRight'
<1>1. Size \in Nat /\ TypeOK /\ MapRight
  BY DEF PlacesRight, TypeOK, Size
<1>2. UNCHANGED <<mapped, active, period, now, toAdd, check, expired, deadline>>
  BY DEF HeapSiftUp, HeapSiftDown
<1>3. ASSUME NEW i \in 1 .. Size, NEW j \in 1 .. Size, SwapHeapEntry(i, j),
             index' \in 1 .. Size, sift' = sift
      PROVE  PlacesRight'
  <2>1. /\ heap' \in Seq(Entry) /\ Len(heap') = Size
        /\ heap_index' \in [Timers -> Nat]
        /\ Places(heap', heap_index', mapped)
    BY <1>1, <1>3, SwapEntries, SwapKeepsPlaces, Zenon DEF SwapHeapEntry, TypeOK
  <2>2. SiftInBounds'
    BY <1>3, <2>1 DEF SiftInBounds, Size
  <2>3. TypeOK'
    BY <1>1, <1>2, <1>3, <2>1 DEF TypeOK
  <2>4. MapRight' /\ OneToAdd' /\ OwnIsOut'
    BY <1>2, <2>1 DEF MapRight, PlacesRight, OneToAdd, OwnIsOut
  <2>5. QED
    BY <2>2, <2>3, <2>4 DEF PlacesRight
<1>4. ASSUME sift' = "none", UNCHANGED <<heap, heap_index, index>>
      PROVE  PlacesRight'
  BY <1>2, <1>4 DEF PlacesRight, TypeOK, SiftInBounds, MapRight, Places, OneToAdd, OwnIsOut, Size
<1>5. index \in 1 .. Size
  BY DEF HeapSiftUp, HeapSiftDown, PlacesRight, SiftInBounds
<1>6. CASE HeapSiftUp
  <2>1. CASE index <= 1 \/ Expire(index) > Expire(index \div 2)
    BY <1>4, <1>6, <2>1 DEF HeapSiftUp
  <2>2. CASE ~(index <= 1 \/ Expire(index) > Expire(index \div 2))
    <3>1. index \div 2 \in 1 .. Size
      BY <1>1, <1>5, <2>2, Halves
    <3>2. SwapHeapEntry(index \div 2, index) /\ index' = index \div 2 /\ sift' = sift
      BY <1>6, <2>2 DEF HeapSiftUp
    <3>3. QED
      BY <1>3, <1>5, <3>1, <3>2
  <2>3. QED
    BY <2>1, <2>2
<1>7. CASE HeapSiftDown
  <2>1. CASE 2 * index > Size \/ Expire(index) < Expire(MinChild(index))
    BY <1>4, <1>7, <2>1 DEF HeapSiftDown
  <2>2. CASE ~(2 * index > Size \/ Expire(index) < Expire(MinChild(index)))
    <3>1. MinChild(index) \in 1 .. Size
      BY <1>1, <1>5, <2>2, ChildInBounds
    <3>2. /\ SwapHeapEntry(index, MinChild(index)) /\ sift' = sift
          /\ index' = heap_index[heap[MinChild(index)].timer]
      BY <1>7, <2>2 DEF HeapSiftDown
    <3>3. index' = MinChild(index)
      BY <1>1, <3>1, <3>2 DEF MapRight, Places, Size
    <3>4. QED
      BY <1>3, <1>5, <3>1, <3>2, <3>3
  <2>3. QED
    BY <2>1, <2>2
<1>8. QED
  BY <1>6, <1>7

(* A timer is added that is not in the heap.                               *)
LEMMA AddKeepsPlaces == ASSUME PlacesRight, AddTimer PROVE PlacesRight'
<1> DEFINE e == Head(toAdd)
<1>1. /\ Size \in Nat /\ heap \in Seq(Entry)
      /\ e \in Entry /\ e.timer \in Timers /\ e.timer \notin mapped /\ toAdd' = <<>>
  <2>1. toAdd \in Seq(Entry) /\ toAdd # <<>> /\ heap \in Seq(Entry)
    BY DEF PlacesRight, TypeOK, AddTimer
  <2>2. e \in Entry /\ Tail(toAdd) \in Seq(Entry) /\ Len(Tail(toAdd)) = 0
    <3>1. Len(toAdd) = 1
      <4>1. Len(toAdd) \in Nat /\ Len(toAdd) # 0
        BY <2>1, EmptySeq
      <4>2. Len(toAdd) <= 1
        BY DEF PlacesRight, OneToAdd
      <4>3. \A n \in Nat : n # 0 /\ n <= 1 => n = 1
        OBVIOUS
      <4>4. QED
        BY <4>1, <4>2, <4>3, Zenon
    <3>2. e \in Entry /\ Tail(toAdd) \in Seq(Entry) /\ Len(Tail(toAdd)) = Len(toAdd) - 1
      BY <2>1, HeadTailProperties, Zenon
    <3>3. QED
      BY <3>1, <3>2
  <2>3. Tail(toAdd) = <<>>
    BY <2>2, EmptySeq
  <2>4. e.timer \in Timers
    BY <2>2 DEF Entry
  <2>5. Size \in Nat
    BY <2>1 DEF Size
  <2>6. QED
    BY <2>1, <2>2, <2>3, <2>4, <2>5 DEF AddTimer, PlacesRight, OneToAdd
<1> HIDE DEF e
<1>2. /\ heap' \in Seq(Entry) /\ Len(heap') = Size + 1 /\ heap'[Size + 1] = e
      /\ \A k \in 1 .. Size : heap'[k] = heap[k]
  BY <1>1, AppendProperties DEF AddTimer, Size, e
<1>3. /\ heap_index' \in [Timers -> Nat] /\ heap_index'[e.timer] = Size + 1
      /\ \A t \in Timers : t # e.timer => heap_index'[t] = heap_index[t]
  BY <1>1 DEF AddTimer, PlacesRight, TypeOK, e
<1>4. Places(heap, heap_index, mapped) /\ mapped \subseteq Timers /\ Len(heap) = Size
  BY DEF PlacesRight, MapRight, TypeOK, Size
<1>5. mapped' = mapped \union {e.timer} /\ active' = active \union {e.timer}
  BY DEF AddTimer, e
<1>6. Places(heap', heap_index', mapped')
  <2>1. ASSUME NEW k \in 1 .. Size + 1
        PROVE  heap_index'[heap'[k].timer] = k /\ heap'[k].timer \in mapped'
    <3>1. CASE k = Size + 1
      BY <1>1, <1>2, <1>3, <1>5, <3>1
    <3>2. CASE k # Size + 1
      <4>1. k \in 1 .. Size
        BY <1>1, <3>2
      <4>2. heap_index[heap[k].timer] = k /\ heap[k].timer \in mapped
        BY <1>4, <4>1 DEF Places
      <4>3. QED
        BY <1>1, <1>2, <1>3, <1>4, <1>5, <4>1, <4>2
    <3>3. QED
      BY <3>1, <3>2
  <2>2. ASSUME NEW t \in mapped'
        PROVE  heap_index'[t] \in 1 .. Size + 1 /\ heap'[heap_index'[t]].timer = t
    <3>1. CASE t = e.timer
      BY <1>1, <1>2, <1>3, <3>1
    <3>2. CASE t # e.timer
      BY <1>1, <1>2, <1>3, <1>4, <1>5, <3>2 DEF Places
    <3>3. QED
      BY <3>1, <3>2
  <2>3. QED
    BY <1>2, <2>1, <2>2 DEF Places
<1>7. MapRight' /\ SiftInBounds' /\ OneToAdd'
  BY <1>1, <1>2, <1>5, <1>6 DEF MapRight, PlacesRight, SiftInBounds, Size, AddTimer, OneToAdd
<1>8. TypeOK'
  BY <1>1, <1>2, <1>3, <1>5 DEF PlacesRight, TypeOK, AddTimer
<1>9. OwnIsOut'
  <2>1. toAdd # <<>> /\ UNCHANGED <<check, period, expired>>
    BY DEF AddTimer
  <2>2. QED
    BY <1>1, <1>5, <2>1 DEF OwnIsOut, PlacesRight, e
<1>10. QED
  BY <1>7, <1>8, <1>9 DEF PlacesRight

(* start_timer and stop, where the timer is in the heap and where it is not. *)
LEMMA UserKeepsPlaces ==
  ASSUME ~OwnRepeat, PlacesRight, NEW t \in Timers,
         StopTimer(t) \/ \E d \in Durations, r \in BOOLEAN : StartTimer(t, d, r)
  PROVE  PlacesRight'
<1>1. TypeOK /\ MapRight /\ sift = "none" /\ toAdd = <<>> /\ Size \in Nat
  BY DEF PlacesRight, StopTimer, StartTimer, InUserCode, Quiet, TypeOK, Size
<1>2. /\ heap' \in Seq(Entry) /\ heap_index' \in [Timers -> Nat]
      /\ mapped' = mapped \ {t} /\ active' = mapped \ {t}
      /\ Places(heap', heap_index', mapped')
      /\ sift' \in {"none", "up", "down"} /\ index' \in Nat
      /\ sift' # "none" => index' \in 1 .. Len(heap')
  <2>1. active' = active \ {t} /\ active = mapped
    BY DEF StopTimer, StartTimer, PlacesRight, MapRight
  <2>2. CASE t \in mapped
    <3>1. RemoveTimer(t)
      BY <2>1, <2>2 DEF StopTimer, StartTimer
    <3>2. QED
      BY <1>1, <2>1, <2>2, <3>1, RemoveKeepsPlaces
  <2>3. CASE t \notin mapped
    <3>1. UNCHANGED <<heap, heap_index, mapped, sift, index>>
      BY <2>1, <2>3 DEF StopTimer, StartTimer
    <3>2. QED
      BY <1>1, <2>1, <2>3, <3>1 DEF TypeOK, MapRight
  <2>4. QED
    BY <2>2, <2>3
<1>3. MapRight' /\ SiftInBounds'
  BY <1>2 DEF MapRight, SiftInBounds, Size
<1>4. UNCHANGED <<now, check, expired>> /\ (check = "callback" => expired \in Timers)
  BY DEF StopTimer, StartTimer, PlacesRight, OwnIsOut
<1>5. CASE StopTimer(t)
  <2>1. /\ toAdd' = <<>> /\ period' = period
        /\ deadline' = [deadline EXCEPT ![t] = Never]
    BY <1>1, <1>5 DEF StopTimer
  <2>2. TypeOK'
    BY <1>1, <1>2, <1>4, <2>1 DEF TypeOK
  <2>3. OneToAdd' /\ OwnIsOut'
    BY <1>2, <1>4, <2>1 DEF PlacesRight, OneToAdd, OwnIsOut
  <2>4. QED
    BY <1>3, <2>2, <2>3 DEF PlacesRight
<1>6. ASSUME NEW d \in Durations, NEW r \in BOOLEAN, StartTimer(t, d, r)
      PROVE  PlacesRight'
  <2> DEFINE e == [expire_time |-> now + d, timer |-> t]
  <2>1. /\ toAdd' = <<e>>
        /\ period' = [period EXCEPT ![t] = IF r THEN d ELSE Never]
        /\ deadline' = [deadline EXCEPT ![t] = now + d]
        /\ Own(t) => ~r
    BY <1>6 DEF StartTimer
  <2>2. now + d \in Nat /\ d \in Nat /\ period' \in [Timers -> Nat \union {Never}]
    BY <1>1, <2>1, ConstantsAssumption DEF TypeOK
  <2>3. e \in Entry /\ e.timer = t
    BY <2>2 DEF Entry
  <2> HIDE DEF e
  <2>4. toAdd' \in Seq(Entry) /\ Len(toAdd') = 1 /\ Head(toAdd') = e
    BY <2>1, <2>3
  <2>5. deadline' \in [Timers -> Nat \union {Never}]
    BY <1>1, <2>1, <2>2 DEF TypeOK
  <2>6. TypeOK'
    BY <1>1, <1>2, <1>4, <2>2, <2>4, <2>5 DEF TypeOK
  <2>7. OneToAdd'
    BY <1>2, <2>3, <2>4 DEF OneToAdd
  <2>8. OwnIsOut'
    <3>1. CASE check = "callback" /\ expired = t
      <4>1. period'[expired'] = Never
        BY <1>1, <1>4, <2>1, <3>1 DEF Own, TypeOK
      <4>2. QED
        BY <1>4, <3>1, <4>1 DEF OwnIsOut
    <3>2. CASE check = "callback" /\ expired # t
      <4>1. period'[expired] = period[expired]
        BY <1>1, <2>1, <3>2 DEF TypeOK
      <4>2. QED
        BY <1>2, <1>4, <2>3, <2>4, <3>2, <4>1 DEF PlacesRight, OwnIsOut
    <3>3. CASE check # "callback"
      BY <1>4, <3>3 DEF OwnIsOut
    <3>4. QED
      BY <3>1, <3>2, <3>3
  <2>9. QED
    BY <1>3, <2>6, <2>7, <2>8 DEF PlacesRight
<1>7. QED
  BY <1>5, <1>6

(* The top of the heap expires.                                            *)
LEMMA ExpiresKeepsPlaces ==
  ASSUME PlacesRight, Expires PROVE PlacesRight'
<1> DEFINE t == heap[1].timer
<1>1. /\ TypeOK /\ MapRight /\ toAdd = <<>> /\ sift = "none" /\ heap # <<>>
      /\ Size \in Nat /\ 1 \in 1 .. Size
  <2>1. heap \in Seq(Entry) /\ heap # <<>>
    BY DEF Expires, TopIsDue, PlacesRight, TypeOK
  <2>2. Size \in Nat \ {0}
    BY <2>1, EmptySeq DEF Size
  <2>3. 1 \in 1 .. Size /\ Size \in Nat
    BY <2>2
  <2>4. QED
    BY <2>1, <2>3 DEF Expires, Quiet, PlacesRight
<1>2. /\ t \in mapped /\ t \in Timers
      /\ expired' = t /\ check' = "callback"
      /\ active' = active \ {t} /\ mapped' = mapped \ {t}
      /\ UNCHANGED <<period, now, toAdd>>
      /\ deadline' = IF period[t] # Never THEN deadline ELSE [deadline EXCEPT ![t] = Never]
  BY <1>1 DEF Expires, MapRight, Places, TypeOK, Size
<1> HIDE DEF t
<1>3. /\ heap' \in Seq(Entry) /\ heap_index' \in [Timers -> Nat]
      /\ Places(heap', heap_index', mapped \ {t})
      /\ sift' \in {"none", "down"} /\ index' \in Nat
      /\ sift' # "none" => index' \in 1 .. Len(heap')
  <2>1. CASE Size = 1
    <3>1. heap' = <<>> /\ UNCHANGED <<heap_index, sift, index>>
      BY <2>1 DEF Expires
    <3>2. Len(heap') = 0 /\ heap' \in Seq(Entry)
      BY <3>1
    <3>3. mapped \ {t} = {}
      BY <2>1 DEF PlacesRight, MapRight, Places, Size, t
    <3>4. QED
      BY <1>1, <3>1, <3>2, <3>3 DEF Places, TypeOK
  <2>2. CASE Size # 1
    <3>1. /\ heap' = PopBack(SwappedEntries(1, Size))
          /\ heap_index' = SwappedIndexes(1, Size)
          /\ sift' = "down" /\ index' = 1
      BY <2>2 DEF Expires
    <3>2. heap_index' \in [Timers -> Nat]
      BY <1>1, <3>1, SwapKeepsPlaces
    <3>3. /\ heap' \in Seq(Entry) /\ Len(heap') = Size - 1
          /\ Places(heap', heap_index', mapped \ {t})
      BY <1>1, <3>1, <3>2, DropKeepsPlaces, Zenon DEF t
    <3>4. QED
      BY <1>1, <2>2, <3>1, <3>2, <3>3
  <2>3. QED
    BY <2>1, <2>2
<1>4. MapRight' /\ SiftInBounds' /\ OneToAdd'
  BY <1>1, <1>2, <1>3 DEF PlacesRight, MapRight, SiftInBounds, Size, OneToAdd
<1>5. TypeOK'
  BY <1>1, <1>2, <1>3 DEF TypeOK
<1>6. OwnIsOut'
  BY <1>1, <1>2 DEF OwnIsOut
<1>7. QED
  BY <1>4, <1>5, <1>6 DEF PlacesRight

(* A callback returns, and its timer is on its way back if it repeats.     *)
LEMMA CallbackReturnsKeepsPlaces ==
  ASSUME PlacesRight, CallbackReturns PROVE PlacesRight'
<1>1. /\ TypeOK /\ toAdd = <<>> /\ check = "callback" /\ check' = "loop"
      /\ expired \in Timers /\ expired' = "nullptr"
      /\ period[expired] # Never => expired \notin mapped
      /\ UNCHANGED <<heap, heap_index, mapped, active, period, now, sift, index>>
  BY DEF CallbackReturns, Quiet, PlacesRight, OwnIsOut
<1>2. MapRight' /\ SiftInBounds' /\ OwnIsOut'
  BY <1>1 DEF PlacesRight, MapRight, SiftInBounds, OwnIsOut, Size
<1>3. CASE period[expired] = Never
  <2>1. UNCHANGED <<toAdd, deadline>>
    BY <1>3 DEF CallbackReturns
  <2>2. QED
    BY <1>1, <1>2, <2>1 DEF PlacesRight, TypeOK, OneToAdd
<1>4. CASE period[expired] # Never
  <2> DEFINE e == [expire_time |-> now + period[expired], timer |-> expired]
  <2>1. /\ toAdd' = <<e>>
        /\ deadline' = [deadline EXCEPT ![expired] =
             IF @ = Never THEN Never ELSE now + period[expired]]
    BY <1>4 DEF CallbackReturns
  <2>2. now + period[expired] \in Nat
    BY <1>1, <1>4 DEF TypeOK
  <2>3. e \in Entry /\ e.timer = expired
    BY <1>1, <2>2 DEF Entry
  <2>4. deadline' \in [Timers -> Nat \union {Never}]
    BY <1>1, <2>1, <2>2 DEF TypeOK
  <2> HIDE DEF e
  <2>5. toAdd' \in Seq(Entry) /\ Len(toAdd') = 1 /\ Head(toAdd') = e
    BY <2>1, <2>3
  <2>6. TypeOK' /\ OneToAdd'
    BY <1>1, <1>4, <2>3, <2>4, <2>5 DEF TypeOK, OneToAdd
  <2>7. QED
    BY <1>2, <2>6 DEF PlacesRight
<1>5. QED
  BY <1>3, <1>4

LEMMA PlacesInductive ==
  ASSUME ~OwnRepeat, PlacesRight, [Next]_vars PROVE PlacesRight'
<1>1. CASE HeapSiftUp \/ HeapSiftDown
  BY <1>1, SiftKeepsPlaces
<1>2. CASE AddTimer
  BY <1>2, AddKeepsPlaces
<1>3. ASSUME NEW t \in Timers,
             StopTimer(t) \/ \E d \in Durations, r \in BOOLEAN : StartTimer(t, d, r)
      PROVE  PlacesRight'
  BY <1>3, UserKeepsPlaces
<1>4. CASE Expires
  BY <1>4, ExpiresKeepsPlaces
<1>5. CASE CallbackReturns
  BY <1>5, CallbackReturnsKeepsPlaces
<1>6. CASE CheckTimerExpiry \/ CheckReturns \/ Tick \/ UNCHANGED vars
  <2>1. /\ UNCHANGED <<heap, heap_index, mapped, active, period, sift, index,
                       toAdd, expired, deadline>>
        /\ check' \in {"out", "loop"} \/ check' = check
        /\ now' = now \/ now' = now + 1
    BY <1>6 DEF CheckTimerExpiry, CheckReturns, Tick, vars
  <2>2. TypeOK'
    BY <2>1 DEF PlacesRight, TypeOK
  <2>3. QED
    BY <2>1, <2>2 DEF PlacesRight, MapRight, SiftInBounds, OneToAdd, OwnIsOut, Size
<1>7. QED
  BY <1>1, <1>2, <1>3, <1>4, <1>5, <1>6, Zenon DEF Next

LEMMA PlacesInvariant == ASSUME ~OwnRepeat PROVE Spec => []PlacesRight
<1>1. Init => PlacesRight
  <2> SUFFICES ASSUME Init PROVE PlacesRight
    OBVIOUS
  <2>1. <<>> \in Seq(Entry) /\ Len(<<>>) = 0
    OBVIOUS
  <2>2. TypeOK
    BY <2>1 DEF Init, TypeOK
  <2>3. QED
    BY <2>1, <2>2 DEF Init, PlacesRight, MapRight, Places, SiftInBounds, OneToAdd, OwnIsOut
<1>2. PlacesRight /\ [Next]_vars => PlacesRight'
  BY PlacesInductive
<1>3. QED
  BY <1>1, <1>2, PTL DEF Spec

(* Every variable keeps its type, if no callback stops its own repeating   *)
(* timer or restarts it as a repeating one.                                *)
THEOREM TypeCorrect == ASSUME ~OwnRepeat PROVE Spec => []TypeOK
<1>1. PlacesRight => TypeOK
  BY DEF PlacesRight
<1>2. QED
  BY <1>1, PlacesInvariant, PTL

(* A timer knows its place in the heap after any sequence of starts, stops *)
(* and expiries: remove_timer never takes out another one.                 *)
THEOREM TimersKnowTheirPlace == ASSUME ~OwnRepeat PROVE Spec => []IndexesRight
<1>1. PlacesRight => IndexesRight
  BY DEF PlacesRight, MapRight, Places, IndexesRight, Size
<1>2. QED
  BY <1>1, PlacesInvariant, PTL
----------------------------------------------------------------------------
(* The order of the heap.                                                  *)

\* The expiry times of the vector are numbers.
LEMMA ExpireType ==
  ASSUME TypeOK PROVE Size \in Nat /\ \A i \in 1 .. Size : Expire(i) \in Nat
<1>1. \A i \in 1 .. Size : heap[i] \in Entry
  BY ElementOfSeq DEF TypeOK, Size
<1>2. QED
  BY <1>1 DEF TypeOK, Size, Expire, Entry

(* The iteration that moves the entry up: its old parent is not later than *)
(* its new sibling and its new children.                                   *)
LEMMA SiftUpKeepsOrder ==
  ASSUME PlacesRight, HeapOrdered, HeapSiftUp PROVE HeapOrdered'
<1>1. /\ Size \in Nat /\ \A i \in 1 .. Size : Expire(i) \in Nat
      /\ sift = "up" /\ index \in 1 .. Size
  BY ExpireType DEF PlacesRight, SiftInBounds, HeapSiftUp
<1>2. CASE index <= 1 \/ Expire(index) > Expire(index \div 2)
  <2>1. UNCHANGED <<heap, index>> /\ sift' = "none"
    BY <1>2 DEF HeapSiftUp
  <2>2. ASSUME NEW i \in 2 .. Size PROVE Expire(i \div 2) <= Expire(i)
    <3>1. i \div 2 \in 1 .. Size
      BY <1>1, Halves
    <3>2. QED
      BY <1>1, <1>2, <3>1 DEF HeapOrdered
  <2>3. QED
    BY <2>1, <2>2 DEF HeapOrdered, Expire, Size
<1>3. CASE ~(index <= 1 \/ Expire(index) > Expire(index \div 2))
  <2> DEFINE p == index \div 2
  <2>1. /\ p \in 1 .. Size /\ p # index /\ Expire(index) <= Expire(p)
        /\ index >= 2
    BY <1>1, <1>3
  <2>2. index' = p /\ sift' = "up" /\ heap' = SwappedEntries(p, index)
    BY <1>1, <1>3 DEF HeapSiftUp, SwapHeapEntry
  <2>3. /\ Size' = Size
        /\ \A k \in 1 .. Size : Expire(k)' =
             IF k = index THEN Expire(p) ELSE IF k = p THEN Expire(index) ELSE Expire(k)
    BY <1>1, <2>1, <2>2, SwapEntries DEF Size, Expire, PlacesRight, TypeOK
  <2>4. ASSUME NEW i \in 2 .. Size, i # p
        PROVE  Expire(i \div 2)' <= Expire(i)'
    <3>1. i \div 2 \in 1 .. Size /\ i \div 2 < i
      BY <1>1, Halves
    <3>2. CASE i = index
      BY <1>1, <2>1, <2>3, <3>1, <3>2
    <3>3. CASE i # index /\ i \div 2 = index
      <4>1. i \div 4 = p /\ i \in 4 .. Size
        BY <1>1, <2>1, <3>3
      <4>2. Expire(p) <= Expire(i)
        BY <1>1, <3>3, <4>1 DEF HeapOrdered
      <4>3. QED
        BY <1>1, <2>1, <2>3, <2>4, <3>1, <3>3, <4>2
    <3>4. CASE i # index /\ i \div 2 # index
      <4>1. Expire(i \div 2) <= Expire(i)
        BY <1>1, <3>4 DEF HeapOrdered
      <4>2. QED
        BY <1>1, <2>1, <2>3, <2>4, <3>1, <3>4, <4>1
    <3>5. QED
      BY <3>2, <3>3, <3>4
  <2>5. ASSUME NEW i \in 4 .. Size, i \div 2 = p
        PROVE  Expire(i \div 4)' <= Expire(i)'
    <3>1. /\ i \div 4 = p \div 2 /\ p \div 2 \in 1 .. Size /\ p \div 2 < p /\ p < index
          /\ p \in 2 .. Size /\ i # p /\ i \in 2 .. Size
      BY <1>1, <2>1, <2>5
    <3>2. PICK q \in 1 .. Size : q = p \div 2
      BY <3>1
    <3>3. Expire(q) <= Expire(p)
      BY <1>1, <2>1, <3>1, <3>2 DEF HeapOrdered
    <3>4. i # index => Expire(p) <= Expire(i)
      BY <1>1, <2>5, <3>1 DEF HeapOrdered
    <3>5. Expire(i)' = IF i = index THEN Expire(p) ELSE Expire(i)
      BY <2>3, <3>1
    <3>6. Expire(q)' = Expire(q)
      BY <2>3, <3>1, <3>2
    <3>7. Expire(q)' <= Expire(i)'
      BY <1>1, <2>1, <3>1, <3>3, <3>4, <3>5, <3>6
    <3>8. QED
      BY <3>1, <3>2, <3>7
  <2> HIDE DEF p
  <2>6. QED
    BY <1>1, <2>2, <2>3, <2>4, <2>5 DEF HeapOrdered
<1>4. QED
  BY <1>2, <1>3

(* The iteration that moves the entry down: the child that takes its place *)
(* is not later than the other one.                                        *)
LEMMA SiftDownKeepsOrder ==
  ASSUME PlacesRight, HeapOrdered, HeapSiftDown PROVE HeapOrdered'
<1> DEFINE c == MinChild(index)
<1>1. /\ Size \in Nat /\ \A i \in 1 .. Size : Expire(i) \in Nat
      /\ sift = "down" /\ index \in 1 .. Size /\ TypeOK
  BY ExpireType DEF PlacesRight, SiftInBounds, HeapSiftDown
<1>2. ASSUME 2 * index <= Size
      PROVE  /\ c \in 1 .. Size /\ c # index /\ c \div 2 = index /\ c > index
             /\ \A i \in 2 .. Size : i \div 2 = index => Expire(c) <= Expire(i)
  <2>1. c \in 1 .. Size /\ c # index /\ c \div 2 = index
    BY <1>1, <1>2, ChildInBounds
  <2>2. ASSUME NEW i \in 2 .. Size, i \div 2 = index PROVE Expire(c) <= Expire(i)
    <3>1. i = 2 * index \/ i = 2 * index + 1
      BY <1>1, <2>2
    <3>2. QED
      BY <1>1, <1>2, <3>1 DEF MinChild
  <2>3. c > index
    BY <1>1, <2>1, Halves
  <2> HIDE DEF c
  <2>4. QED
    BY <2>1, <2>2, <2>3
<1>3. CASE 2 * index > Size \/ Expire(index) < Expire(c)
  <2>1. UNCHANGED <<heap, index>> /\ sift' = "none"
    BY <1>3 DEF HeapSiftDown
  <2>2. ASSUME NEW i \in 2 .. Size PROVE Expire(i \div 2) <= Expire(i)
    <3>1. i \div 2 \in 1 .. Size
      BY <1>1, Halves
    <3>2. CASE i \div 2 = index
      <4>1. 2 * index <= Size
        BY <1>1, <3>2, Halves
      <4>2. Expire(index) < Expire(c) /\ Expire(c) <= Expire(i) /\ c \in 1 .. Size
        BY <1>1, <1>2, <1>3, <3>2, <4>1
      <4> HIDE DEF c
      <4>3. QED
        BY <1>1, <3>2, <4>2
    <3>3. CASE i \div 2 # index
      BY <1>1, <3>3 DEF HeapOrdered
    <3>4. QED
      BY <3>2, <3>3
  <2>3. QED
    BY <2>1, <2>2 DEF HeapOrdered, Expire, Size
<1>4. CASE ~(2 * index > Size \/ Expire(index) < Expire(c))
  <2>1. /\ c \in 1 .. Size /\ c # index /\ c \div 2 = index /\ c > index
        /\ \A i \in 2 .. Size : i \div 2 = index => Expire(c) <= Expire(i)
        /\ Expire(c) <= Expire(index)
    BY <1>1, <1>2, <1>4
  <2>2. index' = c /\ sift' = "down" /\ heap' = SwappedEntries(index, c)
    BY <1>1, <1>4, <2>1 DEF HeapSiftDown, SwapHeapEntry, PlacesRight, MapRight, Places, Size
  <2> HIDE DEF c
  <2>3. /\ Size' = Size
        /\ \A k \in 1 .. Size : Expire(k)' =
             IF k = c THEN Expire(index) ELSE IF k = index THEN Expire(c) ELSE Expire(k)
    BY <1>1, <2>1, <2>2, SwapEntries DEF Size, Expire, TypeOK
  <2>4. ASSUME NEW i \in 2 .. Size, i \div 2 # c
        PROVE  Expire(i \div 2)' <= Expire(i)'
    <3>1. i \div 2 \in 1 .. Size /\ i \div 2 < i
      BY <1>1, Halves
    <3>2. CASE i \div 2 = index
      BY <1>1, <2>1, <2>3, <3>1, <3>2
    <3>3. CASE i = index
      <4>1. c \in 4 .. Size /\ c \div 4 = i \div 2
        BY <1>1, <2>1, <3>3
      <4>2. Expire(i \div 2) <= Expire(c)
        BY <1>1, <2>1, <4>1 DEF HeapOrdered
      <4>3. QED
        BY <1>1, <2>1, <2>3, <2>4, <3>1, <3>3, <4>2
    <3>4. CASE i \div 2 # index /\ i # index
      <4>1. Expire(i \div 2) <= Expire(i) /\ i # c
        BY <1>1, <2>1, <3>4 DEF HeapOrdered
      <4>2. QED
        BY <1>1, <2>1, <2>3, <2>4, <3>1, <3>4, <4>1
    <3>5. QED
      BY <3>2, <3>3, <3>4
  <2>5. ASSUME NEW i \in 4 .. Size, i \div 2 = c
        PROVE  Expire(i \div 4)' <= Expire(i)'
    <3>1. i \div 4 = index /\ i # c /\ i # index /\ i \in 2 .. Size
      BY <1>1, <2>1, <2>5
    <3>2. Expire(c) <= Expire(i)
      BY <1>1, <2>1, <2>5, <3>1 DEF HeapOrdered
    <3>3. QED
      BY <1>1, <2>1, <2>3, <3>1, <3>2
  <2>6. QED
    BY <1>1, <2>2, <2>3, <2>4, <2>5 DEF HeapOrdered
<1>5. QED
  BY <1>3, <1>4

(* An entry gone, and the last one in its place: what is left is in order  *)
(* but for that entry, and its children are in order with its parent.      *)
LEMMA GapKeepsOrder ==
  ASSUME TypeOK, HeapOrdered, sift = "none", NEW g \in 1 .. Size,
         Size' = Size - 1,
         \A k \in 1 .. Size - 1 : heap'[k] = IF k = g THEN heap[Size] ELSE heap[k],
         \/ g = Size /\ sift' = "none"
         \/ g # Size /\ sift' = SiftFromGap(g) /\ index' = g
  PROVE  HeapOrdered'
<1>1. Size \in Nat /\ \A i \in 1 .. Size : Expire(i) \in Nat
  BY ExpireType
<1>2. \A k \in 1 .. Size - 1 : Expire(k)' = IF k = g THEN Expire(Size) ELSE Expire(k)
  BY DEF Expire
<1>3. \A i \in 2 .. Size : Expire(i \div 2) <= Expire(i)
  BY DEF HeapOrdered
<1>4. ASSUME NEW i \in 2 .. Size - 1, i # g, i \div 2 # g
      PROVE  Expire(i \div 2)' <= Expire(i)'
  <2>1. i \div 2 \in 1 .. Size - 1 /\ i \in 1 .. Size - 1 /\ i \in 2 .. Size
    BY <1>1, Halves
  <2>2. QED
    BY <1>1, <1>2, <1>3, <1>4, <2>1
<1>5. CASE g = Size
  <2>1. ASSUME NEW i \in 2 .. Size - 1 PROVE i # g /\ i \div 2 # g
    BY <1>1, <1>5, Halves
  <2>2. QED
    BY <1>4, <1>5, <2>1 DEF HeapOrdered
<1>6. CASE g # Size
  <2>1. ASSUME NEW i \in 4 .. Size - 1, i \div 2 = g
        PROVE  Expire(i \div 4)' <= Expire(i)'
    <3>1. PICK q \in 1 .. Size - 1 : q = g \div 2 /\ i \div 4 = q /\ q # g /\ i # g
      BY <1>1, <2>1
    <3>2. g \in 2 .. Size /\ i \in 2 .. Size
      BY <1>1, <2>1
    <3>3. Expire(q) <= Expire(g) /\ Expire(g) <= Expire(i)
      BY <1>3, <2>1, <3>1, <3>2
    <3>4. Expire(q)' = Expire(q) /\ Expire(i)' = Expire(i)
      BY <1>2, <3>1
    <3>5. Expire(q) \in Nat /\ Expire(g) \in Nat /\ Expire(i) \in Nat
      BY <1>1, <3>1
    <3>6. Expire(q)' <= Expire(i)'
      BY <3>3, <3>4, <3>5
    <3>7. QED
      BY <3>1, <3>6
  <2>2. CASE g > 1 /\ Expire(Size) < Expire(g \div 2)
    <3>1. sift' = "up" /\ index' = g
      BY <1>6, <2>2 DEF SiftFromGap
    <3>2. ASSUME NEW i \in 2 .. Size - 1, i \div 2 = g
          PROVE  Expire(i \div 2)' <= Expire(i)'
      <4>1. PICK q \in 1 .. Size : q = g \div 2
        BY <1>1, <2>2
      <4>2. Expire(q) <= Expire(g) /\ Expire(g) <= Expire(i) /\ Expire(Size) < Expire(q)
        BY <1>1, <1>3, <2>2, <3>2, <4>1
      <4>3. Expire(g)' = Expire(Size) /\ Expire(i)' = Expire(i)
        <5>1. i # g /\ g \in 1 .. Size - 1 /\ i \in 1 .. Size - 1
          BY <1>1, <1>6, <3>2
        <5>2. QED
          BY <1>2, <5>1
      <4>4. /\ Expire(q) \in Nat /\ Expire(g) \in Nat /\ Expire(i) \in Nat
            /\ Expire(Size) \in Nat
        BY <1>1
      <4>5. Expire(g)' <= Expire(i)'
        BY <4>2, <4>3, <4>4
      <4>6. QED
        BY <3>2, <4>5
    <3>3. QED
      BY <1>4, <2>1, <3>1, <3>2 DEF HeapOrdered
  <2>3. CASE ~(g > 1 /\ Expire(Size) < Expire(g \div 2))
    <3>1. sift' = "down" /\ index' = g
      BY <1>6, <2>3 DEF SiftFromGap
    <3>2. ASSUME g \in 2 .. Size - 1 PROVE Expire(g \div 2)' <= Expire(g)'
      <4>1. PICK q \in 1 .. Size - 1 : q = g \div 2 /\ q # g
        BY <1>1, <3>2, Halves
      <4>2. Expire(q) <= Expire(Size)
        BY <1>1, <2>3, <3>2, <4>1
      <4>3. Expire(q)' = Expire(q) /\ Expire(g)' = Expire(Size)
        BY <1>1, <1>2, <3>2, <4>1
      <4>4. QED
        BY <4>1, <4>2, <4>3
    <3>3. QED
      BY <1>4, <2>1, <3>1, <3>2 DEF HeapOrdered
  <2>4. QED
    BY <2>2, <2>3
<1>7. QED
  BY <1>5, <1>6

LEMMA OrderInductive ==
  ASSUME ~OwnRepeat, PlacesRight, HeapOrdered, [Next]_vars PROVE HeapOrdered'
<1>1. /\ TypeOK /\ MapRight /\ Size \in Nat /\ \A i \in 1 .. Size : Expire(i) \in Nat
  BY ExpireType DEF PlacesRight
<1>2. ASSUME UNCHANGED <<heap, sift, index>> PROVE HeapOrdered'
  BY <1>2 DEF HeapOrdered, Expire, Size
<1>3. CASE HeapSiftUp \/ HeapSiftDown
  BY <1>3, SiftUpKeepsOrder, SiftDownKeepsOrder
<1>4. CASE AddTimer
  <2>1. toAdd # <<>> /\ sift = "none" /\ sift' = "up" /\ index' = Size + 1
    BY <1>4 DEF AddTimer
  <2>2. Head(toAdd) \in Entry /\ heap \in Seq(Entry)
    BY <1>1, <2>1, HeadTailProperties, Zenon DEF TypeOK
  <2>3. /\ Size' = Size + 1
        /\ \A k \in 1 .. Size : heap'[k] = heap[k]
    BY <1>4, <2>2, AppendProperties DEF AddTimer, Size
  <2>4. \A k \in 1 .. Size : Expire(k)' = Expire(k)
    BY <2>3 DEF Expire
  <2>5. ASSUME NEW i \in 2 .. Size + 1, i # Size + 1 PROVE Expire(i \div 2)' <= Expire(i)'
    <3>1. i \div 2 \in 1 .. Size /\ i \in 2 .. Size /\ i \in 1 .. Size
      BY <1>1, <2>5, Halves
    <3>2. QED
      BY <2>1, <2>4, <3>1 DEF HeapOrdered
  <2>6. \A i \in 4 .. Size + 1 : i \div 2 # Size + 1
    BY <1>1, Halves
  <2>7. QED
    BY <2>1, <2>3, <2>5, <2>6 DEF HeapOrdered
<1>5. ASSUME NEW t \in Timers,
             StopTimer(t) \/ \E d \in Durations, r \in BOOLEAN : StartTimer(t, d, r)
      PROVE  HeapOrdered'
  <2>1. sift = "none"
    BY <1>5 DEF StopTimer, StartTimer, InUserCode, Quiet
  <2>2. CASE UNCHANGED <<heap, sift, index>>
    BY <1>2, <2>2
  <2>3. CASE t \in mapped /\ RemoveTimer(t)
    <3> DEFINE g == heap_index[t]
    <3>1. /\ Size' = Size - 1 /\ g \in 1 .. Size
          /\ \A k \in 1 .. Size - 1 : heap'[k] = IF k = g THEN heap[Size] ELSE heap[k]
      BY <1>1, <2>1, <2>3, RemoveKeepsPlaces DEF Size
    <3>2. \/ g = Size /\ sift' = "none"
          \/ g # Size /\ sift' = SiftFromGap(g) /\ index' = g
      BY <2>1, <2>3 DEF RemoveTimer
    <3> HIDE DEF g
    <3>3. QED
      BY <1>1, <2>1, <3>1, <3>2, GapKeepsOrder
  <2>4. QED
    BY <1>5, <2>2, <2>3 DEF StopTimer, StartTimer
<1>6. CASE Expires
  <2>1. sift = "none" /\ heap # <<>>
    BY <1>6 DEF Expires, Quiet, TopIsDue
  <2>2. Size \in Nat \ {0}
    BY <1>1, <2>1, EmptySeq DEF TypeOK, Size
  <2>3. 1 \in 1 .. Size
    BY <2>2
  <2>4. CASE Size = 1
    <3>1. Size' = 0
      BY <1>6, <2>4 DEF Expires, Size
    <3>2. sift' = "none"
      BY <1>6, <2>1, <2>4 DEF Expires
    <3>3. QED
      BY <3>1, <3>2 DEF HeapOrdered
  <2>5. CASE Size # 1
    <3>1. /\ heap' = PopBack(SwappedEntries(1, Size))
          /\ heap_index' = SwappedIndexes(1, Size)
          /\ sift' = "down" /\ index' = 1
      BY <1>6, <2>5 DEF Expires
    <3>2. SwappedIndexes(1, Size) \in [Timers -> Nat] /\ Size \in 1 .. Size
      BY <1>1, <2>3, SwapKeepsPlaces
    <3>3. /\ Len(PopBack(SwappedEntries(1, Size))) = Size - 1
          /\ \A k \in 1 .. Size - 1 : PopBack(SwappedEntries(1, Size))[k] =
               IF k = 1 THEN heap[Size] ELSE heap[k]
      BY <1>1, <2>3, <3>2, DropKeepsPlaces, Zenon
    <3>4. sift' = SiftFromGap(1) /\ Size' = Size - 1
      BY <3>1, <3>3 DEF SiftFromGap, Size
    <3>5. QED
      BY <1>1, <2>1, <2>3, <2>5, <3>1, <3>3, <3>4, GapKeepsOrder
  <2>6. QED
    BY <2>4, <2>5
<1>7. CASE CallbackReturns \/ CheckTimerExpiry \/ CheckReturns \/ Tick \/ UNCHANGED vars
  BY <1>2, <1>7 DEF CallbackReturns, CheckTimerExpiry, CheckReturns, Tick, vars
<1>8. QED
  BY <1>3, <1>4, <1>5, <1>6, <1>7, Zenon DEF Next

(* The heap is in order after any sequence of operations, while an entry   *)
(* is sifted but for that entry: whichever entry is removed, and wherever  *)
(* the one comes from that fills its place.                                *)
THEOREM HeapInOrder == ASSUME ~OwnRepeat PROVE Spec => []HeapOrdered
<1>1. Init => HeapOrdered
  <2>1. Len(<<>>) = 0
    OBVIOUS
  <2>2. QED
    BY <2>1 DEF Init, HeapOrdered, Size
<1>2. PlacesRight /\ HeapOrdered /\ [Next]_vars => HeapOrdered'
  BY OrderInductive
<1>3. QED
  BY <1>1, <1>2, PlacesInvariant, PTL DEF Spec
----------------------------------------------------------------------------
(* What the user waits for.                                                *)

\* The entries h expire when d says.
DueAt(h, d) == \A k \in 1 .. Len(h) : d[h[k].timer] = h[k].expire_time

\* Where a timer is that the user waits for: in the heap, on its way into
\* it, or in its own callback, which arms it again.
ToBeAdded(t) == toAdd # <<>> /\ Head(toAdd).timer = t
Rearms(t) == check = "callback" /\ t = expired /\ period[t] # Never

AwaitedRight ==
  /\ DueAt(heap, deadline)
  /\ toAdd # <<>> => deadline[Head(toAdd).timer] = Head(toAdd).expire_time
  /\ \A t \in Timers :
       /\ deadline[t] # Never => t \in mapped \/ ToBeAdded(t) \/ Rearms(t)
       /\ Rearms(t) => deadline[t] # Never

(* Exchanging two entries changes nothing for the timers.                  *)
LEMMA SwapKeepsDue ==
  ASSUME TypeOK, DueAt(heap, deadline), NEW i \in 1 .. Size, NEW j \in 1 .. Size
  PROVE  DueAt(SwappedEntries(i, j), deadline)
<1>1. /\ Len(SwappedEntries(i, j)) = Size
      /\ \A k \in 1 .. Size : SwappedEntries(i, j)[k] =
           IF k = j THEN heap[i] ELSE IF k = i THEN heap[j] ELSE heap[k]
  BY SwapEntries DEF TypeOK
<1>2. \A k \in 1 .. Size : deadline[heap[k].timer] = heap[k].expire_time
  BY DEF DueAt, Size
<1>3. QED
  BY <1>1, <1>2 DEF DueAt

(* An entry gone, and the last one in its place: the others are as due as  *)
(* they were, whatever becomes of the deadline of the one that went.       *)
LEMMA GapKeepsDue ==
  ASSUME PlacesRight, PlacesRight', DueAt(heap, deadline), NEW t \in Timers, NEW g,
         Size' = Size - 1, mapped' = mapped \ {t},
         \A k \in 1 .. Size - 1 : heap'[k] = IF k = g THEN heap[Size] ELSE heap[k],
         \A u \in Timers : u # t => deadline'[u] = deadline[u]
  PROVE  DueAt(heap', deadline')
<1>1. Size \in Nat /\ \A k \in 1 .. Size : heap[k].timer \in Timers
  BY DEF PlacesRight, MapRight, Places, TypeOK, Size
<1>2. \A k \in 1 .. Size : deadline[heap[k].timer] = heap[k].expire_time
  BY DEF DueAt, Size
<1>3. \A k \in 1 .. Size - 1 : heap'[k].timer \in mapped'
  BY DEF PlacesRight, MapRight, Places, Size
<1>4. ASSUME NEW k \in 1 .. Size - 1
      PROVE  deadline'[heap'[k].timer] = heap'[k].expire_time
  <2>1. PICK m \in 1 .. Size : heap'[k] = heap[m]
    <3>1. k \in 1 .. Size /\ Size \in 1 .. Size
      BY <1>1
    <3>2. QED
      BY <3>1
  <2>2. heap[m].timer # t /\ heap[m].timer \in Timers
    BY <1>1, <1>3, <2>1
  <2>3. QED
    BY <1>2, <2>1, <2>2
<1>5. QED
  BY <1>4 DEF DueAt, Size

\* A timer is added: it is due when the user expects it.
LEMMA AddKeepsAwaited ==
  ASSUME PlacesRight, AwaitedRight, AddTimer PROVE AwaitedRight'
<1> DEFINE e == Head(toAdd)
<1>1. /\ toAdd # <<>> /\ toAdd \in Seq(Entry) /\ heap \in Seq(Entry) /\ Len(toAdd) <= 1
      /\ e \in Entry
  BY HeadTailProperties, Zenon DEF AddTimer, PlacesRight, TypeOK, OneToAdd
<1>2. toAdd' = <<>>
  <2>1. Len(toAdd) \in Nat /\ Len(toAdd) # 0
    BY <1>1, EmptySeq
  <2>2. toAdd' = Tail(toAdd) /\ Tail(toAdd) \in Seq(Entry) /\ Len(Tail(toAdd)) = Len(toAdd) - 1
    BY <1>1, HeadTailProperties, Zenon DEF AddTimer
  <2>3. Len(toAdd') = 0 /\ toAdd' \in Seq(Entry)
    BY <1>1, <2>1, <2>2
  <2>4. QED
    BY <2>3, EmptySeq
<1>3. deadline[e.timer] = e.expire_time
  BY <1>1 DEF AwaitedRight
<1>4. /\ UNCHANGED <<check, period, expired, deadline>>
      /\ mapped' = mapped \union {e.timer} /\ heap' = Append(heap, e)
  BY DEF AddTimer
<1> HIDE DEF e
<1>5. Size \in Nat /\ Len(heap') = Size + 1 /\ heap'[Size + 1] = e
      /\ \A k \in 1 .. Size : heap'[k] = heap[k]
  BY <1>1, <1>4, AppendProperties DEF Size
<1>6. DueAt(heap', deadline')
  BY <1>3, <1>4, <1>5 DEF AwaitedRight, DueAt, Size
<1>7. ASSUME NEW t \in Timers
      PROVE  /\ deadline'[t] # Never => t \in mapped' \/ Rearms(t)'
             /\ Rearms(t)' => deadline'[t] # Never
  <2>1. /\ deadline[t] # Never => t \in mapped \/ ToBeAdded(t) \/ Rearms(t)
        /\ Rearms(t) => deadline[t] # Never
    BY DEF AwaitedRight
  <2>2. ToBeAdded(t) => t = e.timer
    BY DEF ToBeAdded, e
  <2>3. QED
    BY <1>4, <2>1, <2>2 DEF Rearms
<1>8. QED
  BY <1>2, <1>6, <1>7 DEF AwaitedRight

\* start_timer and stop.
LEMMA UserKeepsAwaited ==
  ASSUME ~OwnRepeat, PlacesRight, PlacesRight', AwaitedRight, NEW t \in Timers,
         StopTimer(t) \/ \E d \in Durations, r \in BOOLEAN : StartTimer(t, d, r)
  PROVE  AwaitedRight'
<1>1. TypeOK /\ MapRight /\ sift = "none" /\ toAdd = <<>> /\ mapped \subseteq Timers
  BY DEF PlacesRight, StopTimer, StartTimer, InUserCode, Quiet, TypeOK
<1>2. /\ UNCHANGED <<now, check, expired>>
      /\ \A u \in Timers : u # t => deadline'[u] = deadline[u]
      /\ \A u \in Timers : u # t => period'[u] = period[u]
  BY <1>1 DEF StopTimer, StartTimer, TypeOK
<1>3. mapped' = mapped \ {t} /\ DueAt(heap', deadline')
  <2>1. active = mapped
    BY <1>1 DEF MapRight
  <2>2. CASE t \in mapped
    <3>1. RemoveTimer(t)
      BY <2>1, <2>2 DEF StopTimer, StartTimer
    <3>2. /\ mapped' = mapped \ {t} /\ Size' = Size - 1
          /\ \A k \in 1 .. Size - 1 :
               heap'[k] = IF k = heap_index[t] THEN heap[Size] ELSE heap[k]
      BY <1>1, <2>2, <3>1, RemoveKeepsPlaces DEF Size
    <3>3. DueAt(heap, deadline)
      BY DEF AwaitedRight
    <3>4. \A u \in Timers : u # t => deadline'[u] = deadline[u]
      BY <1>2
    <3>5. QED
      BY <3>2, <3>3, <3>4, GapKeepsDue, SMTT(30)
  <2>3. CASE t \notin mapped
    <3>1. UNCHANGED <<heap, mapped>>
      BY <2>1, <2>3 DEF StopTimer, StartTimer
    <3>2. \A k \in 1 .. Len(heap) : heap[k].timer \in Timers /\ heap[k].timer # t
      BY <1>1, <2>3 DEF MapRight, Places
    <3>3. DueAt(heap, deadline)
      BY DEF AwaitedRight
    <3>4. QED
      BY <1>2, <2>3, <3>1, <3>2, <3>3 DEF DueAt
  <2>4. QED
    BY <2>2, <2>3
<1>4. \A u \in Timers : u # t =>
        /\ Rearms(u)' = Rearms(u)
        /\ deadline'[u] # Never => u \in mapped' \/ Rearms(u)'
        /\ Rearms(u)' => deadline'[u] # Never
  BY <1>1, <1>2, <1>3 DEF AwaitedRight, Rearms, ToBeAdded
<1>5. CASE StopTimer(t)
  <2>1. toAdd' = <<>> /\ period' = period /\ deadline'[t] = Never
    BY <1>1, <1>5 DEF StopTimer, TypeOK
  <2>2. ~Rearms(t)'
    BY <1>2, <1>5, <2>1 DEF StopTimer, Own, Rearms
  <2>3. QED
    BY <1>3, <1>4, <2>1, <2>2 DEF AwaitedRight
<1>6. ASSUME NEW d \in Durations, NEW r \in BOOLEAN, StartTimer(t, d, r)
      PROVE  AwaitedRight'
  <2> DEFINE e == [expire_time |-> now + d, timer |-> t]
  <2>1. toAdd' = <<e>> /\ deadline'[t] = now + d
    BY <1>1, <1>6 DEF StartTimer, TypeOK
  <2>2. e.timer = t /\ e.expire_time = now + d
    OBVIOUS
  <2>3. Own(t) => period'[t] = Never
    BY <1>1, <1>6 DEF StartTimer, TypeOK
  <2>4. now + d \in Nat /\ now + d # Never
    BY <1>1, ConstantsAssumption DEF TypeOK, Never
  <2> HIDE DEF e
  <2>5. toAdd' # <<>> /\ Head(toAdd') = e
    BY <2>1
  <2>6. ~Rearms(t)'
    BY <1>2, <2>3 DEF Rearms, Own
  <2>7. ToBeAdded(t)'
    BY <2>2, <2>5 DEF ToBeAdded
  <2>8. QED
    BY <1>3, <1>4, <2>1, <2>2, <2>5, <2>6, <2>7 DEF AwaitedRight
<1>7. QED
  BY <1>5, <1>6

\* The top of the heap expires: the user waits for it no longer, unless it
\* repeats.
LEMMA ExpiresKeepsAwaited ==
  ASSUME PlacesRight, PlacesRight', AwaitedRight, Expires PROVE AwaitedRight'
<1> DEFINE t == heap[1].timer
<1>1. /\ TypeOK /\ MapRight /\ toAdd = <<>> /\ toAdd' = <<>>
      /\ check = "loop" /\ Size \in Nat /\ 1 \in 1 .. Size
  <2>1. heap \in Seq(Entry) /\ heap # <<>>
    BY DEF Expires, TopIsDue, PlacesRight, TypeOK
  <2>2. Size \in Nat \ {0}
    BY <2>1, EmptySeq DEF Size
  <2>3. 1 \in 1 .. Size /\ Size \in Nat
    BY <2>2
  <2>4. QED
    BY <2>1, <2>3 DEF Expires, Quiet, PlacesRight
<1>2. /\ t \in Timers /\ t \in mapped /\ heap[1] \in Entry
      /\ deadline[t] = heap[1].expire_time
  BY <1>1, ElementOfSeq DEF MapRight, Places, TypeOK, Size, AwaitedRight, DueAt
<1>3. deadline[t] # Never
  BY <1>2 DEF Entry, Never
<1>4. /\ expired' = t /\ check' = "callback" /\ mapped' = mapped \ {t}
      /\ period' = period
      /\ deadline' = IF period[t] # Never THEN deadline ELSE [deadline EXCEPT ![t] = Never]
  BY DEF Expires
<1>5. /\ \A u \in Timers : u # t => deadline'[u] = deadline[u]
      /\ deadline'[t] = IF period[t] # Never THEN deadline[t] ELSE Never
  BY <1>1, <1>2, <1>4 DEF TypeOK
<1> HIDE DEF t
<1>6. DueAt(heap', deadline')
  <2>1. CASE Size = 1
    <3>1. heap' = <<>>
      BY <2>1 DEF Expires
    <3>2. Len(heap') = 0
      BY <3>1
    <3>3. QED
      BY <3>2 DEF DueAt
  <2>2. CASE Size # 1
    <3>1. heap' = PopBack(SwappedEntries(1, Size)) /\ heap_index' = SwappedIndexes(1, Size)
      BY <2>2 DEF Expires
    <3>2. heap_index' \in [Timers -> Nat]
      BY DEF PlacesRight, TypeOK
    <3>3. Size' = Size - 1
          /\ \A k \in 1 .. Size - 1 : heap'[k] = IF k = 1 THEN heap[Size] ELSE heap[k]
      BY <1>1, <3>1, <3>2, DropKeepsPlaces, Zenon DEF Size
    <3>4. DueAt(heap, deadline)
      BY DEF AwaitedRight
    <3>5. /\ mapped' = mapped \ {t} /\ Size' = Size - 1
          /\ \A u \in Timers : u # t => deadline'[u] = deadline[u]
          /\ t \in Timers
      BY <1>2, <1>4, <1>5, <3>3
    <3>6. PICK g : \A k \in 1 .. Size - 1 : heap'[k] = IF k = g THEN heap[Size] ELSE heap[k]
      BY <3>3
    <3>7. QED
      BY <3>4, <3>5, <3>6, GapKeepsDue, Zenon
  <2>3. QED
    BY <2>1, <2>2
<1>7. ASSUME NEW u \in Timers
      PROVE  /\ deadline'[u] # Never => u \in mapped' \/ Rearms(u)'
             /\ Rearms(u)' => deadline'[u] # Never
  <2>1. CASE u = t
    BY <1>3, <1>4, <1>5, <2>1 DEF Rearms
  <2>2. CASE u # t
    BY <1>1, <1>4, <1>5, <2>2 DEF Rearms, ToBeAdded, AwaitedRight
  <2>3. QED
    BY <2>1, <2>2
<1>8. QED
  BY <1>1, <1>6, <1>7 DEF AwaitedRight

\* The callback returns, and a timer that repeats is on its way back.
LEMMA CallbackReturnsKeepsAwaited ==
  ASSUME PlacesRight, AwaitedRight, CallbackReturns PROVE AwaitedRight'
<1> DEFINE t == expired
           time == now + period[expired]
           e == [expire_time |-> time, timer |-> expired]
<1>1. /\ TypeOK /\ toAdd = <<>> /\ check = "callback" /\ check' = "loop"
      /\ t \in Timers /\ UNCHANGED <<heap, mapped, period>>
      /\ period[t] # Never => t \notin mapped
  BY DEF CallbackReturns, Quiet, PlacesRight, OwnIsOut
<1>2. \A u \in Timers : ~Rearms(u)' /\ ~ToBeAdded(u)
  BY <1>1 DEF Rearms, ToBeAdded
<1>3. CASE period[t] = Never
  <2>1. UNCHANGED <<toAdd, deadline>>
    BY <1>3 DEF CallbackReturns
  <2>2. \A u \in Timers : ~Rearms(u)
    BY <1>3 DEF Rearms
  <2>3. QED
    BY <1>1, <1>2, <2>1, <2>2 DEF AwaitedRight
<1>4. CASE period[t] # Never
  <2>1. deadline[t] # Never
    BY <1>1, <1>4 DEF AwaitedRight, Rearms
  <2>2. /\ toAdd' = <<e>>
        /\ deadline' = [deadline EXCEPT ![t] = IF @ = Never THEN Never ELSE time]
    BY <1>4 DEF CallbackReturns
  <2>3. /\ \A u \in Timers : u # t => deadline'[u] = deadline[u]
        /\ deadline'[t] = time
    BY <1>1, <2>1, <2>2 DEF TypeOK
  <2>4. e.timer = t /\ e.expire_time = time
    OBVIOUS
  <2>5. toAdd' # <<>> /\ Head(toAdd') = e
    BY <2>2
  <2>6. \A k \in 1 .. Len(heap) : heap[k].timer \in Timers /\ heap[k].timer # t
    BY <1>1, <1>4 DEF PlacesRight, MapRight, Places, TypeOK
  <2> HIDE DEF e, t, time
  <2>7. DueAt(heap', deadline')
    BY <1>1, <2>3, <2>6 DEF AwaitedRight, DueAt
  <2>8. ASSUME NEW u \in Timers, deadline'[u] # Never
        PROVE  u \in mapped' \/ ToBeAdded(u)'
    <3>1. CASE u = t
      BY <2>4, <2>5, <3>1 DEF ToBeAdded
    <3>2. CASE u # t
      BY <1>1, <1>2, <2>3, <2>8, <3>2 DEF AwaitedRight, Rearms, t
    <3>3. QED
      BY <3>1, <3>2
  <2>9. QED
    BY <1>2, <2>3, <2>4, <2>5, <2>7, <2>8 DEF AwaitedRight
<1>5. QED
  BY <1>3, <1>4

LEMMA AwaitedInductive ==
  ASSUME ~OwnRepeat, PlacesRight, AwaitedRight, [Next]_vars PROVE AwaitedRight'
<1>1. PlacesRight'
  BY PlacesInductive
<1>2. ASSUME UNCHANGED <<mapped, period, toAdd, expired, deadline>>,
             DueAt(heap', deadline), check' = check \/ "callback" \notin {check, check'}
      PROVE  AwaitedRight'
  BY <1>2 DEF AwaitedRight, ToBeAdded, Rearms
<1>3. CASE HeapSiftUp \/ HeapSiftDown
  <2>1. UNCHANGED <<mapped, period, toAdd, check, expired, deadline>>
    BY <1>3 DEF HeapSiftUp, HeapSiftDown
  <2>2. TypeOK /\ index \in 1 .. Size /\ Size \in Nat /\ DueAt(heap, deadline)
    BY <1>3 DEF HeapSiftUp, HeapSiftDown, PlacesRight, SiftInBounds, TypeOK, Size, AwaitedRight
  <2>3. heap' = heap \/ \E i \in 1 .. Size, j \in 1 .. Size : heap' = SwappedEntries(i, j)
    <3>1. CASE HeapSiftUp
      <4>1. index > 1 => index \div 2 \in 1 .. Size
        BY <2>2, Halves
      <4>2. QED
        BY <2>2, <3>1, <4>1 DEF HeapSiftUp, SwapHeapEntry
    <3>2. CASE HeapSiftDown
      <4>1. 2 * index <= Size => MinChild(index) \in 1 .. Size
        BY <2>2, ChildInBounds
      <4>2. QED
        BY <2>2, <3>2, <4>1 DEF HeapSiftDown, SwapHeapEntry
    <3>3. QED
      BY <1>3, <3>1, <3>2
  <2>4. DueAt(heap', deadline)
    BY <2>2, <2>3, SwapKeepsDue
  <2>5. QED
    BY <1>2, <2>1, <2>4
<1>4. CASE AddTimer
  BY <1>4, AddKeepsAwaited
<1>5. ASSUME NEW t \in Timers,
             StopTimer(t) \/ \E d \in Durations, r \in BOOLEAN : StartTimer(t, d, r)
      PROVE  AwaitedRight'
  BY <1>1, <1>5, UserKeepsAwaited
<1>6. CASE Expires
  BY <1>1, <1>6, ExpiresKeepsAwaited
<1>7. CASE CallbackReturns
  BY <1>7, CallbackReturnsKeepsAwaited
<1>8. CASE CheckTimerExpiry \/ CheckReturns \/ Tick \/ UNCHANGED vars
  <2>1. /\ UNCHANGED <<heap, mapped, period, toAdd, expired, deadline>>
        /\ check' = check \/ "callback" \notin {check, check'}
    BY <1>8 DEF CheckTimerExpiry, CheckReturns, Tick, vars
  <2>2. QED
    BY <1>2, <2>1 DEF AwaitedRight
<1>9. QED
  BY <1>3, <1>4, <1>5, <1>6, <1>7, <1>8, Zenon DEF Next

LEMMA AwaitedInvariant ==
  ASSUME ~OwnRepeat PROVE Spec => [](PlacesRight /\ HeapOrdered /\ AwaitedRight)
<1>1. Init => AwaitedRight
  <2> SUFFICES ASSUME Init PROVE AwaitedRight
    OBVIOUS
  <2>1. Len(<<>>) = 0
    OBVIOUS
  <2>2. \A t \in Timers : deadline[t] = Never /\ ~Rearms(t)
    BY DEF Init, Rearms
  <2>3. QED
    BY <2>1, <2>2 DEF Init, AwaitedRight, DueAt
<1>2. PlacesRight /\ AwaitedRight /\ [Next]_vars => AwaitedRight'
  BY AwaitedInductive
<1>3. QED
  BY <1>1, <1>2, PlacesInvariant, HeapInOrder, PTL DEF Spec

(* The heap holds the timers that the user waits for and no other, each    *)
(* with the time it was last started or re-armed with, after any sequence  *)
(* of starts, stops and expiries, also those a callback makes.             *)
THEOREM HeapHoldsAwaited == ASSUME ~OwnRepeat PROVE Spec => []HoldsAwaited
<1>1. PlacesRight /\ AwaitedRight => HoldsAwaited
  <2> SUFFICES ASSUME PlacesRight, AwaitedRight PROVE HoldsAwaited
    OBVIOUS
  <2>1. mapped = HeldTimers /\ active = HeldTimers
    BY DEF PlacesRight, MapRight, Places, HeldTimers, Size
  <2>2. \A i \in 1 .. Size : deadline[heap[i].timer] = Expire(i)
    BY DEF AwaitedRight, DueAt, Size, Expire
  <2>3. ASSUME NEW t \in Timers \ InTransit, deadline[t] # Never PROVE t \in HeldTimers
    <3>1. ~Rearms(t)
      BY <2>3 DEF InTransit, Rearms
    <3>2. ~ToBeAdded(t)
      <4>1. toAdd # <<>> => 1 \in 1 .. Len(toAdd) /\ Head(toAdd) = toAdd[1]
        <5>1. toAdd \in Seq(Entry)
          BY DEF PlacesRight, TypeOK
        <5>2. toAdd # <<>> => Len(toAdd) \in Nat \ {0}
          BY <5>1, EmptySeq
        <5>3. Head(toAdd) = toAdd[1]
          BY <5>1
        <5>4. QED
          BY <5>2, <5>3
      <4>2. QED
        BY <2>3, <4>1 DEF InTransit, ToBeAdded
    <3>3. QED
      BY <2>1, <2>3, <3>1, <3>2 DEF AwaitedRight
  <2>4. QED
    BY <2>1, <2>2, <2>3 DEF HoldsAwaited
<1>2. QED
  BY <1>1, AwaitedInvariant, PTL

(* The top of a heap in order is not later than any entry: of the entries  *)
(* that are earlier, the one with the least index would have a parent that *)
(* is earlier too.                                                         *)
LEMMA TopIsLeast ==
  ASSUME TypeOK, HeapOrdered, sift = "none", NEW i \in 1 .. Size
  PROVE  Expire(1) <= Expire(i)
<1> DEFINE Earlier == {k \in 1 .. Size : ~(Expire(1) <= Expire(k))}
           R == OpToRel(<, Nat)
<1>1. Size \in Nat /\ \A k \in 1 .. Size : Expire(k) \in Nat
  BY ExpireType
<1> SUFFICES ASSUME Earlier # {} PROVE FALSE
  OBVIOUS
<1>2. IsWellFoundedOn(R, Nat)
  BY NatLessThanWellFounded
<1>3. \A x, y \in Nat : x < y => <<x, y>> \in R
  <2> SUFFICES ASSUME NEW x \in Nat, NEW y \in Nat, x < y PROVE <<x, y>> \in R
    OBVIOUS
  <2>1. <<x, y>> \in Nat \X Nat /\ <<x, y>>[1] < <<x, y>>[2]
    OBVIOUS
  <2>2. QED
    BY <2>1, Zenon DEF OpToRel
<1> HIDE DEF R
<1>4. PICK k \in Earlier : \A m \in Earlier : ~(<<m, k>> \in R)
  <2>1. Earlier \subseteq Nat
    BY <1>1
  <2> HIDE DEF Earlier
  <2>2. QED
    BY <1>2, <2>1, WFMin
<1>5. k \in 2 .. Size /\ k \div 2 \in 1 .. Size /\ k \div 2 < k
  <2>1. k \in 1 .. Size /\ ~(Expire(1) <= Expire(k))
    BY <1>4
  <2>2. k # 1
    BY <1>1, <2>1
  <2>3. QED
    BY <1>1, <2>1, <2>2, Halves
<1>6. k \div 2 \notin Earlier
  <2>1. k \in Nat /\ k \div 2 \in Nat
    BY <1>1, <1>5
  <2>2. <<k \div 2, k>> \in R
    BY <1>3, <1>5, <2>1
  <2> HIDE DEF Earlier
  <2>3. QED
    BY <1>4, <2>2
<1>7. Expire(k \div 2) <= Expire(k)
  BY <1>5 DEF HeapOrdered
<1>8. QED
  BY <1>1, <1>4, <1>5, <1>6, <1>7

(* No callback is called for a timer that was stopped, nor before its      *)
(* time, nor before that of a timer that is due earlier.                   *)
THEOREM TimersExpireInTurn == ASSUME ~OwnRepeat PROVE Spec => ExpiresInTurn
<1> DEFINE InTurn(t) ==
             /\ deadline[t] # Never /\ deadline[t] <= now
             /\ \A u \in Timers : deadline[u] # Never => deadline[t] <= deadline[u]
<1>1. ASSUME PlacesRight, HeapOrdered, AwaitedRight, [Next]_vars,
             NEW t \in Timers, Expiring(t)
      PROVE  InTurn(t)
  <2>1. Expires
    BY <1>1 DEF Expiring, Next, HeapSiftUp, HeapSiftDown, AddTimer, StartTimer, StopTimer,
                CheckTimerExpiry, CallbackReturns, CheckReturns, Tick, vars
  <2>2. /\ TypeOK /\ toAdd = <<>> /\ sift = "none" /\ check = "loop" /\ heap # <<>>
        /\ t = heap[1].timer /\ Expire(1) <= now /\ heap \in Seq(Entry)
    BY <1>1, <2>1 DEF Expires, Quiet, TopIsDue, PlacesRight, Expiring, TypeOK
  <2>3. 1 \in 1 .. Size /\ Size \in Nat
    <3>1. Size \in Nat \ {0}
      BY <2>2, EmptySeq DEF Size
    <3>2. QED
      BY <3>1
  <2>4. \A i \in 1 .. Size : deadline[heap[i].timer] = Expire(i) /\ Expire(i) \in Nat
    BY <1>1, <2>2, ExpireType DEF AwaitedRight, DueAt, Size, Expire
  <2>5. ASSUME NEW u \in Timers, deadline[u] # Never PROVE deadline[t] <= deadline[u]
    <3>1. u \in mapped
      BY <1>1, <2>2, <2>5 DEF AwaitedRight, ToBeAdded, Rearms
    <3>2. PICK i \in 1 .. Size : heap[i].timer = u
      BY <1>1, <3>1 DEF PlacesRight, MapRight, Places, Size
    <3>3. Expire(1) <= Expire(i)
      BY <1>1, <2>2, TopIsLeast
    <3>4. QED
      BY <2>2, <2>3, <2>4, <3>2, <3>3
  <2>6. deadline[t] # Never
    BY <2>2, <2>3, <2>4 DEF Never
  <2>7. QED
    BY <2>2, <2>3, <2>4, <2>5, <2>6
<1>2. PlacesRight /\ HeapOrdered /\ AwaitedRight /\ [Next]_vars =>
        [\A t \in Timers : Expiring(t) => InTurn(t)]_vars
  BY <1>1
<1>3. QED
  BY <1>2, AwaitedInvariant, PTL DEF Spec, ExpiresInTurn
=========================================================================
