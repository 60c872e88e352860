--------------------- MODULE ConnectionTable_proofs ---------------------
(***************************************************************************)
(* Proofs about ConnectionTable, for any numbers of descriptors and of     *)
(* clients, who may hang up whenever they like: callbacks that come after  *)
(* their connection was closed are among the steps.  What is proved holds  *)
(* as long as no null pointer is used (Undefined): such steps have no      *)
(* outcome in the model.                                                   *)
(***************************************************************************)
EXTENDS ConnectionTable, SequenceTheorems, TLAPS

Threads == {"main", "sub"}
Places ==
  {"idle"} \union InitPlaces \union ClosePlaces \union Types \union CallbackPlaces

KernelTyped ==
  /\ sock \in [Fds -> Clients \union {"none"}]
  /\ pending \in [Fds -> SUBSET Types]
  /\ gone \subseteq Clients
  /\ events \in [Fds -> SUBSET Types]

SlotTyped ==
  /\ monitored \subseteq Fds /\ valid \subseteq Fds /\ equipped \subseteq Fds
  /\ processor \in [Fds -> Clients \union {"nullptr", "none"}]
  /\ seq_id \in [Fds -> Nat]

\* A thread that is in a function of a slot has the slot.
ThreadTyped ==
  /\ pc \in [Threads -> Places]
  /\ fd \in [Threads -> Fds \union {"none"}]
  /\ \A t \in Threads : pc[t] # "idle" => fd[t] \in Fds

TaskTyped ==
  /\ executing \subseteq Clients
  /\ task \in [Clients -> {"none", "posted", "running", "deferred"}]
  /\ origin \in [Clients -> [conn : Fds \union {"none"}, seq_id : Nat]]
  /\ defers \in Seq(Clients)
  /\ callback \in Clients \union {"none"}

Typed == KernelTyped /\ SlotTyped /\ ThreadTyped /\ TaskTyped

----------------------------------------------------------------------------
(* The inductive invariant.                                                *)

\* The main thread is at slot f, and in init between _rx_fd and _seq_id++.
Preparing(f) == pc["main"] # "idle" /\ fd["main"] = f
InInit(f) == Preparing(f) /\ pc["main"] \in {"init_bufs", "init_seq"}

\* The sub thread is at slot f, which it has begun to close.
Closing(f) == pc["sub"] \in ClosePlaces \ {"close"} /\ fd["sub"] = f

\* A client's task, from MakeAsync to the end of its finish callback.
InFlight(c) == task[c] # "none" \/ (pc["sub"] \in CallbackPlaces /\ callback = c)

Open(f) ==
  /\ sock[f] # "none"
  /\ f \in valid \cap equipped
  /\ processor[f] = sock[f]

\* Descriptors in use differ.  What is reported was monitored, and what is
\* monitored is an open connection out of the hands of the main thread, unless
\* the sub thread is closing it.
KernelInv ==
  /\ \A f, g \in Fds : sock[f] = sock[g] /\ sock[f] # "none" => f = g
  /\ \A f \in Fds : sock[f] = "none" => pending[f] = {} /\ f \notin monitored
  /\ \A f \in Fds : events[f] # {} => f \in monitored
  /\ \A f \in monitored : ~Preparing(f) /\ (Open(f) \/ Closing(f))
  /\ \A f \in Fds : pc["main"] = "activate" /\ fd["main"] = f /\ f \in equipped =>
       processor[f] = sock[f] \/ sock[f] = "none"

\* The sub thread handles events of what is monitored.  Only with a callback
\* that has come late is it in a slot that is free or the main thread's.
SubInv ==
  /\ pc["sub"] \in Types => fd["sub"] \in monitored
  /\ pc["sub"] \in ClosePlaces \union CallbackPlaces => events[fd["sub"]] = {}
  /\ callback # "none" => pc["sub"] \in ClosePlaces \union CallbackPlaces
  /\ pc["sub"] # "idle" /\ callback = "none" => sock[fd["sub"]] # "none"
  /\ pc["sub"] # "idle" /\ Preparing(fd["sub"]) => Stale

\* A processor is in one slot, and once it is not its client's, or is put into
\* a slot that is being closed, no task refers to it.
ProcessorInv ==
  \A f \in Fds, c \in Clients : processor[f] = c =>
    /\ \A g \in Fds : processor[g] = c => f = g
    /\ sock[f] # c => c \in gone /\ ~InFlight(c) /\ \A g \in Fds : sock[g] # c
    /\ pc["sub"] \in {"close_invalidate", "close_fd"} /\ fd["sub"] = f => ~InFlight(c)
    /\ pc["sub"] = "resume" /\ fd["sub"] = f /\ c # callback => ~InFlight(c)
    /\ InFlight(c) => c \in executing

\* A client with a task was accepted and is not being prepared, and its
\* processor is there as long as its descriptor is, unless it is being closed.
TaskInv ==
  /\ \A c \in Clients : InFlight(c) \/ callback = c =>
       c \in gone \/ \E f \in Fds : sock[f] = c
  /\ \A c \in Clients : InFlight(c) => origin[c].conn \in Fds
  /\ \A f \in Fds, c \in Clients : sock[f] = c /\ InFlight(c) =>
       /\ ~Preparing(f)
       /\ processor[f] = c \/ Closing(f)
       /\ ~(pc["sub"] = "close_fd" /\ fd["sub"] = f /\ f \in valid)

CallbackInv ==
  pc["sub"] \in CallbackPlaces =>
    callback \in Clients /\ task[callback] = "none" /\ fd["sub"] = origin[callback].conn

\* The slot of a client with a task is still its own, or invalid, or in init,
\* or has another number.
SeqInv ==
  /\ \A c \in Clients, f \in Fds : InFlight(c) /\ f = origin[c].conn =>
       /\ seq_id[f] >= origin[c].seq_id
       /\ sock[f] = c \/ f \notin valid \/ InInit(f) \/ seq_id[f] > origin[c].seq_id
  /\ pc["sub"] = "same_seq" =>
       \/ sock[fd["sub"]] = callback \/ InInit(fd["sub"])
       \/ seq_id[fd["sub"]] > origin[callback].seq_id

\* Each finish callback is queued once.
DefersInv ==
  /\ \A i \in DOMAIN defers : task[defers[i]] = "deferred"
  /\ \A i, j \in DOMAIN defers : i # j => defers[i] # defers[j]

TableInv ==
  KernelInv /\ SubInv /\ ProcessorInv /\ TaskInv /\ CallbackInv /\ SeqInv /\ DefersInv

Safe == Typed /\ TableInv

----------------------------------------------------------------------------
(* Every step keeps it.  The types and places are used throughout.         *)
USE ConstantsAssumption
    DEF Safe, Typed, KernelTyped, SlotTyped, ThreadTyped, TaskTyped, Threads,
        Places, InitPlaces, ClosePlaces, CallbackPlaces, Types, TableInv

(* Clients connect, send, take what was sent and hang up. *)
LEMMA ClientSteps ==
  ASSUME Safe, \/ \E f \in Fds : Sends(f) \/ HangsUp(f) \/ BecomesWritable(f)
         \/ \E f \in Fds, c \in Clients : Accept(f, c)
  PROVE  Safe'
<1> USE DEF kernel, slot, Connected, Goto
<1>1. ASSUME NEW f \in Fds, Sends(f) PROVE Safe'
  <2> USE <1>1 DEF Sends
  <2>1. Typed'
    OBVIOUS
  <2>2. \A c \in Clients : InFlight(c)' => InFlight(c)
    BY  DEF InFlight
  <2>3. KernelInv'
    BY DEF KernelInv, Open, Preparing, Closing
  <2>4. SubInv'
    BY DEF SubInv, Preparing, Stale
  <2>5. ProcessorInv'
    BY <2>2 DEF ProcessorInv
  <2>6. TaskInv'
    BY <2>2 DEF TaskInv, Preparing, Closing
  <2>7. CallbackInv'
    BY DEF CallbackInv
  <2>8. SeqInv'
    BY <2>2 DEF SeqInv, Preparing, InInit
  <2>9. DefersInv'
    BY DEF DefersInv
  <2>10. QED
    BY <2>1, <2>3, <2>4, <2>5, <2>6, <2>7, <2>8, <2>9
<1>2. ASSUME NEW f \in Fds, BecomesWritable(f) PROVE Safe'
  <2> USE <1>2 DEF BecomesWritable
  <2>1. Typed'
    OBVIOUS
  <2>2. \A c \in Clients : InFlight(c)' => InFlight(c)
    BY  DEF InFlight
  <2>3. KernelInv'
    BY DEF KernelInv, Open, Preparing, Closing
  <2>4. SubInv'
    BY DEF SubInv, Preparing, Stale
  <2>5. ProcessorInv'
    BY <2>2 DEF ProcessorInv
  <2>6. TaskInv'
    BY <2>2 DEF TaskInv, Preparing, Closing
  <2>7. CallbackInv'
    BY DEF CallbackInv
  <2>8. SeqInv'
    BY <2>2 DEF SeqInv, Preparing, InInit
  <2>9. DefersInv'
    BY DEF DefersInv
  <2>10. QED
    BY <2>1, <2>3, <2>4, <2>5, <2>6, <2>7, <2>8, <2>9
<1>3. ASSUME NEW f \in Fds, HangsUp(f) PROVE Safe'
  <2> USE <1>3 DEF HangsUp
  <2>1. Typed'
    OBVIOUS
  <2>2. \A c \in Clients : InFlight(c)' => InFlight(c)
    BY  DEF InFlight
  <2>3. KernelInv'
    BY DEF KernelInv, Open, Preparing, Closing
  <2>4. SubInv'
    BY DEF SubInv, Preparing, Stale
  <2>5. ProcessorInv'
    BY <2>2 DEF ProcessorInv
  <2>6. TaskInv'
    BY <2>2 DEF TaskInv, Preparing, Closing
  <2>7. CallbackInv'
    BY DEF CallbackInv
  <2>8. SeqInv'
    BY <2>2 DEF SeqInv, Preparing, InInit
  <2>9. DefersInv'
    BY DEF DefersInv
  <2>10. QED
    BY <2>1, <2>3, <2>4, <2>5, <2>6, <2>7, <2>8, <2>9
<1>4. ASSUME NEW f \in Fds, NEW d \in Clients, Accept(f, d) PROVE Safe'
  <2> USE <1>4 DEF Accept
  <2>1. Typed'
    OBVIOUS
  <2>2. \A c \in Clients : InFlight(c)' => InFlight(c)
    BY  DEF InFlight
  <2>3. KernelInv'
    <3>1. (\A g \in Fds : sock[g] # d) /\ d \notin gone
      BY DEF Range
    <3>2. QED
      BY <3>1 DEF KernelInv, Open, Preparing, Closing
  <2>4. SubInv'
    <3>1. (\A g \in Fds : sock[g] # d) /\ d \notin gone
      BY DEF Range
    <3>2. callback # d
      BY <3>1 DEF TaskInv
    <3>3. QED
      BY <3>1, <3>2 DEF SubInv, KernelInv, Preparing, Stale
  <2>5. ProcessorInv'
    <3>1. d \notin gone
      OBVIOUS
    <3>2. QED
      BY <2>2, <3>1 DEF ProcessorInv
  <2>6. TaskInv'
    <3>1. (\A g \in Fds : sock[g] # d) /\ d \notin gone
      BY DEF Range
    <3>2. ~InFlight(d)
      BY <3>1 DEF TaskInv
    <3>3. QED
      BY <2>2, <3>1, <3>2 DEF TaskInv, Preparing, Closing
  <2>7. CallbackInv'
    BY DEF CallbackInv
  <2>8. SeqInv'
    BY <2>2 DEF SeqInv, Preparing, InInit, CallbackInv
  <2>9. DefersInv'
    BY DEF DefersInv
  <2>10. QED
    BY <2>1, <2>3, <2>4, <2>5, <2>6, <2>7, <2>8, <2>9
<1>5. QED
  BY <1>1, <1>2, <1>3, <1>4, Zenon

(* The main thread prepares its slot. *)
LEMMA InitSteps ==
  ASSUME Safe, InitFd \/ InitBufs \/ InitSeq \/ SetProtoProcessor
         \/ Activate \/ ActivateFails
  PROVE  Safe'
<1> USE DEF kernel, slot, Goto, Release
<1>1. CASE InitFd
  <2> USE <1>1 DEF InitFd
  <2>1. Typed'
    OBVIOUS
  <2>2. \A c \in Clients : InFlight(c)' => InFlight(c)
    BY  DEF InFlight
  <2>3. KernelInv'
    BY DEF KernelInv, Open, Preparing, Closing
  <2>4. SubInv'
    BY DEF SubInv, Preparing, Stale
  <2>5. ProcessorInv'
    BY <2>2 DEF ProcessorInv
  <2>6. TaskInv'
    BY <2>2 DEF TaskInv, Preparing, Closing
  <2>7. CallbackInv'
    BY DEF CallbackInv
  <2>8. SeqInv'
    BY <2>2 DEF SeqInv, Preparing, InInit
  <2>9. DefersInv'
    BY DEF DefersInv
  <2>10. QED
    BY <2>1, <2>3, <2>4, <2>5, <2>6, <2>7, <2>8, <2>9
<1>2. CASE InitBufs
  <2> USE <1>2 DEF InitBufs
  <2>1. Typed'
    OBVIOUS
  <2>2. \A c \in Clients : InFlight(c)' => InFlight(c)
    BY  DEF InFlight
  <2>3. KernelInv'
    BY DEF KernelInv, Open, Preparing, Closing
  <2>4. SubInv'
    BY DEF SubInv, Preparing, Stale
  <2>5. ProcessorInv'
    BY <2>2 DEF ProcessorInv
  <2>6. TaskInv'
    BY <2>2 DEF TaskInv, Preparing, Closing
  <2>7. CallbackInv'
    BY DEF CallbackInv
  <2>8. SeqInv'
    BY <2>2 DEF SeqInv, Preparing, InInit
  <2>9. DefersInv'
    BY DEF DefersInv
  <2>10. QED
    BY <2>1, <2>3, <2>4, <2>5, <2>6, <2>7, <2>8, <2>9
<1>3. CASE InitSeq
  <2> USE <1>3 DEF InitSeq
  <2>1. Typed'
    OBVIOUS
  <2>2. \A c \in Clients : InFlight(c)' => InFlight(c)
    BY  DEF InFlight
  <2>3. KernelInv'
    BY DEF KernelInv, Open, Preparing, Closing
  <2>4. SubInv'
    BY DEF SubInv, Preparing, Stale
  <2>5. ProcessorInv'
    BY <2>2 DEF ProcessorInv
  <2>6. TaskInv'
    BY <2>2 DEF TaskInv, Preparing, Closing
  <2>7. CallbackInv'
    BY DEF CallbackInv
  <2>8. SeqInv'
    <3> DEFINE m == fd["main"]
    <3>1. \A f \in Fds : seq_id'[f] = IF f = m THEN seq_id[f] + 1 ELSE seq_id[f]
      OBVIOUS
    <3>2. \A f \in Fds : seq_id[f] \in Nat /\ (InInit(f)' \/ InInit(f) => f = m)
      BY DEF Preparing, InInit
    <3>3. \A c \in Clients, f \in Fds : InFlight(c) /\ f = origin[c].conn =>
            /\ seq_id'[f] >= origin[c].seq_id
            /\ sock[f] = c \/ f \notin valid \/ seq_id'[f] > origin[c].seq_id
      <4>1. \A c \in Clients : origin[c].seq_id \in Nat
        OBVIOUS
      <4>2. SUFFICES ASSUME NEW c \in Clients, NEW f \in Fds,
                            InFlight(c), f = origin[c].conn
                     PROVE  /\ seq_id'[f] >= origin[c].seq_id
                            /\ sock[f] = c \/ f \notin valid
                               \/ seq_id'[f] > origin[c].seq_id
        OBVIOUS
      <4>3. seq_id[f] >= origin[c].seq_id
        BY <4>2 DEF SeqInv
      <4>4. CASE f = m
        BY <3>1, <3>2, <4>1, <4>3, <4>4
      <4>5. CASE f # m
        <5>1. seq_id'[f] = seq_id[f] /\ ~InInit(f)
          BY <3>1, <3>2, <4>5
        <5>2. QED
          BY <4>2, <4>3, <5>1 DEF SeqInv
      <4>6. QED
        BY <4>4, <4>5
    <3>4. pc["sub"] = "same_seq" =>
            sock[fd["sub"]] = callback \/ seq_id'[fd["sub"]] > origin[callback].seq_id
      <4>1. SUFFICES ASSUME pc["sub"] = "same_seq" PROVE <3>4!2
        OBVIOUS
      <4>2. /\ InFlight(callback) /\ callback \in Clients /\ fd["sub"] \in Fds
            /\ fd["sub"] = origin[callback].conn /\ origin[callback].seq_id \in Nat
        BY <4>1 DEF CallbackInv, InFlight
      <4>3. seq_id[fd["sub"]] >= origin[callback].seq_id
        BY <4>2 DEF SeqInv
      <4>4. QED
        BY <3>1, <3>2, <4>1, <4>2, <4>3 DEF SeqInv
    <3>5. QED
      BY <2>2, <3>3, <3>4 DEF SeqInv
  <2>9. DefersInv'
    BY DEF DefersInv
  <2>10. QED
    BY <2>1, <2>3, <2>4, <2>5, <2>6, <2>7, <2>8, <2>9
<1>4. CASE SetProtoProcessor
  <2> USE <1>4 DEF SetProtoProcessor
  <2>1. Typed'
    OBVIOUS
  <2>2. \A c \in Clients : InFlight(c)' => InFlight(c)
    BY  DEF InFlight
  <2>3. KernelInv'
    BY DEF KernelInv, Open, Preparing, Closing
  <2>4. SubInv'
    BY DEF SubInv, Preparing, Stale
  <2>5. ProcessorInv'
    BY <2>2 DEF ProcessorInv, KernelInv, TaskInv, Preparing
  <2>6. TaskInv'
    BY <2>2 DEF TaskInv, Preparing, Closing
  <2>7. CallbackInv'
    BY DEF CallbackInv
  <2>8. SeqInv'
    BY <2>2 DEF SeqInv, Preparing, InInit
  <2>9. DefersInv'
    BY DEF DefersInv
  <2>10. QED
    BY <2>1, <2>3, <2>4, <2>5, <2>6, <2>7, <2>8, <2>9
<1>5. CASE Activate
  <2> USE <1>5 DEF Activate
  <2>1. Typed'
    OBVIOUS
  <2>2. \A c \in Clients : InFlight(c)' => InFlight(c)
    BY  DEF InFlight
  <2>3. KernelInv'
    BY DEF KernelInv, Open, Preparing, Closing
  <2>4. SubInv'
    BY DEF SubInv, Preparing, Stale
  <2>5. ProcessorInv'
    BY <2>2 DEF ProcessorInv
  <2>6. TaskInv'
    BY <2>2 DEF TaskInv, Preparing, Closing
  <2>7. CallbackInv'
    BY DEF CallbackInv
  <2>8. SeqInv'
    BY <2>2 DEF SeqInv, Preparing, InInit
  <2>9. DefersInv'
    BY DEF DefersInv
  <2>10. QED
    BY <2>1, <2>3, <2>4, <2>5, <2>6, <2>7, <2>8, <2>9
<1>6. CASE ActivateFails
  <2> USE <1>6 DEF ActivateFails
  <2>1. Typed'
    OBVIOUS
  <2>2. \A c \in Clients : InFlight(c)' => InFlight(c)
    BY  DEF InFlight
  <2>3. KernelInv'
    BY DEF KernelInv, Open, Preparing, Closing
  <2>4. SubInv'
    BY DEF SubInv, Preparing, Stale
  <2>5. ProcessorInv'
    BY <2>2 DEF ProcessorInv
  <2>6. TaskInv'
    BY <2>2 DEF TaskInv, Preparing, Closing
  <2>7. CallbackInv'
    BY DEF CallbackInv
  <2>8. SeqInv'
    BY <2>2 DEF SeqInv, Preparing, InInit
  <2>9. DefersInv'
    BY DEF DefersInv
  <2>10. QED
    BY <2>1, <2>3, <2>4, <2>5, <2>6, <2>7, <2>8, <2>9
<1>7. QED
  BY <1>1, <1>2, <1>3, <1>4, <1>5, <1>6, Zenon

(* Either thread closes its connection. *)
LEMMA CloseSteps ==
  ASSUME Safe, NEW t \in Threads, CloseStep(t)
  PROVE  Safe'
<1> USE DEF kernel, slot, Goto, Release
<1>1. CASE CloseUnmonitors(t)
  <2> USE <1>1 DEF CloseUnmonitors
  <2>1. Typed'
    OBVIOUS
  <2>2. \A c \in Clients : InFlight(c)' => InFlight(c)
    BY  DEF InFlight
  <2>3. KernelInv'
    <3>1. t = "sub" => events[fd[t]] = {}
      BY DEF SubInv
    <3>2. t = "main" => events[fd[t]] = {}
      BY DEF KernelInv, Preparing
    <3>3. \/ monitored' = monitored \ {fd[t]}
          \/ monitored' = monitored /\ fd[t] \notin valid
      OBVIOUS
    <3>4. \A f \in Fds : events[f] # {} => f \in monitored'
      BY <3>1, <3>2, <3>3 DEF KernelInv, Open, Preparing, Closing
    <3>5. \A f \in monitored' : ~Preparing(f)' /\ (Open(f)' \/ Closing(f)')
      <4>1. SUFFICES ASSUME NEW f \in Fds, f \in monitored
                     PROVE  ~Preparing(f)' /\ (Open(f)' \/ Closing(f)')
        BY <3>3
      <4>2. ~Preparing(f) /\ (Open(f) \/ Closing(f))
        BY <4>1 DEF KernelInv
      <4>3. QED
        BY <4>2 DEF Open, Preparing, Closing
    <3>6. QED
      BY <3>3, <3>4, <3>5 DEF KernelInv
  <2>4. SubInv'
    BY DEF SubInv, Preparing, Stale
  <2>5. ProcessorInv'
    BY <2>2 DEF ProcessorInv
  <2>6. TaskInv'
    BY <2>2 DEF TaskInv, Preparing, Closing
  <2>7. CallbackInv'
    BY DEF CallbackInv
  <2>8. SeqInv'
    BY <2>2 DEF SeqInv, Preparing, InInit
  <2>9. DefersInv'
    BY DEF DefersInv
  <2>10. QED
    BY <2>1, <2>3, <2>4, <2>5, <2>6, <2>7, <2>8, <2>9
<1>2. CASE CloseReset(t)
  <2> USE <1>2 DEF CloseReset
  <2>1. Typed'
    OBVIOUS
  <2>2. \A c \in Clients : InFlight(c)' => InFlight(c)
    BY  DEF InFlight
  <2>3. KernelInv'
    BY DEF KernelInv, Open, Preparing, Closing
  <2>4. SubInv'
    BY DEF SubInv, Preparing, Stale
  <2>5. ProcessorInv'
    BY <2>2 DEF ProcessorInv
  <2>6. TaskInv'
    BY <2>2 DEF TaskInv, Preparing, Closing
  <2>7. CallbackInv'
    BY DEF CallbackInv
  <2>8. SeqInv'
    BY <2>2 DEF SeqInv, Preparing, InInit
  <2>9. DefersInv'
    BY DEF DefersInv
  <2>10. QED
    BY <2>1, <2>3, <2>4, <2>5, <2>6, <2>7, <2>8, <2>9
<1>3. CASE CloseInvalidate(t)
  <2> USE <1>3 DEF CloseInvalidate
  <2>1. Typed'
    OBVIOUS
  <2>2. \A c \in Clients : InFlight(c)' => InFlight(c)
    BY  DEF InFlight
  <2>3. KernelInv'
    BY DEF KernelInv, Open, Preparing, Closing
  <2>4. SubInv'
    BY DEF SubInv, Preparing, Stale
  <2>5. ProcessorInv'
    BY <2>2 DEF ProcessorInv
  <2>6. TaskInv'
    BY <2>2 DEF TaskInv, Preparing, Closing
  <2>7. CallbackInv'
    BY DEF CallbackInv
  <2>8. SeqInv'
    BY <2>2 DEF SeqInv, Preparing, InInit
  <2>9. DefersInv'
    BY DEF DefersInv
  <2>10. QED
    BY <2>1, <2>3, <2>4, <2>5, <2>6, <2>7, <2>8, <2>9
<1>4. CASE CloseFd(t)
  <2> USE <1>4 DEF CloseFd
  <2>1. Typed'
    OBVIOUS
  <2>2. \A c \in Clients : InFlight(c)' => InFlight(c)
    BY  DEF InFlight
  <2>3. KernelInv'
    BY DEF KernelInv, Open, Preparing, Closing, SubInv
  <2>4. SubInv'
    BY DEF SubInv, Preparing, Stale
  <2>5. ProcessorInv'
    BY <2>2 DEF ProcessorInv, KernelInv, TaskInv, Preparing
  <2>6. TaskInv'
    BY <2>2 DEF TaskInv, Preparing, Closing
  <2>7. CallbackInv'
    BY DEF CallbackInv
  <2>8. SeqInv'
    <3>1. pc["sub"] = "same_seq" => InFlight(callback) /\ callback \in Clients
      BY DEF CallbackInv, InFlight
    <3>2. t = "main" => \A c \in Clients : sock[fd[t]] = c => ~InFlight(c)
      BY DEF TaskInv, Preparing
    <3>3. t = "sub" => \A c \in Clients : sock[fd[t]] = c /\ InFlight(c) => fd[t] \notin valid
      BY DEF TaskInv
    <3>4. QED
      BY <2>2, <3>1, <3>2, <3>3 DEF SeqInv, CallbackInv, Preparing, InInit
  <2>9. DefersInv'
    BY DEF DefersInv
  <2>10. QED
    BY <2>1, <2>3, <2>4, <2>5, <2>6, <2>7, <2>8, <2>9
<1>5. QED
  BY <1>1, <1>2, <1>3, <1>4, Zenon DEF CloseStep

(* The sub thread polls and handles events. *)
LEMMA EventSteps ==
  ASSUME Safe, PollIo \/ (\E f \in Fds : Dispatch(f)) \/
         OnStreamError \/ ReadCloses \/ ReadServes \/ ReadStartsTask \/
         OnStreamWritable \/ WriteStartsTask
  PROVE  Safe'
<1> USE DEF kernel, slot, Goto, Release, ClosesAndReturnsFalse, NextType,
   MakeAsync
<1>1. CASE PollIo
  <2> USE <1>1 DEF PollIo
  <2>1. Typed'
    OBVIOUS
  <2>2. \A c \in Clients : InFlight(c)' => InFlight(c)
    BY  DEF InFlight
  <2>3. KernelInv'
    BY DEF KernelInv, Open, Preparing, Closing
  <2>4. SubInv'
    BY DEF SubInv, Preparing, Stale
  <2>5. ProcessorInv'
    BY <2>2 DEF ProcessorInv
  <2>6. TaskInv'
    BY <2>2 DEF TaskInv, Preparing, Closing
  <2>7. CallbackInv'
    BY DEF CallbackInv
  <2>8. SeqInv'
    BY <2>2 DEF SeqInv, Preparing, InInit
  <2>9. DefersInv'
    BY DEF DefersInv
  <2>10. QED
    BY <2>1, <2>3, <2>4, <2>5, <2>6, <2>7, <2>8, <2>9
<1>2. ASSUME NEW f \in Fds, Dispatch(f) PROVE Safe'
  <2> USE <1>2 DEF Dispatch
  <2>1. Typed'
    OBVIOUS
  <2>2. \A c \in Clients : InFlight(c)' => InFlight(c)
    BY  DEF InFlight
  <2>3. KernelInv'
    BY DEF KernelInv, Open, Preparing, Closing
  <2>4. SubInv'
    BY DEF SubInv, Preparing, Stale, KernelInv
  <2>5. ProcessorInv'
    BY <2>2 DEF ProcessorInv
  <2>6. TaskInv'
    BY <2>2 DEF TaskInv, Preparing, Closing
  <2>7. CallbackInv'
    BY DEF CallbackInv
  <2>8. SeqInv'
    BY <2>2 DEF SeqInv, Preparing, InInit
  <2>9. DefersInv'
    BY DEF DefersInv
  <2>10. QED
    BY <2>1, <2>3, <2>4, <2>5, <2>6, <2>7, <2>8, <2>9
<1>3. CASE OnStreamError
  <2> USE <1>3 DEF OnStreamError
  <2>1. Typed'
    OBVIOUS
  <2>2. \A c \in Clients : InFlight(c)' => InFlight(c)
    BY  DEF InFlight
  <2>3. KernelInv'
    BY DEF KernelInv, Open, Preparing, Closing
  <2>4. SubInv'
    BY DEF SubInv, Preparing, Stale
  <2>5. ProcessorInv'
    BY <2>2 DEF ProcessorInv
  <2>6. TaskInv'
    BY <2>2 DEF TaskInv, Preparing, Closing
  <2>7. CallbackInv'
    BY DEF CallbackInv
  <2>8. SeqInv'
    BY <2>2 DEF SeqInv, Preparing, InInit
  <2>9. DefersInv'
    BY DEF DefersInv
  <2>10. QED
    BY <2>1, <2>3, <2>4, <2>5, <2>6, <2>7, <2>8, <2>9
<1>4. CASE ReadCloses
  <2> USE <1>4 DEF ReadCloses
  <2>1. Typed'
    OBVIOUS
  <2>2. \A c \in Clients : InFlight(c)' => InFlight(c)
    BY  DEF InFlight
  <2>3. KernelInv'
    BY DEF KernelInv, Open, Preparing, Closing
  <2>4. SubInv'
    BY DEF SubInv, Preparing, Stale
  <2>5. ProcessorInv'
    BY <2>2 DEF ProcessorInv
  <2>6. TaskInv'
    BY <2>2 DEF TaskInv, Preparing, Closing
  <2>7. CallbackInv'
    BY DEF CallbackInv
  <2>8. SeqInv'
    BY <2>2 DEF SeqInv, Preparing, InInit
  <2>9. DefersInv'
    BY DEF DefersInv
  <2>10. QED
    BY <2>1, <2>3, <2>4, <2>5, <2>6, <2>7, <2>8, <2>9
<1>5. CASE ReadServes \/ OnStreamWritable
  <2> USE <1>5 DEF ReadServes, OnStreamWritable
  <2>1. Typed'
    OBVIOUS
  <2>2. \A c \in Clients : InFlight(c)' => InFlight(c)
    BY  DEF InFlight
  <2>3. KernelInv'
    BY DEF KernelInv, Open, Preparing, Closing
  <2>4. SubInv'
    BY DEF SubInv, Preparing, Stale
  <2>5. ProcessorInv'
    BY <2>2 DEF ProcessorInv
  <2>6. TaskInv'
    BY <2>2 DEF TaskInv, Preparing, Closing
  <2>7. CallbackInv'
    BY DEF CallbackInv
  <2>8. SeqInv'
    BY <2>2 DEF SeqInv, Preparing, InInit
  <2>9. DefersInv'
    BY DEF DefersInv
  <2>10. QED
    BY <2>1, <2>3, <2>4, <2>5, <2>6, <2>7, <2>8, <2>9
<1>6. CASE ReadStartsTask \/ WriteStartsTask
  <2> USE <1>6 DEF ReadStartsTask, WriteStartsTask
  <2>0. PICK e \in Clients : MakeAsync(e)
    OBVIOUS
  <2>1. Typed'
    BY <2>0
  <2>2. \A c \in Clients : InFlight(c)' => InFlight(c) \/ c = e
    BY <2>0 DEF InFlight
  <2>3. KernelInv'
    BY DEF KernelInv, Open, Preparing, Closing
  <2>4. SubInv'
    BY DEF SubInv, Preparing, Stale
  <2>5. ProcessorInv'
    <3>1. sock[fd["sub"]] = e
      BY <2>0 DEF SubInv, KernelInv, Open, Closing
    <3>2. QED
      BY <2>0, <2>2, <3>1 DEF ProcessorInv
  <2>6. TaskInv'
    <3>1. sock[fd["sub"]] = e /\ fd["sub"] \in monitored /\ ~Preparing(fd["sub"])
      BY <2>0 DEF SubInv, KernelInv, Open, Closing
    <3>2. QED
      BY <2>0, <2>2, <3>1 DEF KernelInv, TaskInv, Preparing, Closing
  <2>7. CallbackInv'
    BY DEF CallbackInv
  <2>8. SeqInv'
    <3>1. sock[fd["sub"]] = e
      BY <2>0 DEF SubInv, KernelInv, Open, Closing
    <3>2. QED
      BY <2>0, <2>2, <3>1 DEF SeqInv, Preparing, InInit
  <2>9. DefersInv'
    <3>1. ~InFlight(e)
      BY <2>0 DEF ProcessorInv
    <3>2. \A i \in DOMAIN defers : defers[i] # e
      BY <3>1 DEF DefersInv, InFlight
    <3>3. QED
      BY <2>0, <3>2 DEF DefersInv
  <2>10. QED
    BY <2>1, <2>3, <2>4, <2>5, <2>6, <2>7, <2>8, <2>9
<1>7. QED
  BY <1>1, <1>2, <1>3, <1>4, <1>5, <1>6, Zenon

(* The pool runs a task and queues its finish callback. *)
LEMMA PoolSteps ==
  ASSUME Safe, NEW d \in Clients, PoolStep(d)
  PROVE  Safe'
<1> USE DEF kernel, slot
<1>1. CASE RunTask(d)
  <2> USE <1>1 DEF RunTask
  <2>1. Typed'
    OBVIOUS
  <2>2. \A c \in Clients : InFlight(c)' => InFlight(c)
    BY  DEF InFlight
  <2>3. KernelInv'
    BY DEF KernelInv, Open, Preparing, Closing
  <2>4. SubInv'
    BY DEF SubInv, Preparing, Stale
  <2>5. ProcessorInv'
    BY <2>2 DEF ProcessorInv
  <2>6. TaskInv'
    BY <2>2 DEF TaskInv, Preparing, Closing
  <2>7. CallbackInv'
    BY DEF CallbackInv
  <2>8. SeqInv'
    BY <2>2 DEF SeqInv, Preparing, InInit
  <2>9. DefersInv'
    BY DEF DefersInv
  <2>10. QED
    BY <2>1, <2>3, <2>4, <2>5, <2>6, <2>7, <2>8, <2>9
<1>2. CASE TaskFinishes(d)
  <2> USE <1>2 DEF TaskFinishes
  <2>1. Typed'
    OBVIOUS
  <2>2. \A c \in Clients : InFlight(c)' => InFlight(c)
    BY  DEF InFlight
  <2>3. KernelInv'
    BY DEF KernelInv, Open, Preparing, Closing
  <2>4. SubInv'
    BY DEF SubInv, Preparing, Stale
  <2>5. ProcessorInv'
    BY <2>2 DEF ProcessorInv
  <2>6. TaskInv'
    BY <2>2 DEF TaskInv, Preparing, Closing
  <2>7. CallbackInv'
    BY DEF CallbackInv
  <2>8. SeqInv'
    BY <2>2 DEF SeqInv, Preparing, InInit
  <2>9. DefersInv'
    BY DEF DefersInv
  <2>10. QED
    BY <2>1, <2>3, <2>4, <2>5, <2>6, <2>7, <2>8, <2>9
<1>3. QED
  BY <1>1, <1>2, Zenon DEF PoolStep

(* The sub thread runs a finish callback. *)
LEMMA CallbackSteps ==
  ASSUME Safe, CallbackStarts \/ IsOpen \/ SameSeqId \/ Resume \/
         ResumeStartsTask \/ ResumeFails
  PROVE  Safe'
<1> USE DEF kernel, slot, Goto, Release
<1>1. CASE CallbackStarts
  <2> USE <1>1 DEF CallbackStarts
  <2>0. /\ Head(defers) \in Clients /\ task[Head(defers)] = "deferred"
        /\ origin[Head(defers)].conn \in Fds /\ InFlight(Head(defers))
    <3>1. 1 \in DOMAIN defers /\ Head(defers) = defers[1] /\ Head(defers) \in Clients
      OBVIOUS
    <3>2. task[Head(defers)] = "deferred"
      BY <3>1 DEF DefersInv
    <3>3. QED
      BY <3>1, <3>2 DEF TaskInv, InFlight
  <2>1. Typed'
    BY <2>0
  <2>2. \A c \in Clients : InFlight(c)' => InFlight(c)
    BY <2>0 DEF InFlight
  <2>3. KernelInv'
    BY <2>0 DEF KernelInv, Open, Preparing, Closing
  <2>4. SubInv'
    BY <2>0 DEF SubInv, TaskInv, Preparing, Stale
  <2>5. ProcessorInv'
    BY <2>0, <2>2 DEF ProcessorInv
  <2>6. TaskInv'
    BY <2>0, <2>2 DEF TaskInv, Preparing, Closing
  <2>7. CallbackInv'
    BY <2>0 DEF CallbackInv
  <2>8. SeqInv'
    BY <2>0, <2>2 DEF SeqInv, Preparing, InInit
  <2>9. DefersInv'
    <3>1. /\ DOMAIN defers' = 1 .. Len(defers) - 1
          /\ \A i \in DOMAIN defers' :
               {1, i + 1} \subseteq DOMAIN defers /\ defers'[i] = defers[i + 1]
      OBVIOUS
    <3>2. \A i \in DOMAIN defers' : defers'[i] # Head(defers) /\ defers'[i] \in Clients
      BY <3>1 DEF DefersInv
    <3>3. QED
      BY <2>0, <3>1, <3>2, SMTT(30) DEF DefersInv
  <2>10. QED
    BY <2>1, <2>3, <2>4, <2>5, <2>6, <2>7, <2>8, <2>9
<1>2. CASE IsOpen
  <2> USE <1>2 DEF IsOpen
  <2>1. Typed'
    OBVIOUS
  <2>2. \A c \in Clients : InFlight(c)' => InFlight(c)
    BY  DEF InFlight
  <2>3. KernelInv'
    BY DEF KernelInv, Open, Preparing, Closing
  <2>4. SubInv'
    BY DEF SubInv, Preparing, Stale
  <2>5. ProcessorInv'
    BY <2>2 DEF ProcessorInv
  <2>6. TaskInv'
    BY <2>2 DEF TaskInv, Preparing, Closing
  <2>7. CallbackInv'
    BY DEF CallbackInv
  <2>8. SeqInv'
    <3>1. InFlight(callback) /\ callback \in Clients
      BY DEF CallbackInv, InFlight
    <3>2. QED
      BY <2>2, <3>1 DEF SeqInv, CallbackInv, Preparing, InInit
  <2>9. DefersInv'
    BY DEF DefersInv
  <2>10. QED
    BY <2>1, <2>3, <2>4, <2>5, <2>6, <2>7, <2>8, <2>9
<1>3. CASE SameSeqId
  <2> USE <1>3 DEF SameSeqId
  <2>1. Typed'
    OBVIOUS
  <2>2. \A c \in Clients : InFlight(c)' => InFlight(c)
    BY  DEF InFlight
  <2>3. KernelInv'
    BY DEF KernelInv, Open, Preparing, Closing
  <2>4. SubInv'
    BY DEF SubInv, Preparing, Stale
  <2>5. ProcessorInv'
    BY <2>2 DEF ProcessorInv, SeqInv, TaskInv, CallbackInv, Preparing, InInit
  <2>6. TaskInv'
    BY <2>2 DEF TaskInv, Preparing, Closing
  <2>7. CallbackInv'
    BY DEF CallbackInv
  <2>8. SeqInv'
    BY <2>2 DEF SeqInv, Preparing, InInit
  <2>9. DefersInv'
    BY DEF DefersInv
  <2>10. QED
    BY <2>1, <2>3, <2>4, <2>5, <2>6, <2>7, <2>8, <2>9
<1>4. CASE Resume
  <2> USE <1>4 DEF Resume
  <2>1. Typed'
    OBVIOUS
  <2>2. \A c \in Clients : InFlight(c)' => InFlight(c) /\ c # callback
    BY  DEF CallbackInv, InFlight
  <2>3. KernelInv'
    BY DEF KernelInv, Open, Preparing, Closing
  <2>4. SubInv'
    BY DEF SubInv, Preparing, Stale
  <2>5. ProcessorInv'
    BY <2>2 DEF ProcessorInv
  <2>6. TaskInv'
    BY <2>2 DEF TaskInv, Preparing, Closing
  <2>7. CallbackInv'
    BY DEF CallbackInv
  <2>8. SeqInv'
    BY <2>2 DEF SeqInv, Preparing, InInit
  <2>9. DefersInv'
    BY DEF DefersInv
  <2>10. QED
    BY <2>1, <2>3, <2>4, <2>5, <2>6, <2>7, <2>8, <2>9
<1>5. CASE ResumeStartsTask
  <2> USE <1>5 DEF ResumeStartsTask
  <2>1. Typed'
    OBVIOUS
  <2>2. \A c \in Clients : InFlight(c)' => InFlight(c)
    BY  DEF InFlight
  <2>3. KernelInv'
    BY DEF KernelInv, Open, Preparing, Closing
  <2>4. SubInv'
    BY DEF SubInv, Preparing, Stale
  <2>5. ProcessorInv'
    BY <2>2 DEF ProcessorInv
  <2>6. TaskInv'
    BY <2>2 DEF TaskInv, Preparing, Closing
  <2>7. CallbackInv'
    BY DEF CallbackInv
  <2>8. SeqInv'
    BY <2>2 DEF SeqInv, Preparing, InInit
  <2>9. DefersInv'
    BY DEF DefersInv, CallbackInv
  <2>10. QED
    BY <2>1, <2>3, <2>4, <2>5, <2>6, <2>7, <2>8, <2>9
<1>6. CASE ResumeFails
  <2> USE <1>6 DEF ResumeFails
  <2>1. Typed'
    OBVIOUS
  <2>2. \A c \in Clients : InFlight(c)' => InFlight(c) /\ c # callback
    BY  DEF CallbackInv, InFlight
  <2>3. KernelInv'
    BY DEF KernelInv, Open, Preparing, Closing
  <2>4. SubInv'
    BY DEF SubInv, Preparing, Stale
  <2>5. ProcessorInv'
    BY <2>2 DEF ProcessorInv
  <2>6. TaskInv'
    BY <2>2 DEF TaskInv, Preparing, Closing
  <2>7. CallbackInv'
    BY DEF CallbackInv
  <2>8. SeqInv'
    BY <2>2 DEF SeqInv, Preparing, InInit
  <2>9. DefersInv'
    BY DEF DefersInv
  <2>10. QED
    BY <2>1, <2>3, <2>4, <2>5, <2>6, <2>7, <2>8, <2>9
<1>7. QED
  BY <1>1, <1>2, <1>3, <1>4, <1>5, <1>6, Zenon

----------------------------------------------------------------------------
HIDE DEF Safe, Typed, KernelTyped, SlotTyped, ThreadTyped, TaskTyped, Threads,
         Places, InitPlaces, ClosePlaces, CallbackPlaces, Types, TableInv

(* The server starts with every slot free.                                 *)
LEMMA SafeInit == Init => Safe
<1> SUFFICES ASSUME Init PROVE Safe
  OBVIOUS
<1> USE DEF Init
<1>1. Typed
  BY ConstantsAssumption
     DEF Typed, KernelTyped, SlotTyped, ThreadTyped, TaskTyped, Threads, Places
<1>2. KernelInv /\ SubInv /\ CallbackInv
  BY DEF KernelInv, SubInv, CallbackInv, Types, ClosePlaces, CallbackPlaces
<1>3. ProcessorInv /\ TaskInv /\ SeqInv /\ DefersInv
  BY ConstantsAssumption
     DEF ProcessorInv, TaskInv, SeqInv, DefersInv, InFlight, CallbackPlaces
<1>4. QED
  BY <1>1, <1>2, <1>3 DEF Safe, TableInv

(* Every step of every thread and client keeps the invariant.              *)
LEMMA SafeStep == Safe /\ [Next]_vars => Safe'
<1> SUFFICES ASSUME Safe, [Next]_vars PROVE Safe'
  OBVIOUS
<1>1. CASE UNCHANGED vars
  <2> USE <1>1 DEF vars, kernel, slot
  <2>1. Typed'
    BY DEF Safe, Typed, KernelTyped, SlotTyped, ThreadTyped, TaskTyped
  <2>2. KernelInv' /\ SubInv' /\ CallbackInv' /\ DefersInv'
    BY DEF Safe, TableInv, KernelInv, SubInv, CallbackInv, DefersInv, Open,
           Preparing, Closing, Stale
  <2>3. ProcessorInv' /\ TaskInv' /\ SeqInv'
    BY DEF Safe, TableInv, ProcessorInv, TaskInv, SeqInv, InFlight, InInit,
           Preparing, Closing
  <2>4. QED
    BY <2>1, <2>2, <2>3 DEF Safe, TableInv
<1>2. CASE Next
  <2>1. CASE MainStep
    BY <2>1, InitSteps, CloseSteps DEF MainStep, Threads
  <2>2. CASE SubStep
    BY <2>2, EventSteps, CloseSteps, CallbackSteps DEF SubStep, Threads
  <2>3. CASE (\E f \in Fds : Sends(f) \/ HangsUp(f) \/ BecomesWritable(f))
             \/ (\E f \in Fds, c \in Clients : Accept(f, c))
    BY <2>3, ClientSteps
  <2>4. CASE \E c \in Clients : PoolStep(c)
    BY <2>4, PoolSteps
  <2>5. QED
    BY <1>2, <2>1, <2>2, <2>3, <2>4 DEF Next
<1>3. QED
  BY <1>1, <1>2

LEMMA SafeAlways == Spec => []Safe
  BY SafeInit, SafeStep, PTL DEF Spec

----------------------------------------------------------------------------
(* Every variable keeps its type, whatever clients do and however late a   *)
(* finish callback comes: a queued callback has the slot it captured.      *)
THEOREM TypeCorrect == Spec => []TypeOK
<1>1. Safe => TypeOK
  BY DEF Safe, Typed, KernelTyped, SlotTyped, ThreadTyped, TaskTyped, Threads,
         Places, TypeOK
<1>2. QED
  BY <1>1, SafeAlways, PTL

(* The main thread, from accept to activate, and the sub thread, in its     *)
(* handlers, callbacks and close, are in the same slot only with a finish  *)
(* callback that has come after its connection was closed.                 *)
THEOREM ThreadsKeepApart == Spec => []SlotNotShared
<1>1. Safe => SlotNotShared
  BY DEF Safe, Typed, ThreadTyped, Threads, TableInv, SubInv, Preparing,
         SlotNotShared
<1>2. QED
  BY <1>1, SafeAlways, PTL

(* A handler meets the open connection of the client whose event it is,    *)
(* with its buffers and processor, though the events of one epoll_wait are *)
(* dispatched one after the other, a handler may close the connection, and *)
(* late callbacks close the slots of others.                               *)
THEOREM EventsMeetTheirConnection == Spec => []HandlersMeetTheirOwn
<1>1. Safe => HandlersMeetTheirOwn
  <2> SUFFICES ASSUME Safe, pc["sub"] \in Types
               PROVE  /\ fd["sub"] \in valid \cap equipped
                      /\ processor[fd["sub"]] = sock[fd["sub"]]
    BY DEF HandlersMeetTheirOwn
  <2>1. fd["sub"] \in monitored
    BY DEF Safe, TableInv, SubInv
  <2>2. ~Closing(fd["sub"])
    BY DEF Closing, ClosePlaces, Types
  <2>3. QED
    BY <2>1, <2>2 DEF Safe, TableInv, KernelInv, Open
<1>2. QED
  BY <1>1, SafeAlways, PTL

(* While the pool has a task the loop does not work for its client: events *)
(* find the status ExecAsyncTask, and the callback that resumes the        *)
(* processor is that of another task, also when it has come too late and   *)
(* the tests of is_open and _seq_id let it pass.                           *)
THEOREM TasksAreUndisturbed == Spec => []TasksAreLeftAlone
<1>1. Safe => TasksAreLeftAlone
  <2> SUFFICES ASSUME Safe, NEW c \in Clients,
                      task[c] \in {"posted", "running"}, LoopUses(c)
               PROVE  FALSE
    BY DEF TasksAreLeftAlone
  <2>1. fd["sub"] \in Fds /\ processor[fd["sub"]] = c /\ InFlight(c)
    BY DEF LoopUses, Safe, Typed, ThreadTyped, Threads, InFlight
  <2>2. c \in executing
    BY <2>1 DEF Safe, TableInv, ProcessorInv
  <2>3. pc["sub"] = "resume"
    BY <2>2 DEF LoopUses
  <2>4. c # callback
    BY <2>3 DEF Safe, TableInv, CallbackInv, CallbackPlaces
  <2>5. QED
    BY <2>1, <2>3, <2>4 DEF Safe, TableInv, ProcessorInv
<1>2. QED
  BY <1>1, SafeAlways, PTL

(* A finish callback that finds the number its task was started with is on *)
(* its own connection, with its own processor, however often the slot was  *)
(* closed and used again; only in the middle of init the number may still  *)
(* be the old one.                                                         *)
THEOREM CallbacksAreToldApart == Spec => []StaleCallbacksAreToldApart
<1>1. Safe => StaleCallbacksAreToldApart
  <2> DEFINE f == fd["sub"]
  <2> SUFFICES ASSUME Safe, pc["sub"] = "same_seq",
                      seq_id[f] = origin[callback].seq_id, ~InInit(f)
               PROVE  sock[f] = callback /\ processor[f] = callback
    BY DEF StaleCallbacksAreToldApart, InInit, Preparing
  <2>1. f \in Fds /\ callback \in Clients /\ InFlight(callback)
    BY DEF Safe, Typed, ThreadTyped, Threads, TableInv, CallbackInv,
           CallbackPlaces, InFlight
  <2>2. seq_id[f] \in Nat
    BY <2>1 DEF Safe, Typed, SlotTyped
  <2>3. sock[f] = callback
    BY <2>2 DEF Safe, TableInv, SeqInv
  <2>4. processor[f] = callback \/ Closing(f)
    BY <2>1, <2>3 DEF Safe, TableInv, TaskInv
  <2>5. QED
    BY <2>3, <2>4 DEF Closing, ClosePlaces
<1>2. QED
  BY <1>1, SafeAlways, PTL
=========================================================================
