------------------------- MODULE ConnectionTable -------------------------
(***************************************************************************)
(* RxServer's _connection_list (src/Server/Server.cpp) and its slots       *)
(* (src/Network/Connection.cpp).  The slot of a connection is the one that *)
(* its descriptor numbers, so a slot is used again as soon as the kernel   *)
(* gives the number to the next client.  Three kinds of threads meet       *)
(* there:                                                                  *)
(*   - the main loop's, which accepts a client and prepares its slot,      *)
(*   - the sub loop's, which handles the events of the descriptor and the  *)
(*     callbacks of finished tasks, and closes the connection,             *)
(*   - the pool's, which run the responders wrapped in MakeAsync with      *)
(*     references to the connection's request and response.                *)
(* No mutex protects a slot: who may touch it follows from the order of    *)
(* the steps alone.                                                        *)
(*                                                                         *)
(* The sub loop is the serial executor of its works that EventLoop shows   *)
(* it to be, and the pool runs what is posted (ThreadPool).  A processor,  *)
(* which holds the request and the response, stands for the client it was  *)
(* made for.  A client may hang up at any time, also while the pool works  *)
(* for it: its processor is destroyed, the task goes on with references to *)
(* it, and its finish callback comes when the slot may be another's.       *)
(*                                                                         *)
(* A step that would use a processor or a loop that is not there has no    *)
(* outcome, and is not taken (Undefined).  What a task does with a request *)
(* and a response that are gone is not looked at: it ends all the same.    *)
(***************************************************************************)
EXTENDS Naturals, Sequences, Functions

CONSTANTS
  Fds,        \* descriptor numbers below _max_connection
  Clients     \* clients, each of which connects at most once

ASSUME ConstantsAssumption ==
  /\ {"none", "nullptr"} \cap Clients = {}
  /\ "none" \notin Fds

VARIABLES
  sock,        \* the client descriptor f belongs to, "none" while f is free
  pending,     \* what epoll has to report of f
  gone,        \* the clients that have hung up or been closed
  monitored,   \* the descriptors in the sub loop's epoll
  valid,       \* the slots with _rx_fd # RxInvalidFD
  equipped,    \* the slots with buffers and _eventloop_belongs
  processor,   \* _proto_processor of each slot, or "nullptr"; "none" is one that
               \* was made for a client whose descriptor was closed meanwhile
  seq_id,      \* _seq_id of each slot
  pc, fd,      \* where the main and the sub thread are, and with which slot
  events,      \* what epoll_wait returned and is not yet dispatched
  executing,   \* the clients whose response has the status ExecAsyncTask
  task,        \* where each client's MakeAsync task is
  origin,      \* the `conn' and origin_seq_id it has captured
  defers,      \* the clients whose finish callback is queued
  callback     \* the client whose finish callback runs, or "none"

kernel == <<sock, pending, gone>>
slot == <<valid, equipped, processor, seq_id>>
vars == <<kernel, monitored, slot, pc, fd, events, executing, task, origin,
          defers, callback>>

Types == {"ERROR", "READ", "WRITE"}
InitPlaces == {"init_fd", "init_bufs", "init_seq", "set_processor", "activate"}
ClosePlaces == {"close", "close_reset", "close_invalidate", "close_fd"}
CallbackPlaces == {"is_open", "same_seq", "resume"}

TypeOK ==
  /\ sock \in [Fds -> Clients \union {"none"}]
  /\ pending \in [Fds -> SUBSET Types]
  /\ gone \subseteq Clients
  /\ monitored \subseteq Fds /\ valid \subseteq Fds /\ equipped \subseteq Fds
  /\ processor \in [Fds -> Clients \union {"nullptr", "none"}]
  /\ seq_id \in [Fds -> Nat]
  /\ pc \in [{"main", "sub"} -> {"idle"} \union InitPlaces \union ClosePlaces
                                  \union Types \union CallbackPlaces]
  /\ fd \in [{"main", "sub"} -> Fds \union {"none"}]
  /\ events \in [Fds -> SUBSET Types]
  /\ executing \subseteq Clients
  /\ task \in [Clients -> {"none", "posted", "running", "deferred"}]
  /\ origin \in [Clients -> [conn : Fds \union {"none"}, seq_id : Nat]]
  /\ defers \in Seq(Clients)
  /\ callback \in Clients \union {"none"}

Init ==
  /\ sock = [f \in Fds |-> "none"]
  /\ pending = [f \in Fds |-> {}]
  /\ gone = {}
  /\ monitored = {} /\ valid = {} /\ equipped = {}
  /\ processor = [f \in Fds |-> "nullptr"]
  /\ seq_id = [f \in Fds |-> 0]
  /\ pc = [t \in {"main", "sub"} |-> "idle"]
  /\ fd = [t \in {"main", "sub"} |-> "none"]
  /\ events = [f \in Fds |-> {}]
  /\ executing = {}
  /\ task = [c \in Clients |-> "none"]
  /\ origin = [c \in Clients |-> [conn |-> "none", seq_id |-> 0]]
  /\ defers = <<>>
  /\ callback = "none"

Goto(t, from, to) ==
  /\ pc[t] = from
  /\ pc' = [pc EXCEPT ![t] = to]

\* The thread is done with its slot.
Release(t, from) ==
  /\ Goto(t, from, "idle")
  /\ fd' = [fd EXCEPT ![t] = "none"]
  /\ callback' = IF t = "sub" THEN "none" ELSE callback

----------------------------------------------------------------------------
(* The clients. *)

Connected(f) == sock[f] # "none" /\ sock[f] \notin gone

Sends(f) ==
  /\ Connected(f)
  /\ pending' = [pending EXCEPT ![f] = @ \union {"READ"}]
  /\ UNCHANGED <<sock, gone, monitored, slot, pc, fd, events, executing, task,
                 origin, defers, callback>>

\* close, shutdown of both directions, or a RST: EPOLLRDHUP, and the end of
\* the file or an error to read.
HangsUp(f) ==
  /\ Connected(f)
  /\ gone' = gone \union {sock[f]}
  /\ pending' = [pending EXCEPT ![f] = @ \union {"ERROR", "READ"}]
  /\ UNCHANGED <<sock, monitored, slot, pc, fd, events, executing, task,
                 origin, defers, callback>>

BecomesWritable(f) ==
  /\ Connected(f)
  /\ pending' = [pending EXCEPT ![f] = @ \union {"WRITE"}]
  /\ UNCHANGED <<sock, gone, monitored, slot, pc, fd, events, executing, task,
                 origin, defers, callback>>

----------------------------------------------------------------------------
(* The main loop: on_acceptable. *)

\* accept gives the next client a number that is free.
Accept(f, c) ==
  /\ Goto("main", "idle", "init_fd")
  /\ sock[f] = "none"
  /\ c \notin gone \union Range(sock)
  /\ sock' = [sock EXCEPT ![f] = c]
  /\ fd' = [fd EXCEPT !["main"] = f]
  /\ UNCHANGED <<pending, gone, monitored, slot, events, executing, task,
                 origin, defers, callback>>

\* RxConnection::init, in its order.
InitFd ==
  /\ Goto("main", "init_fd", "init_bufs")
  /\ valid' = valid \union {fd["main"]}
  /\ UNCHANGED <<kernel, monitored, equipped, processor, seq_id, fd, events,
                 executing, task, origin, defers, callback>>

InitBufs ==
  /\ Goto("main", "init_bufs", "init_seq")
  /\ equipped' = equipped \union {fd["main"]}
  /\ UNCHANGED <<kernel, monitored, valid, processor, seq_id, fd, events,
                 executing, task, origin, defers, callback>>

\* A variant: the number of the connection stays what it was.
InitSeq_KeepsId ==
  /\ Goto("main", "init_seq", "set_processor")
  /\ UNCHANGED <<kernel, monitored, slot, fd, events, executing, task, origin,
                 defers, callback>>

InitSeq ==
  /\ Goto("main", "init_seq", "set_processor")
  /\ seq_id' = [seq_id EXCEPT ![fd["main"]] = @ + 1]
  /\ UNCHANGED <<kernel, monitored, valid, equipped, processor, fd, events,
                 executing, task, origin, defers, callback>>

SetProtoProcessor ==
  /\ Goto("main", "set_processor", "activate")
  /\ processor' = [processor EXCEPT ![fd["main"]] = sock[fd["main"]]]
  /\ UNCHANGED <<kernel, monitored, valid, equipped, seq_id, fd, events,
                 executing, task, origin, defers, callback>>

\* activate: from here on the sub loop may get events of the descriptor, which
\* must still be open.
Activate ==
  /\ Release("main", "activate")
  /\ fd["main"] \in valid \cap equipped /\ sock[fd["main"]] # "none"
  /\ monitored' = monitored \union {fd["main"]}
  /\ UNCHANGED <<kernel, slot, events, executing, task, origin, defers>>

\* A variant: the failure is logged and that is all.
ActivateFails_KeepsOpen ==
  /\ Release("main", "activate")
  /\ fd["main"] \in equipped
  /\ UNCHANGED <<kernel, monitored, slot, events, executing, task, origin,
                 defers>>

\* EPOLL_CTL_ADD may fail: the main thread closes the connection.
ActivateFails ==
  /\ Goto("main", "activate", "close")
  /\ fd["main"] \in equipped
  /\ UNCHANGED <<kernel, monitored, slot, fd, events, executing, task, origin,
                 defers, callback>>

----------------------------------------------------------------------------
(* RxConnection::close, by either thread t. *)

\* It does nothing to a slot whose _rx_fd is invalid.
CloseUnmonitors(t) ==
  /\ \/ /\ fd[t] \in valid \cap equipped
        /\ Goto(t, "close", "close_reset")
        /\ monitored' = monitored \ {fd[t]}
        /\ UNCHANGED <<fd, callback>>
     \/ /\ fd[t] \notin valid
        /\ Release(t, "close")
        /\ UNCHANGED monitored
  /\ UNCHANGED <<kernel, slot, events, executing, task, origin, defers>>

\* The buffers, the loop, and the processor with its request and response.
CloseReset(t) ==
  /\ Goto(t, "close_reset", "close_invalidate")
  /\ equipped' = equipped \ {fd[t]}
  /\ processor' = [processor EXCEPT ![fd[t]] = "nullptr"]
  /\ executing' = executing \ {processor[fd[t]]}
  /\ UNCHANGED <<kernel, monitored, valid, seq_id, fd, events, task, origin,
                 defers, callback>>

\* A variant: FDHelper::close closes the descriptor before it resets it.
CloseInvalidate_ClosesFirst(t) ==
  /\ Goto(t, "close_invalidate", "close_fd")
  /\ sock' = [sock EXCEPT ![fd[t]] = "none"]
  /\ gone' = gone \union {sock[fd[t]]}
  /\ pending' = [pending EXCEPT ![fd[t]] = {}]
  /\ monitored' = monitored \ {fd[t]}
  /\ UNCHANGED <<slot, fd, events, executing, task, origin, defers, callback>>

\* FDHelper::close resets _rx_fd ...
CloseInvalidate(t) ==
  /\ Goto(t, "close_invalidate", "close_fd")
  /\ valid' = valid \ {fd[t]}
  /\ UNCHANGED <<kernel, monitored, equipped, processor, seq_id, fd, events,
                 executing, task, origin, defers, callback>>

\* ... and then closes it: the kernel drops it from every epoll, and the number
\* is free for the next client.
CloseFd(t) ==
  /\ Release(t, "close_fd")
  /\ sock' = [sock EXCEPT ![fd[t]] = "none"]
  /\ gone' = gone \union ({sock[fd[t]]} \ {"none"})
  /\ pending' = [pending EXCEPT ![fd[t]] = {}]
  /\ monitored' = monitored \ {fd[t]}
  /\ UNCHANGED <<slot, events, executing, task, origin, defers>>

----------------------------------------------------------------------------
(* The sub loop: events. *)

\* epoll_wait, edge-triggered.
PollIo ==
  /\ pc["sub"] = "idle"
  /\ \A f \in Fds : events[f] = {}
  /\ \E f \in monitored : pending[f] # {}
  /\ events' = [f \in Fds |-> IF f \in monitored THEN pending[f] ELSE {}]
  /\ pending' = [f \in Fds |-> IF f \in monitored THEN {} ELSE pending[f]]
  /\ UNCHANGED <<sock, gone, monitored, slot, pc, fd, executing, task, origin,
                 defers, callback>>

\* The order get_rx_event_types gives to the types of one descriptor.
NextType(f) ==
  CASE "ERROR" \in events[f] -> "ERROR"
    [] "READ" \in events[f] -> "READ"
    [] OTHER -> "WRITE"

\* The handler of the next event is called.
Dispatch(f) ==
  /\ events[f] # {}
  /\ Goto("sub", "idle", NextType(f))
  /\ events' = [events EXCEPT ![f] = @ \ {NextType(f)}]
  /\ fd' = [fd EXCEPT !["sub"] = f]
  /\ UNCHANGED <<kernel, monitored, slot, executing, task, origin, defers,
                 callback>>

\* A handler that closes the connection and returns false: what is left of
\* the descriptor's events is dropped.
ClosesAndReturnsFalse(type) ==
  /\ Goto("sub", type, "close")
  /\ events' = [events EXCEPT ![fd["sub"]] = {}]
  /\ UNCHANGED <<kernel, monitored, slot, fd, executing, task, origin, defers,
                 callback>>

\* A variant: the handler returns true.
OnStreamError_ReturnsTrue ==
  /\ Goto("sub", "ERROR", "close")
  /\ UNCHANGED <<kernel, monitored, slot, fd, events, executing, task, origin,
                 defers, callback>>

OnStreamError == ClosesAndReturnsFalse("ERROR")

\* recv meets the end of the file or an error, or the protocol gives up.
ReadCloses ==
  /\ ClosesAndReturnsFalse("READ")
  /\ sock[fd["sub"]] \in gone \/ sock[fd["sub"]] \notin executing

\* Data that makes no request yet, a request that is answered at once, or
\* data that stays in the input buffer while a task executes.
ReadServes ==
  /\ Release("sub", "READ")
  /\ sock[fd["sub"]] \notin gone
  /\ UNCHANGED <<kernel, monitored, slot, events, executing, task, origin,
                 defers>>

\* The responder of c's request is wrapped in MakeAsync: it is posted, with
\* references to the request and the response, and until its callback has
\* run nothing more is parsed or sent.
MakeAsync(c) ==
  /\ c = processor[fd["sub"]]
  /\ c \notin executing
  /\ executing' = executing \union {c}
  /\ task' = [task EXCEPT ![c] = "posted"]
  /\ origin' = [origin EXCEPT ![c] = [conn |-> fd["sub"],
                                      seq_id |-> seq_id[fd["sub"]]]]

ReadStartsTask ==
  /\ Release("sub", "READ")
  /\ sock[fd["sub"]] \notin gone
  /\ \E c \in Clients : MakeAsync(c)
  /\ UNCHANGED <<kernel, monitored, slot, events, defers>>

\* on_stream_writable closes nothing, whatever goes wrong.
OnStreamWritable ==
  /\ Release("sub", "WRITE")
  /\ UNCHANGED <<kernel, monitored, slot, events, executing, task, origin,
                 defers>>

\* What is left of a response is sent, and the next request in the input
\* buffer has a responder wrapped in MakeAsync.
WriteStartsTask ==
  /\ Release("sub", "WRITE")
  /\ \E c \in Clients : MakeAsync(c)
  /\ UNCHANGED <<kernel, monitored, slot, events, defers>>

----------------------------------------------------------------------------
(* The pool's threads. *)

RunTask(c) ==
  /\ task[c] = "posted"
  /\ task' = [task EXCEPT ![c] = "running"]
  /\ UNCHANGED <<kernel, monitored, slot, pc, fd, events, executing, origin,
                 defers, callback>>

\* A variant: the finish callback is not queued.
TaskFinishes_NotQueued(c) ==
  /\ task[c] = "running"
  /\ task' = [task EXCEPT ![c] = "deferred"]
  /\ UNCHANGED <<kernel, monitored, slot, pc, fd, events, executing, origin,
                 defers, callback>>

\* A variant: the finish callback captures by reference, and means whatever
\* the loop's thread is busy with.
TaskFinishes_ByReference(c) ==
  /\ task[c] = "running"
  /\ task' = [task EXCEPT ![c] = "deferred"]
  /\ defers' = Append(defers, callback)
  /\ UNCHANGED <<kernel, monitored, slot, pc, fd, events, executing, origin,
                 callback>>

\* The responder returns, and the finish callback is queued to the sub loop.
TaskFinishes(c) ==
  /\ task[c] = "running"
  /\ task' = [task EXCEPT ![c] = "deferred"]
  /\ defers' = Append(defers, c)
  /\ UNCHANGED <<kernel, monitored, slot, pc, fd, events, executing, origin,
                 callback>>

----------------------------------------------------------------------------
(* The sub loop: the finish callback of MakeAsync. *)

\* A round's events are all dispatched before its works are run.
CallbackStarts ==
  /\ Goto("sub", "idle", "is_open")
  /\ defers # <<>>
  /\ \A f \in Fds : events[f] = {}
  /\ callback' = Head(defers)
  /\ fd' = [fd EXCEPT !["sub"] = origin[Head(defers)].conn]
  /\ task' = [task EXCEPT ![Head(defers)] = "none"]
  /\ defers' = Tail(defers)
  /\ UNCHANGED <<kernel, monitored, slot, events, executing, origin>>

\* if(!conn->is_open() || conn->get_seq_id()!=origin_seq_id) conn->close()
IsOpen ==
  /\ Goto("sub", "is_open", IF fd["sub"] \in valid THEN "same_seq" ELSE "close")
  /\ UNCHANGED <<kernel, monitored, slot, fd, events, executing, task, origin,
                 defers, callback>>

SameSeqId ==
  /\ Goto("sub", "same_seq",
          IF seq_id[fd["sub"]] = origin[callback].seq_id THEN "resume" ELSE "close")
  /\ UNCHANGED <<kernel, monitored, slot, fd, events, executing, task, origin,
                 defers, callback>>

\* The response gets its next status and the processor resumes, if they are
\* there: it sends the response ...
Resume ==
  /\ Release("sub", "resume")
  /\ processor[fd["sub"]] = callback
  /\ executing' = executing \ {callback}
  /\ UNCHANGED <<kernel, monitored, slot, events, task, origin, defers>>

\* ... goes on to the next request in the input buffer, the responder of
\* which may be wrapped in MakeAsync again, or ...
ResumeStartsTask ==
  /\ Release("sub", "resume")
  /\ processor[fd["sub"]] = callback
  /\ task' = [task EXCEPT ![callback] = "posted"]
  /\ UNCHANGED <<kernel, monitored, slot, events, executing, origin, defers>>

\* ... meets an error, and the connection is closed.
ResumeFails ==
  /\ Goto("sub", "resume", "close")
  /\ processor[fd["sub"]] = callback
  /\ executing' = executing \ {callback}
  /\ UNCHANGED <<kernel, monitored, slot, fd, events, task, origin, defers,
                 callback>>

----------------------------------------------------------------------------
CloseStep(t) ==
  CloseUnmonitors(t) \/ CloseReset(t) \/ CloseInvalidate(t) \/ CloseFd(t)

MainStep ==
  \/ InitFd \/ InitBufs \/ InitSeq \/ SetProtoProcessor
  \/ Activate \/ ActivateFails
  \/ CloseStep("main")

SubStep ==
  \/ PollIo \/ \E f \in Fds : Dispatch(f)
  \/ OnStreamError \/ ReadCloses \/ ReadServes \/ ReadStartsTask
  \/ OnStreamWritable \/ WriteStartsTask
  \/ CallbackStarts \/ IsOpen \/ SameSeqId
  \/ Resume \/ ResumeStartsTask \/ ResumeFails
  \/ CloseStep("sub")

PoolStep(c) == RunTask(c) \/ TaskFinishes(c)

Next ==
  \/ \E f \in Fds : Sends(f) \/ HangsUp(f) \/ BecomesWritable(f)
  \/ \E f \in Fds, c \in Clients : Accept(f, c)
  \/ MainStep
  \/ SubStep
  \/ \E c \in Clients : PoolStep(c)

\* The threads keep running, and the pool runs what is posted (PostedIsRun of
\* ThreadPool).  Every round of the sub loop polls and runs the works that
\* are queued, so neither keeps the other waiting for ever (QueuedIsExecuted
\* of EventLoop).  No client has to connect, send or hang up.
Fairness ==
  /\ WF_vars(MainStep)
  /\ WF_vars(SubStep) /\ SF_vars(PollIo) /\ SF_vars(CallbackStarts)
  /\ \A c \in Clients : WF_vars(PoolStep(c))

Spec == Init /\ [][Next]_vars /\ Fairness

----------------------------------------------------------------------------
(* Properties. *)

\* A null pointer is used: the loop of a slot that is closed by one thread
\* while the other is in it, or a processor that is not there.
Undefined ==
  \/ pc["main"] = "activate" /\ fd["main"] \notin equipped
  \/ \E t \in {"main", "sub"} : pc[t] = "close" /\ fd[t] \in valid \ equipped
  \/ pc["sub"] = "resume" /\ processor[fd["sub"]] # callback

\* A finish callback whose connection was closed before it came.
Stale == callback # "none" /\ sock[fd["sub"]] # callback

\* The main thread and the sub thread are never in the same slot: the main
\* thread has the slot from accept to activate, and close gives the number
\* back to accept only when it is done with the slot ("must put close at
\* the end, or it would cause race condition", Connection.cpp:85).  A finish
\* callback that comes after its connection was closed keeps to no order.
SlotNotShared ==
  pc["main"] # "idle" /\ pc["sub"] # "idle" => fd["main"] # fd["sub"] \/ Stale

\* A handler meets the connection whose event it handles: open, with its
\* buffers, and with the processor of the client the descriptor belongs to,
\* though events are dispatched one by one after epoll_wait has returned, and
\* late callbacks close slots that are other clients' by then.
HandlersMeetTheirOwn ==
  pc["sub"] \in Types =>
    /\ fd["sub"] \in valid \cap equipped
    /\ processor[fd["sub"]] = sock[fd["sub"]]

\* While the pool has a task the loop neither parses into its request, nor
\* sends its response, nor clears them, whatever events come.
LoopUses(c) ==
  /\ fd["sub"] # "none" /\ processor[fd["sub"]] = c
  /\ pc["sub"] = "resume" \/ (pc["sub"] \in {"READ", "WRITE"} /\ c \notin executing)

TasksAreLeftAlone ==
  \A c \in Clients :
    task[c] \in {"posted", "running"} => ~LoopUses(c)

\* While the pool has a task its request and response are there.  (They are
\* not: close destroys them, whoever has references to them.)
RequestsOutliveTasks ==
  \A c \in Clients :
    task[c] \in {"posted", "running"} => processor[origin[c].conn] = c

\* A finish callback acts on the connection its task belongs to, never on
\* the one that uses the slot after it (_seq_id "increases when this object
\* is reused", Connection.h:63).
CallbackKeepsToItsOwn ==
  callback # "none" /\ pc["sub"] \in {"resume", "close_reset"} =>
    sock[fd["sub"]] = callback

\* What the tests of is_open and _seq_id achieve of it: a callback that finds
\* the number it has captured is on its own connection, however often the slot
\* was closed and used again since, but in the middle of init, between the
\* assignment of _rx_fd and the increment of _seq_id.
StaleCallbacksAreToldApart ==
  pc["sub"] = "same_seq" /\ seq_id[fd["sub"]] = origin[callback].seq_id =>
    \/ sock[fd["sub"]] = callback /\ processor[fd["sub"]] = callback
    \/ fd["main"] = fd["sub"] /\ pc["main"] \in {"init_bufs", "init_seq"}

\* The callback of every task that was posted is called, also when its
\* connection is closed meanwhile, unless a null pointer is used.
TasksAreCalledBack ==
  \/ \A c \in Clients : (task[c] = "posted") ~> (task[c] = "none")
  \/ <>[]Undefined

\* The descriptor of a client that has hung up is closed: no client can make
\* the server keep it, whatever the server was doing with the connection,
\* unless a null pointer is used.
SocketsAreReleased ==
  \/ \A c \in Clients : (c \in gone) ~> (c \notin Range(sock))
  \/ <>[]Undefined
=========================================================================
