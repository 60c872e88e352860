----------------------------- MODULE Server -----------------------------
(***************************************************************************)
(* The main loop of RxServer (src/src/Server/Server.cpp): it accepts the   *)
(* clients of an edge-triggered listener, gives each to the slot and the   *)
(* sub loop of its descriptor, runs the handlers of signals at the end of  *)
(* its rounds (Signal.cpp), and ends when the server is stopped, by a      *)
(* handler or by another thread (WorkerThreadLoops.cpp).                   *)
(*                                                                         *)
(* A sub loop does here what EventLoop shows: it runs until it is told to  *)
(* stop, and then ends.  What becomes of a connection between its          *)
(* activation and its close is in ConnectionTable.                         *)
(***************************************************************************)
EXTENDS Naturals, FiniteSetsExt

CONSTANTS
  Fds,            \* the descriptor numbers left for clients and files
  MaxConnection,  \* _max_connection, the length of the table
  MaxOnce,        \* _max_once_accept_count
  LoopNum,        \* get_thread_num()
  Clients,        \* bound: how many clients come
  MaxFiles,       \* bound: how many files responders have open at once
  Signals,        \* the signals with a handler
  Callers,        \* the threads beside the main loop's that may call stop
  OneByOne        \* does a call of stop only begin when none is under way?

ASSUME ServerAssumption ==
  /\ Fds \subseteq Nat /\ IsFiniteSet(Fds)
  /\ {MaxConnection, MaxOnce, LoopNum} \subseteq Nat \ {0} /\ {Clients, MaxFiles} \subseteq Nat
  /\ 0 \notin Signals /\ "main" \notin Callers
  /\ OneByOne \in BOOLEAN

VARIABLES
  came,       \* how many clients have connected
  backlog,    \* how many of them wait in the listener
  edge,       \* has epoll an EPOLLIN of the listener to report?
  listening,  \* is the listener in the main loop's epoll?
  open,       \* the descriptors of clients
  files,      \* the descriptors of files
  valid,      \* the slots with _rx_fd # RxInvalidFD
  pc,         \* where the main loop is
  accepted,   \* the client_fd of the turn, in a set of at most one
  turn,       \* i, in the loop of on_acceptable
  ended,      \* how the last on_acceptable ended
  signo,      \* _signo, 0 if there is none
  woken,      \* has epoll an event of the main loop's eventfd to report?
  running,    \* _is_running of the main loop
  start,      \* _start
  at, nth,    \* where each thread is in stop, and with which sub loop
  loop        \* each sub loop: "created", "runs", "stopped", "ended" or "joined"

listener == <<came, backlog, edge, listening>>
table == <<open, files, valid>>
accepting == <<accepted, turn, ended>>
noted == <<signo, woken>>
stopping == <<running, start, at, nth, loop>>
vars == <<listener, table, pc, accepting, noted, stopping>>

Threads == Callers \union {"main"}
Loops == 0 .. LoopNum - 1
StopPlaces ==
  {"disable_accept", "stop_loop", "join", "stop_main", "stop_pool", "clear_start"}

TypeOK ==
  /\ came \in 0 .. Clients /\ backlog \in 0 .. came
  /\ edge \in BOOLEAN /\ listening \in BOOLEAN
  /\ open \subseteq Fds /\ files \subseteq Fds \ open
  /\ valid \subseteq 0 .. MaxConnection - 1
  /\ pc \in {"listen", "enable_accept", "start_loop", "while", "poll", "blocked",
             "accept", "get_connection", "activate", "on_finish", "handler", "end"}
  /\ accepted \subseteq Fds /\ Cardinality(accepted) <= 1
  /\ turn \in 0 .. MaxOnce
  /\ ended \in {"never", "all_accepted", "failed", "error", "full", "limit"}
  /\ signo \in Signals \union {0} /\ woken \in BOOLEAN
  /\ running \in BOOLEAN /\ start \in BOOLEAN
  /\ at \in [Threads -> {"out", "returned"} \union StopPlaces]
  /\ nth \in [Threads -> 0 .. LoopNum]
  /\ loop \in [Loops -> {"created", "runs", "stopped", "ended", "joined"}]

\* listen() has created the threads of the sub loops and enabled the signals.
Init ==
  /\ came = 0 /\ backlog = 0 /\ edge = FALSE /\ listening = FALSE
  /\ open = {} /\ files = {} /\ valid = {}
  /\ pc = "listen"
  /\ accepted = {} /\ turn = 0 /\ ended = "never"
  /\ signo = 0 /\ woken = FALSE
  /\ running = FALSE /\ start = FALSE
  /\ at = [t \in Threads |-> "out"] /\ nth = [t \in Threads |-> 0]
  /\ loop = [l \in Loops |-> "created"]

Goto(from, to) == pc = from /\ pc' = to

----------------------------------------------------------------------------
(* The clients, the sub loops and the signals. *)

\* The kernel gives the lowest number that is free.
Free == Fds \ (open \union files)

Connects ==
  /\ came < Clients
  /\ came' = came + 1 /\ backlog' = backlog + 1
  /\ edge' = TRUE
  /\ UNCHANGED <<listening, table, pc, accepting, noted, stopping>>

\* worker_index
LoopOf(f) == f % LoopNum

\* RxConnection::close, on the loop the connection belongs to.
Closes(f) ==
  /\ f \in open \cap valid /\ f \notin accepted
  /\ loop[LoopOf(f)] \in {"runs", "stopped"}
  /\ open' = open \ {f} /\ valid' = valid \ {f}
  /\ UNCHANGED <<listener, files, pc, accepting, noted, stopping>>

\* Responders open and close files.
OpensFile ==
  /\ Free # {} /\ Cardinality(files) < MaxFiles
  /\ files' = files \union {Min(Free)}
  /\ UNCHANGED <<listener, open, valid, pc, accepting, noted, stopping>>

ClosesFile(f) ==
  /\ f \in files
  /\ files' = files \ {f}
  /\ UNCHANGED <<listener, open, valid, pc, accepting, noted, stopping>>

\* async_sig_handler.  epoll_wait does not go on after it.
Raises(s) ==
  /\ pc # "end"
  /\ signo' = s
  /\ pc' = IF pc = "blocked" THEN "on_finish" ELSE pc
  /\ UNCHANGED <<listener, table, accepting, woken, stopping>>

----------------------------------------------------------------------------
(* The end of listen, and the rounds of the main loop. *)

SetStart ==
  /\ Goto("listen", "enable_accept")
  /\ start' = TRUE
  /\ UNCHANGED <<listener, table, accepting, noted, running, at, nth, loop>>

\* Clients that have come since listen(2) make an edge.
EnableAccept ==
  /\ Goto("enable_accept", "start_loop")
  /\ listening' = TRUE /\ edge' = (backlog > 0)
  /\ UNCHANGED <<came, backlog, table, accepting, noted, stopping>>

\* Whether the loop was told to stop before is forgotten.
StartEventLoop ==
  /\ Goto("start_loop", "while")
  /\ running' = TRUE
  /\ UNCHANGED <<listener, table, accepting, noted, start, at, nth, loop>>

While ==
  /\ Goto("while", IF running THEN "poll" ELSE "end")
  /\ UNCHANGED <<listener, table, accepting, noted, stopping>>

Blocks ==
  /\ Goto("poll", "blocked")
  /\ ~(listening /\ edge) /\ ~woken
  /\ UNCHANGED <<listener, table, accepting, noted, stopping>>

\* epoll_wait returns with the listener, and the eventfd if it is ready: an edge
\* is reported once.
WaitReturns ==
  /\ pc \in {"poll", "blocked"} /\ pc' = "accept"
  /\ listening /\ edge
  /\ edge' = FALSE /\ woken' = FALSE /\ turn' = 0
  /\ UNCHANGED <<came, backlog, listening, table, accepted, ended, signo, stopping>>

\* Only the eventfd was ready.
WaitIsWoken ==
  /\ pc \in {"poll", "blocked"} /\ pc' = "on_finish"
  /\ ~(listening /\ edge) /\ woken
  /\ woken' = FALSE
  /\ UNCHANGED <<listener, table, accepting, signo, stopping>>

----------------------------------------------------------------------------
(* on_acceptable. *)

Ends(how) == ended' = how /\ pc' = "on_finish"

\* EAGAIN.  The kernel looks for a free number first.
AllAccepted ==
  /\ pc = "accept" /\ backlog = 0 /\ Free # {}
  /\ Ends("all_accepted")
  /\ UNCHANGED <<listener, table, accepted, turn, noted, stopping>>

\* Another error: the client has gone, or the kernel is short of memory.
AcceptFails ==
  /\ pc = "accept" /\ backlog > 0 /\ Free # {}
  /\ backlog' \in {backlog - 1, backlog}
  /\ Ends("failed")
  /\ UNCHANGED <<came, edge, listening, table, accepted, turn, noted, stopping>>

\* EMFILE, with or without a client that waits, or ENFILE: other processes may
\* have taken the last file of the system at any time.
AcceptError ==
  /\ pc = "accept"
  /\ listening' = FALSE
  /\ Ends("error")
  /\ UNCHANGED <<came, backlog, edge, table, accepted, turn, noted, stopping>>

\* A client's descriptor is in hand.
Accepts ==
  /\ Goto("accept", "get_connection")
  /\ backlog > 0 /\ Free # {}
  /\ backlog' = backlog - 1
  /\ accepted' = {Min(Free)} /\ open' = open \union accepted'
  /\ UNCHANGED <<came, edge, listening, files, valid, turn, ended, noted, stopping>>

\* A variant: the table is taken to be one longer.
HasSlot_OneMore == accepted \subseteq 0 .. MaxConnection

HasSlot == accepted \subseteq 0 .. MaxConnection - 1

\* A variant: the descriptor is left open when the table has no slot for it.
NoSlot_LeftOpen ==
  /\ pc = "get_connection" /\ ~HasSlot
  /\ accepted' = {}
  /\ Ends("full")
  /\ UNCHANGED <<listener, table, turn, noted, stopping>>

\* The table has no slot for the number: the client is closed.
NoSlot ==
  /\ pc = "get_connection" /\ ~HasSlot
  /\ open' = open \ accepted /\ accepted' = {}
  /\ Ends("full")
  /\ UNCHANGED <<listener, files, valid, turn, noted, stopping>>

\* init and set_proto_processor
TakesSlot ==
  /\ Goto("get_connection", "activate")
  /\ HasSlot
  /\ valid' = valid \union accepted
  /\ UNCHANGED <<listener, open, files, accepting, noted, stopping>>

\* A variant: one client for each event.
NextTurn_Once ==
  /\ accepted' = {} /\ turn' = turn + 1
  /\ Ends("all_accepted")

\* The next of the turns of on_acceptable, which are limited.
NextTurn ==
  /\ accepted' = {} /\ turn' = turn + 1
  /\ IF turn' = MaxOnce THEN Ends("limit") ELSE pc' = "accept" /\ UNCHANGED ended

Activate ==
  /\ pc = "activate"
  /\ NextTurn
  /\ UNCHANGED <<listener, table, noted, stopping>>

\* epoll_ctl fails: the connection is closed at once.
ActivateFails ==
  /\ pc = "activate"
  /\ open' = open \ accepted /\ valid' = valid \ accepted
  /\ NextTurn
  /\ UNCHANGED <<listener, files, noted, stopping>>

----------------------------------------------------------------------------
(* check_and_handle_async_signal. *)

OnFinish ==
  /\ Goto("on_finish", IF signo # 0 THEN "handler" ELSE "while")
  /\ UNCHANGED <<listener, table, accepting, noted, stopping>>

\* A variant: the signal stays where it was noted.
HandlerReturns_KeepsSigno ==
  /\ Goto("handler", "while")
  /\ at["main"] \in {"out", "returned"}
  /\ UNCHANGED <<listener, table, accepting, noted, stopping>>

\* The handler returns, and with it stop() if it has called it.
HandlerReturns ==
  /\ Goto("handler", "while")
  /\ at["main"] \in {"out", "returned"}
  /\ signo' = 0
  /\ UNCHANGED <<listener, table, accepting, woken, stopping>>

----------------------------------------------------------------------------
(* RxServer::stop. *)

StopGoto(t, from, to) == at[t] = from /\ at' = [at EXCEPT ![t] = to]

StopCalled(t) ==
  /\ StopGoto(t, "out", IF start THEN "disable_accept" ELSE "returned")
  /\ t = "main" => pc = "handler"
  /\ OneByOne => \A u \in Threads : at[u] \in {"out", "returned"}
  /\ UNCHANGED <<listener, table, pc, accepting, noted, running, start, nth, loop>>

DisableAccept(t) ==
  /\ StopGoto(t, "disable_accept", "stop_loop")
  /\ listening' = FALSE
  /\ UNCHANGED <<came, backlog, edge, table, pc, accepting, noted, running, start, nth, loop>>

\* stop_event_loop of the next sub loop, if there is one.  A loop that has not
\* started yet sets _is_running again when it does.
StopLoop(t) ==
  /\ StopGoto(t, "stop_loop", IF nth[t] < LoopNum THEN "join" ELSE "stop_main")
  /\ loop' = [l \in Loops |-> IF l = nth[t] /\ loop[l] = "runs" THEN "stopped" ELSE loop[l]]
  /\ UNCHANGED <<listener, table, pc, accepting, noted, running, start, nth>>

\* start_event_loop of a sub loop, on its own thread
LoopStarts(l) ==
  /\ loop[l] = "created"
  /\ loop' = [loop EXCEPT ![l] = "runs"]
  /\ UNCHANGED <<listener, table, pc, accepting, noted, running, start, at, nth>>

LoopEnds(l) ==
  /\ loop[l] = "stopped"
  /\ loop' = [loop EXCEPT ![l] = "ended"]
  /\ UNCHANGED <<listener, table, pc, accepting, noted, running, start, at, nth>>

\* pthread_join.  To join a thread twice is undefined; here it returns.
Join(t) ==
  /\ StopGoto(t, "join", "stop_loop")
  /\ loop[nth[t]] \in {"ended", "joined"}
  /\ loop' = [loop EXCEPT ![nth[t]] = "joined"]
  /\ nth' = [nth EXCEPT ![t] = @ + 1]
  /\ UNCHANGED <<listener, table, pc, accepting, noted, running, start>>

\* A variant: the main loop is left to the next signal or client.
StopMain_Skipped(t) ==
  /\ StopGoto(t, "stop_main", "stop_pool")
  /\ UNCHANGED <<listener, table, pc, accepting, noted, running, start, nth, loop>>

\* stop_event_loop of the main loop
StopMain(t) ==
  /\ StopGoto(t, "stop_main", "stop_pool")
  /\ running' = FALSE /\ woken' = TRUE
  /\ UNCHANGED <<listener, table, pc, accepting, signo, start, nth, loop>>

\* The stop of the pool, whose joins may never return (ThreadPool).
StopPool(t) ==
  /\ StopGoto(t, "stop_pool", "clear_start")
  /\ UNCHANGED <<listener, table, pc, accepting, noted, running, start, nth, loop>>

\* A variant: _start is not cleared.
ClearStart_Skipped(t) ==
  /\ StopGoto(t, "clear_start", "returned")
  /\ UNCHANGED <<listener, table, pc, accepting, noted, running, start, nth, loop>>

ClearStart(t) ==
  /\ StopGoto(t, "clear_start", "returned")
  /\ start' = FALSE
  /\ UNCHANGED <<listener, table, pc, accepting, noted, running, nth, loop>>

\* The steps of stop that come to an end.
Stops(t) == DisableAccept(t) \/ StopLoop(t) \/ Join(t) \/ StopMain(t) \/ ClearStart(t)

----------------------------------------------------------------------------
MainLoop ==
  \/ SetStart \/ EnableAccept \/ StartEventLoop
  \/ While \/ Blocks \/ WaitReturns \/ WaitIsWoken
  \/ AllAccepted \/ AcceptFails \/ AcceptError \/ Accepts
  \/ NoSlot \/ TakesSlot \/ Activate \/ ActivateFails
  \/ OnFinish \/ HandlerReturns

Next ==
  \/ Connects
  \/ \E f \in Fds : Closes(f) \/ ClosesFile(f)
  \/ OpensFile
  \/ \E s \in Signals : Raises(s)
  \/ MainLoop
  \/ \E t \in Threads : StopCalled(t) \/ Stops(t) \/ StopPool(t)
  \/ \E l \in Loops : LoopStarts(l) \/ LoopEnds(l)

Fairness ==
  /\ WF_vars(MainLoop)
  /\ \A t \in Threads : WF_vars(Stops(t))
  /\ \A l \in Loops : WF_vars(LoopStarts(l)) /\ WF_vars(LoopEnds(l))

Spec == Init /\ [][Next]_vars /\ Fairness

----------------------------------------------------------------------------
(* Properties. *)

\* An edge is reported once, and clients go on connecting while on_acceptable
\* works through the ones before: the loop does not wait for a new edge while
\* clients are in the backlog, unless on_acceptable has left them there.
BacklogIsSeen ==
  pc = "blocked" /\ listening /\ backlog > 0 =>
    edge \/ ended \in {"failed", "full", "limit"}

\* Every descriptor of a client is owned by the slot that closes it or is in
\* the hand of on_acceptable, whether the table is full, files take numbers
\* of its slots, a slot cannot be activated, or the server is stopped.
DescriptorsAreOwned ==
  open = valid \union (IF pc = "get_connection" THEN accepted ELSE {})

\* Every loop has set its _is_running.
Started ==
  /\ pc \notin {"listen", "enable_accept", "start_loop"}
  /\ \A l \in Loops : loop[l] # "created"

\* A signal that interrupts epoll_wait, or comes in the round after it, is
\* handled and cleared, also by a handler that stops the server, unless the
\* pool never lets go of the handler.  (A signal that comes between the check
\* and the next epoll_wait is slept over.)
SignalsAreHandled ==
  \/ (signo # 0 /\ pc \in {"accept", "activate", "on_finish"} /\ Started ~> signo = 0)
  \/ <>[](at["main"] = "stop_pool")

\* Once stop is called, whichever thread calls it, no sub loop runs any more,
\* the main loop is told to end, and ends unless it is the one that stops; and
\* stop returns and the main loop has ended, unless the stop of the pool never
\* returns (thread_pool_stop shows that it may not).  A stop that comes before
\* every loop has started is left out: the loops that start later undo it.
StopEndsServer ==
  \A t \in Threads :
    /\ at[t] = "disable_accept" /\ Started ~>
         /\ ~running /\ \A l \in Loops : loop[l] = "joined"
         /\ t # "main" => pc = "end"
    /\ \/ at[t] = "disable_accept" /\ Started ~> at[t] = "returned" /\ pc = "end"
       \/ <>[](at[t] = "stop_pool")

\* A sub loop is joined once, however often the server is stopped: by a
\* handler, by a thread, by its destructor.
JoinedOnce ==
  [][\A t \in Threads : at[t] = "join" /\ at'[t] # at[t] => loop[nth[t]] = "ended"]_vars
=========================================================================
