-------------------------- MODULE Server_proofs --------------------------
(***************************************************************************)
(* Proofs about Server, for any numbers of descriptors, slots, turns,      *)
(* loops, clients, signals and threads that call stop.                     *)
(***************************************************************************)
EXTENDS Server, FiniteSetTheorems, WellFoundedInduction, TLAPS

InTurn == {"accept", "get_connection", "activate"}
InHand == {"get_connection", "activate"}

AcceptTyped ==
  /\ came \in 0 .. Clients /\ backlog \in 0 .. came
  /\ edge \in BOOLEAN /\ listening \in BOOLEAN
  /\ open \subseteq Fds /\ files \subseteq Fds \ open
  /\ valid \subseteq 0 .. MaxConnection - 1
  /\ pc \in {"listen", "enable_accept", "start_loop", "while", "poll", "blocked",
             "on_finish", "handler", "end"} \union InTurn
  /\ accepted \subseteq Fds /\ Cardinality(accepted) <= 1
  /\ turn \in 0 .. MaxOnce
  /\ ended \in {"never", "all_accepted", "failed", "error", "full", "limit"}
  /\ signo \in Signals \union {0} /\ woken \in BOOLEAN

StopTyped ==
  /\ running \in BOOLEAN /\ start \in BOOLEAN
  /\ at \in [Threads -> {"out", "returned"} \union StopPlaces]
  /\ nth \in [Threads -> 0 .. LoopNum]
  /\ loop \in [Loops -> {"created", "runs", "stopped", "ended", "joined"}]

\* What is in hand is open, has no slot before it takes one, and is put down
\* with its turn.  A turn that has begun is within the limit.
HandInv ==
  /\ pc \notin InHand => accepted = {}
  /\ accepted \subseteq open
  /\ pc = "get_connection" => accepted \cap valid = {}
  /\ pc \in InTurn => turn < MaxOnce
  /\ DescriptorsAreOwned

\* A backlog without an edge is being worked through, or has been left.
SeenInv ==
  listening /\ backlog > 0 /\ ~edge =>
    pc \in InTurn \/ ended \in {"failed", "full", "limit"}

AcceptInv == AcceptTyped /\ HandInv /\ SeenInv

\* Before _start is set nobody is in stop and nothing was joined.  After it, one
\* thread at a time is in stop, and while _start is set no sub loop has
\* been joined but by that thread, which has come to its nth.
StopInv ==
  /\ \A t, u \in Threads : at[t] \in StopPlaces /\ at[u] \in StopPlaces => t = u
  /\ \A t \in Threads :
       /\ at[t] \in {"out", "disable_accept"} => nth[t] = 0
       /\ at[t] = "join" => nth[t] < LoopNum
       /\ at[t] \in StopPlaces =>
            start /\ \A l \in Loops : l >= nth[t] => loop[l] # "joined"
  /\ start /\ (\A t \in Threads : at[t] \notin StopPlaces) =>
       \A l \in Loops : loop[l] # "joined"
  /\ pc = "listen" =>
       /\ ~start /\ \A t \in Threads : at[t] \notin StopPlaces
       /\ \A l \in Loops : loop[l] # "joined"

(* The lowest of the free numbers is one of them.                          *)
LEMMA MinIsFree ==
  ASSUME Free # {}
  PROVE  Min(Free) \in Free
<1>1. Free \subseteq Nat
  BY ServerAssumption DEF Free
<1>2. PICK f \in Free : \A g \in Free : ~(<<g, f>> \in OpToRel(<, Nat))
  BY <1>1, NatLessThanWellFounded, WFMin
<1>3. \A g \in Free : f <= g
  <2>1. SUFFICES ASSUME NEW g \in Free, ~(f <= g) PROVE FALSE
    OBVIOUS
  <2>2. g \in Nat /\ f \in Nat /\ g < f
    BY <1>1, <2>1
  <2>3. <<g, f>> \in OpToRel(<, Nat)
    BY <2>2 DEF OpToRel
  <2>4. QED
    BY <1>2, <2>3
<1>4. QED
  BY <1>3 DEF Min

(* What the clients, the sub loops and the signals do.                     *)
LEMMA EnvironmentKeepsAccept ==
  ASSUME AcceptInv,
         \/ Connects \/ OpensFile
         \/ \E f \in Fds : Closes(f) \/ ClosesFile(f)
         \/ \E s \in Signals : Raises(s)
  PROVE  AcceptInv'
<1> USE DEF AcceptInv, AcceptTyped, HandInv, SeenInv, DescriptorsAreOwned, InTurn, InHand,
            listener, table, accepting, noted
<1>1. CASE Connects
  BY <1>1, ServerAssumption DEF Connects
<1>2. CASE OpensFile
  BY <1>2, MinIsFree, ZenonT(30) DEF OpensFile, Free
<1>3. ASSUME NEW f \in Fds, Closes(f) PROVE AcceptInv'
  BY <1>3 DEF Closes
<1>4. ASSUME NEW f \in Fds, ClosesFile(f) PROVE AcceptInv'
  BY <1>4 DEF ClosesFile
<1>5. ASSUME NEW s \in Signals, Raises(s) PROVE AcceptInv'
  BY <1>5 DEF Raises
<1>6. QED
  BY <1>1, <1>2, <1>3, <1>4, <1>5

(* The rounds of the main loop, with the turns of on_acceptable.           *)
LEMMA MainLoopKeepsAccept ==
  ASSUME AcceptInv, MainLoop
  PROVE  AcceptInv'
<1> USE DEF AcceptInv, AcceptTyped, HandInv, SeenInv, DescriptorsAreOwned, InTurn, InHand,
            listener, table, accepting, noted, Goto
<1>0. Cardinality({}) = 0 /\ \A f : Cardinality({f}) = 1
  BY FS_EmptySet, FS_Singleton
<1>a. MaxOnce \in Nat \ {0} /\ MaxConnection \in Nat \ {0} /\ Fds \subseteq Nat
  BY ServerAssumption
<1>1. CASE While
  BY <1>1 DEF While
<1>17. CASE SetStart
  BY <1>17 DEF SetStart
<1>18. CASE StartEventLoop
  BY <1>18 DEF StartEventLoop
<1>16. CASE EnableAccept
  <2>0. (backlog > 0) \in BOOLEAN
    OBVIOUS
  <2>1. edge' \in BOOLEAN /\ listening' \in BOOLEAN
    BY <1>16, <2>0, Zenon DEF EnableAccept
  <2>2. backlog > 0 => edge'
    BY <1>16, Zenon DEF EnableAccept
  <2>3. QED
    BY <1>16, <2>1, <2>2 DEF EnableAccept
<1>2. CASE Blocks
  BY <1>2 DEF Blocks
<1>3. CASE WaitReturns
  <2>1. edge' \in BOOLEAN /\ woken' \in BOOLEAN
    BY <1>3, Zenon DEF WaitReturns
  <2>2. QED
    BY <1>3, <1>a, <2>1 DEF WaitReturns
<1>4. CASE WaitIsWoken
  <2>1. woken' \in BOOLEAN
    BY <1>4, Zenon DEF WaitIsWoken
  <2>2. QED
    BY <1>4, <2>1 DEF WaitIsWoken
<1>5. CASE AllAccepted
  BY <1>5 DEF AllAccepted, Ends
<1>6. CASE AcceptFails
  BY <1>6 DEF AcceptFails, Ends
<1>7. CASE AcceptError
  BY <1>7 DEF AcceptError, Ends
<1>8. CASE Accepts
  <2>1. PICK f \in Free : accepted' = {f} /\ open' = open \union {f}
    BY <1>8, MinIsFree DEF Accepts
  <2>2. f \in Fds /\ f \notin open /\ f \notin files
    BY <2>1 DEF Free
  <2>3. open = valid /\ accepted' \cap valid' = {}
    BY <1>8, <2>1, <2>2 DEF Accepts
  <2>4. open' = valid' \union accepted' /\ accepted' \subseteq open' /\ pc' = "get_connection"
    BY <1>8, <2>1, <2>3 DEF Accepts
  <2>a. backlog' \in 0 .. came /\ Cardinality(accepted') <= 1
    <3>1. backlog' \in 0 .. came
      BY <1>8, ServerAssumption DEF Accepts
    <3>2. Cardinality(accepted') = 1
      BY <1>0, <2>1, Zenon
    <3>3. QED
      BY <3>1, <3>2
  <2>b. open' \subseteq Fds /\ accepted' \subseteq Fds /\ files \subseteq Fds \ open'
    BY <2>1, <2>2
  <2>5. AcceptTyped'
    BY <1>8, <2>a, <2>b DEF Accepts
  <2>6. HandInv'
    BY <1>8, <2>3, <2>4 DEF Accepts
  <2>7. QED
    BY <1>8, <2>5, <2>6 DEF Accepts
<1>9. CASE NoSlot
  <2>1. open' = valid' /\ open' \subseteq open /\ accepted' = {} /\ pc' = "on_finish"
    BY <1>9 DEF NoSlot, Ends
  <2>2. AcceptTyped'
    BY <1>9, <1>0, <2>1 DEF NoSlot, Ends
  <2>3. QED
    BY <1>9, <2>1, <2>2 DEF NoSlot, Ends
<1>10. CASE TakesSlot
  BY <1>10, <1>a DEF TakesSlot, HasSlot
<1>11. CASE Activate
  BY <1>11, <1>0, <1>a DEF Activate, NextTurn, Ends
<1>12. CASE ActivateFails
  BY <1>12, <1>0, <1>a DEF ActivateFails, NextTurn, Ends
<1>13. CASE OnFinish
  BY <1>13 DEF OnFinish
<1>14. CASE HandlerReturns
  BY <1>14 DEF HandlerReturns
<1>15. QED
  BY <1>1, <1>2, <1>3, <1>4, <1>5, <1>6, <1>7, <1>8, <1>9, <1>10, <1>11,
     <1>12, <1>13, <1>14, <1>16, <1>17, <1>18 DEF MainLoop

(* To stop accepting leaves no backlog to be seen.                         *)
LEMMA StopKeepsAccept ==
  ASSUME AcceptInv, NEW t \in Threads, StopCalled(t) \/ Stops(t) \/ StopPool(t)
  PROVE  AcceptInv'
<1> USE DEF AcceptInv, AcceptTyped, HandInv, SeenInv, DescriptorsAreOwned, InTurn, InHand,
            listener, table, accepting, noted
<1>1. CASE StopCalled(t)
  BY <1>1 DEF StopCalled
<1>2. CASE DisableAccept(t)
  BY <1>2 DEF DisableAccept
<1>3. CASE StopLoop(t)
  BY <1>3 DEF StopLoop
<1>4. CASE Join(t)
  BY <1>4 DEF Join
<1>5. CASE StopMain(t)
  <2>1. woken' \in BOOLEAN
    BY <1>5, Zenon DEF StopMain
  <2>2. QED
    BY <1>5, <2>1 DEF StopMain
<1>6. CASE ClearStart(t)
  BY <1>6 DEF ClearStart
<1>7. CASE StopPool(t)
  BY <1>7 DEF StopPool
<1>8. QED
  BY <1>1, <1>2, <1>3, <1>4, <1>5, <1>6, <1>7 DEF Stops

LEMMA AcceptInvariant == Spec => []AcceptInv
<1>1. Init => AcceptInv
  <2>1. Cardinality({}) = 0
    BY FS_EmptySet
  <2>2. Init => edge \in BOOLEAN /\ listening \in BOOLEAN /\ woken \in BOOLEAN
    BY Zenon DEF Init
  <2>3. Init => HandInv /\ SeenInv
    BY DEF Init, HandInv, SeenInv, DescriptorsAreOwned, InTurn, InHand
  <2>4. Init => AcceptTyped
    BY <2>1, <2>2, ServerAssumption DEF Init, AcceptTyped
  <2>5. QED
    BY <2>3, <2>4 DEF AcceptInv
<1>2. AcceptInv /\ [Next]_vars => AcceptInv'
  <2> SUFFICES ASSUME AcceptInv, [Next]_vars PROVE AcceptInv'
    OBVIOUS
  <2>0. ASSUME NEW l \in Loops, LoopStarts(l) PROVE AcceptInv'
    BY <2>0 DEF LoopStarts, AcceptInv, AcceptTyped, HandInv, SeenInv, DescriptorsAreOwned,
                listener, table, accepting, noted
  <2>1. ASSUME NEW l \in Loops, LoopEnds(l) PROVE AcceptInv'
    BY <2>1 DEF LoopEnds, AcceptInv, AcceptTyped, HandInv, SeenInv, DescriptorsAreOwned,
                listener, table, accepting, noted
  <2>2. CASE UNCHANGED vars
    BY <2>2 DEF vars, AcceptInv, AcceptTyped, HandInv, SeenInv, DescriptorsAreOwned,
                listener, table, accepting, noted
  <2>3. QED
    BY <2>0, <2>1, <2>2, EnvironmentKeepsAccept, MainLoopKeepsAccept, StopKeepsAccept DEF Next
<1>3. QED
  BY <1>1, <1>2, PTL DEF Spec

----------------------------------------------------------------------------
\* Nothing but stop, and the start and the end of a loop, moves what stop is
\* about.
LEMMA OthersLeaveStop ==
  ASSUME Next
  PROVE  \/ UNCHANGED stopping /\ (pc' = "listen" => pc = "listen")
         \/ SetStart \/ StartEventLoop
         \/ \E t \in Threads : StopCalled(t) \/ Stops(t) \/ StopPool(t)
         \/ \E l \in Loops : LoopStarts(l) \/ LoopEnds(l)
<1> DEFINE Leaves == UNCHANGED stopping /\ (pc' = "listen" => pc = "listen")
<1>1. MainLoop => Leaves \/ SetStart \/ StartEventLoop
  <2>1. EnableAccept \/ While \/ Blocks \/ WaitReturns \/ WaitIsWoken => Leaves
    BY DEF EnableAccept, While, Blocks, WaitReturns, WaitIsWoken, Goto
  <2>2. AllAccepted \/ AcceptFails \/ AcceptError \/ Accepts \/ NoSlot \/ TakesSlot => Leaves
    BY DEF AllAccepted, AcceptFails, AcceptError, Accepts, NoSlot, TakesSlot, Ends, Goto
  <2>3. Activate \/ ActivateFails \/ OnFinish \/ HandlerReturns => Leaves
    BY DEF Activate, ActivateFails, NextTurn, Ends, OnFinish, HandlerReturns, Goto
  <2>4. QED
    BY <2>1, <2>2, <2>3 DEF MainLoop
<1>2. Connects \/ OpensFile => Leaves
  BY DEF Connects, OpensFile
<1>3. ASSUME NEW f \in Fds, Closes(f) \/ ClosesFile(f) PROVE Leaves
  BY <1>3 DEF Closes, ClosesFile
<1>4. ASSUME NEW s \in Signals, Raises(s) PROVE Leaves
  BY <1>4 DEF Raises
<1>5. QED
  BY <1>1, <1>2, <1>3, <1>4 DEF Next

(* Typing and turns of stop, a step for each of its actions.               *)
LEMMA StopStep ==
  ASSUME StopTyped, StopInv, OneByOne,
         NEW t \in Threads, StopCalled(t) \/ Stops(t) \/ StopPool(t)
  PROVE  StopTyped' /\ StopInv'
<1> USE DEF StopTyped, StopInv, StopGoto, StopPlaces
<1>0. LoopNum \in Nat \ {0} /\ Loops \subseteq Nat
  BY ServerAssumption DEF Loops
<1>1. CASE StopCalled(t)
  BY <1>1, <1>0 DEF StopCalled
<1>2. CASE DisableAccept(t)
  BY <1>2, <1>0 DEF DisableAccept
<1>3. CASE StopLoop(t)
  BY <1>3, <1>0 DEF StopLoop
<1>4. CASE Join(t)
  <2>1. nth[t] \in Loops /\ nth'[t] = nth[t] + 1 /\ nth'[t] \in 0 .. LoopNum
    BY <1>4, <1>0 DEF Join, Loops
  <2>2. StopTyped'
    BY <1>4, <2>1 DEF Join
  <2>3. \A l \in Loops : l >= nth'[t] => loop'[l] = loop[l]
    BY <1>4, <1>0, <2>1 DEF Join
  <2>4. QED
    BY <1>4, <1>0, <2>1, <2>2, <2>3 DEF Join
<1>5. CASE StopMain(t)
  <2>1. running' \in BOOLEAN
    BY <1>5, Zenon DEF StopMain
  <2>2. QED
    BY <1>5, <1>0, <2>1 DEF StopMain
<1>6. CASE ClearStart(t)
  <2>1. start' \in BOOLEAN
    BY <1>6, Zenon DEF ClearStart
  <2>2. QED
    BY <1>6, <1>0, <2>1 DEF ClearStart
<1>7. CASE StopPool(t)
  BY <1>7, <1>0 DEF StopPool
<1>8. QED
  BY <1>1, <1>2, <1>3, <1>4, <1>5, <1>6, <1>7 DEF Stops

LEMMA StopInvariant ==
  ASSUME OneByOne
  PROVE  Spec => [](StopTyped /\ StopInv)
<1>0. LoopNum \in Nat \ {0} /\ Loops \subseteq Nat
  BY ServerAssumption DEF Loops
<1>1. Init => StopTyped /\ StopInv
  <2>1. Init => running \in BOOLEAN /\ start \in BOOLEAN
    BY Zenon DEF Init
  <2>2. QED
    BY <1>0, <2>1 DEF Init, StopTyped, StopInv, StopPlaces
<1>2. StopTyped /\ StopInv /\ [Next]_vars => (StopTyped /\ StopInv)'
  <2> SUFFICES ASSUME StopTyped, StopInv, [Next]_vars PROVE StopTyped' /\ StopInv'
    OBVIOUS
  <2>1. ASSUME UNCHANGED stopping, pc' = "listen" => pc = "listen"
        PROVE  StopTyped' /\ StopInv'
    BY <2>1 DEF stopping, StopTyped, StopInv
  <2>2. ASSUME NEW l \in Loops, LoopStarts(l) \/ LoopEnds(l) PROVE StopTyped' /\ StopInv'
    BY <2>2 DEF LoopStarts, LoopEnds, StopTyped, StopInv
  <2>3. CASE UNCHANGED vars
    BY <2>1, <2>3 DEF vars
  <2>4. CASE SetStart
    <3>1. start' \in BOOLEAN
      BY <2>4, Zenon DEF SetStart
    <3>2. QED
      BY <2>4, <3>1 DEF SetStart, Goto, StopTyped, StopInv
  <2>5. CASE StartEventLoop
    <3>1. running' \in BOOLEAN
      BY <2>5, Zenon DEF StartEventLoop
    <3>2. QED
      BY <2>5, <3>1 DEF StartEventLoop, Goto, StopTyped, StopInv
  <2>6. QED
    BY <2>1, <2>2, <2>3, <2>4, <2>5, OthersLeaveStop, StopStep
<1>3. QED
  BY <1>1, <1>2, PTL DEF Spec

----------------------------------------------------------------------------
(* Every variable of the server keeps its type.                            *)
THEOREM TypeCorrect == ASSUME OneByOne PROVE Spec => []TypeOK
<1>1. AcceptTyped /\ StopTyped => TypeOK
  BY DEF AcceptTyped, StopTyped, TypeOK, InTurn
<1>2. QED
  BY <1>1, AcceptInvariant, StopInvariant, PTL DEF AcceptInv

(* The main loop does not sleep over clients in the backlog, unless        *)
(* on_acceptable has left them there.                                      *)
THEOREM BacklogIsNotSleptOver == Spec => []BacklogIsSeen
<1>1. AcceptInv => BacklogIsSeen
  BY DEF AcceptInv, SeenInv, BacklogIsSeen, InTurn
<1>2. QED
  BY <1>1, AcceptInvariant, PTL

(* No descriptor of a client is without the slot that closes it.           *)
THEOREM NoDescriptorIsLost == Spec => []DescriptorsAreOwned
<1>1. AcceptInv => DescriptorsAreOwned
  BY DEF AcceptInv, HandInv
<1>2. QED
  BY <1>1, AcceptInvariant, PTL

(* A sub loop is joined once, when calls of stop do not overlap.           *)
THEOREM LoopsAreJoinedOnce == ASSUME OneByOne PROVE Spec => JoinedOnce
<1>1. StopTyped /\ StopInv /\ [Next]_vars =>
        [\A t \in Threads : at[t] = "join" /\ at'[t] # at[t] => loop[nth[t]] = "ended"]_vars
  <2> SUFFICES ASSUME StopTyped, StopInv, Next, NEW t \in Threads,
                      at[t] = "join", at'[t] # at[t]
               PROVE  loop[nth[t]] = "ended"
    OBVIOUS
  <2>1. Join(t)
    <3>1. \E u \in Threads : StopCalled(u) \/ Stops(u) \/ StopPool(u)
      BY OthersLeaveStop DEF stopping, SetStart, StartEventLoop, LoopStarts, LoopEnds
    <3>2. PICK u \in Threads : StopCalled(u) \/ Stops(u) \/ StopPool(u)
      BY <3>1
    <3>3. u = t
      BY <3>2 DEF StopTyped, StopCalled, Stops, DisableAccept, StopLoop, Join, StopMain,
                  StopPool, ClearStart, StopGoto
    <3>4. QED
      BY <3>2, <3>3 DEF StopCalled, Stops, DisableAccept, StopLoop, StopMain, StopPool,
                        ClearStart, StopGoto
  <2>2. nth[t] \in Loops /\ loop[nth[t]] # "joined"
    BY ServerAssumption DEF StopTyped, StopInv, StopPlaces, Loops
  <2>3. QED
    BY <2>1, <2>2 DEF Join
<1>2. QED
  BY <1>1, StopInvariant, PTL DEF Spec, JoinedOnce
=========================================================================
