-------------------------- MODULE Http1_proofs --------------------------
(***************************************************************************)
(* Proofs about Http1, for any number of requests and chunks, any socket,  *)
(* and all kinds of responses but "async_generator"; what is said of the   *)
(* stream of the responses also leaves out "chunked" (KindsInFull).        *)
(***************************************************************************)
EXTENDS Http1, SequenceTheorems, WellFoundedInduction, TLAPS

HttpRespData ==
  [head : {"NOT_SET", "SET", "SENT"}, length : BOOLEAN, body : 0 .. 1,
   generator : BOOLEAN, left : 0 .. Chunks, chunk : BOOLEAN,
   status : Statuses \union {"Destroyed"}]

\* The part of the types that the argument needs.
InputTyped ==
  /\ kind \in [Requests -> Kinds]
  /\ arrived \in 0 .. 2 * N
  /\ received \in 0 .. arrived
  /\ parsed \in 0 .. received
  /\ got \in BOOLEAN
  /\ resp \in HttpRespData

\* While the task is not called back, the status says so, and the thread is
\* not where it has passed the test of the status.
TaskKeepsStatus ==
  /\ task # "none" =>
       /\ got
       /\ resp.status = "ExecAsyncTask"
       /\ kind[parsed \div 2] = "async_chunked"
  /\ pc \in {"flush", "send", "after"} => resp.status # "ExecAsyncTask"

\* Where the connection is closed the thread has left its processor.  As long
\* as the client is there only a response that was sent is closed.
ClosedInv ==
  /\ closed => pc = "idle"
  /\ task # "none" => got
  /\ ~gone /\ (closed \/ pc = "err") => task = "none" /\ output = <<>>

(* A responder makes a response of a response, and does not touch the      *)
(* status unless it sets a generator.                                      *)
LEMMA RespondedType ==
  ASSUME NEW k, NEW q \in HttpRespData
  PROVE  /\ Responded(k, q) \in HttpRespData
         /\ k \notin {"generator", "async_generator"} =>
              Responded(k, q).status = q.status
<1> DEFINE generates == k \in {"generator", "async_generator"}
           l == k \in {"length", "marked", "bad"}
           b == IF generates THEN 0 ELSE 1
           n == IF generates THEN Chunks ELSE 0
           s == IF generates THEN "Providing" ELSE q.status
           r == [q EXCEPT !.head = "SET", !.length = l, !.body = b,
                          !.generator = generates, !.left = n, !.status = s]
<1>1. /\ l \in BOOLEAN /\ generates \in BOOLEAN
      /\ b \in 0 .. 1 /\ n \in 0 .. Chunks
  BY ConstantsAssumption
<1>2. s \in Statuses \union {"Destroyed"}
  BY DEF HttpRespData, Statuses
<1>3. Responded(k, q) = r
  BY Zenon DEF Responded
<1> HIDE DEF l, b, n, s, generates
<1>4. r \in HttpRespData /\ r.status = s
  BY <1>1, <1>2 DEF HttpRespData
<1>5. QED
  BY <1>3, <1>4 DEF s, generates

(* The parser stops within the input; where it has completed a request, it *)
(* is one of the client's.                                                 *)
LEMMA ParsedToRight ==
  ASSUME InputTyped, parsed < received
  PROVE  /\ ParsedTo \in 0 .. received
         /\ ParsedTo % 2 = 0 => ParsedTo \div 2 \in Requests
  BY ConstantsAssumption DEF InputTyped, ParsedTo, Requests

(* A generator makes a response of a response, and asks for no task.       *)
LEMMA GeneratedType ==
  ASSUME NEW q \in HttpRespData
  PROVE  /\ Generated(q) \in HttpRespData
         /\ Generated(q).status \in {q.status, "FinishWait"}
<1>1. CASE ~(q.generator /\ q.status = "Providing")
  BY <1>1 DEF Generated, HttpRespData
<1>2. CASE (q.generator /\ q.status = "Providing") /\ q.left > 0
  <2>1. PICK n \in 0 .. Chunks : n = q.left - 1
    BY <1>2, ConstantsAssumption DEF HttpRespData
  <2>2. Generated(q) = [q EXCEPT !.body = 1, !.left = n]
    BY <1>2, <2>1 DEF Generated
  <2>3. QED
    <3>1. [q EXCEPT !.body = 1] \in HttpRespData
      BY DEF HttpRespData
    <3>2. [q EXCEPT !.body = 1, !.left = n] \in HttpRespData
      BY <3>1 DEF HttpRespData
    <3>3. [q EXCEPT !.body = 1, !.left = n].status = q.status
      BY DEF HttpRespData
    <3>4. QED
      BY <2>2, <3>2, <3>3
<1>3. CASE (q.generator /\ q.status = "Providing") /\ ~(q.left > 0)
  <2>1. Generated(q) = [q EXCEPT !.status = "FinishWait"]
    BY <1>3 DEF Generated
  <2>2. QED
    BY <2>1 DEF HttpRespData, Statuses
<1>4. QED
  BY <1>1, <1>2, <1>3

(* What flush has sent is a response still.                                *)
LEMMA FlushedType ==
  ASSUME NEW q \in HttpRespData, NEW h \in {"NOT_SET", "SET", "SENT"},
         NEW c \in BOOLEAN, NEW s \in Statuses \union {"Destroyed"}, NEW b \in 0 .. 1
  PROVE  [q EXCEPT !.head = h, !.chunk = c, !.body = b, !.status = s]
           \in HttpRespData
<1>1. [q EXCEPT !.head = h, !.chunk = c] \in HttpRespData
  BY DEF HttpRespData
<1>2. QED
  BY <1>1 DEF HttpRespData

LEMMA ClearedType ==
  ASSUME NEW s \in Statuses \union {"Destroyed"}
  PROVE  Cleared(s) \in HttpRespData /\ Cleared(s).status = s
  BY ConstantsAssumption DEF Cleared, HttpRespData

(* The input is typed at every moment.                                     *)
LEMMA InputTypedAlways == Spec => []InputTyped
<1>1. Init => InputTyped
  <2> SUFFICES ASSUME Init PROVE InputTyped
    OBVIOUS
  <2>1. kind \in [Requests -> Kinds]
    BY DEF Init
  <2>2. resp \in HttpRespData
    BY ClearedType DEF Init, Statuses
  <2>3. N \in Nat /\ 2 * N \in Nat
    BY ConstantsAssumption
  <2>4. arrived = 0 /\ received = 0 /\ parsed = 0 /\ got = FALSE
    BY DEF Init
  <2>5. /\ arrived \in 0 .. 2 * N /\ received \in 0 .. arrived
        /\ parsed \in 0 .. received
    BY <2>3, <2>4
  <2>6. got \in BOOLEAN
    BY <2>4, Zenon
  <2>7. QED
    BY <2>1, <2>2, <2>5, <2>6 DEF InputTyped
<1>2. InputTyped /\ [Next]_vars => InputTyped'
  <2> SUFFICES ASSUME InputTyped, [Next]_vars PROVE InputTyped'
    OBVIOUS
  <2> USE DEF client, parser, socket
  <2>1. CASE Arrives
    BY <2>1, ConstantsAssumption DEF Arrives, InputTyped
  <2>2. CASE ClientReads \/ ConnectionLost \/ TaskFinishes
    BY <2>2 DEF ClientReads, ConnectionLost, TaskFinishes, InputTyped
  <2>3. CASE OnStreamReadable
    BY <2>3 DEF OnStreamReadable, InputTyped
  <2>4. CASE OnStreamWritable \/ OnStreamError \/ HandlerFails \/ CallbackFindsClosed
    <3>1. Destroyed \in HttpRespData
      BY ClearedType DEF Destroyed
    <3>2. QED
      BY <2>4, <3>1 DEF OnStreamWritable, OnStreamError, HandlerFails,
                        CallbackFindsClosed, Close, InputTyped
  <2>5. CASE OnTaskFinished
    BY <2>5 DEF OnTaskFinished, InputTyped, HttpRespData, Statuses
  <2>6. CASE Parse
    <3>1. parsed' \in 0 .. received
      BY <2>6, ParsedToRight DEF Parse, MayParse
    <3>2. got' \in BOOLEAN
      BY <2>6 DEF Parse
    <3>3. resp' \in HttpRespData
      <4>1. CASE parsed' % 2 = 0
        BY <2>6, <4>1, RespondedType
           DEF Parse, Respond, MakeAsync, InputTyped, HttpRespData, Statuses
      <4>2. CASE parsed' % 2 # 0
        BY <2>6, <4>2 DEF Parse, InputTyped
      <4>3. QED
        BY <4>1, <4>2
    <3>4. QED
      BY <2>6, <3>1, <3>2, <3>3 DEF Parse, InputTyped
  <2>7. CASE ExtractReturns \/ TryOutput \/ SendFails \/ SendInTryOutput \/ Resume
    BY <2>7 DEF ExtractReturns, TryOutput, SendFails, SendInTryOutput, Resume,
                InputTyped
  <2>8. CASE Flush
    <3>1. resp' \in HttpRespData
      <4> DEFINE q == Generated(resp)
                 chunk == resp.chunk \/ (resp.head = "SET" /\ ~resp.length)
                 head == IF q.head = "SET" THEN "SENT" ELSE q.head
                 status == IF q.status = "FinishWait" THEN "Done" ELSE q.status
      <4>1. q \in HttpRespData
        BY GeneratedType DEF InputTyped
      <4>2. chunk \in BOOLEAN
        OBVIOUS
      <4>3. head \in {"NOT_SET", "SET", "SENT"} /\ status \in Statuses \union {"Destroyed"}
        BY <4>1 DEF HttpRespData, Statuses
      <4>4. resp' = [q EXCEPT !.head = head, !.chunk = chunk, !.body = 0,
                              !.status = status]
        BY <2>8 DEF Flush
      <4> HIDE DEF q, chunk, head, status
      <4>5. QED
        <5>1. 0 \in 0 .. 1
          OBVIOUS
        <5>2. QED
          BY <4>1, <4>2, <4>3, <4>4, <5>1, FlushedType, ZenonT(30)
    <3>2. QED
      BY <2>8, <3>1, SMTT(30) DEF Flush, InputTyped
  <2>9. CASE OutputDone
    <3>1. resp' \in HttpRespData /\ got' \in BOOLEAN
      <4>1. Cleared(resp.status) \in HttpRespData
        BY ClearedType DEF InputTyped, HttpRespData
      <4>2. QED
        BY <2>9, <4>1 DEF OutputDone, PrepareForNextReq, InputTyped
    <3>2. QED
      BY <2>9, <3>1 DEF OutputDone, InputTyped
  <2>10. CASE RunTask
    <3>1. resp' \in HttpRespData
      BY <2>10, RespondedType DEF RunTask, InputTyped
    <3>2. QED
      BY <2>10, <3>1 DEF RunTask, InputTyped
  <2>11. CASE UNCHANGED vars
    BY <2>11 DEF vars, InputTyped
  <2>12. QED
    BY <2>1, <2>2, <2>3, <2>4, <2>5, <2>6, <2>7, <2>8, <2>9, <2>10, <2>11
       DEF Next, LoopStep, PoolStep
<1>3. QED
  BY <1>1, <1>2, PTL DEF Spec

(* Nothing is done for a connection that is closed but by the pool.        *)
LEMMA ClosedStep ==
  ASSUME closed, ClosedInv, [Next]_vars
  PROVE  /\ closed' /\ pc' = "idle"
         /\ kind' = kind /\ parsed' = parsed /\ got' = got /\ resp' = resp
         /\ wire' = wire /\ output' = output /\ answered' = answered
         /\ task = "none" => task' = "none"
         /\ gone => gone'
<1> USE DEF client, parser, socket, Goto, Enter, ClosedInv
<1>1. CASE Arrives \/ ClientReads \/ ConnectionLost \/ UNCHANGED vars
  <2>1. CASE Arrives
    BY <2>1 DEF Arrives
  <2>2. CASE ClientReads
    BY <2>2 DEF ClientReads
  <2>3. CASE ConnectionLost
    BY <2>3 DEF ConnectionLost
  <2>4. CASE UNCHANGED vars
    BY <2>4 DEF vars
  <2>5. QED
    BY <1>1, <2>1, <2>2, <2>3, <2>4
<1>2. CASE RunTask \/ TaskFinishes \/ CallbackFindsClosed
  BY <1>2 DEF RunTask, TaskFinishes, CallbackFindsClosed
<1>3. CASE LoopStep
  BY <1>2, <1>3 DEF LoopStep, OnStreamReadable, OnStreamWritable, OnStreamError,
     OnTaskFinished, HandlerFails, Parse, ExtractReturns, TryOutput, Flush, SendFails,
     SendInTryOutput, OutputDone, Resume
<1>4. QED
  BY <1>1, <1>2, <1>3 DEF Next, PoolStep

(* What close leaves of the connection.                                    *)
LEMMA CloseStep ==
  ASSUME ~closed, closed', [Next]_vars
  PROVE  /\ OnStreamError \/ HandlerFails
         /\ pc' = "idle" /\ (gone \/ pc = "err") /\ gone' = gone
         /\ kind' = kind /\ parsed' = parsed /\ got' = got /\ resp' = Destroyed
         /\ wire' = wire /\ output' = <<>> /\ answered' = answered /\ task' = task
<1> USE DEF client, parser, socket, Goto, Enter
<1>1. OnStreamError \/ HandlerFails
  BY DEF Next, LoopStep, PoolStep, Arrives, ClientReads, ConnectionLost, OnStreamReadable,
         OnStreamWritable, OnTaskFinished, CallbackFindsClosed, Parse, ExtractReturns,
         TryOutput, Flush, SendFails, SendInTryOutput, OutputDone, Resume, RunTask,
         TaskFinishes, vars
<1>2. QED
  BY <1>1 DEF OnStreamError, HandlerFails, Close

(* The status ExecAsyncTask lasts until the finish callback.               *)
LEMMA TaskKeepsStatusStep ==
  ASSUME "async_generator" \notin Kinds, InputTyped, TaskKeepsStatus, [Next]_vars,
         ~closed, ~closed'
  PROVE  TaskKeepsStatus'
<1>2. TaskKeepsStatus'
  <2> USE DEF client, parser, socket, Goto
  <2>1. CASE Arrives \/ ClientReads \/ ConnectionLost
    BY <2>1 DEF Arrives, ClientReads, ConnectionLost, TaskKeepsStatus
  <2>2. CASE \/ OnStreamReadable \/ OnStreamWritable \/ OnStreamError \/ HandlerFails
             \/ CallbackFindsClosed
    BY <2>2 DEF OnStreamReadable, OnStreamWritable, OnStreamError, HandlerFails,
                CallbackFindsClosed, Close, Enter, TaskKeepsStatus
  <2>3. CASE OnTaskFinished
    BY <2>3 DEF OnTaskFinished, Enter, TaskKeepsStatus
  <2>4. CASE Parse
    <3>1. task = "none" /\ ~got
      BY <2>4 DEF Parse, MayParse, TaskKeepsStatus
    <3>2. CASE parsed' % 2 = 0
      <4> DEFINE k == kind[parsed' \div 2]
      <4>1. k \in Kinds
        BY <2>4, <3>2, ParsedToRight DEF Parse, MayParse, InputTyped
      <4>2. got' = (k # "bad") /\ Respond(k) /\ kind' = kind /\ pc' = "output"
        BY <2>4, <3>2 DEF Parse
      <4>3. CASE IsAsync(k)
        BY <4>1, <4>2, <4>3
           DEF IsAsync, Respond, MakeAsync, TaskKeepsStatus, InputTyped, HttpRespData
      <4>4. CASE ~IsAsync(k)
        BY <3>1, <4>2, <4>4 DEF Respond, TaskKeepsStatus
      <4>5. QED
        BY <4>3, <4>4
    <3>3. CASE parsed' % 2 # 0
      BY <2>4, <3>1, <3>3 DEF Parse, TaskKeepsStatus
    <3>4. QED
      BY <3>2, <3>3
  <2>5. CASE ExtractReturns \/ TryOutput \/ SendFails
    BY <2>5 DEF ExtractReturns, TryOutput, Returned, SendFails, TaskKeepsStatus
  <2>6. CASE SendInTryOutput \/ Resume
    BY <2>6 DEF SendInTryOutput, Resume, TaskKeepsStatus
  <2>7. CASE Flush
    <3>1. resp.status # "ExecAsyncTask" /\ task = "none"
      BY <2>7 DEF Flush, TaskKeepsStatus
    <3>2. resp'.status # "ExecAsyncTask"
      BY <2>7, <3>1, GeneratedType DEF Flush, InputTyped, HttpRespData
    <3>3. QED
      BY <2>7, <3>1, <3>2 DEF Flush, TaskKeepsStatus
  <2>8. CASE OutputDone
    <3>1. task' = "none" /\ pc' \notin {"flush", "send", "after"}
      BY <2>8 DEF OutputDone, Returned, TaskKeepsStatus
    <3>2. QED
      BY <3>1 DEF TaskKeepsStatus
  <2>9. CASE RunTask
    <3>1. resp'.status = resp.status
      BY <2>9, RespondedType DEF RunTask, TaskKeepsStatus, InputTyped
    <3>2. QED
      BY <2>9, <3>1 DEF RunTask, TaskKeepsStatus
  <2>10. CASE TaskFinishes
    BY <2>10 DEF TaskFinishes, TaskKeepsStatus
  <2>11. CASE UNCHANGED vars
    BY <2>11 DEF vars, TaskKeepsStatus
  <2>12. QED
    BY <2>1, <2>2, <2>3, <2>4, <2>5, <2>6, <2>7, <2>8, <2>9, <2>10, <2>11
       DEF Next, LoopStep, PoolStep
<1>3. QED
  BY <1>2

(* A thread that has failed leaves its handler, and then the connection is *)
(* closed.                                                                 *)
LEMMA ClosedInvStep ==
  ASSUME ClosedInv, [Next]_vars, closed \/ TaskKeepsStatus, closed' \/ TaskKeepsStatus'
  PROVE  ClosedInv'
<1>1. CASE closed
  BY <1>1, ClosedStep DEF ClosedInv
<1>2. CASE ~closed /\ closed'
  BY <1>2, CloseStep DEF ClosedInv
<1>3. CASE ~closed /\ ~closed'
  <2>1. task' # "none" => got'
    BY <1>3 DEF TaskKeepsStatus
  <2>2. ASSUME pc' = "err", ~gone' PROVE task' = "none" /\ output' = <<>>
    <3> USE <2>2 DEF client, parser, socket, Goto, Enter
    <3>1. CASE SendInTryOutput
      BY <1>3, <3>1 DEF SendInTryOutput, TaskKeepsStatus
    <3>2. CASE ~SendInTryOutput
      <4>1. pc = "err" /\ ~gone /\ output' = output /\ task' \in {task, "none"}
        BY <1>3, <3>2
           DEF Next, LoopStep, PoolStep, Arrives, ClientReads, ConnectionLost,
               OnStreamReadable, OnStreamWritable, OnStreamError, OnTaskFinished,
               HandlerFails, CallbackFindsClosed, Parse, ExtractReturns, TryOutput,
               Returned, Flush, SendFails, OutputDone, Resume, RunTask, TaskFinishes,
               vars, ClosedInv
      <4>2. QED
        BY <4>1 DEF ClosedInv
    <3>3. QED
      BY <3>1, <3>2
  <2>3. QED
    BY <1>3, <2>1, <2>2 DEF ClosedInv
<1>4. QED
  BY <1>1, <1>2, <1>3

LEMMA TaskKeepsStatusAlways ==
  ASSUME "async_generator" \notin Kinds
  PROVE  Spec => []((closed \/ TaskKeepsStatus) /\ ClosedInv)
<1>1. Init => TaskKeepsStatus /\ ClosedInv
  BY DEF Init, TaskKeepsStatus, ClosedInv
<1>2. ASSUME InputTyped, closed \/ TaskKeepsStatus, ClosedInv, [Next]_vars
      PROVE  (closed' \/ TaskKeepsStatus') /\ ClosedInv'
  <2>1. closed' \/ TaskKeepsStatus'
    BY <1>2, ClosedStep, TaskKeepsStatusStep
  <2>2. QED
    BY <1>2, <2>1, ClosedInvStep
<1>3. QED
  BY <1>1, <1>2, InputTypedAlways, PTL DEF Spec

----------------------------------------------------------------------------
(* FlattenSeq, one sequence more at a time.  Induction over the numbers is *)
(* the argument that a set of counterexamples would have a least member.   *)

LEMMA LeastMember ==
  ASSUME NEW T, T \subseteq Nat, T # {}
  PROVE  \E x \in T : \A y \in T : x <= y
<1> DEFINE R == OpToRel(<, Nat)
<1>1. IsWellFoundedOn(R, Nat)
  BY NatLessThanWellFounded
<1>2. \A x, y \in Nat : x < y => <<x, y>> \in R
  <2> SUFFICES ASSUME NEW x \in Nat, NEW y \in Nat, x < y PROVE <<x, y>> \in R
    OBVIOUS
  <2>1. <<x, y>> \in Nat \X Nat /\ <<x, y>>[1] < <<x, y>>[2]
    OBVIOUS
  <2>2. QED
    BY <2>1, Zenon DEF OpToRel
<1> HIDE DEF R
<1>3. PICK x \in T : \A y \in T : ~(<<y, x>> \in R)
  BY <1>1, WFMin
<1>4. x \in T /\ \A y \in T : y \in Nat /\ x \in Nat /\ ~(y < x)
  BY <1>2, <1>3
<1>5. QED
  BY <1>4

\* A set of numbers that has 0 and, with every number, the next one.
LEMMA AllNumbers ==
  ASSUME NEW P, 0 \in P, \A n \in Nat : n \in P => n + 1 \in P
  PROVE  Nat \subseteq P
<1> SUFFICES ASSUME Nat \ P # {} PROVE FALSE
  OBVIOUS
<1>1. PICK n \in Nat \ P : \A m \in Nat \ P : n <= m
  BY LeastMember
<1>2. n # 0 /\ n - 1 \in Nat /\ n - 1 \in P
  BY <1>1
<1>3. QED
  BY <1>1, <1>2

\* The concatenations of the first sequences of R: what flatten computes.
Concats(R, n, f) ==
  f = [i \in 1 .. n |-> IF i = 1 THEN R[i] ELSE f[i - 1] \o R[i]]

LEMMA ConcatsExist ==
  ASSUME NEW T, NEW R \in [Nat -> Seq(T)], NEW n \in Nat
  PROVE  \E f \in [1 .. n -> Seq(T)] : Concats(R, n, f)
<1> DEFINE P == {m \in Nat : \E f \in [1 .. m -> Seq(T)] : Concats(R, m, f)}
<1>1. 0 \in P
  <2>1. [i \in 1 .. 0 |-> <<>>] \in [1 .. 0 -> Seq(T)] /\ Concats(R, 0, [i \in 1 .. 0 |-> <<>>])
    BY DEF Concats
  <2>2. QED
    BY <2>1
<1>2. ASSUME NEW m \in Nat, m \in P PROVE m + 1 \in P
  <2>1. PICK f \in [1 .. m -> Seq(T)] : Concats(R, m, f)
    BY <1>2
  <2> DEFINE s == IF m = 0 THEN R[1] ELSE f[m] \o R[m + 1]
             g == [i \in 1 .. m + 1 |-> IF i = m + 1 THEN s ELSE f[i]]
  <2>2. s \in Seq(T)
    BY <2>1
  <2>3. g \in [1 .. m + 1 -> Seq(T)]
    BY <2>1, <2>2
  <2>4. \A i \in 1 .. m + 1 : g[i] = IF i = 1 THEN R[i] ELSE g[i - 1] \o R[i]
    <3> SUFFICES ASSUME NEW i \in 1 .. m + 1
                 PROVE  g[i] = IF i = 1 THEN R[i] ELSE g[i - 1] \o R[i]
      OBVIOUS
    <3>1. CASE i = m + 1
      BY <3>1
    <3>2. CASE i # m + 1
      <4>1. i \in 1 .. m /\ g[i] = f[i] /\ (i # 1 => g[i - 1] = f[i - 1])
        BY <3>2
      <4>2. f[i] = IF i = 1 THEN R[i] ELSE f[i - 1] \o R[i]
        BY <2>1, <4>1 DEF Concats
      <4>3. QED
        BY <4>1, <4>2
    <3>3. QED
      BY <3>1, <3>2
  <2> HIDE DEF g
  <2>5. Concats(R, m + 1, g)
    BY <2>3, <2>4 DEF Concats
  <2>6. QED
    BY <2>3, <2>5
<1>3. QED
  BY <1>1, <1>2, AllNumbers

LEMMA ConcatsAgree ==
  ASSUME NEW R, NEW m \in Nat, NEW n \in 1 .. m, NEW f, NEW g,
         Concats(R, m, f), Concats(R, n, g)
  PROVE  f[n] = g[n]
<1> DEFINE P == {i \in Nat : i \in 1 .. m /\ i \in 1 .. n => f[i] = g[i]}
<1>1. 0 \in P
  OBVIOUS
<1>2. ASSUME NEW i \in Nat, i \in P PROVE i + 1 \in P
  <2> SUFFICES ASSUME i + 1 \in 1 .. m, i + 1 \in 1 .. n PROVE f[i + 1] = g[i + 1]
    OBVIOUS
  <2>1. /\ \A j \in 1 .. m : f[j] = IF j = 1 THEN R[j] ELSE f[j - 1] \o R[j]
        /\ \A j \in 1 .. n : g[j] = IF j = 1 THEN R[j] ELSE g[j - 1] \o R[j]
    BY DEF Concats
  <2>2. (i + 1) - 1 = i /\ (i + 1 # 1 => f[i] = g[i])
    BY <1>2
  <2>3. QED
    BY <2>1, <2>2
<1>3. Nat \subseteq P
  BY <1>1, <1>2, AllNumbers
<1>4. n \in Nat /\ n \in 1 .. m /\ n \in 1 .. n
  OBVIOUS
<1>5. QED
  BY <1>3, <1>4

LEMMA FlattenIsLastConcat ==
  ASSUME NEW T, NEW R \in [Nat -> Seq(T)], NEW n \in Nat \ {0}
  PROVE  \E f \in [1 .. n -> Seq(T)] :
           Concats(R, n, f) /\ FlattenSeq([i \in 1 .. n |-> R[i]]) = f[n]
<1> DEFINE s == [i \in 1 .. n |-> R[i]]
           F == CHOOSE f : f = [i \in 1 .. Len(s) |-> IF i = 1 THEN s[i] ELSE f[i - 1] \o s[i]]
<1>1. Len(s) = n /\ s \in Seq(Seq(T)) /\ \A i \in 1 .. n : s[i] = R[i]
  OBVIOUS
<1>2. FlattenSeq(s) = F[Len(s)]
  BY <1>1 DEF FlattenSeq
<1>3. PICK f \in [1 .. n -> Seq(T)] : Concats(R, n, f)
  BY ConcatsExist
<1>4. \A g : Concats(R, n, g) <=>
               g = [i \in 1 .. Len(s) |-> IF i = 1 THEN s[i] ELSE g[i - 1] \o s[i]]
  BY <1>1 DEF Concats
<1>5. Concats(R, n, F)
  BY <1>3, <1>4
<1>6. F[n] = f[n]
  BY <1>3, <1>5, ConcatsAgree
<1>7. QED
  BY <1>1, <1>2, <1>3, <1>6

LEMMA FlattenNext ==
  ASSUME NEW T, NEW R \in [Nat -> Seq(T)], NEW n \in Nat
  PROVE  /\ FlattenSeq([i \in 1 .. 0 |-> R[i]]) = <<>>
         /\ FlattenSeq([i \in 1 .. n |-> R[i]]) \in Seq(T)
         /\ FlattenSeq([i \in 1 .. n + 1 |-> R[i]]) =
              FlattenSeq([i \in 1 .. n |-> R[i]]) \o R[n + 1]
<1> DEFINE S(m) == FlattenSeq([i \in 1 .. m |-> R[i]])
<1>1. S(0) = <<>>
  <2>1. [i \in 1 .. 0 |-> R[i]] = <<>>
    OBVIOUS
  <2>2. QED
    BY <2>1 DEF FlattenSeq
<1>2. \A m \in Nat \ {0} : \E f \in [1 .. m -> Seq(T)] : Concats(R, m, f) /\ S(m) = f[m]
  BY FlattenIsLastConcat
<1> HIDE DEF S
<1>3. S(n) \in Seq(T)
  <2>1. CASE n = 0
    BY <1>1, <2>1, EmptySeq
  <2>2. CASE n # 0
    <3>1. PICK f \in [1 .. n -> Seq(T)] : S(n) = f[n]
      BY <1>2, <2>2
    <3>2. QED
      BY <2>2, <3>1
  <2>3. QED
    BY <2>1, <2>2
<1>4. S(n + 1) = S(n) \o R[n + 1]
  <2>1. PICK m \in Nat \ {0} : m = n + 1
    OBVIOUS
  <2>2. PICK g : Concats(R, m, g) /\ S(m) = g[m]
    BY <1>2
  <2>3. \A j \in 1 .. m : g[j] = IF j = 1 THEN R[j] ELSE g[j - 1] \o R[j]
    BY <2>2 DEF Concats
  <2>4. CASE n = 0
    <3>1. g[m] = R[m] /\ R[m] \in Seq(T) /\ S(n) = <<>>
      BY <1>1, <2>1, <2>3, <2>4
    <3>2. QED
      BY <2>1, <2>2, <3>1
  <2>5. CASE n # 0
    <3>1. PICK f : Concats(R, n, f) /\ S(n) = f[n]
      BY <1>2, <2>5
    <3>2. m \in Nat /\ m # 1 /\ m - 1 = n /\ m \in 1 .. m /\ n \in 1 .. m
      BY <2>1, <2>5
    <3>3. g[n] = f[n]
      BY <2>2, <3>1, <3>2, ConcatsAgree
    <3>4. g[m] = g[n] \o R[m]
      BY <2>3, <3>2
    <3>5. QED
      BY <2>1, <2>2, <3>1, <3>3, <3>4
  <2>6. QED
    BY <2>4, <2>5
<1>5. QED
  BY <1>1, <1>3, <1>4 DEF S

----------------------------------------------------------------------------
(* The stream of the responses.                                            *)

Symbols == {"head", "body", "end"}

Bodies(r, n) == FlattenSeq([i \in 1 .. n |-> <<<<r, "body">>>>])

LEMMA BodiesNext ==
  ASSUME NEW r \in Nat, NEW n \in Nat
  PROVE  /\ Bodies(r, 0) = <<>>
         /\ Bodies(r, n) \in Seq({r} \X Symbols)
         /\ Bodies(r, n + 1) = Bodies(r, n) \o <<<<r, "body">>>>
<1> DEFINE body == <<<<r, "body">>>>
           R == [i \in Nat |-> body]
<1>1. body \in Seq({r} \X Symbols)
  BY DEF Symbols
<1> HIDE DEF body
<1>2. R \in [Nat -> Seq({r} \X Symbols)] /\ R[n + 1] = body
  BY <1>1
<1>3. \A m \in Nat : [i \in 1 .. m |-> R[i]] = [i \in 1 .. m |-> body]
  OBVIOUS
<1>4. \A m \in Nat : Bodies(r, m) = FlattenSeq([i \in 1 .. m |-> R[i]])
  BY <1>3 DEF Bodies, body
<1> HIDE DEF R
<1>5. /\ FlattenSeq([i \in 1 .. 0 |-> R[i]]) = <<>>
      /\ FlattenSeq([i \in 1 .. n |-> R[i]]) \in Seq({r} \X Symbols)
      /\ FlattenSeq([i \in 1 .. n + 1 |-> R[i]]) = FlattenSeq([i \in 1 .. n |-> R[i]]) \o R[n + 1]
  BY <1>2, FlattenNext
<1>6. 0 \in Nat /\ n + 1 \in Nat
  OBVIOUS
<1>7. QED
  BY <1>2, <1>4, <1>5, <1>6 DEF body

LEMMA ResponseIs ==
  ASSUME NEW r \in Nat
  PROVE  /\ Response(r) \in Seq({r} \X Symbols)
         /\ kind[r] \in {"length", "marked", "bad"} =>
              Response(r) = <<<<r, "head">>>> \o <<<<r, "body">>>>
         /\ kind[r] \in {"chunked", "async_chunked"} =>
              Response(r) = <<<<r, "head">>>> \o (<<<<r, "body">>>> \o <<<<r, "end">>>>)
         /\ kind[r] \in {"generator", "async_generator"} =>
              Response(r) = <<<<r, "head">>>> \o (Bodies(r, Chunks) \o <<<<r, "end">>>>)
<1>1. Bodies(r, Chunks) \in Seq({r} \X Symbols)
  BY BodiesNext, ConstantsAssumption
<1>2. Bodies(r, Chunks) = FlattenSeq([i \in 1 .. Chunks |-> <<<<r, "body">>>>])
  BY DEF Bodies
<1> DEFINE bodies == Bodies(r, Chunks)
           head == <<<<r, "head">>>>
           body == <<<<r, "body">>>>
           end == <<<<r, "end">>>>
<1>3. {bodies, head, body, end} \subseteq Seq({r} \X Symbols)
  <2>1. \A u \in Symbols : <<<<r, u>>>> \in Seq({r} \X Symbols)
    OBVIOUS
  <2>2. QED
    BY <1>1, <2>1 DEF Symbols
<1> HIDE DEF bodies
<1>4. Response(r) = head \o
        CASE kind[r] \in {"length", "marked", "bad"} -> body
          [] kind[r] \in {"chunked", "async_chunked"} -> body \o end
          [] OTHER -> bodies \o end
  BY <1>2, Zenon DEF Response, bodies
<1> HIDE DEF head, body, end
<1>5. CASE kind[r] \in {"length", "marked", "bad"}
  <2>1. Response(r) = head \o body
    BY <1>4, <1>5
  <2>2. QED
    BY <1>3, <1>5, <2>1 DEF head, body
<1>6. CASE kind[r] \in {"chunked", "async_chunked"}
  <2>1. Response(r) = head \o (body \o end)
    BY <1>4, <1>6
  <2>2. Response(r) \in Seq({r} \X Symbols)
    BY <1>3, <2>1
  <2>3. QED
    BY <1>6, <2>1, <2>2 DEF head, body, end
<1>7. CASE kind[r] \notin {"length", "marked", "bad", "chunked", "async_chunked"}
  <2>1. Response(r) = head \o (bodies \o end)
    BY <1>4, <1>7
  <2>2. Response(r) \in Seq({r} \X Symbols)
    BY <1>3, <2>1
  <2>3. QED
    BY <1>7, <2>1, <2>2 DEF head, bodies, end
<1>8. QED
  BY <1>5, <1>6, <1>7

LEMMA ResponsesNext ==
  ASSUME NEW n \in Nat
  PROVE  /\ Responses(0) = <<>>
         /\ Responses(n) \in Seq(Nat \X Symbols)
         /\ Responses(n + 1) = Responses(n) \o Response(n + 1)
<1> DEFINE R == [i \in Nat |-> Response(i)]
<1>1. \A r \in Nat : Response(r) \in Seq(Nat \X Symbols)
  <2> SUFFICES ASSUME NEW r \in Nat PROVE Response(r) \in Seq(Nat \X Symbols)
    OBVIOUS
  <2>1. Response(r) \in Seq({r} \X Symbols)
    BY ResponseIs
  <2>2. QED
    BY <2>1
<1>2. R \in [Nat -> Seq(Nat \X Symbols)] /\ R[n + 1] = Response(n + 1)
  BY <1>1
<1>3. \A m \in Nat : [i \in 1 .. m |-> R[i]] = [i \in 1 .. m |-> Response(i)]
  OBVIOUS
<1>4. \A m \in Nat : Responses(m) = FlattenSeq([i \in 1 .. m |-> R[i]])
  BY <1>3 DEF Responses
<1> HIDE DEF R
<1>5. /\ FlattenSeq([i \in 1 .. 0 |-> R[i]]) = <<>>
      /\ FlattenSeq([i \in 1 .. n |-> R[i]]) \in Seq(Nat \X Symbols)
      /\ FlattenSeq([i \in 1 .. n + 1 |-> R[i]]) = FlattenSeq([i \in 1 .. n |-> R[i]]) \o R[n + 1]
  BY <1>2, FlattenNext
<1>6. 0 \in Nat /\ n + 1 \in Nat
  OBVIOUS
<1>7. QED
  BY <1>2, <1>4, <1>5, <1>6

LEMMA PrefixOfConcat ==
  ASSUME NEW T, NEW s \in Seq(T), NEW u \in Seq(T)
  PROVE  IsPrefix(s, s \o u)
BY DEF IsPrefix

LEMMA ConcatTyped ==
  ASSUME NEW T, NEW s \in Seq(T), NEW t \in Seq(T), NEW u \in Seq(T)
  PROVE  (s \o t) \o u = s \o (t \o u) /\ s \o t \in Seq(T) /\ t \o u \in Seq(T)
<1>1. (s \o t) \o u = s \o (t \o u)
  BY ConcatAssociative
<1>2. s \o t \in Seq(T) /\ t \o u \in Seq(T)
  OBVIOUS
<1>3. QED
  BY <1>1, <1>2

ContinuedBy(T, s, t) == \E u : u \in Seq(T) /\ t = s \o u

\* Sequences each of which continues the one before.
ContinuedIn(T, S) ==
  \A k \in Nat : S[k] \in Seq(T) /\ ContinuedBy(T, S[k], S[k + 1])

LEMMA Continues ==
  ASSUME NEW T, NEW S, NEW m \in Nat, NEW n \in 0 .. m,
         ContinuedIn(T, S)
  PROVE  ContinuedBy(T, S[n], S[m])
<1> DEFINE Q(k) == \E u : u \in Seq(T) /\ S[m] = S[k] \o u
           P == {d \in Nat : d <= m => Q(m - d)}
<1>1. Q(m)
  <2>1. S[m] \in Seq(T)
    BY DEF ContinuedIn
  <2>2. <<>> \in Seq(T) /\ S[m] = S[m] \o <<>>
    BY <2>1
  <2>3. QED
    BY <2>2
<1>2. ASSUME NEW k \in Nat, Q(k + 1) PROVE Q(k)
  <2>1. PICK u : u \in Seq(T) /\ S[m] = S[k + 1] \o u
    BY <1>2
  <2>2. PICK x : x \in Seq(T) /\ S[k + 1] = S[k] \o x
    BY DEF ContinuedIn, ContinuedBy
  <2> DEFINE s == S[k]
  <2>3. s \in Seq(T)
    BY DEF ContinuedIn
  <2>4. x \in Seq(T) /\ u \in Seq(T)
    BY <2>1, <2>2
  <2> HIDE DEF s
  <2>5. (s \o x) \o u = s \o (x \o u) /\ x \o u \in Seq(T)
    BY <2>3, <2>4, ConcatTyped
  <2>6. S[m] = s \o (x \o u)
    BY <2>1, <2>2, <2>5, Zenon DEF s
  <2>7. QED
    BY <2>5, <2>6, Zenon DEF s
<1> HIDE DEF Q
<1>3. 0 \in P
  BY <1>1
<1>4. ASSUME NEW d \in Nat, d \in P PROVE d + 1 \in P
  <2> SUFFICES ASSUME d + 1 <= m PROVE Q(m - (d + 1))
    OBVIOUS
  <2>1. PICK k \in Nat : k = m - (d + 1) /\ m - d = k + 1
    OBVIOUS
  <2>2. Q(m - d)
    BY <1>4
  <2>3. QED
    BY <1>2, <2>1, <2>2
<1>5. Nat \subseteq P
  BY <1>3, <1>4, AllNumbers
<1>6. m - n \in Nat /\ m - n <= m /\ m - (m - n) = n
  OBVIOUS
<1>7. Q(n)
  BY <1>5, <1>6
<1>8. QED
  BY <1>7 DEF Q, ContinuedBy

LEMMA BodiesContinue ==
  ASSUME NEW r \in Nat, NEW n \in 0 .. Chunks
  PROVE  \E u : u \in Seq({r} \X Symbols) /\ Bodies(r, Chunks) = Bodies(r, n) \o u
<1> DEFINE S == [k \in Nat |-> Bodies(r, k)]
           T == {r} \X Symbols
<1>1. <<<<r, "body">>>> \in Seq(T)
  BY DEF Symbols
<1>2. \A k \in Nat : /\ Bodies(r, k) \in Seq(T)
                      /\ Bodies(r, k + 1) = Bodies(r, k) \o <<<<r, "body">>>>
  BY BodiesNext
<1>3. \A k \in Nat : S[k] = Bodies(r, k) /\ S[k + 1] = Bodies(r, k + 1)
  OBVIOUS
<1> HIDE DEF S, T
<1>4. ContinuedIn(T, S)
  BY <1>1, <1>2, <1>3, Zenon DEF ContinuedIn, ContinuedBy
<1>6. n \in Nat /\ Chunks \in Nat /\ n \in 0 .. Chunks
  BY ConstantsAssumption
<1>5. ContinuedBy(T, S[n], S[Chunks])
  BY <1>4, <1>6, Continues
<1>7. QED
  BY <1>3, <1>5, <1>6, Zenon DEF T, ContinuedBy

LEMMA ResponsesContinue ==
  ASSUME NEW m \in Nat, NEW n \in 0 .. m
  PROVE  \E u : u \in Seq(Nat \X Symbols) /\ Responses(m) = Responses(n) \o u
<1> DEFINE S == [k \in Nat |-> Responses(k)]
           T == Nat \X Symbols
<1>1. \A k \in Nat : Response(k + 1) \in Seq(T)
  <2> SUFFICES ASSUME NEW k \in Nat PROVE Response(k + 1) \in Seq(T)
    OBVIOUS
  <2>1. k + 1 \in Nat /\ Response(k + 1) \in Seq({k + 1} \X Symbols)
    BY ResponseIs, k + 1 \in Nat
  <2>2. QED
    BY <2>1
<1>2. \A k \in Nat : /\ Responses(k) \in Seq(T)
                      /\ Responses(k + 1) = Responses(k) \o Response(k + 1)
  BY ResponsesNext
<1>3. \A k \in Nat : S[k] = Responses(k) /\ S[k + 1] = Responses(k + 1)
  OBVIOUS
<1> HIDE DEF S, T
<1>4. ContinuedIn(T, S)
  BY <1>1, <1>2, <1>3, Zenon DEF ContinuedIn, ContinuedBy
<1>5. ContinuedBy(T, S[n], S[m])
  BY <1>4, Continues
<1>6. n \in Nat
  OBVIOUS
<1>7. QED
  BY <1>3, <1>5, <1>6, Zenon DEF T, ContinuedBy

----------------------------------------------------------------------------
(* The inductive invariant of the responses.                               *)

Whole == {"length", "marked", "bad"}

\* What is read of the request that is answered next, and that a request that
\* was read has its response, or will have when the pool gets to it.
RequestInv ==
  /\ answered \in Nat
  /\ \A i \in Requests : kind[i] = "bad" => i = N
  /\ got => /\ parsed = 2 * (answered + 1)
            /\ kind[answered + 1] # "bad"
            /\ task = "none" => resp.head # "NOT_SET"
  /\ ~got => /\ task = "none"
             /\ \/ parsed \in {2 * answered, 2 * answered + 1} /\ resp.head = "NOT_SET"
                \/ /\ parsed = 2 * N /\ answered + 1 = N /\ kind[N] = "bad"
                   /\ resp.head # "NOT_SET"

\* The response before it is made, ...
NotMadeInv ==
  resp.head = "NOT_SET" =>
    /\ resp.body = 0 /\ ~resp.generator /\ ~resp.chunk
    /\ resp.status # "Providing"
    /\ task \in {"none", "posted"}

\* ... before its head is flushed, ...
NotFlushedInv ==
  resp.head = "SET" =>
    /\ resp.length <=> kind[answered + 1] \in Whole
    /\ resp.generator <=> kind[answered + 1] = "generator"
    /\ ~resp.chunk
    /\ resp.body = IF kind[answered + 1] = "generator" THEN 0 ELSE 1
    /\ resp.status = "Providing" <=> kind[answered + 1] = "generator"
    /\ kind[answered + 1] = "generator" => resp.left = Chunks
    /\ kind[answered + 1] = "async_chunked" => resp.status \in {"ExecAsyncTask", "FinishWait"}
    /\ task # "posted" /\ pc \notin {"send", "after"}

\* ... and after it: then a generator has more to come, or all was flushed.
FlushedInv ==
  resp.head = "SENT" =>
    /\ resp.generator <=> kind[answered + 1] = "generator"
    /\ resp.chunk <=> kind[answered + 1] \notin Whole
    /\ resp.body = 0
    /\ resp.status = "Providing" => kind[answered + 1] = "generator"
    /\ kind[answered + 1] = "generator" =>
         \/ resp.status = "Providing"
         \/ (resp.status = "Done" /\ resp.left = 0)
    /\ kind[answered + 1] = "async_chunked" => resp.status = "Done"
    /\ task = "none"

ResponseInv == NotMadeInv /\ NotFlushedInv /\ FlushedInv

\* What of the response to request r was flushed.
Sent(r) ==
  IF resp.head # "SENT" THEN <<>>
  ELSE IF kind[r] \in Whole THEN <<<<r, "head">>>> \o <<<<r, "body">>>>
  ELSE IF kind[r] = "async_chunked"
       THEN <<<<r, "head">>>> \o (<<<<r, "body">>>> \o <<<<r, "end">>>>)
  ELSE IF resp.status = "Done"
       THEN <<<<r, "head">>>> \o (Bodies(r, Chunks) \o <<<<r, "end">>>>)
  ELSE <<<<r, "head">>>> \o Bodies(r, Chunks - resp.left)

\* The responses to the requests before, and that.
StreamInv == wire \o output = Responses(answered) \o Sent(answered + 1)

LEMMA RespondedFields ==
  ASSUME NEW k, NEW q \in HttpRespData
  PROVE  /\ Responded(k, q).head = "SET"
         /\ Responded(k, q).length <=> k \in Whole
         /\ Responded(k, q).chunk <=> q.chunk
         /\ k \in {"generator", "async_generator"} =>
              /\ Responded(k, q).generator
              /\ Responded(k, q).body = 0
              /\ Responded(k, q).left = Chunks
              /\ Responded(k, q).status = "Providing"
         /\ k \notin {"generator", "async_generator"} =>
              /\ ~Responded(k, q).generator
              /\ Responded(k, q).body = 1
              /\ Responded(k, q).status = q.status
BY DEF Responded, Whole, HttpRespData

LEMMA ClearedFields ==
  ASSUME NEW s
  PROVE  /\ Cleared(s).head = "NOT_SET" /\ Cleared(s).body = 0
         /\ ~Cleared(s).generator /\ ~Cleared(s).chunk /\ Cleared(s).status = s
BY DEF Cleared

LEMMA GeneratedFields ==
  ASSUME NEW q \in HttpRespData
  PROVE  LET p == Generated(q) IN
         /\ p.head = q.head /\ p.length = q.length /\ p.generator = q.generator
         /\ p.chunk = q.chunk
         /\ ~(q.generator /\ q.status = "Providing") => p = q
         /\ (q.generator /\ q.status = "Providing" /\ q.left > 0) =>
              p.body = 1 /\ p.left = q.left - 1 /\ p.status = "Providing"
         /\ (q.generator /\ q.status = "Providing" /\ q.left = 0) =>
              p.body = q.body /\ p.left = 0 /\ p.status = "FinishWait"
BY ConstantsAssumption DEF Generated, HttpRespData

\* What flush makes of the response.
LEMMA FlushFields ==
  ASSUME InputTyped, Flush
  PROVE  LET q == Generated(resp) IN
         /\ resp'.head = (IF resp.head = "SET" THEN "SENT" ELSE resp.head)
         /\ resp'.length = resp.length /\ resp'.generator = resp.generator
         /\ resp'.chunk <=> (resp.chunk \/ (resp.head = "SET" /\ ~resp.length))
         /\ resp'.body = 0 /\ resp'.left = q.left
         /\ resp'.status = (IF q.status = "FinishWait" THEN "Done" ELSE q.status)
<1> DEFINE q == Generated(resp)
           chunk == resp.chunk \/ (resp.head = "SET" /\ ~resp.length)
           head == IF q.head = "SET" THEN "SENT" ELSE q.head
           status == IF q.status = "FinishWait" THEN "Done" ELSE q.status
<1>1. resp' = [q EXCEPT !.head = head, !.chunk = chunk, !.body = 0, !.status = status]
  BY DEF Flush
<1>2. /\ q \in HttpRespData
      /\ q.head = resp.head /\ q.length = resp.length /\ q.generator = resp.generator
  BY GeneratedType, GeneratedFields DEF InputTyped
<1> HIDE DEF q, chunk, head, status
<1>3. /\ resp'.head = head /\ resp'.length = q.length /\ resp'.generator = q.generator
      /\ resp'.chunk = chunk /\ resp'.body = 0 /\ resp'.left = q.left
      /\ resp'.status = status
  BY <1>1, <1>2 DEF HttpRespData
<1>4. QED
  BY <1>2, <1>3 DEF q, chunk, head, status

\* The steps that leave the request, its response and its task alone.
LEMMA QuietStep ==
  ASSUME ~closed, ~closed',
         \/ Arrives \/ ClientReads \/ ConnectionLost
         \/ OnStreamReadable \/ OnStreamWritable \/ OnStreamError \/ HandlerFails
         \/ ExtractReturns \/ TryOutput \/ SendFails \/ SendInTryOutput \/ Resume
         \/ CallbackFindsClosed \/ UNCHANGED vars
  PROVE  /\ kind' = kind /\ parsed' = parsed /\ got' = got /\ resp' = resp
         /\ task' = task /\ answered' = answered
         /\ pc' \in {"send", "after"} => pc \in {"send", "after"}
BY DEF Arrives, ClientReads, ConnectionLost, OnStreamReadable, OnStreamWritable,
       OnStreamError, HandlerFails, ExtractReturns, TryOutput, Returned, SendFails,
       SendInTryOutput, Resume, CallbackFindsClosed, Close, Enter, Goto, client, parser, socket, vars

\* The kind of the request that was parsed.
LEMMA KindIsKnown ==
  ASSUME "async_generator" \notin Kinds, InputTyped, RequestInv, got
  PROVE  /\ answered + 1 \in Requests /\ parsed \div 2 = answered + 1
         /\ kind[answered + 1] \in {"length", "chunked", "generator", "marked", "async_chunked"}
<1>1. /\ parsed = 2 * (answered + 1) /\ parsed <= 2 * N
      /\ answered \in Nat /\ parsed \in Nat /\ N \in Nat
  BY ConstantsAssumption DEF InputTyped, RequestInv
<1>2. answered + 1 \in Requests /\ parsed \div 2 = answered + 1
  BY <1>1 DEF Requests
<1>3. kind[answered + 1] \in Kinds /\ kind[answered + 1] # "bad"
  BY <1>2 DEF InputTyped, RequestInv
<1>4. QED
  BY <1>2, <1>3, ConstantsAssumption

\* What Parse does where it completes a request.
LEMMA ParseCompletes ==
  ASSUME "async_generator" \notin Kinds, InputTyped, RequestInv, NotMadeInv, Parse
  PROVE  /\ task = "none" /\ ~got /\ resp.head = "NOT_SET" /\ kind' = kind
         /\ answered' = answered /\ pc' = "output"
         /\ \/ parsed' = 2 * answered + 1 /\ ~got' /\ resp' = resp /\ task' = "none"
            \/ /\ answered + 1 \in Requests /\ parsed' = 2 * (answered + 1)
               /\ kind[answered + 1] \in Kinds
               /\ got' = (kind[answered + 1] # "bad")
               /\ \/ /\ kind[answered + 1] = "async_chunked" /\ task' = "posted"
                     /\ resp' = [resp EXCEPT !.status = "ExecAsyncTask"]
                  \/ /\ kind[answered + 1] # "async_chunked" /\ task' = "none"
                     /\ resp' = Responded(kind[answered + 1], resp)
<1>1. parsed < received /\ ~got /\ parsed' = ParsedTo /\ received <= 2 * N /\ received \in Nat
  BY ConstantsAssumption DEF Parse, MayParse, InputTyped
<1>2. /\ task = "none" /\ resp.head = "NOT_SET"
      /\ answered \in Nat /\ parsed \in {2 * answered, 2 * answered + 1}
  BY <1>1, ConstantsAssumption DEF RequestInv
<1>3. kind' = kind /\ answered' = answered /\ pc' = "output"
  BY DEF Parse, client, socket, Goto
<1>4. parsed' \in {2 * answered + 1, 2 * (answered + 1)}
  BY <1>1, <1>2 DEF ParsedTo
<1>5. CASE parsed' = 2 * answered + 1
  <2>1. parsed' % 2 # 0
    BY <1>2, <1>5
  <2>2. QED
    BY <1>1, <1>2, <1>3, <1>5, <2>1 DEF Parse
<1>6. CASE parsed' = 2 * (answered + 1)
  <2>1. parsed' % 2 = 0 /\ parsed' \div 2 = answered + 1 /\ answered + 1 \in Requests
    BY <1>1, <1>2, <1>6, ParsedToRight, ConstantsAssumption DEF Requests
  <2>2. kind[answered + 1] \in Kinds
    BY <2>1 DEF InputTyped
  <2>3. got' = (kind[answered + 1] # "bad") /\ Respond(kind[answered + 1])
    BY <2>1, Zenon DEF Parse
  <2>4. QED
    BY <1>1, <1>2, <1>3, <1>6, <2>1, <2>2, <2>3 DEF Respond, IsAsync, MakeAsync
<1>7. QED
  BY <1>4, <1>5, <1>6

LEMMA RequestInductive ==
  ASSUME "async_generator" \notin Kinds, InputTyped, TaskKeepsStatus, RequestInv,
         ResponseInv, [Next]_vars, ~closed, ~closed'
  PROVE  RequestInv'
<1> USE DEF client, parser, socket, Goto, Enter
<1>1. ASSUME kind' = kind, parsed' = parsed, got' = got, answered' = answered,
             task' = task, resp'.head = resp.head
      PROVE  RequestInv'
  BY <1>1 DEF RequestInv
<1>2. CASE \/ Arrives \/ ClientReads \/ ConnectionLost
           \/ OnStreamReadable \/ OnStreamWritable \/ OnStreamError \/ HandlerFails
           \/ ExtractReturns \/ TryOutput \/ SendFails \/ SendInTryOutput \/ Resume
           \/ CallbackFindsClosed \/ UNCHANGED vars
  BY <1>1, <1>2, QuietStep
<1>3. CASE OnTaskFinished
  <2>1. got /\ resp.head # "NOT_SET" /\ resp'.head = resp.head
    BY <1>3 DEF OnTaskFinished, RequestInv, ResponseInv, NotMadeInv, InputTyped, HttpRespData
  <2>2. QED
    BY <1>3, <2>1 DEF OnTaskFinished, RequestInv
<1>4. CASE Parse
  <2>1. \A k : Responded(k, resp).head = "SET"
    BY RespondedFields DEF InputTyped
  <2>2. QED
    BY <1>4, <2>1, ParseCompletes, ConstantsAssumption
       DEF RequestInv, ResponseInv, NotMadeInv, Requests, InputTyped
<1>5. CASE Flush
  <2>1. resp.head = "NOT_SET" <=> resp'.head = "NOT_SET"
    BY <1>5, FlushFields
  <2>2. QED
    BY <1>5, <2>1 DEF Flush, RequestInv
<1>6. CASE OutputDone
  <2>1. CASE got /\ ~HasBlockOperation(resp)
    <3>1. got' = FALSE /\ answered' = answered + 1 /\ parsed' = parsed /\ kind' = kind
          /\ task' = task /\ resp' = Cleared(resp.status)
      BY <1>6, <2>1 DEF OutputDone, PrepareForNextReq
    <3>2. task = "none" /\ parsed = 2 * (answered + 1)
      BY <1>6, <2>1 DEF OutputDone, TaskKeepsStatus, RequestInv
    <3>3. QED
      BY <3>1, <3>2, ClearedFields DEF RequestInv
  <2>2. CASE ~(got /\ ~HasBlockOperation(resp))
    BY <1>1, <1>6, <2>2 DEF OutputDone
  <2>3. QED
    BY <2>1, <2>2
<1>7. CASE RunTask
  <2>1. got /\ resp'.head = "SET"
    BY <1>7, RespondedFields DEF RunTask, RequestInv, InputTyped
  <2>2. QED
    BY <1>7, <2>1 DEF RunTask, RequestInv
<1>8. CASE TaskFinishes
  BY <1>8 DEF TaskFinishes, RequestInv
<1>9. QED
  BY <1>2, <1>3, <1>4, <1>5, <1>6, <1>7, <1>8 DEF Next, LoopStep, PoolStep

LEMMA ResponseInductive ==
  ASSUME "async_generator" \notin Kinds, InputTyped, TaskKeepsStatus, RequestInv,
         ResponseInv, [Next]_vars, ~closed, ~closed'
  PROVE  ResponseInv'
<1> USE DEF client, parser, socket, Goto, Enter
<1>1. CASE \/ Arrives \/ ClientReads \/ ConnectionLost
           \/ OnStreamReadable \/ OnStreamWritable \/ OnStreamError \/ HandlerFails
           \/ ExtractReturns \/ TryOutput \/ SendFails \/ SendInTryOutput \/ Resume
           \/ CallbackFindsClosed \/ UNCHANGED vars
  BY <1>1, QuietStep DEF ResponseInv, NotMadeInv, NotFlushedInv, FlushedInv
<1>2. CASE OnTaskFinished
  <2>1. /\ got /\ resp.head = "SET" /\ kind[answered + 1] = "async_chunked"
        /\ kind' = kind /\ answered' = answered /\ task' = "none" /\ pc' = "resume"
    BY <1>2, KindIsKnown
       DEF OnTaskFinished, TaskKeepsStatus, ResponseInv, NotMadeInv, FlushedInv, InputTyped, HttpRespData
  <2>2. resp' = [resp EXCEPT !.status = "FinishWait"]
    BY <1>2, <2>1 DEF OnTaskFinished, ResponseInv, NotFlushedInv
  <2>3. QED
    BY <2>1, <2>2 DEF ResponseInv, NotMadeInv, NotFlushedInv, FlushedInv, InputTyped, HttpRespData
<1>3. CASE Parse
  <2>1. task = "none" /\ ~got /\ resp.head = "NOT_SET" /\ NotMadeInv /\ kind' = kind
        /\ answered' = answered /\ pc' = "output"
    BY <1>3, ParseCompletes DEF ResponseInv
  <2>2. CASE resp' = resp /\ task' = "none"
    BY <2>1, <2>2 DEF ResponseInv, NotMadeInv, NotFlushedInv, FlushedInv
  <2>3. CASE task' = "posted" /\ resp' = [resp EXCEPT !.status = "ExecAsyncTask"]
    BY <2>1, <2>3 DEF ResponseInv, NotMadeInv, NotFlushedInv, FlushedInv, InputTyped, HttpRespData
  <2>4. CASE /\ kind[answered + 1] \in Kinds \ {"async_chunked", "async_generator"}
             /\ task' = "none" /\ resp' = Responded(kind[answered + 1], resp)
    BY <2>1, <2>4, RespondedFields, ConstantsAssumption
       DEF ResponseInv, NotMadeInv, NotFlushedInv, FlushedInv, InputTyped, Whole
  <2>5. QED
    BY <1>3, <2>2, <2>3, <2>4, ParseCompletes DEF ResponseInv
<1>4. CASE Flush
  <2> DEFINE q == Generated(resp)
  <2>1. /\ kind' = kind /\ answered' = answered /\ task' = task /\ task = "none"
        /\ resp.status # "ExecAsyncTask" /\ resp \in HttpRespData
    BY <1>4 DEF Flush, TaskKeepsStatus, InputTyped
  <2>2. CASE resp.head = "NOT_SET"
    <3>1. q = resp
      BY <2>1, <2>2, GeneratedFields DEF ResponseInv, NotMadeInv
    <3>2. QED
      BY <1>4, <2>1, <2>2, <3>1, FlushFields DEF ResponseInv, NotMadeInv, NotFlushedInv, FlushedInv
  <2>3. CASE resp.head # "NOT_SET"
    <3>1. resp'.head = "SENT" /\ resp'.body = 0
          /\ (resp'.generator <=> kind[answered + 1] = "generator")
          /\ (resp'.chunk <=> kind[answered + 1] \notin Whole)
      BY <1>4, <2>1, <2>3, FlushFields DEF ResponseInv, NotFlushedInv, FlushedInv, HttpRespData
    <3>2. CASE kind[answered + 1] = "generator"
      <4>1. CASE resp.status = "Providing"
        <5>1. resp.generator
          BY <2>1, <2>3, <3>2 DEF ResponseInv, NotFlushedInv, FlushedInv, HttpRespData
        <5>2. resp.left \in Nat
          BY <2>1, ConstantsAssumption DEF HttpRespData
        <5>3. q.status = "Providing" \/ (q.status = "FinishWait" /\ q.left = 0)
          BY <2>1, <4>1, <5>1, <5>2, GeneratedFields
        <5>4. resp'.status = "Providing" \/ (resp'.status = "Done" /\ resp'.left = 0)
          BY <1>4, <5>3, FlushFields
        <5>5. QED
          BY <2>1, <3>1, <3>2, <5>4 DEF ResponseInv, NotMadeInv, NotFlushedInv, FlushedInv
      <4>2. CASE resp.status # "Providing"
        <5>1. resp.status = "Done" /\ resp.left = 0 /\ q = resp
          BY <2>1, <2>3, <3>2, <4>2, GeneratedFields
             DEF ResponseInv, NotFlushedInv, FlushedInv, HttpRespData
        <5>2. resp'.status = "Done" /\ resp'.left = 0
          BY <1>4, <5>1, FlushFields
        <5>3. QED
          BY <2>1, <3>1, <3>2, <5>2 DEF ResponseInv, NotMadeInv, NotFlushedInv, FlushedInv
      <4>3. QED
        BY <4>1, <4>2
    <3>3. CASE kind[answered + 1] # "generator"
      <4>1. q = resp /\ resp.status # "Providing"
        BY <2>1, <2>3, <3>3, GeneratedFields DEF ResponseInv, NotFlushedInv, FlushedInv, HttpRespData
      <4>2. resp'.status = IF resp.status = "FinishWait" THEN "Done" ELSE resp.status
        BY <1>4, <4>1, FlushFields
      <4>3. kind[answered + 1] = "async_chunked" => resp.status \in {"FinishWait", "Done"}
        BY <2>1, <2>3 DEF ResponseInv, NotFlushedInv, FlushedInv, HttpRespData
      <4>4. /\ resp'.status # "Providing"
            /\ kind[answered + 1] = "async_chunked" => resp'.status = "Done"
        BY <4>1, <4>2, <4>3
      <4>5. QED
        BY <2>1, <3>1, <3>3, <4>4 DEF ResponseInv, NotMadeInv, NotFlushedInv, FlushedInv
    <3>4. QED
      BY <3>2, <3>3
  <2>4. QED
    BY <2>2, <2>3
<1>5. CASE OutputDone
  <2>1. CASE got /\ ~HasBlockOperation(resp)
    <3>1. task' = "none" /\ resp' = Cleared(resp.status) /\ resp.status # "Providing"
      BY <1>5, <2>1 DEF OutputDone, PrepareForNextReq, TaskKeepsStatus, HasBlockOperation
    <3>2. QED
      BY <3>1, ClearedFields DEF ResponseInv, NotMadeInv, NotFlushedInv, FlushedInv
  <2>2. CASE ~(got /\ ~HasBlockOperation(resp))
    BY <1>5, <2>2 DEF OutputDone, Returned, ResponseInv, NotMadeInv, NotFlushedInv, FlushedInv
  <2>3. QED
    BY <2>1, <2>2
<1>6. CASE RunTask
  <2>1. /\ got /\ resp.head = "NOT_SET" /\ kind[parsed \div 2] = "async_chunked"
        /\ kind[answered + 1] = "async_chunked" /\ resp.status = "ExecAsyncTask" /\ ~resp.chunk
    BY <1>6, KindIsKnown DEF RunTask, TaskKeepsStatus, ResponseInv, NotMadeInv, NotFlushedInv,
                             FlushedInv, InputTyped, HttpRespData
  <2>2. /\ kind' = kind /\ answered' = answered /\ task' = "running" /\ pc' = pc
        /\ resp' = Responded("async_chunked", resp) /\ pc \notin {"send", "after"}
    BY <1>6, <2>1 DEF RunTask, TaskKeepsStatus
  <2>3. QED
    BY <2>1, <2>2, RespondedFields
       DEF ResponseInv, NotMadeInv, NotFlushedInv, FlushedInv, InputTyped, Whole
<1>7. CASE TaskFinishes
  BY <1>7, SMTT(30) DEF TaskFinishes, ResponseInv, NotMadeInv, NotFlushedInv, FlushedInv
<1>8. QED
  BY <1>1, <1>2, <1>3, <1>4, <1>5, <1>6, <1>7 DEF Next, LoopStep, PoolStep

----------------------------------------------------------------------------
(* What is sent and what waits to be sent.                                 *)

SocketInv ==
  /\ output \in Seq(Units)
  /\ wire \in Seq(Units)
  /\ taken \in 0 .. Len(wire)
  /\ Len(wire) - taken <= Room

LEMMA CutInTwo ==
  ASSUME NEW T, NEW s, s \in Seq(T), NEW n \in 0 .. Len(s)
  PROVE  /\ SubSeq(s, 1, n) \in Seq(T) /\ Len(SubSeq(s, 1, n)) = n
         /\ SubSeq(s, n + 1, Len(s)) \in Seq(T)
         /\ SubSeq(s, 1, n) \o SubSeq(s, n + 1, Len(s)) = s
<1>1. Len(s) \in Nat /\ n \in Nat /\ n <= Len(s)
  OBVIOUS
<1>2. SubSeq(s, 1, n) \in Seq(T) /\ Len(SubSeq(s, 1, n)) = n
  OBVIOUS
<1>3. SubSeq(s, n + 1, Len(s)) \in Seq(T)
  OBVIOUS
<1>4. SubSeq(s, 1, n) \o SubSeq(s, n + 1, Len(s)) = SubSeq(s, 1, Len(s))
  <2>1. 1 \in 1 .. Len(s) + 1 /\ n \in 1 - 1 .. Len(s) /\ Len(s) \in n .. Len(s)
    BY <1>1
  <2>2. QED
    BY <2>1, ConcatAdjacentSubSeq
<1>5. SubSeq(s, 1, Len(s)) = s
  BY SubSeqFull
<1>6. QED
  BY <1>2, <1>3, <1>4, <1>5, Zenon

\* A part of output moves to wire, no more than the socket has room for.
LEMMA SendMoves ==
  ASSUME SocketInv, Send
  PROVE  /\ output' \in Seq(Units) /\ wire' \in Seq(Units)
         /\ wire' \o output' = wire \o output
         /\ Len(wire') >= Len(wire)
         /\ Len(wire') - taken <= Room
<1>1. PICK n : /\ n \in 0 .. Len(output) /\ n <= Room - (Len(wire) - taken)
               /\ wire' = wire \o SubSeq(output, 1, n)
               /\ output' = SubSeq(output, n + 1, Len(output))
  <2> DEFINE room == Room - (Len(wire) - taken)
             k == IF Len(output) < room THEN Len(output) ELSE room
  <2>1. k \in 0 .. Len(output) /\ k <= room
    BY ConstantsAssumption DEF SocketInv
  <2>2. wire' = wire \o SubSeq(output, 1, k) /\ output' = SubSeq(output, k + 1, Len(output))
    BY DEF Send
  <2> HIDE DEF k
  <2>3. QED
    BY <2>1, <2>2
<1>2. PICK s, t : /\ s \in Seq(Units) /\ t \in Seq(Units) /\ Len(s) = n
                  /\ s \o t = output /\ wire' = wire \o s /\ output' = t
  BY <1>1, CutInTwo DEF SocketInv
<1>3. s \in Seq(Units) /\ t \in Seq(Units)
  BY <1>2
<1>4. (wire \o s) \o t = wire \o (s \o t)
  BY <1>3, ConcatAssociative, SMTT(30) DEF SocketInv
<1>5. Len(wire \o s) = Len(wire) + Len(s) /\ wire \o s \in Seq(Units)
  BY <1>3 DEF SocketInv
<1>6. wire' \o output' = wire \o output
  BY <1>2, <1>4, Zenon
<1>7. Len(wire') = Len(wire) + n /\ wire' \in Seq(Units) /\ output' \in Seq(Units)
  BY <1>2, <1>5, Zenon
<1>8. n \in Nat /\ n <= Room - (Len(wire) - taken) /\ Len(wire) \in Nat
      /\ taken \in Nat /\ Room \in Nat
  BY <1>1, ConstantsAssumption DEF SocketInv
<1>9. QED
  BY <1>6, <1>7, <1>8

\* What flush appends to the output.
Flushed ==
  LET r == answered + 1
      q == Generated(resp)
      chunk == resp.chunk \/ (resp.head = "SET" /\ ~resp.length)
      head == IF resp.head = "SET" THEN <<<<r, "head">>>> ELSE <<>>
      body == IF q.body > 0 THEN <<<<r, "body">>>> ELSE <<>>
      end == IF q.status = "FinishWait" /\ chunk THEN <<<<r, "end">>>> ELSE <<>>
  IN (head \o body) \o end

LEMMA FlushAppends ==
  ASSUME SocketInv, Flush
  PROVE  output' = output \o Flushed /\ wire' = wire /\ taken' = taken
         /\ Flushed \in Seq({answered + 1} \X Symbols)
<1> DEFINE r == answered + 1
           q == Generated(resp)
           chunk == resp.chunk \/ (resp.head = "SET" /\ ~resp.length)
           head == IF resp.head = "SET" THEN <<<<r, "head">>>> ELSE <<>>
           body == IF q.body > 0 THEN <<<<r, "body">>>> ELSE <<>>
           end == IF q.status = "FinishWait" /\ chunk THEN <<<<r, "end">>>> ELSE <<>>
<1>1. output' = ((output \o head) \o body) \o end /\ wire' = wire /\ taken' = taken
  BY DEF Flush
<1>2. Flushed = (head \o body) \o end
  BY DEF Flushed
<1>3. \A u \in Symbols : <<<<r, u>>>> \in Seq({r} \X Symbols)
  OBVIOUS
<1>4. {head, body, end} \subseteq Seq({r} \X Symbols)
  BY <1>3 DEF Symbols
<1>5. PICK h, b, e : /\ h \in Seq({r} \X Symbols) /\ b \in Seq({r} \X Symbols)
                     /\ e \in Seq({r} \X Symbols)
                     /\ output' = ((output \o h) \o b) \o e /\ Flushed = (h \o b) \o e
  <2> HIDE DEF head, body, end, r
  <2>1. QED
    BY <1>1, <1>2, <1>4
<1>6. h \in Seq({r} \X Symbols) /\ b \in Seq({r} \X Symbols) /\ e \in Seq({r} \X Symbols)
  BY <1>5
<1>7. PICK S : /\ output \in Seq(S) /\ h \in Seq(S) /\ b \in Seq(S) /\ e \in Seq(S)
  <2> DEFINE S == Units \union ({r} \X Symbols)
  <2>1. output \in Seq(S) /\ h \in Seq(S) /\ b \in Seq(S) /\ e \in Seq(S)
    BY <1>6 DEF SocketInv
  <2> HIDE DEF S
  <2>2. QED
    BY <2>1
<1>8. ((output \o h) \o b) \o e = output \o ((h \o b) \o e)
  <2>1. (output \o h) \o b = output \o (h \o b) /\ h \o b \in Seq(S)
    BY <1>7, ConcatAssociative, SMTT(30)
  <2>2. \A w : w \in Seq(S) => (output \o w) \o e = output \o (w \o e)
    BY <1>7, ConcatAssociative, SMTT(30)
  <2>3. QED
    BY <2>1, <2>2, Zenon
<1>9. (h \o b) \o e \in Seq({r} \X Symbols)
  BY <1>6
<1>10. QED
  BY <1>1, <1>5, <1>8, <1>9, Zenon

\* The kinds of responses that are sent in full: "chunked" lacks its end when
\* the status is Done from before (HttpResponse.cpp:104), "async_generator" is
\* sent while its responder writes to it (MakeAsync with a generator).
KindsInFull == Kinds \subseteq {"length", "generator", "marked", "bad", "async_chunked"}

\* What is flushed is the next part of the response.
LEMMA SentGrows ==
  ASSUME KindsInFull, InputTyped, TaskKeepsStatus, RequestInv, ResponseInv, Flush
  PROVE  /\ Sent(answered + 1)' = Sent(answered + 1) \o Flushed
         /\ Sent(answered + 1) \in Seq({answered + 1} \X Symbols)
<1> DEFINE r == answered + 1
           q == Generated(resp)
           T == {r} \X Symbols
           H == <<<<r, "head">>>>
           B == <<<<r, "body">>>>
           E == <<<<r, "end">>>>
           chunk == resp.chunk \/ (resp.head = "SET" /\ ~resp.length)
           All == Bodies(r, Chunks)
           Some == Bodies(r, Chunks - resp.left)
           More == Bodies(r, Chunks - resp'.left)
<1>1. /\ resp \in HttpRespData /\ r \in Nat /\ task = "none" /\ resp.status # "ExecAsyncTask"
      /\ kind' = kind /\ answered' = answered
  BY DEF InputTyped, RequestInv, TaskKeepsStatus, Flush, Goto
<1>2. /\ q.status = "FinishWait" => resp'.status = "Done"
      /\ q.status # "FinishWait" => resp'.status = q.status
      /\ resp'.left = q.left
      /\ resp.head = "SET" => resp'.head = "SENT"
      /\ resp.head # "SET" => resp'.head = resp.head
  BY FlushFields
<1>3. resp.left \in 0 .. Chunks /\ Chunks \in Nat /\ resp.head \in {"NOT_SET", "SET", "SENT"}
  BY <1>1, ConstantsAssumption DEF HttpRespData
<1>4. \A n \in Nat : Bodies(r, n) \in Seq(T) /\ Bodies(r, n + 1) = Bodies(r, n) \o B
  BY <1>1, BodiesNext
<1>5. Bodies(r, 0) = <<>>
  BY <1>1, BodiesNext
<1>6. H \in Seq(T) /\ B \in Seq(T) /\ E \in Seq(T)
  BY DEF Symbols
<1>7. All \in Seq(T) /\ Some \in Seq(T)
  <2>1. Chunks \in Nat /\ Chunks - resp.left \in Nat
    BY <1>3
  <2>2. QED
    BY <1>4, <2>1
<1>8. Sent(r) = IF resp.head # "SENT" THEN <<>>
                ELSE IF kind[r] \in Whole THEN H \o B
                ELSE IF kind[r] = "async_chunked" THEN H \o (B \o E)
                ELSE IF resp.status = "Done" THEN H \o (All \o E)
                ELSE H \o Some
  BY DEF Sent
<1>9. Sent(answered + 1)' = IF resp'.head # "SENT" THEN <<>>
                 ELSE IF kind[r] \in Whole THEN H \o B
                 ELSE IF kind[r] = "async_chunked" THEN H \o (B \o E)
                 ELSE IF resp'.status = "Done" THEN H \o (All \o E)
                 ELSE H \o More
  BY <1>1 DEF Sent, Bodies
<1>10. Flushed = ((IF resp.head = "SET" THEN H ELSE <<>>)
                  \o (IF q.body > 0 THEN B ELSE <<>>))
                  \o (IF q.status = "FinishWait" /\ chunk THEN E ELSE <<>>)
  BY DEF Flushed
<1>11. /\ ~(resp.generator /\ resp.status = "Providing") => q = resp
       /\ (resp.generator /\ resp.status = "Providing" /\ resp.left > 0) =>
            q.body = 1 /\ q.left = resp.left - 1 /\ q.status = "Providing"
       /\ (resp.generator /\ resp.status = "Providing" /\ resp.left = 0) =>
            q.body = resp.body /\ q.left = 0 /\ q.status = "FinishWait"
  BY <1>1, GeneratedFields
<1>12. kind[r] \in {"length", "generator", "marked", "bad", "async_chunked"} \/ resp.head = "NOT_SET"
  <2>1. CASE got
    BY <2>1, KindIsKnown DEF KindsInFull, InputTyped
  <2>2. CASE ~got
    BY <2>2 DEF RequestInv
  <2>3. QED
    BY <2>1, <2>2
<1> HIDE DEF r, q, T, H, B, E, chunk, All, Some, More
<1>13. \A x : x \in Seq(T) => x \o <<>> = x /\ <<>> \o x = x
  OBVIOUS
<1>14. <<>> \in Seq(T) /\ <<>> \o <<>> = <<>>
  OBVIOUS
<1>15. \A x, y : x \in Seq(T) /\ y \in Seq(T) => x \o y \in Seq(T)
  OBVIOUS
<1>16. \A x, y, z : x \in Seq(T) /\ y \in Seq(T) /\ z \in Seq(T) => (x \o y) \o z = x \o (y \o z)
  BY ConcatAssociative
<1>17a. (H \o Some) \o B = H \o (Some \o B)
  BY <1>6, <1>7, <1>16, SMTT(30)
<1>17. Sent(r) \in Seq(T)
  BY <1>6, <1>7, <1>8, <1>14, <1>15, Zenon
<1>18. CASE resp.head = "NOT_SET"
  <2>1. q = resp /\ resp.body = 0 /\ ~chunk
    BY <1>11, <1>18 DEF ResponseInv, NotMadeInv, chunk
  <2>2. Flushed = <<>>
    BY <1>10, <1>14, <1>18, <2>1
  <2>3. Sent(r) = <<>> /\ Sent(answered + 1)' = <<>>
    BY <1>2, <1>8, <1>9, <1>18
  <2>4. QED
    BY <1>14, <1>17, <2>2, <2>3, Zenon DEF r, T

<1>19. CASE resp.head # "NOT_SET" /\ kind[r] \in Whole
  <2>1. q = resp /\ ~chunk /\ resp.body = (IF resp.head = "SET" THEN 1 ELSE 0)
    BY <1>3, <1>11, <1>19
       DEF ResponseInv, NotFlushedInv, FlushedInv, Whole, chunk, r
  <2>2. Sent(answered + 1)' = H \o B
    BY <1>2, <1>3, <1>9, <1>19
  <2>3. CASE resp.head = "SET"
    <3>1. Flushed = (H \o B) \o <<>> /\ Sent(r) = <<>>
      BY <1>8, <1>10, <2>1, <2>3
    <3>2. H \o B \in Seq(T)
      BY <1>6, <1>15
    <3>3. QED
      BY <1>13, <1>17, <2>2, <3>1, <3>2, Zenon DEF r, T
  <2>4. CASE resp.head = "SENT"
    <3>1. Flushed = (<<>> \o <<>>) \o <<>> /\ Sent(r) = H \o B
      BY <1>8, <1>10, <1>19, <2>1, <2>4
    <3>2. QED
      BY <1>13, <1>14, <1>17, <2>2, <3>1, Zenon DEF r, T
  <2>5. QED
    BY <1>3, <1>19, <2>3, <2>4
<1>20. CASE resp.head # "NOT_SET" /\ kind[r] = "async_chunked"
  <2>1. /\ q = resp /\ chunk
        /\ resp.body = (IF resp.head = "SET" THEN 1 ELSE 0)
        /\ resp.status = (IF resp.head = "SET" THEN "FinishWait" ELSE "Done")
    BY <1>1, <1>3, <1>11, <1>20
       DEF ResponseInv, NotFlushedInv, FlushedInv, Whole, chunk, r, HttpRespData
  <2>2. Sent(answered + 1)' = H \o (B \o E)
    BY <1>2, <1>3, <1>9, <1>20 DEF Whole
  <2>3. CASE resp.head = "SET"
    <3>1. Flushed = (H \o B) \o E /\ Sent(r) = <<>>
      BY <1>8, <1>10, <2>1, <2>3
    <3>2. (H \o B) \o E = H \o (B \o E) /\ (H \o B) \o E \in Seq(T)
      BY <1>6, <1>15, <1>16
    <3>3. QED
      BY <1>13, <1>17, <2>2, <3>1, <3>2, Zenon DEF r, T
  <2>4. CASE resp.head = "SENT"
    <3>1. Flushed = (<<>> \o <<>>) \o <<>> /\ Sent(r) = H \o (B \o E)
      BY <1>8, <1>10, <1>20, <2>1, <2>4 DEF Whole
    <3>2. QED
      BY <1>13, <1>14, <1>17, <2>2, <3>1, Zenon DEF r, T
  <2>5. QED
    BY <1>3, <1>20, <2>3, <2>4
<1>21. CASE resp.head # "NOT_SET" /\ kind[r] = "generator"
  <2>1. /\ resp.body = 0 /\ resp.generator /\ chunk
        /\ resp.head = "SET" => resp.status = "Providing" /\ resp.left = Chunks
        /\ resp.head = "SENT" => \/ resp.status = "Providing"
                                 \/ (resp.status = "Done" /\ resp.left = 0)
    BY <1>1, <1>3, <1>21
       DEF ResponseInv, NotFlushedInv, FlushedInv, Whole, chunk, r, HttpRespData
  <2>2. Sent(answered + 1)' = IF resp'.status = "Done" THEN H \o (All \o E) ELSE H \o More
    BY <1>2, <1>3, <1>9, <1>21 DEF Whole
  <2>3. CASE resp.status = "Providing" /\ resp.left > 0
    <3>1. /\ q.body = 1 /\ q.status = "Providing"
          /\ resp'.left = resp.left - 1 /\ resp'.status = "Providing"
      BY <1>2, <1>11, <2>1, <2>3
    <3>2. PICK n \in Nat : n = Chunks - resp.left /\ Chunks - resp'.left = n + 1
      BY <1>3, <3>1
    <3>3. Sent(answered + 1)' = H \o (Some \o B)
      BY <1>4, <2>2, <3>1, <3>2, Zenon DEF Some, More
    <3>4. CASE resp.head = "SET"
      <4>1. Flushed = (H \o B) \o <<>> /\ Sent(r) = <<>>
        BY <1>8, <1>10, <3>1, <3>4
      <4>2. n = 0
        BY <1>3, <2>1, <3>2, <3>4
      <4>3. Some = <<>>
        BY <1>5, <3>2, <4>2, Zenon DEF Some
      <4>4. H \o B \in Seq(T)
        BY <1>6, <1>15
      <4>5. QED
        BY <1>6, <1>13, <1>17, <3>3, <4>1, <4>3, <4>4, Zenon DEF r, T
    <3>5. CASE resp.head = "SENT"
      <4>1. Flushed = (<<>> \o B) \o <<>> /\ Sent(r) = H \o Some
        <5>1. Flushed = (<<>> \o B) \o <<>>
          BY <1>10, <3>1, <3>5
        <5>2. Sent(r) = H \o Some
          BY <1>8, <1>21, <2>3, <3>5 DEF Whole
        <5>3. QED
          BY <5>1, <5>2
      <4>2. QED
        BY <1>6, <1>13, <1>17, <1>17a, <3>3, <4>1, Zenon DEF r, T
    <3>6. QED
      BY <1>3, <1>21, <3>4, <3>5
  <2>4. CASE resp.status = "Providing" /\ resp.left = 0
    <3>1. q.body = 0 /\ q.status = "FinishWait" /\ resp'.status = "Done"
      BY <1>2, <1>11, <2>1, <2>4
    <3>2. Sent(answered + 1)' = H \o (All \o E)
      BY <2>2, <3>1
    <3>3. Some = All
      BY <1>3, <2>4 DEF Some, All
    <3>4. CASE resp.head = "SET"
      <4>1. Flushed = (H \o <<>>) \o E /\ Sent(r) = <<>>
        BY <1>8, <1>10, <2>1, <3>1, <3>4
      <4>2. Chunks = 0
        BY <2>1, <2>4, <3>4
      <4>3. All = <<>>
        BY <1>5, <4>2, Zenon DEF All
      <4>4. H \o E \in Seq(T)
        BY <1>6, <1>15
      <4>5. QED
        BY <1>6, <1>13, <1>17, <3>2, <4>1, <4>3, <4>4, Zenon DEF r, T
    <3>5. CASE resp.head = "SENT"
      <4>1. Flushed = (<<>> \o <<>>) \o E /\ Sent(r) = H \o Some
        BY <1>8, <1>10, <1>21, <2>1, <2>4, <3>1, <3>5 DEF Whole
      <4>2. (H \o All) \o E = H \o (All \o E)
        BY <1>6, <1>7, <1>16, SMTT(30)
      <4>3. QED
        BY <1>6, <1>13, <1>14, <1>17, <3>2, <3>3, <4>1, <4>2, Zenon DEF r, T
    <3>6. QED
      BY <1>3, <1>21, <3>4, <3>5
  <2>5. CASE resp.status = "Done"
    <3>1. resp.head = "SENT" /\ q = resp
      BY <1>3, <1>11, <1>21, <2>1, <2>5
    <3>2. Flushed = (<<>> \o <<>>) \o <<>> /\ Sent(r) = H \o (All \o E)
      BY <1>8, <1>10, <1>21, <2>1, <2>5, <3>1 DEF Whole
    <3>3. Sent(answered + 1)' = H \o (All \o E)
      BY <1>2, <2>2, <2>5, <3>1
    <3>4. QED
      BY <1>13, <1>14, <1>17, <3>2, <3>3, Zenon DEF r, T
  <2>6. QED
    BY <1>3, <1>21, <2>1, <2>3, <2>4, <2>5
<1>22. QED
  BY <1>12, <1>18, <1>19, <1>20, <1>21 DEF Whole

\* Steps that neither flush nor send.
LEMMA SocketQuiet ==
  ASSUME SocketInv,
         \/ Arrives \/ ClientReads \/ ConnectionLost
         \/ OnStreamReadable \/ OnStreamWritable \/ OnStreamError \/ OnTaskFinished
         \/ CallbackFindsClosed \/ HandlerFails
         \/ Parse \/ ExtractReturns \/ TryOutput \/ SendFails \/ OutputDone
         \/ RunTask \/ TaskFinishes \/ UNCHANGED vars
  PROVE  /\ wire' = wire /\ SocketInv'
         /\ output' = output \/ (closed' /\ output' = <<>>)
<1>1. wire' = wire /\ (taken' = taken \/ ClientReads)
  BY DEF Arrives, ClientReads, ConnectionLost, OnStreamReadable, OnStreamWritable,
         OnStreamError, OnTaskFinished, CallbackFindsClosed, HandlerFails, Close, Parse,
         ExtractReturns, TryOutput, SendFails, OutputDone, RunTask, TaskFinishes, client,
         parser, socket, vars
<1>2. output' = output \/ (closed' /\ output' = <<>>)
  BY DEF Arrives, ClientReads, ConnectionLost, OnStreamReadable, OnStreamWritable,
         OnStreamError, OnTaskFinished, CallbackFindsClosed, HandlerFails, Close, Parse,
         ExtractReturns, TryOutput, SendFails, OutputDone, RunTask, TaskFinishes, client,
         parser, socket, vars
<1>3. CASE taken' = taken
  <2>1. output' \in Seq(Units)
    <3>1. output \in Seq(Units) /\ <<>> \in Seq(Units)
      BY EmptySeq DEF SocketInv
    <3>2. QED
      BY <1>2, <3>1, Zenon
  <2>2. QED
    BY <1>1, <1>2, <1>3, <2>1, Zenon DEF SocketInv
<1>4. CASE ClientReads
  <2>1. output' = output
    BY <1>4 DEF ClientReads
  <2>2. QED
    BY <1>1, <1>4, <2>1, ConstantsAssumption DEF SocketInv, ClientReads
<1>5. QED
  BY <1>1, <1>2, <1>3, <1>4

\* Sending moves what was flushed to the wire.
LEMMA SendingMoves ==
  ASSUME SocketInv, SendInTryOutput \/ Resume
  PROVE  /\ wire' \o output' = wire \o output /\ SocketInv'
         /\ kind' = kind /\ resp' = resp /\ answered' = answered
<1>1. CASE Send
  <2>1. taken' = taken /\ kind' = kind /\ resp' = resp /\ answered' = answered
    BY DEF SendInTryOutput, Resume
  <2>2. /\ output' \in Seq(Units) /\ wire' \in Seq(Units)
        /\ wire' \o output' = wire \o output
        /\ Len(wire') >= Len(wire) /\ Len(wire') - taken <= Room
    BY <1>1, SendMoves
  <2>3. taken \in 0 .. Len(wire) /\ Len(wire) \in Nat /\ Len(wire') \in Nat
    BY <2>2 DEF SocketInv
  <2>4. taken' \in 0 .. Len(wire') /\ Len(wire') - taken' <= Room
    BY <2>1, <2>2, <2>3
  <2>5. QED
    BY <2>1, <2>2, <2>4, Zenon DEF SocketInv
<1>2. CASE ~Send
  BY <1>2 DEF SendInTryOutput, Resume, socket, SocketInv
<1>3. QED
  BY <1>1, <1>2

\* What is flushed belongs to one of the requests.
LEMMA FlushedIsTyped ==
  ASSUME "async_generator" \notin Kinds, InputTyped, TaskKeepsStatus, RequestInv, ResponseInv,
         SocketInv, Flush
  PROVE  Flushed \in Seq(Units) /\ SocketInv'
<1>1. output' = output \o Flushed /\ wire' = wire /\ taken' = taken
      /\ Flushed \in Seq({answered + 1} \X Symbols)
  BY FlushAppends
<1>2. Flushed \in Seq(Units)
  <2>1. CASE answered + 1 \in Requests
    <3>1. {answered + 1} \X Symbols \subseteq Units
      BY <2>1 DEF Units, Symbols
    <3>2. QED
      BY <1>1, <3>1
  <2>2. CASE answered + 1 \notin Requests
    <3>1. resp.head = "NOT_SET" /\ task = "none"
      BY <2>2, KindIsKnown, ConstantsAssumption DEF RequestInv, Requests
    <3>2. Generated(resp) = resp /\ resp.body = 0 /\ ~resp.chunk
      BY <3>1, GeneratedFields DEF ResponseInv, NotMadeInv, InputTyped
    <3>3. Flushed = (<<>> \o <<>>) \o <<>>
      BY <3>1, <3>2 DEF Flushed
    <3>4. QED
      BY <3>3
  <2>3. QED
    BY <2>1, <2>2
<1>3. output \o Flushed \in Seq(Units)
  BY <1>2 DEF SocketInv
<1>4. output' \in Seq(Units)
  BY <1>1, <1>3, Zenon
<1>5. QED
  BY <1>1, <1>2, <1>4, Zenon DEF SocketInv

LEMMA SocketInductive ==
  ASSUME "async_generator" \notin Kinds, InputTyped, ClosedInv, SocketInv, [Next]_vars,
         closed \/ (TaskKeepsStatus /\ RequestInv /\ ResponseInv)
  PROVE  SocketInv'
<1>1. CASE Flush
  <2>1. ~closed
    BY <1>1 DEF Flush, Goto, ClosedInv
  <2>2. QED
    BY <1>1, <2>1, FlushedIsTyped
<1>2. CASE SendInTryOutput \/ Resume
  BY <1>2, SendingMoves
<1>3. QED
  BY <1>1, <1>2, SocketQuiet DEF Next, LoopStep, PoolStep

LEMMA ResponsesOfNow ==
  ASSUME kind' = kind
  PROVE  Responses(answered)' = Responses(answered')
<1>1. \A r : Response(r)' = Response(r)
  BY DEF Response
<1> HIDE DEF Response
<1>2. [r \in 1 .. answered |-> Response(r)]' = [r \in 1 .. answered' |-> Response(r)]
  BY <1>1
<1>3. QED
  BY <1>2 DEF Responses

LEMMA StreamInductive ==
  ASSUME KindsInFull, InputTyped, TaskKeepsStatus, RequestInv, ResponseInv, SocketInv,
         StreamInv, [Next]_vars, ~closed, ~closed'
  PROVE  StreamInv'
<1> DEFINE r == answered + 1
<1>1. kind' = kind
  BY DEF Next, LoopStep, PoolStep, Arrives, ClientReads, ConnectionLost, OnStreamReadable,
         OnStreamWritable, OnStreamError, OnTaskFinished, CallbackFindsClosed, HandlerFails, Parse, ExtractReturns,
         TryOutput, Flush, SendFails, SendInTryOutput, OutputDone, Resume, RunTask,
         TaskFinishes, vars
<1>2. Responses(answered)' = Responses(answered')
  BY <1>1, ResponsesOfNow
<1>3. ASSUME answered' = answered, Sent(answered + 1)' = Sent(answered + 1),
             wire' \o output' = wire \o output
      PROVE  StreamInv'
  BY <1>2, <1>3, Zenon DEF StreamInv
<1>4. ASSUME kind' = kind, resp' = resp, answered' = answered
      PROVE  Sent(answered + 1)' = Sent(answered + 1)
  BY <1>4 DEF Sent, Bodies
<1>5. CASE \/ Arrives \/ ClientReads \/ ConnectionLost
           \/ OnStreamReadable \/ OnStreamWritable \/ OnStreamError \/ HandlerFails
           \/ ExtractReturns \/ TryOutput \/ SendFails \/ TaskFinishes
           \/ CallbackFindsClosed \/ UNCHANGED vars
  <2>1. kind' = kind /\ resp' = resp /\ answered' = answered
    BY <1>5, QuietStep DEF TaskFinishes
  <2>2. output' = output /\ wire' = wire
    BY <1>5, SocketQuiet
  <2>3. QED
    BY <1>3, <1>4, <2>1, <2>2, Zenon
<1>6. CASE SendInTryOutput \/ Resume
  BY <1>3, <1>4, <1>6, SendingMoves, Zenon
<1>7. CASE OnTaskFinished \/ Parse \/ RunTask
  <2>1. output' = output /\ wire' = wire
    BY <1>7, SocketQuiet
  <2>2. answered' = answered /\ resp.head # "SENT" /\ resp'.head # "SENT"
    <3>1. CASE OnTaskFinished
      BY <3>1 DEF OnTaskFinished, ResponseInv, FlushedInv, InputTyped, HttpRespData
    <3>2. CASE Parse
      BY <3>2, ParseCompletes, RespondedFields
         DEF KindsInFull, ResponseInv, InputTyped, HttpRespData
    <3>3. CASE RunTask
      BY <3>3, RespondedFields DEF RunTask, ResponseInv, FlushedInv, InputTyped
    <3>4. QED
      BY <1>7, <3>1, <3>2, <3>3
  <2>3. Sent(answered + 1)' = Sent(answered + 1)
    BY <2>2 DEF Sent
  <2>4. QED
    BY <1>3, <2>1, <2>2, <2>3, Zenon
<1>8. CASE Flush
  <2>1. answered' = answered /\ wire' = wire /\ output' = output \o Flushed
    BY <1>8, FlushAppends DEF Flush
  <2>2. Sent(answered + 1)' = Sent(answered + 1) \o Flushed
    BY <1>8, SentGrows
  <2>3. PICK T : /\ wire \in Seq(T) /\ output \in Seq(T) /\ Flushed \in Seq(T)
                 /\ Responses(answered) \in Seq(T) /\ Sent(answered + 1) \in Seq(T)
    <3>1. wire \in Seq(Nat \X Symbols) /\ output \in Seq(Nat \X Symbols)
      <4>1. Units \subseteq Nat \X Symbols
        BY ConstantsAssumption DEF Units, Requests, Symbols
      <4>2. QED
        BY <4>1 DEF SocketInv
    <3>2. {answered + 1} \X Symbols \subseteq Nat \X Symbols
      BY DEF RequestInv
    <3>3. Flushed \in Seq(Nat \X Symbols) /\ Sent(answered + 1) \in Seq(Nat \X Symbols)
      BY <1>8, <3>2, FlushAppends, SentGrows
    <3>4. Responses(answered) \in Seq(Nat \X Symbols)
      BY ResponsesNext DEF RequestInv
    <3>5. QED
      BY <3>1, <3>3, <3>4
  <2>4. (wire \o output) \o Flushed = wire \o (output \o Flushed)
    BY <2>3, ConcatAssociative, SMTT(30)
  <2>5. (Responses(answered) \o Sent(answered + 1)) \o Flushed =
          Responses(answered) \o (Sent(answered + 1) \o Flushed)
    BY <2>3, ConcatAssociative, SMTT(30)
  <2>6. QED
    BY <1>2, <2>1, <2>2, <2>4, <2>5, Zenon DEF StreamInv
<1>9. CASE OutputDone
  <2>1. output' = output /\ wire' = wire
    BY <1>9, SocketQuiet
  <2>2. CASE got /\ ~HasBlockOperation(resp)
    <3>1. answered' = answered + 1 /\ resp' = Cleared(resp.status) /\ answered \in Nat
          /\ answered' \in Nat
      BY <1>9, <2>2 DEF OutputDone, PrepareForNextReq, RequestInv
    <3>2. Sent(answered + 1) = Response(answered + 1)
      <4>1. resp.head = "SENT" /\ resp.status # "Providing"
        BY <1>9, <2>2 DEF OutputDone, Goto, HasBlockOperation, RequestInv, ResponseInv,
                          NotFlushedInv, TaskKeepsStatus, InputTyped, HttpRespData
      <4>2. kind[r] \in {"length", "generator", "marked", "async_chunked"}
        BY <2>2, KindIsKnown DEF KindsInFull, InputTyped
      <4>3. kind[r] = "generator" => resp.status = "Done"
        BY <4>1 DEF ResponseInv, FlushedInv
      <4>4. r \in Nat
        BY <3>1
      <4>5. Sent(r) = IF kind[r] \in Whole THEN <<<<r, "head">>>> \o <<<<r, "body">>>>
                      ELSE IF kind[r] = "async_chunked"
                      THEN <<<<r, "head">>>> \o (<<<<r, "body">>>> \o <<<<r, "end">>>>)
                      ELSE <<<<r, "head">>>> \o (Bodies(r, Chunks) \o <<<<r, "end">>>>)
        BY <4>1, <4>2, <4>3 DEF Sent, Whole
      <4> HIDE DEF r
      <4>6. Response(r) = IF kind[r] \in Whole THEN <<<<r, "head">>>> \o <<<<r, "body">>>>
                      ELSE IF kind[r] = "async_chunked"
                      THEN <<<<r, "head">>>> \o (<<<<r, "body">>>> \o <<<<r, "end">>>>)
                      ELSE <<<<r, "head">>>> \o (Bodies(r, Chunks) \o <<<<r, "end">>>>)
        BY <4>2, <4>4, ResponseIs DEF Whole
      <4>7. QED
        BY <4>5, <4>6 DEF r
    <3>3. Sent(answered + 1)' = <<>>
      BY <3>1, ClearedFields DEF Sent
    <3>4. Responses(answered + 1) = Responses(answered) \o Response(answered + 1)
      BY <3>1, ResponsesNext
    <3>5. Responses(answered') \o <<>> = Responses(answered')
      <4>1. Responses(answered') \in Seq(Nat \X Symbols)
        BY <3>1, ResponsesNext
      <4>2. QED
        BY <4>1
    <3>6. QED
      BY <1>2, <2>1, <3>1, <3>2, <3>3, <3>4, <3>5, Zenon DEF StreamInv
  <2>3. CASE ~(got /\ ~HasBlockOperation(resp))
    <3>1. kind' = kind /\ resp' = resp /\ answered' = answered
      BY <1>9, <2>3 DEF OutputDone
    <3>2. QED
      BY <1>3, <1>4, <2>1, <3>1, Zenon
  <2>4. QED
    BY <2>2, <2>3
<1>10. QED
  BY <1>5, <1>6, <1>7, <1>8, <1>9 DEF Next, LoopStep, PoolStep

\* What is flushed of a response is a prefix of it.
LEMMA SentContinues ==
  ASSUME KindsInFull, InputTyped, RequestInv, ResponseInv, answered + 1 \in Requests
  PROVE  \E v : /\ v \in Seq(Nat \X Symbols)
                /\ Sent(answered + 1) \in Seq(Nat \X Symbols)
                /\ Response(answered + 1) = Sent(answered + 1) \o v
<1> DEFINE r == answered + 1
           H == <<<<r, "head">>>>
           B == <<<<r, "body">>>>
           E == <<<<r, "end">>>>
           T == Nat \X Symbols
<1>1. r \in Nat /\ kind[r] \in {"length", "generator", "marked", "bad", "async_chunked"}
      /\ resp \in HttpRespData /\ Chunks \in Nat
  <2>1. r \in Nat /\ kind[r] \in Kinds /\ resp \in HttpRespData
    BY DEF InputTyped, RequestInv
  <2>2. QED
    BY <2>1, ConstantsAssumption DEF KindsInFull
<1>2. Seq({r} \X Symbols) \subseteq Seq(T)
  <2>1. {r} \X Symbols \subseteq T
    BY <1>1
  <2>2. QED
    BY <2>1
<1>3. H \in Seq(T) /\ B \in Seq(T) /\ E \in Seq(T) /\ <<>> \in Seq(T)
  BY <1>1 DEF Symbols
<1>4. /\ Response(r) \in Seq(T)
      /\ kind[r] \in Whole => Response(r) = H \o B
      /\ kind[r] = "async_chunked" => Response(r) = H \o (B \o E)
      /\ kind[r] = "generator" => Response(r) = H \o (Bodies(r, Chunks) \o E)
  BY <1>1, <1>2, ResponseIs DEF Whole
<1>5. CASE resp.head # "SENT"
  <2>1. Sent(r) = <<>>
    BY <1>5 DEF Sent
  <2>2. Response(r) = <<>> \o Response(r)
    BY <1>4
  <2>3. QED
    BY <1>3, <1>4, <2>1, <2>2, Zenon
<1>6. CASE resp.head = "SENT" /\ ~(kind[r] = "generator" /\ resp.status = "Providing")
  <2>1. Sent(r) = Response(r)
    <3>1. CASE kind[r] \in Whole
      BY <1>4, <1>6, <3>1 DEF Sent
    <3>2. CASE kind[r] = "async_chunked"
      BY <1>4, <1>6, <3>2 DEF Sent, Whole
    <3>3. CASE kind[r] = "generator"
      <4>1. resp.status = "Done"
        BY <1>6, <3>3 DEF ResponseInv, FlushedInv
      <4>2. QED
        BY <1>4, <1>6, <3>3, <4>1 DEF Sent, Whole
    <3>4. QED
      BY <1>1, <3>1, <3>2, <3>3 DEF Whole
  <2>2. Response(r) = Response(r) \o <<>>
    BY <1>4
  <2>3. QED
    BY <1>3, <1>4, <2>1, <2>2, Zenon
<1>7. CASE resp.head = "SENT" /\ kind[r] = "generator" /\ resp.status = "Providing"
  <2>1. PICK n : n = Chunks - resp.left /\ n \in 0 .. Chunks
    BY <1>1 DEF HttpRespData
  <2>2. Sent(r) = H \o Bodies(r, n)
    BY <1>7, <2>1 DEF Sent, Whole
  <2>3. PICK u : u \in Seq({r} \X Symbols) /\ Bodies(r, Chunks) = Bodies(r, n) \o u
    BY <1>1, <2>1, BodiesContinue
  <2> DEFINE some == Bodies(r, n)
  <2>4. some \in Seq(T) /\ u \in Seq(T)
    <3>1. n \in Nat
      BY <2>1
    <3>2. some \in Seq({r} \X Symbols) /\ u \in Seq({r} \X Symbols)
      BY <1>1, <2>3, <3>1, BodiesNext, Zenon
    <3>3. QED
      BY <1>2, <3>2, Zenon
  <2> DEFINE rest == u \o E
  <2> HIDE DEF some, H, B, E, T, r
  <2>5. (some \o u) \o E = some \o rest /\ rest \in Seq(T)
    BY <1>3, <2>4, ConcatTyped, SMTT(30)
  <2> HIDE DEF rest
  <2>6. (H \o some) \o rest = H \o (some \o rest) /\ H \o some \in Seq(T)
    <3>1. H \in Seq(T) /\ some \in Seq(T) /\ rest \in Seq(T)
      BY <1>3, <2>4, <2>5
    <3>2. QED
      BY <3>1, ConcatTyped
  <2>8. Response(r) = Sent(r) \o rest
    BY <1>4, <1>7, <2>2, <2>3, <2>5, <2>6, Zenon DEF some
  <2>9. QED
    BY <2>2, <2>5, <2>6, <2>8, Zenon DEF some, T, r
<1>8. QED
  BY <1>5, <1>6, <1>7

\* As long as the connection is not closed.
OpenInv == TaskKeepsStatus /\ RequestInv /\ ResponseInv

Http1Inv ==
  /\ InputTyped /\ ClosedInv /\ SocketInv
  /\ answered \in 0 .. N
  /\ closed \/ OpenInv

LEMMA AnsweredBound ==
  ASSUME NEW a \in Nat, NEW p \in Nat, p <= 2 * N,
         p \in {2 * a, 2 * a + 1, 2 * (a + 1)} \/ a + 1 = N
  PROVE  a \in 0 .. N
BY ConstantsAssumption

LEMMA Http1InvAlways ==
  ASSUME "async_generator" \notin Kinds
  PROVE  Spec => []Http1Inv
<1> DEFINE Inv == SocketInv /\ answered \in 0 .. N /\ (closed \/ (RequestInv /\ ResponseInv))
           Known == InputTyped /\ (closed \/ TaskKeepsStatus) /\ ClosedInv
<1>1. Init => Inv
  <2> SUFFICES ASSUME Init PROVE RequestInv /\ ResponseInv /\ SocketInv /\ answered \in 0 .. N
    OBVIOUS
  <2>1. resp.head = "NOT_SET" /\ resp.body = 0 /\ ~resp.generator /\ ~resp.chunk
        /\ resp.status = "FinishWait"
    BY ClearedFields DEF Init
  <2>2. RequestInv
    BY <2>1 DEF Init, RequestInv
  <2>3. ResponseInv
    BY <2>1 DEF Init, ResponseInv, NotMadeInv, NotFlushedInv, FlushedInv
  <2>4. SocketInv /\ answered \in 0 .. N
    BY ConstantsAssumption DEF Init, SocketInv
  <2>5. QED
    BY <2>2, <2>3, <2>4
<1>2. ASSUME Known, Known', Inv, [Next]_vars
      PROVE  Inv'
  <2>1. SocketInv'
    BY <1>2, SocketInductive
  <2>2. CASE closed'
    <3>1. answered' = answered
      BY <1>2, <2>2, ClosedStep, CloseStep
    <3>2. QED
      BY <1>2, <2>1, <2>2, <3>1
  <2>3. CASE ~closed'
    <3>1. ~closed
      BY <1>2, <2>3, ClosedStep
    <3>2. RequestInv' /\ ResponseInv'
      BY <1>2, <2>3, <3>1, RequestInductive, ResponseInductive
    <3>3. answered' \in 0 .. N
      <4>1. InputTyped' /\ RequestInv'
        BY <1>2, <3>2
      <4>2. answered' \in Nat /\ parsed' \in Nat /\ parsed' <= 2 * N /\ N \in Nat
        BY <4>1, ConstantsAssumption DEF InputTyped, RequestInv
      <4>3. \/ parsed' \in {2 * answered', 2 * answered' + 1, 2 * (answered' + 1)}
            \/ answered' + 1 = N
        BY <4>1 DEF RequestInv
      <4>4. QED
        BY <4>2, <4>3, AnsweredBound
    <3>4. QED
      BY <2>1, <2>3, <3>2, <3>3
  <2>4. QED
    BY <2>2, <2>3
<1>3. Spec => []Known
  BY InputTypedAlways, TaskKeepsStatusAlways, PTL
<1>4. Known /\ Inv => Http1Inv
  BY DEF Http1Inv, OpenInv
<1>5. QED
  BY <1>1, <1>2, <1>3, <1>4, PTL DEF Spec

\* What is sent and what waits is a prefix of all the responses, ...
LEMMA StreamIsPrefix ==
  ASSUME KindsInFull, InputTyped, OpenInv, StreamInv
  PROVE  IsPrefix(wire \o output, Responses(N))
<1> USE DEF OpenInv
<1> DEFINE T == Nat \X Symbols
           before == Responses(answered)
           sent == Sent(answered + 1)
<1>1. PICK v : v \in Seq(T) /\ sent \in Seq(T) /\ before \in Seq(T)
               /\ Responses(N) = (before \o sent) \o v
  <2>1. answered \in Nat /\ N \in Nat /\ N - 1 \in Nat
    BY ConstantsAssumption DEF RequestInv
  <2>2. before \in Seq(T)
    BY <2>1, ResponsesNext
  <2>3. CASE answered + 1 \in Requests
    <3>1. PICK x : x \in Seq(T) /\ sent \in Seq(T) /\ Response(answered + 1) = sent \o x
      BY <2>3, SentContinues
    <3>2. answered + 1 \in 0 .. N
      BY <2>1, <2>3 DEF Requests
    <3>3. PICK u : u \in Seq(T) /\ Responses(N) = Responses(answered + 1) \o u
      BY <2>1, <3>2, ResponsesContinue
    <3>4. Responses(answered + 1) = before \o Response(answered + 1)
      BY <2>1, ResponsesNext
    <3> HIDE DEF T, before, sent
    <3>5. x \in Seq(T) /\ u \in Seq(T) /\ sent \in Seq(T)
      BY <3>1, <3>3
    <3>6. before \o (sent \o x) = (before \o sent) \o x
      BY <2>2, <3>5, ConcatAssociative, SMTT(30)
    <3>7. before \o sent \in Seq(T)
      BY <2>2, <3>5
    <3>8. \A w : w \in Seq(T) => (w \o x) \o u = w \o (x \o u)
      BY <3>5, ConcatAssociative, SMTT(30)
    <3>9. x \o u \in Seq(T)
      BY <3>5
    <3>10. Responses(N) = (before \o sent) \o (x \o u)
      BY <3>1, <3>3, <3>4, <3>6, <3>7, <3>8, Zenon
    <3>11. QED
      BY <2>2, <3>5, <3>9, <3>10, Zenon
  <2>4. CASE answered + 1 \notin Requests
    <3>1. resp.head = "NOT_SET" /\ answered \in 0 .. N
      BY <2>1, <2>4, KindIsKnown DEF KindsInFull, RequestInv, Requests, InputTyped
    <3>2. sent = <<>>
      BY <3>1 DEF Sent
    <3>3. PICK u : u \in Seq(T) /\ Responses(N) = Responses(answered) \o u
      BY <2>1, <3>1, ResponsesContinue
    <3>4. before \o <<>> = before /\ <<>> \in Seq(T)
      BY <2>2
    <3>5. QED
      BY <2>2, <3>2, <3>3, <3>4, Zenon
  <2>5. QED
    BY <2>3, <2>4
<1>2. wire \o output = before \o sent
  BY DEF StreamInv
<1> HIDE DEF T, before, sent
<1>3. v \in Seq(T) /\ sent \in Seq(T) /\ before \in Seq(T)
  BY <1>1
<1>4. before \o sent \in Seq(T)
  BY <1>3
<1>5. IsPrefix(before \o sent, (before \o sent) \o v)
  BY <1>3, <1>4, PrefixOfConcat
<1>6. QED
  BY <1>1, <1>2, <1>5, Zenon

\* ... and the responses to what is answered are a prefix of it.
LEMMA AnsweredIsPrefix ==
  ASSUME KindsInFull, InputTyped, OpenInv, StreamInv
  PROVE  IsPrefix(Responses(answered), wire \o output)
<1> DEFINE T == Nat \X Symbols
           before == Responses(answered)
           sent == Sent(answered + 1)
<1>1. answered \in Nat /\ before \in Seq(T)
  BY ResponsesNext DEF OpenInv, RequestInv
<1>2. sent \in Seq(T)
  <2>1. CASE answered + 1 \in Requests
    BY <2>1, SentContinues DEF OpenInv
  <2>2. CASE answered + 1 \notin Requests
    <3>1. resp.head = "NOT_SET"
      BY <2>2, KindIsKnown, ConstantsAssumption
         DEF KindsInFull, OpenInv, RequestInv, Requests
    <3>2. sent = <<>>
      BY <3>1 DEF Sent
    <3>3. QED
      BY <3>2, EmptySeq
  <2>3. QED
    BY <2>1, <2>2
<1>3. wire \o output = before \o sent
  BY DEF StreamInv
<1> HIDE DEF T, before, sent
<1>4. IsPrefix(before, before \o sent)
  BY <1>1, <1>2, PrefixOfConcat
<1>5. QED
  BY <1>3, <1>4, Zenon DEF before

\* What is a prefix is one without its last part too.
LEMMA PrefixWithoutTail ==
  ASSUME NEW T, NEW s \in Seq(T), NEW t \in Seq(T), NEW w \in Seq(T),
         IsPrefix(s \o t, w)
  PROVE  IsPrefix(s \o <<>>, w)
BY DEF IsPrefix

\* When the connection is closed, what was said of the stream stays true.
ClosedStream == closed => ResponsesInOrder /\ AnsweredIsWhole

LEMMA ClosedStreamStep ==
  ASSUME KindsInFull, Http1Inv, closed \/ StreamInv, ClosedStream, [Next]_vars
  PROVE  ClosedStream'
<1> SUFFICES ASSUME closed' PROVE ResponsesInOrder' /\ AnsweredIsWhole'
  BY DEF ClosedStream
<1>1. kind' = kind /\ wire' = wire /\ answered' = answered
  BY ClosedStep, CloseStep DEF Http1Inv
<1>2. \A n : Responses(n)' = Responses(n)
  <2>1. \A r : Response(r)' = Response(r)
    BY <1>1 DEF Response
  <2> HIDE DEF Response
  <2>2. \A n : [r \in 1 .. n |-> Response(r)]' = [r \in 1 .. n |-> Response(r)]
    BY <2>1
  <2>3. QED
    BY <2>2 DEF Responses
<1>3. Responses(N)' = Responses(N)
  BY <1>2
<1>4. Responses(answered)' = Responses(answered)
  BY <1>1, ResponsesOfNow
<1>5. CASE closed
  <2>1. output' = output /\ (gone => gone') /\ closed'
    BY <1>5, ClosedStep DEF Http1Inv
  <2>2. ResponsesInOrder /\ AnsweredIsWhole
    BY <1>5 DEF ClosedStream
  <2>3. QED
    BY <1>1, <1>3, <1>4, <1>5, <2>1, <2>2, Zenon DEF ResponsesInOrder, AnsweredIsWhole
<1>6. CASE ~closed
  <2>1. /\ output' = <<>> /\ gone' = gone
        /\ gone \/ pc = "err"
    BY <1>6, CloseStep
  <2>2. /\ IsPrefix(wire \o output, Responses(N))
        /\ IsPrefix(Responses(answered), wire \o output)
    BY <1>6, StreamIsPrefix, AnsweredIsPrefix DEF Http1Inv
  <2>3. PICK T : /\ wire \in Seq(T) /\ output \in Seq(T) /\ Responses(N) \in Seq(T)
    <3>1. Units \subseteq Nat \X Symbols
      BY ConstantsAssumption DEF Units, Requests, Symbols
    <3>2. N \in Nat /\ Responses(N) \in Seq(Nat \X Symbols)
      BY ConstantsAssumption, ResponsesNext
    <3>3. wire \in Seq(Nat \X Symbols) /\ output \in Seq(Nat \X Symbols)
      BY <3>1 DEF Http1Inv, SocketInv
    <3>4. QED
      BY <3>2, <3>3
  <2>4. IsPrefix(wire \o <<>>, Responses(N))
    BY <2>2, <2>3, PrefixWithoutTail
  <2>5. ResponsesInOrder'
    BY <1>1, <1>3, <2>1, <2>4, Zenon DEF ResponsesInOrder
  <2>6. gone \/ output = <<>>
    BY <2>1 DEF Http1Inv, ClosedInv
  <2>7. AnsweredIsWhole'
    BY <1>1, <1>4, <2>1, <2>2, <2>6, Zenon DEF AnsweredIsWhole
  <2>8. QED
    BY <2>5, <2>7
<1>7. QED
  BY <1>5, <1>6

LEMMA StreamInvAlways ==
  ASSUME KindsInFull
  PROVE  Spec => [](Http1Inv /\ (closed \/ StreamInv) /\ ClosedStream)
<1>1. "async_generator" \notin Kinds
  BY DEF KindsInFull
<1>2. Init => StreamInv /\ ClosedStream
  <2> SUFFICES ASSUME Init PROVE StreamInv /\ ~closed
    BY DEF ClosedStream
  <2>1. resp.head = "NOT_SET" /\ ~closed
    BY ClearedFields DEF Init
  <2>2. Sent(answered + 1) = <<>> /\ Responses(answered) = <<>>
    BY <2>1, ResponsesNext DEF Init, Sent
  <2>3. <<>> \o <<>> = <<>>
    OBVIOUS
  <2>4. QED
    BY <2>1, <2>2, <2>3 DEF Init, StreamInv
<1>3. ASSUME Http1Inv, closed \/ StreamInv, ClosedStream, [Next]_vars
      PROVE  (closed' \/ StreamInv') /\ ClosedStream'
  <2>1. ClosedStream'
    BY <1>3, ClosedStreamStep
  <2>2. ASSUME ~closed' PROVE StreamInv'
    <3>1. ~closed
      BY <1>3, <2>2, ClosedStep DEF Http1Inv
    <3>2. QED
      BY <1>3, <2>2, <3>1, StreamInductive DEF Http1Inv, OpenInv
  <2>3. QED
    BY <2>1, <2>2
<1>4. QED
  BY <1>1, <1>2, <1>3, Http1InvAlways, PTL DEF Spec

----------------------------------------------------------------------------
(* The theorems.                                                           *)

\* While a wrapped responder is in the pool, the loop neither flushes nor
\* clears its response, and does not close the connection of a client that is
\* still there: the test of executing_async_task keeps the thread off, as long
\* as no responder in the pool sets a generator.
THEOREM LoopLeavesResponseAlone ==
  ASSUME "async_generator" \notin Kinds
  PROVE  Spec => []ResponderIsAlone
<1>1. (closed \/ TaskKeepsStatus) /\ ClosedInv => ResponderIsAlone
  BY DEF TaskKeepsStatus, ClosedInv, ResponderIsAlone
<1>2. QED
  BY <1>1, TaskKeepsStatusAlways, PTL

\* What is sent and what waits to be sent is a prefix of the responses to the
\* requests, in the order of the requests and with nothing in between, for
\* every way the requests arrive, the socket takes its units, and the pool
\* and the generators make a response wait.
THEOREM StreamIsOrdered ==
  ASSUME KindsInFull
  PROVE  Spec => []ResponsesInOrder
<1>1. Http1Inv /\ (closed \/ StreamInv) /\ ClosedStream => ResponsesInOrder
  BY StreamIsPrefix DEF Http1Inv, ClosedStream, ResponsesInOrder
<1>2. QED
  BY <1>1, StreamInvAlways, PTL

\* When the processor is at a request, the responses to all requests before
\* it were sent in full or wait in the output buffer.
THEOREM AnsweredInFull ==
  ASSUME KindsInFull
  PROVE  Spec => []AnsweredIsWhole
<1>1. Http1Inv /\ (closed \/ StreamInv) /\ ClosedStream => AnsweredIsWhole
  BY AnsweredIsPrefix DEF Http1Inv, ClosedStream, AnsweredIsWhole
<1>2. QED
  BY <1>1, StreamInvAlways, PTL

\* The variables that no argument above needs.
OtherTyped ==
  /\ {marked, writable, out_event, gone, closed} \subseteq BOOLEAN
  /\ task \in {"none", "posted", "running", "deferred"}
  /\ pc \in {"idle", "extract", "output", "flush", "send", "after", "resume", "err"}
  /\ caller \in {"extract", "resume"}
  /\ handler \in {"read", "write", "callback"}

\* Every variable keeps its type; among others the socket never holds more
\* than it has room for, and no more requests are answered than were sent.
THEOREM TypeCorrect ==
  ASSUME "async_generator" \notin Kinds
  PROVE  Spec => []TypeOK
<1>1. Init => OtherTyped
  BY DEF Init, OtherTyped
<1>2. ASSUME OtherTyped, [Next]_vars PROVE OtherTyped'
  <2> USE <1>2 DEF OtherTyped, client, parser, socket, Goto, Enter
  <2>1. CASE Arrives \/ ClientReads \/ ConnectionLost \/ UNCHANGED vars
    BY <2>1 DEF Arrives, ClientReads, ConnectionLost, vars
  <2>2. CASE OnStreamReadable \/ OnStreamWritable \/ OnStreamError \/ OnTaskFinished
             \/ CallbackFindsClosed
    BY <2>2 DEF OnStreamReadable, OnStreamWritable, OnStreamError, OnTaskFinished,
                CallbackFindsClosed, Close
  <2>3. CASE HandlerFails \/ ExtractReturns \/ TryOutput \/ SendFails \/ OutputDone
    BY <2>3 DEF HandlerFails, Close, ExtractReturns, TryOutput, Returned, SendFails, OutputDone
  <2>4. CASE Parse
    BY <2>4 DEF Parse, Respond, MakeAsync
  <2>5. CASE Flush \/ RunTask \/ TaskFinishes
    BY <2>5 DEF Flush, RunTask, TaskFinishes
  <2>6. CASE SendInTryOutput \/ Resume
    BY <2>6 DEF SendInTryOutput, Resume, Send, Returned
  <2>7. QED
    BY <2>1, <2>2, <2>3, <2>4, <2>5, <2>6 DEF Next, LoopStep, PoolStep
<1>3. Http1Inv /\ OtherTyped => TypeOK
  <2> SUFFICES ASSUME Http1Inv, OtherTyped PROVE TypeOK
    OBVIOUS
  <2>1. QED
    BY DEF Http1Inv, OtherTyped, TypeOK, InputTyped, SocketInv, HttpRespData
<1>4. QED
  BY <1>1, <1>2, <1>3, Http1InvAlways, PTL DEF Spec

=========================================================================
