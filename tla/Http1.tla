----------------------------- MODULE Http1 -----------------------------
(***************************************************************************)
(* The HTTP/1.1 side of one connection: RxProtoHttp1Processor              *)
(* (src/Protocol/HTTP/Http1ProtoProcessor.cpp) with its response           *)
(* (HttpResponse.h, HttpResponse.cpp), the input and the output buffer, and *)
(* the socket.  The sub loop's thread parses one request at a time, has it *)
(* answered, flushes the response to the output buffer and sends it; a     *)
(* response can wait for its generator, for the pool, or for the socket,   *)
(* and requests that were sent ahead wait in the input buffer.             *)
(*                                                                         *)
(* A request is two pieces of the input, which may be read together or     *)
(* apart: piece 2r completes request r.  What is sent is a sequence of     *)
(* units <<r, u>>, of which a socket takes a few at a time; a generator    *)
(* yields one body unit per call.  Filters of the user, send_file_direct   *)
(* and what follows a malformed request are left out.                      *)
(***************************************************************************)
EXTENDS Naturals, Sequences, SequencesExt

CONSTANTS
  N,          \* requests the client sends
  Kinds,      \* how they are answered
  Chunks,     \* calls of a generator that yield content
  Room        \* units the socket's send buffer holds

ASSUME ConstantsAssumption ==
  /\ {N, Room} \subseteq Nat \ {0}
  /\ Chunks \in Nat
  /\ Kinds \subseteq {"length", "chunked", "generator", "marked", "bad",
                      "async_chunked", "async_generator"}

VARIABLES
  kind,       \* kind[r]: the kind of request r
  arrived,    \* pieces that are in the socket or were read from it
  received,   \* pieces that were read into the input buffer
  parsed,     \* pieces that were consumed from the input buffer
  got,        \* _got_a_complete_req
  marked,     \* _conn_mark_closed
  resp,       \* the HttpRespData
  output,     \* the output buffer
  wire,       \* history: what was sent
  taken,      \* how much of it the client has read
  writable,   \* _sock_writable_flag
  out_event,  \* has epoll EPOLLOUT to report?
  task,       \* where the wrapped responder of the current request is
  pc,         \* where the loop's thread is
  caller,     \* which function called try_output_response
  handler,    \* which handler the thread is in
  gone,       \* was the connection lost?
  closed,     \* was the connection closed?
  answered    \* history: how often prepare_for_next_req was called

client == <<arrived, gone>>
parser == <<received, parsed, got>>
socket == <<output, wire, writable, out_event>>
vars == <<kind, client, parser, marked, resp, socket, taken, task, pc, caller,
          handler, closed, answered>>

Requests == 1 .. N

Statuses == {"ExecAsyncTask", "Providing", "FinishWait", "Done"}
Units == Requests \X {"head", "body", "end"}

TypeOK ==
  /\ kind \in [Requests -> Kinds]
  /\ arrived \in 0 .. 2 * N
  /\ received \in 0 .. arrived
  /\ parsed \in 0 .. received
  /\ {got, marked, writable, out_event, gone, closed} \subseteq BOOLEAN
  /\ resp \in [head : {"NOT_SET", "SET", "SENT"}, length : BOOLEAN,
               body : 0 .. 1, generator : BOOLEAN, left : 0 .. Chunks,
               chunk : BOOLEAN, status : Statuses \union {"Destroyed"}]
  /\ output \in Seq(Units)
  /\ wire \in Seq(Units)
  /\ taken \in 0 .. Len(wire)
  /\ Len(wire) - taken <= Room
  /\ task \in {"none", "posted", "running", "deferred"}
  /\ pc \in {"idle", "extract", "output", "flush", "send", "after", "resume", "err"}
  /\ caller \in {"extract", "resume"}
  /\ handler \in {"read", "write", "callback"}
  /\ answered \in 0 .. N

\* head: the two send flags, which are set and sent together; length: is
\* there a Content-Length?  body: content to flush; chunk: the chunk filters
\* are installed.
Cleared(status) ==
  [head |-> "NOT_SET", length |-> FALSE, body |-> 0, generator |-> FALSE,
   left |-> 0, chunk |-> FALSE, status |-> status]

\* What stands for the response when it was destroyed with its processor.
Destroyed == Cleared("Destroyed")

Init ==
  /\ kind \in {k \in [Requests -> Kinds] : \A r \in Requests : k[r] = "bad" => r = N}
  /\ arrived = 0 /\ received = 0 /\ parsed = 0
  /\ got = FALSE /\ marked = FALSE
  /\ resp = Cleared("FinishWait")
  /\ output = <<>> /\ wire = <<>> /\ taken = 0
  /\ writable = TRUE /\ out_event = FALSE
  /\ task = "none"
  /\ pc = "idle" /\ caller = "extract" /\ handler = "read"
  /\ gone = FALSE /\ closed = FALSE
  /\ answered = 0

----------------------------------------------------------------------------
(* The client and the kernel. *)

Arrives ==
  /\ ~gone
  /\ arrived' \in arrived + 1 .. 2 * N
  /\ UNCHANGED <<kind, gone, parser, marked, resp, socket, taken, task, pc,
                 caller, handler, closed, answered>>

\* EPOLLOUT is reported once room comes after a send that found none.
ClientReads ==
  /\ taken < Len(wire)
  /\ taken' \in taken + 1 .. Len(wire)
  /\ out_event' = (out_event \/ ~writable)
  /\ UNCHANGED <<kind, client, parser, marked, resp, output, wire, writable, task,
                 pc, caller, handler, closed, answered>>

ConnectionLost ==
  /\ ~gone
  /\ gone' = TRUE
  /\ UNCHANGED <<kind, arrived, parser, marked, resp, socket, taken, task, pc,
                 caller, handler, closed, answered>>

----------------------------------------------------------------------------
(* The handlers of the loop's thread. *)

Goto(from, to) == pc = from /\ pc' = to

Enter(h, to) ==
  /\ ~closed
  /\ Goto("idle", to)
  /\ handler' = h

\* on_stream_readable, process_read_data: all there is is read at once.
OnStreamReadable ==
  /\ Enter("read", "extract")
  /\ ~gone
  /\ received < arrived
  /\ received' = arrived
  /\ UNCHANGED <<kind, client, parsed, got, marked, resp, socket, taken, task,
                 caller, closed, answered>>

\* on_stream_writable, handle_write_prepared.
OnStreamWritable ==
  /\ out_event
  /\ out_event' = FALSE
  /\ Enter("write", IF writable THEN "idle" ELSE "resume")
  /\ writable' = TRUE
  /\ UNCHANGED <<kind, client, parser, marked, resp, output, wire, taken, task,
                 caller, closed, answered>>

\* RxConnection::close: the output buffer goes, and the processor with the
\* response, also when the pool has a task with references to it.
Close ==
  /\ closed' = TRUE
  /\ output' = <<>>
  /\ resp' = Destroyed
  /\ UNCHANGED <<wire, writable, out_event>>

\* on_stream_error, or on_stream_readable that meets the end of the file.
OnStreamError ==
  /\ gone /\ ~closed
  /\ pc = "idle"
  /\ Close
  /\ UNCHANGED <<kind, client, parser, marked, taken, task, pc, caller, handler,
                 answered>>

\* The finish callback of MakeAsync.
OnTaskFinished ==
  /\ task = "deferred"
  /\ Enter("callback", "resume")
  /\ task' = "none"
  /\ resp' = [resp EXCEPT !.status =
                IF resp.generator THEN "Providing" ELSE "FinishWait"]
  /\ UNCHANGED <<kind, client, parser, marked, socket, taken, caller, closed,
                 answered>>

\* The finish callback finds the connection closed, and does nothing.
CallbackFindsClosed ==
  /\ closed
  /\ task = "deferred"
  /\ task' = "none"
  /\ UNCHANGED <<kind, client, parser, marked, resp, socket, taken, pc, caller,
                 handler, closed, answered>>

\* err: process_read_data and the finish callback close the connection;
\* after handle_write_prepared nobody does.
HandlerFails ==
  /\ Goto("err", "idle")
  /\ IF handler = "write" THEN UNCHANGED <<closed, resp, socket>> ELSE Close
  /\ UNCHANGED <<kind, client, parser, marked, taken, task, caller, handler,
                 answered>>

----------------------------------------------------------------------------
(* extract_and_handle_request *)

\* What a responder of kind k makes of the response q.
Responded(k, q) ==
  [q EXCEPT
     !.head = "SET",
     !.length = k \in {"length", "marked", "bad"},
     !.body = IF k \in {"generator", "async_generator"} THEN 0 ELSE 1,
     !.generator = k \in {"generator", "async_generator"},
     !.left = IF k \in {"generator", "async_generator"} THEN Chunks ELSE 0,
     !.status = IF k \in {"generator", "async_generator"} THEN "Providing" ELSE @]

IsAsync(k) == k \in {"async_chunked", "async_generator"}

\* A variant: the next request is parsed before this one is answered.
MayParse_NotOneByOne == parsed < received

MayParse == parsed < received /\ ~got

\* A variant: the parser takes the request to be there.
ParsedTo_Whole == 2 * (parsed \div 2) + 2

\* The end of the request or of the input, whichever comes first.
ParsedTo ==
  IF received < 2 * (parsed \div 2) + 2 THEN received ELSE 2 * (parsed \div 2) + 2

\* A variant: the response does not get the status ExecAsyncTask.
MakeAsync_KeepsStatus ==
  /\ task' = "posted"
  /\ UNCHANGED resp

MakeAsync ==
  /\ task' = "posted"
  /\ resp' = [resp EXCEPT !.status = "ExecAsyncTask"]

\* RequestReceived: the responder is called, or send_status(BAD_REQUEST).
Respond(k) ==
  /\ marked' = (marked \/ k \in {"marked", "bad"})
  /\ IF IsAsync(k)
     THEN MakeAsync
     ELSE resp' = Responded(k, resp) /\ UNCHANGED task

\* The loop of extract_and_handle_request up to its call of
\* try_output_response.  A malformed request is never complete.
Parse ==
  /\ Goto("extract", "output")
  /\ MayParse
  /\ parsed' = ParsedTo
  /\ IF parsed' % 2 = 0
     THEN LET k == kind[parsed' \div 2]
          IN got' = (k # "bad") /\ Respond(k)
     ELSE got' = FALSE /\ UNCHANGED <<marked, resp, task>>
  /\ caller' = "extract"
  /\ UNCHANGED <<kind, client, received, socket, taken, handler, closed, answered>>

ExtractReturns ==
  /\ Goto("extract", "idle")
  /\ ~MayParse
  /\ UNCHANGED <<kind, client, parser, marked, resp, socket, taken, task, caller,
                 handler, closed, answered>>

----------------------------------------------------------------------------
(* try_output_response *)

\* Where its caller goes on when it returns false.
Returned == IF caller = "extract" THEN "extract" ELSE "idle"

\* if(_resp.executing_async_task()) return false
TryOutput ==
  /\ Goto("output", IF resp.status = "ExecAsyncTask" THEN Returned ELSE "flush")
  /\ UNCHANGED <<kind, client, parser, marked, resp, socket, taken, task, caller,
                 handler, closed, answered>>

\* try_generate_once
Generated(q) ==
  IF ~(q.generator /\ q.status = "Providing") THEN q
  ELSE IF q.left > 0 THEN [q EXCEPT !.body = 1, !.left = @ - 1]
  ELSE [q EXCEPT !.status = "FinishWait"]

\* flush: the head, which brings the chunk filters with it if there is no
\* Content-Length; what there is of the body; and, once, its end.
Flush ==
  LET chunk == resp.chunk \/ (resp.head = "SET" /\ ~resp.length)
      q == Generated(resp)
      r == answered + 1
  IN /\ output' = output
                  \o (IF resp.head = "SET" THEN <<<<r, "head">>>> ELSE <<>>)
                  \o (IF q.body > 0 THEN <<<<r, "body">>>> ELSE <<>>)
                  \o (IF q.status = "FinishWait" /\ chunk
                      THEN <<<<r, "end">>>> ELSE <<>>)
     /\ resp' = [q EXCEPT
                   !.head = IF @ = "SET" THEN "SENT" ELSE @,
                   !.chunk = chunk,
                   !.body = 0,
                   !.status = IF @ = "FinishWait" THEN "Done" ELSE @]
     /\ Goto("flush", IF output' = <<>> THEN "after" ELSE "send")
     /\ UNCHANGED <<kind, client, parser, marked, wire, writable, out_event, taken,
                    task, caller, handler, closed, answered>>

\* A variant: a full socket is not noted.
Send_NotNoted ==
  LET room == Room - (Len(wire) - taken)
      n == IF Len(output) < room THEN Len(output) ELSE room
  IN /\ wire' = wire \o SubSeq(output, 1, n)
     /\ output' = SubSeq(output, n + 1, Len(output))
     /\ UNCHANGED <<writable, out_event>>

\* RxConnection::send: as much as the socket takes.
Send ==
  LET room == Room - (Len(wire) - taken)
      n == IF Len(output) < room THEN Len(output) ELSE room
  IN /\ wire' = wire \o SubSeq(output, 1, n)
     /\ output' = SubSeq(output, n + 1, Len(output))
     /\ writable' = (writable /\ output' = <<>>)
     /\ UNCHANGED out_event

SendFails ==
  /\ pc \in {"send", "resume"}
  /\ output # <<>>
  /\ gone
  /\ pc' = "err"
  /\ UNCHANGED <<kind, client, parser, marked, resp, socket, taken, task, caller,
                 handler, closed, answered>>

\* A full socket ends the loop before the mark is looked at.
SendInTryOutput ==
  /\ ~gone
  /\ Send
  /\ Goto("send", IF output' # <<>> THEN "after" ELSE IF marked THEN "err" ELSE "flush")
  /\ UNCHANGED <<kind, client, parser, marked, resp, taken, task, caller, handler,
                 closed, answered>>

\* A variant: a generator does not keep the response.
HasBlockOperation_NotProviding(q) == q.status = "ExecAsyncTask"

HasBlockOperation(q) == q.status \in {"ExecAsyncTask", "Providing"}

\* prepare_for_next_req: the status of the response is what it was.
PrepareForNextReq ==
  /\ got' = FALSE
  /\ resp' = Cleared(resp.status)
  /\ answered' = answered + 1

OutputDone ==
  /\ IF got /\ ~HasBlockOperation(resp)
     THEN PrepareForNextReq /\ Goto("after", "extract")
     ELSE UNCHANGED <<got, resp, answered>> /\ Goto("after", Returned)
  /\ UNCHANGED <<kind, client, received, parsed, marked, socket, taken, task,
                 caller, handler, closed>>

----------------------------------------------------------------------------
(* resume *)

\* while(!output_buf.empty()) send, then try_output_response.
Resume ==
  /\ IF output = <<>>
     THEN UNCHANGED socket /\ Goto("resume", "output")
     ELSE ~gone /\ Send /\ Goto("resume", IF output' = <<>> THEN "output" ELSE "idle")
  /\ caller' = "resume"
  /\ UNCHANGED <<kind, client, parser, marked, resp, taken, task, handler, closed,
                 answered>>

----------------------------------------------------------------------------
(* The pool's thread. *)

\* The responder works on the response of the request it was called with.
\* What comes of it when both are destroyed is not looked at.
RunTask ==
  /\ task = "posted"
  /\ task' = "running"
  /\ resp' = IF closed THEN resp ELSE Responded(kind[parsed \div 2], resp)
  /\ UNCHANGED <<kind, client, parser, marked, socket, taken, pc, caller, handler,
                 closed, answered>>

TaskFinishes ==
  /\ task = "running"
  /\ task' = "deferred"
  /\ UNCHANGED <<kind, client, parser, marked, resp, socket, taken, pc, caller,
                 handler, closed, answered>>

----------------------------------------------------------------------------
LoopStep ==
  \/ OnStreamReadable \/ OnStreamWritable \/ OnStreamError \/ OnTaskFinished
  \/ CallbackFindsClosed \/ HandlerFails
  \/ Parse \/ ExtractReturns
  \/ TryOutput \/ Flush \/ SendFails \/ SendInTryOutput \/ OutputDone
  \/ Resume

PoolStep == RunTask \/ TaskFinishes

Next == Arrives \/ ClientReads \/ ConnectionLost \/ LoopStep \/ PoolStep

\* The loop comes round to every event and callback (EventLoop), the pool
\* runs what is posted (ThreadPool), and a client that waits for its
\* responses reads them.  Nobody has to send.
Fairness == WF_vars(LoopStep) /\ WF_vars(PoolStep) /\ WF_vars(ClientReads)

Spec == Init /\ [][Next]_vars /\ Fairness

----------------------------------------------------------------------------
(* Properties. *)

\* The response to request r, as a client has to see it.
Response(r) ==
  LET body == <<<<r, "body">>>>
      end == <<<<r, "end">>>>
      content ==
        CASE kind[r] \in {"length", "marked", "bad"} -> body
          [] kind[r] \in {"chunked", "async_chunked"} -> body \o end
          [] OTHER -> FlattenSeq([i \in 1 .. Chunks |-> body]) \o end
  IN <<<<r, "head">>>> \o content

Responses(n) == FlattenSeq([r \in 1 .. n |-> Response(r)])

\* What is sent and what waits to be sent is the responses to the requests,
\* in the order of the requests, without a gap, a repetition or a mixture,
\* however the requests arrive and whichever of them wait for the pool, a
\* generator or the socket ("Http1.1 handle request one by one",
\* Http1ProtoProcessor.cpp:16).
ResponsesInOrder == IsPrefix(wire \o output, Responses(N))

\* When the processor moves on to the next request, the whole response to
\* this one is sent or waits to be sent: clear() never takes content, or the
\* end of the body, that is still to come, and close() takes nothing from a
\* client that is still there, though it drops the output buffer.
AnsweredIsWhole ==
  IsPrefix(Responses(answered), wire \o output) \/ (closed /\ gone)

\* While a wrapped responder is in the pool, the loop neither flushes nor
\* clears the response it writes to, and never closes the connection of a
\* client that is still there.  (When the client has hung up, close destroys
\* the response: RequestsOutliveTasks of ConnectionTable.)
ResponderIsAlone ==
  task \in {"posted", "running"} =>
    /\ got /\ pc # "flush"
    /\ closed => gone

\* Every request that was received is answered in full, also those that were
\* sent ahead of the responses; unless the connection is lost, or a
\* responder or a malformed request has marked it to be closed.
EveryRequestIsAnswered ==
  \A r \in Requests :
    (received >= 2 * r) ~> (IsPrefix(Responses(r), wire) \/ gone \/ marked)
=========================================================================
