---------------------------- MODULE HttpInput ----------------------------
(***************************************************************************)
(* The way of a client's bytes to its requests: recv reads what the socket *)
(* has into the input buffer (Connection.cpp), parse walks the buffer with *)
(* a read_iterator (HFSMParser.hpp, HttpParser), body pieces are sliced    *)
(* out of it without a copy, and what was parsed is consumed               *)
(* (extract_and_handle_request of Http1ProtoProcessor.cpp).  A request     *)
(* holds its body, in memory the input buffer goes on filling, until it is *)
(* answered; what the client sends meanwhile stays in the buffer.          *)
(*                                                                         *)
(* A byte is the number of its place in what the client sends, 0 is memory *)
(* nobody wrote to.  How a request is answered is left to Http1, which     *)
(* also shows when the connection of a malformed one is not closed; here   *)
(* it is.                                                                  *)
(***************************************************************************)
EXTENDS Buffer, HttpParser, TLC

CONSTANTS
  Streams,     \* what a client may send: sequences of messages
  ExactFills   \* may recv find nothing more when the tail is just full?

\* A message has a kind, and its body in the chunks it is sent in, each with
\* the number that says how long it is.
Kinds == {"plain", "length", "chunked", "bad_line", "bad_length"}
Chunks == {c \in [size : Numbers, data : Seq(Symbols)] : Len(c.data) = Value[c.size]}
Messages ==
  {m \in [kind : Kinds, chunks : Seq(Chunks)] :
     /\ m.kind = "length" => Len(m.chunks) = 1
     /\ m.kind = "chunked" => \A i \in DOMAIN m.chunks : m.chunks[i].data # <<>>
     /\ m.kind \notin {"length", "chunked"} => m.chunks = <<>>}

ASSUME InputAssumption ==
  /\ ExactFills \in BOOLEAN
  /\ Streams \subseteq Seq(Messages)
  /\ "0" \in Numbers /\ Value["0"] = 0

VARIABLES
  raws,       \* the cells of each raw
  stream,     \* the messages this client sends
  bytes,      \* the symbols they are sent as
  sent,       \* how many of them have come to the socket
  received,   \* how many were read from it
  input,      \* the input buffer
  body,       \* the body of the request
  cur,        \* the iterator of parse, while it runs
  complete,   \* _got_a_complete_req
  pc,         \* where the loop's thread is
  handed      \* history: the events the processor got, with the body's symbols

conn == <<raws, input, body>>
client == <<stream, bytes, sent>>
vars == <<client, received, conn, cur, complete, pc, handed, pvars>>

----------------------------------------------------------------------------
(* What a client sends, and what it means by it. *)

Line == <<"a", "SP", "a", "SP", "a", "CR", "LF">>
Field(name, value) == <<name, ":", "SP", value, "CR", "LF">>
ChunkOf(c) == <<c.size, "CR", "LF">> \o c.data \o <<"CR", "LF">>

Encode(m) ==
  Line \o
  CASE m.kind = "plain" -> Field("a", "a") \o <<"CR", "LF">>
    [] m.kind = "length" ->
         Field("content-length", m.chunks[1].size) \o <<"CR", "LF">> \o m.chunks[1].data
    [] m.kind = "chunked" ->
         Field("transfer-encoding", "a") \o <<"CR", "LF">>
           \o FlattenSeq([i \in DOMAIN m.chunks |-> ChunkOf(m.chunks[i])])
           \o <<"0", "CR", "LF", "CR", "LF">>
    [] m.kind = "bad_line" -> Field("a", "a") \o <<"CR", "a">>
    [] m.kind = "bad_length" -> Field("content-length", "a") \o <<"CR", "LF">>

BodyOf(m) == FlattenSeq([i \in DOMAIN m.chunks |-> m.chunks[i].data])

Meaning(m) ==
  CASE m.kind = "bad_line" -> <<"StartRecvingHeader", "ParseError">>
    [] m.kind = "bad_length" -> <<"StartRecvingHeader", "HeaderReceived", "ParseError">>
    [] OTHER -> <<"StartRecvingHeader", "HeaderReceived">> \o BodyOf(m)
                  \o <<"RequestReceived">>

MeaningOf(s) == FlattenSeq([i \in DOMAIN s |-> Meaning(s[i])])

----------------------------------------------------------------------------
Init ==
  /\ ParserInit
  /\ stream \in Streams
  /\ bytes = FlattenSeq([i \in DOMAIN stream |-> Encode(stream[i])])
  /\ sent = 0 /\ received = 0
  /\ raws = [r \in Raws |-> Uninitialized]
  /\ input = <<>> /\ body = <<>>
  /\ cur = End
  /\ complete = FALSE
  /\ pc = "idle"
  /\ handed = <<>>

\* What a cell of a raw holds.
SymbolAt(k) == IF k = 0 THEN "uninitialized" ELSE bytes[k]

SymbolsOf(chain) == [i \in DOMAIN Content(raws, chain) |-> SymbolAt(Content(raws, chain)[i])]

\* A variant: the body's slices do not hold their memory.
InUse_InputOnly(in, held) == Held(in)

InUse(in, held) == Held(in) \union Held(held)

Goto(from, to) == pc = from /\ pc' = to

\* While parse runs nobody looks at the socket.
Arrives ==
  /\ pc \in {"idle", "recv"}
  /\ sent' \in sent + 1 .. Len(bytes)
  /\ UNCHANGED <<stream, bytes, received, conn, cur, complete, pc, handed, pvars>>

----------------------------------------------------------------------------
(* RxConnection::recv *)

OnStreamReadable ==
  /\ Goto("idle", "recv")
  /\ received < sent
  /\ UNCHANGED <<client, received, conn, cur, complete, handed, pvars>>

\* read_from_fd, and a round of append's loop for what it has read beyond the
\* tail: each slice that is filled is a step.
ReadFromFd ==
  /\ pc = "recv"
  /\ received < sent
  /\ HasMemory(input, InUse(input, body))
  /\ LET chain == Expanded(input, InUse(input, body))
         n == Fits(chain, sent - received)
     IN /\ input' = AdvancedWrite(chain, n)
        /\ raws' = Written(raws, chain, received + 1, n)
        /\ received' = received + n
  /\ UNCHANGED <<client, body, cur, complete, pc, handed, pvars>>

\* The last call finds nothing, after check_need_expand: recv is done.
ReadFindsNothing ==
  /\ Goto("recv", "extract")
  /\ received = sent
  /\ NeedsExpand(input) => ExactFills
  /\ HasMemory(input, InUse(input, body))
  /\ input' = Expanded(input, InUse(input, body))
  /\ UNCHANGED <<client, received, raws, body, cur, complete, handed, pvars>>

----------------------------------------------------------------------------
(* extract_and_handle_request *)

Extract ==
  /\ Goto("extract", "parse")
  /\ ReadableSize(input) # 0 /\ ~complete
  /\ cur' = Begin(input)
  /\ UNCHANGED <<client, received, conn, complete, handed, pvars>>

ExtractDone ==
  /\ Goto("extract", "idle")
  /\ ReadableSize(input) = 0 \/ complete
  /\ UNCHANGED <<client, received, conn, cur, complete, handed, pvars>>

\* What the handlers of the events do: pieces of the body are collected, and
\* the responder of a complete request gets them all.
Handled(evs, pieces) ==
  LET what(e) == CASE e = "OnPartofBody" -> <<>>
                   [] e = "RequestReceived" -> Append(SymbolsOf(pieces), e)
                   [] OTHER -> <<e>>
  IN handed \o FlattenSeq([i \in DOMAIN evs |-> what(evs[i])])

\* A variant: the pieces are put in front of those that came before.
Collected_Prepended(evs, n) ==
  IF "OnPartofBody" \in Range(evs) THEN Sliced[cur][n] \o body ELSE body

Collected(evs, n) ==
  IF "OnPartofBody" \in Range(evs) THEN body \o Sliced[cur][n] ELSE body

\* One round of parse's loops: an element, its events, the transition.
ParseStep ==
  /\ pc = "parse" /\ ~complete /\ ~ctx.err
  /\ Inside(cur)
  /\ Consume(SymbolAt(Deref(raws, cur)), ToEnd[cur])
  /\ body' = Collected(ctx'.events, ctx'.step)
  /\ handed' = Handled(ctx'.events, body')
  /\ cur' = IF "OnPartofBody" \in Range(ctx'.events)
            THEN Advanced[cur][ctx'.step] ELSE Incremented(cur)
  /\ complete' = (curr_state' = "RequestLine" /\ "RequestReceived" \in Range(ctx'.events))
  /\ UNCHANGED <<client, received, raws, input, pc>>

Consumed == ReadableSize(input) - ToEnd[cur]

\* parse returns, and what was parsed leaves the buffer.  A malformed
\* request is answered, and its connection closed.
ParseReturns ==
  /\ Goto("parse", IF ctx.err THEN "closed" ELSE "extract")
  /\ cur = End \/ complete \/ ctx.err
  /\ input' = CommitConsumed[input][Consumed]
  /\ raws' = Freed(raws, InUse(input', body))
  /\ cur' = End
  /\ UNCHANGED <<client, received, body, complete, handed, pvars>>

----------------------------------------------------------------------------
\* prepare_for_next_req
PrepareForNextReq ==
  /\ complete
  /\ ClearRequest
  /\ complete' = FALSE
  /\ body' = <<>>
  /\ raws' = Freed(raws, Held(input))

\* A variant: the processor waits for the next event.
Answered_Waits ==
  /\ pc \in {"extract", "idle"} /\ UNCHANGED pc
  /\ PrepareForNextReq
  /\ UNCHANGED <<client, received, input, cur, handed>>

\* The response is complete, at once or in a later event of the loop
\* (resume): the processor goes on with what is in the buffer.
Answered ==
  /\ pc \in {"extract", "idle"} /\ pc' = "extract"
  /\ PrepareForNextReq
  /\ UNCHANGED <<client, received, input, cur, handed>>

Next ==
  \/ Arrives
  \/ OnStreamReadable \/ ReadFromFd \/ ReadFindsNothing
  \/ Extract \/ ExtractDone \/ ParseStep \/ ParseReturns
  \/ Answered

Spec == Init /\ [][Next]_vars

----------------------------------------------------------------------------
(* Properties. *)

\* Wherever the reads cut it, what a client sends means the same: the
\* handlers get the events and the bodies of its messages, in order, once.
HandsWhatWasSent == IsPrefix(handed, MeaningOf(stream))

\* Nothing that was read is left: when the thread goes back to wait with no
\* request to answer, it has parsed all it has received, and has handed over
\* every message when it has received them all.
NothingLeftBehind ==
  pc = "idle" /\ ~complete =>
    /\ Content(raws, input) = <<>>
    /\ received = Len(bytes) => handed = MeaningOf(stream)

\* The body of a request that waits for its answer is the one that was sent
\* with it, while the memory its slices share with the input buffer is
\* written to.
BodyStays ==
  complete => \E i \in DOMAIN stream :
                /\ handed = MeaningOf(SubSeq(stream, 1, i))
                /\ SymbolsOf(body) = BodyOf(stream[i])

\* parse only reads bytes that are in the buffer: the iterator steps from the
\* end of a slice to the start of the next, and from the last one to end()
\* (README2.md:61).
ReadsWhatIsThere ==
  pc = "parse" => Inside(cur) \/ cur = End
=========================================================================
