--------------------------- MODULE HttpParser ---------------------------
(***************************************************************************)
(* The request parser: the super states of                                 *)
(* src/src/Protocol/HTTP/HttpParser.cpp and what HFSMParser::parse         *)
(* (src/include/Rinx/Protocol/HFSMParser.hpp) does with the ConsumeCtx     *)
(* that a super state fills in.  A step is one call of the element handler *)
(* with what follows it in the loop of parse: the events that are emitted, *)
(* the transition, and the bytes that are stepped over.                    *)
(*                                                                         *)
(* A symbol is a byte that a sub state looks for, or a word or a number    *)
(* that only a whole field is compared with or converted from; "a" is any  *)
(* other text.  The number of bytes left in the fragment is a parameter:   *)
(* fragments end wherever the socket's data ended.                         *)
(***************************************************************************)
EXTENDS Naturals, Sequences, SequencesExt

CONSTANTS
  Numbers,    \* the symbols that are numbers
  Value,      \* what they are converted to
  Lengths     \* how many bytes of a fragment can be left

Punctuation == {"SP", "CR", "LF", ":", "a", "content-length", "transfer-encoding"}
Symbols == Punctuation \union Numbers

ASSUME ParserAssumption ==
  /\ Value \in [Numbers -> Nat]
  /\ Lengths \subseteq Nat \ {0}
  /\ Numbers \cap Punctuation = {}

VARIABLES
  curr_state,  \* _curr_state
  sub_state,   \* its _sub_state
  method,      \* is _stored_method not empty?
  key, val,    \* _header_field_key, _header_field_val
  headers,     \* the headers of the request
  got,         \* _length_got or _chunk_len_got
  expect,      \* _length_expect or _chunk_len_expect
  hex,         \* _chunk_len_hex
  ctx          \* the ConsumeCtx of the last step

text == <<method, key, val, headers>>
counts == <<got, expect, hex>>
pvars == <<curr_state, sub_state, text, counts, ctx>>

\* The sub state that on_entry of a super state sets.
Entry == [RequestLine |-> "S_EXPECT_METHOD", Header |-> "S_EXPECT_FIELD_KEY",
          ContentLength |-> "none", Chunk |-> "S_EXPECT_LENGTH"]

SubStates ==
  [RequestLine |-> {"S_EXPECT_METHOD", "S_EXPECT_URI", "S_EXPECT_VERSION", "S_EXPECT_CRLF"},
   Header |-> {"S_EXPECT_FIELD_KEY", "S_GET_COLON", "S_EXPECT_FIELD_VAL",
               "S_EXPECT_FIELD_END", "S_FIELD_ENDED", "S_EXPECT_HEADER_END"},
   ContentLength |-> {"none"},
   Chunk |-> {"S_EXPECT_LENGTH", "S_GET_INITIAL_CR", "S_EXPECT_CHUNK_DATA",
              "S_EXPECT_CHUNK_CR", "S_EXPECT_CHUNK_LF", "S_FINISH_WAIT_CR",
              "S_FINISH_WAIT_LF"}]

Events == {"ParseError", "StartRecvingHeader", "HeaderReceived", "OnPartofBody",
           "RequestReceived"}

ParserTypeOK ==
  /\ curr_state \in DOMAIN Entry
  /\ sub_state \in SubStates[curr_state]
  /\ method \in BOOLEAN
  /\ key \in Seq(Symbols) /\ val \in Seq(Symbols) /\ hex \in Seq(Symbols)
  /\ headers \subseteq Seq(Symbols) \X Seq(Symbols)
  /\ got \in Nat /\ expect \in Nat
  /\ ctx \in [n_left : Nat, events : Seq(Events), step : Nat, err : BOOLEAN]

ParserInit ==
  /\ curr_state = "RequestLine" /\ sub_state = "S_EXPECT_METHOD"
  /\ method = FALSE
  /\ key = <<>> /\ val = <<>> /\ hex = <<>>
  /\ headers = {}
  /\ got = 0 /\ expect = 0
  /\ ctx = [n_left |-> 0, events |-> <<>>, step |-> 0, err |-> FALSE]

----------------------------------------------------------------------------
In(s, sub) == curr_state = s /\ sub_state = sub
To(sub) == sub_state' = sub /\ UNCHANGED curr_state

Enter(s) == curr_state' = s /\ sub_state' = Entry[s]

\* One byte was consumed.
Emits(n, evs) == ctx' = [n_left |-> n, events |-> evs, step |-> 1, err |-> FALSE]

\* parse_error, after the events evs.
Fails(n, evs) ==
  ctx' = [n_left |-> n, events |-> Append(evs, "ParseError"), step |-> 1, err |-> TRUE]

\* The byte that is due, or parse_error.
Due(c, sym, n, sub) ==
  /\ IF c = sym THEN To(sub) /\ Emits(n, <<>>)
                ELSE UNCHANGED <<curr_state, sub_state>> /\ Fails(n, <<>>)
  /\ UNCHANGED <<text, counts>>

\* stoull: blanks before the number are skipped, what follows it is ignored.
NumberAt(s) == SelectInSeq(s, LAMBDA c : c \notin {"SP", "CR", "LF"})
IsNumber(s) == NumberAt(s) # 0 /\ s[NumberAt(s)] \in Numbers
NumberOf(s) == Value[s[NumberAt(s)]]

----------------------------------------------------------------------------
(* StateRequestLine. *)

ExpectMethod(c, n) ==
  /\ In("RequestLine", "S_EXPECT_METHOD")
  /\ IF c = "SP"
     THEN To("S_EXPECT_URI") /\ Emits(n, <<>>) /\ UNCHANGED method
     ELSE /\ method' = TRUE
          /\ Emits(n, IF method THEN <<>> ELSE <<"StartRecvingHeader">>)
          /\ UNCHANGED <<curr_state, sub_state>>
  /\ UNCHANGED <<key, val, headers, counts>>

ExpectUriOrVersion(c, n) ==
  /\ \/ /\ In("RequestLine", "S_EXPECT_URI")
        /\ To(IF c = "SP" THEN "S_EXPECT_VERSION" ELSE sub_state)
     \/ /\ In("RequestLine", "S_EXPECT_VERSION")
        /\ To(IF c = "CR" THEN "S_EXPECT_CRLF" ELSE sub_state)
  /\ Emits(n, <<>>)
  /\ UNCHANGED <<text, counts>>

ExpectCrlf(c, n) ==
  /\ In("RequestLine", "S_EXPECT_CRLF")
  /\ IF c = "LF" THEN Enter("Header") /\ method' = FALSE /\ Emits(n, <<>>)
                 ELSE UNCHANGED <<curr_state, sub_state, method>> /\ Fails(n, <<>>)
  /\ UNCHANGED <<key, val, headers, counts>>

----------------------------------------------------------------------------
(* StateHeader. *)

\* S_EXPECT_FIELD_KEY and S_FIELD_ENDED, where CR ends the header.
ExpectFieldKey(c, n) ==
  /\ curr_state = "Header" /\ sub_state \in {"S_EXPECT_FIELD_KEY", "S_FIELD_ENDED"}
  /\ Emits(n, <<>>)
  /\ To(CASE sub_state = "S_EXPECT_FIELD_KEY" /\ c = ":" -> "S_GET_COLON"
          [] sub_state = "S_FIELD_ENDED" /\ c = "CR" -> "S_EXPECT_HEADER_END"
          [] OTHER -> "S_EXPECT_FIELD_KEY")
  /\ key' = IF sub_state' = "S_EXPECT_FIELD_KEY" THEN Append(key, c) ELSE key
  /\ UNCHANGED <<method, val, headers, counts>>

GetColon(c, n) ==
  /\ In("Header", "S_GET_COLON")
  /\ Emits(n, <<>>)
  /\ To("S_EXPECT_FIELD_VAL")
  /\ val' = IF c = "SP" THEN val ELSE Append(val, c)
  /\ UNCHANGED <<method, key, headers, counts>>

ExpectFieldVal(c, n) ==
  /\ In("Header", "S_EXPECT_FIELD_VAL")
  /\ Emits(n, <<>>)
  /\ IF c = "CR"
     THEN /\ To("S_EXPECT_FIELD_END")
          /\ headers' = headers \union {<<key, val>>}
          /\ key' = <<>> /\ val' = <<>>
     ELSE /\ val' = Append(val, c)
          /\ UNCHANGED <<curr_state, sub_state, key, headers>>
  /\ UNCHANGED <<method, counts>>

ExpectFieldEnd(c, n) ==
  /\ In("Header", "S_EXPECT_FIELD_END")
  /\ Due(c, "LF", n, "S_FIELD_ENDED")

Fields(name) == {h \in headers : h[1] = <<name>>}

ExpectHeaderEnd(c, n) ==
  /\ In("Header", "S_EXPECT_HEADER_END")
  /\ IF c # "LF"
     THEN Fails(n, <<>>) /\ UNCHANGED <<curr_state, sub_state, counts>>
     ELSE \/ \E h \in Fields("content-length") :
               IF ~IsNumber(h[2])
               THEN /\ Fails(n, <<"HeaderReceived">>)
                    /\ UNCHANGED <<curr_state, sub_state, counts>>
               ELSE IF NumberOf(h[2]) # 0
               THEN /\ Enter("ContentLength")
                    /\ got' = 0 /\ expect' = NumberOf(h[2]) /\ UNCHANGED hex
                    /\ Emits(n, <<"HeaderReceived">>)
               ELSE /\ Enter("RequestLine")
                    /\ Emits(n, <<"HeaderReceived", "RequestReceived">>)
                    /\ UNCHANGED counts
          \/ /\ Fields("content-length") = {} /\ Fields("transfer-encoding") # {}
             /\ Enter("Chunk")
             /\ got' = 0 /\ expect' = 0 /\ hex' = <<>>
             /\ Emits(n, <<"HeaderReceived">>)
          \/ /\ Fields("content-length") = {} /\ Fields("transfer-encoding") = {}
             /\ Enter("RequestLine")
             /\ Emits(n, <<"HeaderReceived", "RequestReceived">>)
             /\ UNCHANGED counts
  /\ UNCHANGED text

----------------------------------------------------------------------------
(* StateContentLength. *)

\* length_increasement: what is left of the fragment, or of the body.
Increasement(n) == IF n + got >= expect THEN expect - got ELSE n

\* A piece of a body ends a fragment, or the body or chunk it belongs to.
TakesPiece(n, evs) ==
  /\ got' = got + Increasement(n)
  /\ ctx' = [n_left |-> n, events |-> evs, step |-> Increasement(n), err |-> FALSE]
  /\ UNCHANGED <<expect, hex, text>>

\* A variant: the end is looked for before the piece is counted.
BodyPiece_TestsFirst(n) ==
  /\ curr_state = "ContentLength"
  /\ IF got = expect
     THEN /\ TakesPiece(n, <<"OnPartofBody", "RequestReceived">>)
          /\ Enter("RequestLine")
     ELSE /\ TakesPiece(n, <<"OnPartofBody">>)
          /\ UNCHANGED <<curr_state, sub_state>>

BodyPiece(n) ==
  /\ curr_state = "ContentLength"
  /\ IF got + Increasement(n) = expect
     THEN /\ TakesPiece(n, <<"OnPartofBody", "RequestReceived">>)
          /\ Enter("RequestLine")
     ELSE /\ TakesPiece(n, <<"OnPartofBody">>)
          /\ UNCHANGED <<curr_state, sub_state>>

----------------------------------------------------------------------------
(* StateChunk. *)

ExpectLength(c, n) ==
  /\ In("Chunk", "S_EXPECT_LENGTH")
  /\ Emits(n, <<>>)
  /\ IF c = "CR" THEN To("S_GET_INITIAL_CR") /\ UNCHANGED hex
                 ELSE hex' = Append(hex, c) /\ UNCHANGED <<curr_state, sub_state>>
  /\ UNCHANGED <<text, got, expect>>

\* A bad length is an event, but not an error to parse.
GetInitialCr(c, n) ==
  /\ In("Chunk", "S_GET_INITIAL_CR")
  /\ expect' = IF c = "LF" /\ IsNumber(hex) THEN NumberOf(hex) ELSE expect
  /\ IF c = "LF" /\ IsNumber(hex)
     THEN /\ To(IF expect' # 0 THEN "S_EXPECT_CHUNK_DATA" ELSE "S_FINISH_WAIT_CR")
          /\ Emits(n, <<>>)
     ELSE Emits(n, <<"ParseError">>) /\ UNCHANGED <<curr_state, sub_state>>
  /\ UNCHANGED <<text, got, hex>>

ChunkData(n) ==
  /\ In("Chunk", "S_EXPECT_CHUNK_DATA")
  /\ To(IF got + Increasement(n) = expect THEN "S_EXPECT_CHUNK_CR" ELSE sub_state)
  /\ TakesPiece(n, <<"OnPartofBody">>)

ExpectChunkCr(c, n) ==
  /\ In("Chunk", "S_EXPECT_CHUNK_CR")
  /\ Due(c, "CR", n, "S_EXPECT_CHUNK_LF")

\* The next chunk, whatever the byte is.
ExpectChunkLf(c, n) ==
  /\ In("Chunk", "S_EXPECT_CHUNK_LF")
  /\ Enter("Chunk")
  /\ got' = 0 /\ expect' = 0 /\ hex' = <<>>
  /\ IF c = "LF" THEN Emits(n, <<>>) ELSE Fails(n, <<>>)
  /\ UNCHANGED text

FinishWaitCr(c, n) ==
  /\ In("Chunk", "S_FINISH_WAIT_CR")
  /\ Due(c, "CR", n, "S_FINISH_WAIT_LF")

FinishWaitLf(c, n) ==
  /\ In("Chunk", "S_FINISH_WAIT_LF")
  /\ IF c = "LF" THEN Enter("RequestLine") /\ Emits(n, <<"RequestReceived">>)
                 ELSE UNCHANGED <<curr_state, sub_state>> /\ Fails(n, <<>>)
  /\ UNCHANGED <<text, counts>>

----------------------------------------------------------------------------
Consume(c, n) ==
  \/ ExpectMethod(c, n) \/ ExpectUriOrVersion(c, n) \/ ExpectCrlf(c, n)
  \/ ExpectFieldKey(c, n) \/ GetColon(c, n) \/ ExpectFieldVal(c, n)
  \/ ExpectFieldEnd(c, n) \/ ExpectHeaderEnd(c, n)
  \/ BodyPiece(n)
  \/ ExpectLength(c, n) \/ GetInitialCr(c, n) \/ ChunkData(n)
  \/ ExpectChunkCr(c, n) \/ ExpectChunkLf(c, n)
  \/ FinishWaitCr(c, n) \/ FinishWaitLf(c, n)

\* HttpReqInternal::clear, between two requests.
ClearRequest ==
  /\ headers' = {}
  /\ UNCHANGED <<curr_state, sub_state, method, key, val, counts, ctx>>

ParserSpec ==
  /\ ParserInit
  /\ [][ClearRequest \/ \E c \in Symbols, n \in Lengths : Consume(c, n)]_pvars

----------------------------------------------------------------------------
(* Properties. *)

\* parse never steps over the end of its fragment (the assertion of
\* HFSMParser.hpp:130), and every piece of a body it hands over has bytes: a
\* step over of 0 would emit the event without its range and skip a byte.
PiecesFit ==
  "OnPartofBody" \in {ctx.events[i] : i \in DOMAIN ctx.events} =>
    ctx.step \in 1 .. ctx.n_left
=========================================================================
