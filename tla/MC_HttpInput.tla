--------------------------- MODULE MC_HttpInput ---------------------------
(***************************************************************************)
(* HttpInput with raws of a few bytes, so that headers and bodies cross    *)
(* them, and streams of every kind of message, alone or sent ahead.        *)
(***************************************************************************)
EXTENDS HttpInput

MCValue == ("0" :> 0) @@ ("1" :> 1) @@ ("2" :> 2)

Chunk1 == [size |-> "1", data |-> <<"CR">>]
Chunk2 == [size |-> "2", data |-> <<"LF", "0">>]
Message(kind, chunks) == [kind |-> kind, chunks |-> chunks]
Plain == Message("plain", <<>>)
Length0 == Message("length", <<[size |-> "0", data |-> <<>>]>>)
Length2 == Message("length", <<Chunk2>>)
Chunked == Message("chunked", <<Chunk2, Chunk1>>)

MCStreams ==
  {<<Chunked>>, <<Length2, Plain>>, <<Length0, Length2>>,
   <<Plain, Message("bad_line", <<>>)>>, <<Message("bad_length", <<>>)>>}

ExactStreams == {<<Plain>>}
=========================================================================
