------------------------------ MODULE Framing ------------------------------
(***************************************************************************)
(* What the input side of a connection promises to the NNTP session: the   *)
(* stream of the client is cut, in order and without gap or overlap, into  *)
(* command lines and articles, and the cuts depend on nothing but the      *)
(* bytes.  There is no buffer here, no chunk and no partial read.          *)
(***************************************************************************)
EXTENDS Wire

CONSTANT Streams      \* the byte streams a client may send

VARIABLES
  stream,             \* the stream of the current connection
  at,                 \* the stream is cut up to here
  mode                \* "line", "handler", "article", "done" or "closed"

vars == <<stream, at, mode>>

Init == stream \in Streams /\ at = 0 /\ mode = "line"

\* The next command line is handed to its handler.
TakeLine ==
  /\ mode = "line"
  /\ \E e \in at+1 .. Len(stream) : IsLineEnd(stream, at, e) /\ at' = e
  /\ mode' = "handler"
  /\ UNCHANGED stream

\* The handler wants the article that follows, or is done with the command.
BeginArticle == mode = "handler" /\ mode' = "article" /\ UNCHANGED <<stream, at>>
NextLine     == mode \in {"handler", "done"} /\ mode' = "line" /\ UNCHANGED <<stream, at>>

\* The article is consumed: up to its terminator, or to the end of a stream
\* that has none.
TakeArticle ==
  /\ mode = "article"
  /\ \/ \E e \in at+1 .. Len(stream) : IsArticleEnd(stream, at, e) /\ at' = e
     \/ NoTerminator(stream, at, Len(stream)) /\ at' = Len(stream)
  /\ mode' = "done"
  /\ UNCHANGED stream

Close  == mode \in {"line", "handler", "done"} /\ mode' = "closed" /\ UNCHANGED <<stream, at>>
Accept == mode = "closed" /\ stream' \in Streams /\ at' = 0 /\ mode' = "line"

Next == TakeLine \/ BeginArticle \/ NextLine \/ TakeArticle \/ Close \/ Accept

Spec == Init /\ [][Next]_vars
=============================================================================
