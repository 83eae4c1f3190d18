----------------------------- MODULE DotWriting -----------------------------
(***************************************************************************)
(* The multi-line responses of one connection: the status line and the     *)
(* block behind it, which the backend writes through the DotWriter of      *)
(* writer.go into a bufio.Writer over the connection.  All handlers with   *)
(* such a response (LISTGROUP, ARTICLE, HEAD, BODY, OVER, HDR, LIST,       *)
(* CAPABILITIES) end in the same calls; the writers come from pools.       *)
(*                                                                         *)
(* A status line is a sequence of bytes of its own kind, "status".  The    *)
(* connection may stop taking bytes at any time.  The loop over the bytes  *)
(* of a Write is modelled one byte per step.                               *)
(***************************************************************************)
EXTENDS Wire

CONSTANTS
  Lines,          \* the status lines
  Chunks,         \* what a backend may hand to one Write
  Room,           \* the size of the bufio.Writer (4096 in the library)
  Longest         \* bound: bytes that the backend writes for one response

ASSUME DotWritingAssumption ==
  /\ Lines \subseteq Seq({"status"}) \ {<<>>}
  /\ Chunks \subseteq Seq(Symbols)
  /\ Room \in Nat \ {0}
  /\ Longest \in Nat

VARIABLES
  pc,             \* "command", "block", "scan", "closing", "flush" or "closed"
  link,           \* "up", or "down": the connection takes no more bytes
  wire,           \* the bytes the connection has taken for this response
  held, err,      \* the bufio.Writer: its bytes, and whether a write has failed
  state, end,     \* the fields of the DotWriter
  buf, i, q,      \* the Write in progress: its bytes, the loop, the local state
  line,           \* history: the status line of this response
  content,        \* history: the bytes the backend has written for it
  passed          \* history: the bytes the DotWriter has passed on for it

bufio     == <<wire, held, err>>
dotWriter == <<state, end>>
call      == <<buf, i, q>>
history   == <<line, content, passed>>
vars == <<pc, link, wire, held, err, state, end, buf, i, q, line, content, passed>>

Bytes == Symbols \cup {"status"}

TypeOK ==
  /\ pc \in {"command", "block", "scan", "closing", "flush", "closed"}
  /\ link \in {"up", "down"}
  /\ wire \in Seq(Bytes)
  /\ held \in Seq(Bytes) /\ Len(held) <= Room
  /\ err \in BOOLEAN
  /\ state \in nlDotNlStates \ {nlDotNl_end}
  /\ end \in BOOLEAN
  /\ buf \in Seq(Symbols)
  /\ i \in 0 .. Len(buf)
  /\ q \in nlDotNlStates \ {nlDotNl_end}
  /\ line \in Seq({"status"})
  /\ content \in Seq(Symbols)
  /\ passed \in Seq(Symbols)

\* The writers come from their pools with what the last user has left in them.
Init ==
  /\ pc = "command" /\ link = "up"
  /\ wire = <<>> /\ held = <<>> /\ err = FALSE
  /\ state \in nlDotNlStates \ {nlDotNl_end} /\ end \in BOOLEAN
  /\ buf = <<>> /\ i = 0 /\ q = InLine
  /\ line = <<>> /\ content = <<>> /\ passed = <<>>

-----------------------------------------------------------------------------
(***************************************************************************)
(* bufio.Writer over the connection, by its contract: what does not fit    *)
(* goes on, from the front; after a failed write it takes nothing more and *)
(* returns the error again.  s is what it holds, and what is new.          *)
(***************************************************************************)
Fits(s)    == Len(s) <= Room /\ held' = s /\ UNCHANGED <<wire, err>>
Taken(s)   == \E k \in 1 .. Len(s) :
                /\ Len(s) - k <= Room
                /\ wire' = wire \o SubSeq(s, 1, k)
                /\ held' = SubSeq(s, k+1, Len(s))
                /\ UNCHANGED err
Refused(s) == \E k \in 0 .. Len(s)-1 :
                /\ wire' = wire \o SubSeq(s, 1, k)
                /\ held' = <<>>
                /\ err' = TRUE
Sent(s)    == (link = "up" /\ Taken(s)) \/ (link = "down" /\ Refused(s))

BufWrite(p) ==
  \/ err /\ UNCHANGED bufio
  \/ ~ err /\ Fits(held \o p)
  \/ ~ err /\ Len(held \o p) > Room /\ Sent(held \o p)

-----------------------------------------------------------------------------
(***************************************************************************)
(* The status line.  The writers are acquired and reset.  A status line    *)
(* that is too long for the buffer may fail: then the session ends.        *)
(***************************************************************************)
\* A fault for the mutants: Reset is forgotten, and the DotWriter goes on
\* where its last user has left it.
Reset_Forgotten == UNCHANGED dotWriter

Reset == state' = nlDotNl_start /\ end' = FALSE

\* AcquireBufferedWriter, and the first write of the handler.
Status(l) ==
  /\ err' = FALSE
  /\ \/ Len(l) <= Room /\ held' = l /\ wire' = <<>>
     \/ Len(l) > Room /\ link = "up" /\ held' = <<>> /\ wire' = l

Respond(l) ==
  /\ pc = "command"
  /\ Status(l)
  /\ Reset
  /\ line' = l /\ content' = <<>> /\ passed' = <<>>
  /\ pc' = "block"
  /\ UNCHANGED <<link, call>>

RespondFails(l) ==
  /\ pc = "command" /\ link = "down"
  /\ Len(l) > Room
  /\ pc' = "closed"
  /\ UNCHANGED <<link, bufio, dotWriter, call, history>>

-----------------------------------------------------------------------------
(***************************************************************************)
(* DotWriter.Write, called by the backend and by Close.                    *)
(***************************************************************************)
StartScan(b, l) == buf' = b /\ i' = 0 /\ q' = state /\ pc' = l

\* After the terminator a Write takes everything and passes nothing on.
Write(b) ==
  /\ pc = "block"
  /\ Len(content) + Len(b) <= Longest
  /\ content' = content \o b
  /\ \/ end /\ UNCHANGED <<pc, call>>
     \/ ~ end /\ StartScan(b, "scan")
  /\ UNCHANGED <<link, bufio, dotWriter, line, passed>>

Scanning == pc \in {"scan", "closing"}
Return   == pc' = IF pc = "scan" THEN "block" ELSE "flush"
next     == nlDotNl_transition(q, buf[i+1])

ScanByte ==
  /\ Scanning /\ i < Len(buf) /\ next # nlDotNl_end
  /\ q' = next
  /\ i' = i + 1
  /\ UNCHANGED <<pc, link, bufio, dotWriter, buf, history>>

\* A fault for the mutants: the last piece goes to the connection past the buffer.
ScanEnd_PastBuffer ==
  /\ Scanning /\ i < Len(buf) /\ next = nlDotNl_end
  /\ wire' = IF link = "up" THEN wire \o SubSeq(buf, 1, i+1) ELSE wire
  /\ passed' = passed \o SubSeq(buf, 1, i+1)
  /\ end' = TRUE
  /\ Return
  /\ UNCHANGED <<link, held, err, state, call, line, content>>

\* The terminator: what follows it in the buffer is dropped.
ScanEnd ==
  /\ Scanning /\ i < Len(buf) /\ next = nlDotNl_end
  /\ BufWrite(SubSeq(buf, 1, i+1))
  /\ passed' = passed \o SubSeq(buf, 1, i+1)
  /\ end' = TRUE
  /\ Return
  /\ UNCHANGED <<link, state, call, line, content>>

ScanDone ==
  /\ Scanning /\ i = Len(buf)
  /\ state' = q
  /\ BufWrite(buf)
  /\ passed' = passed \o buf
  /\ Return
  /\ UNCHANGED <<link, end, call, line, content>>

-----------------------------------------------------------------------------
(***************************************************************************)
(* The backend returns, and the deferred calls follow: dw.Close, bw.Flush. *)
(***************************************************************************)
dotCRLF     == <<"dot", "cr", "lf">>
crlfDotCRLF == <<"cr", "lf", "dot", "cr", "lf">>

\* A fault for the mutants: nothing is added to a block that has no content.
Close_EmptyLeft ==
  /\ pc = "block"
  /\ \/ (end \/ passed = <<>>) /\ pc' = "flush" /\ UNCHANGED call
     \/ /\ ~ end /\ passed # <<>>
        /\ StartScan(IF state = nlDotNl_start THEN dotCRLF ELSE crlfDotCRLF, "closing")
  /\ UNCHANGED <<link, bufio, dotWriter, history>>

Close ==
  /\ pc = "block"
  /\ \/ end /\ pc' = "flush" /\ UNCHANGED call
     \/ ~ end /\ StartScan(IF state = nlDotNl_start THEN dotCRLF ELSE crlfDotCRLF, "closing")
  /\ UNCHANGED <<link, bufio, dotWriter, history>>

\* A fault for the mutants: the writer is released before it is flushed.
Flush_AfterRelease ==
  /\ pc = "flush"
  /\ held' = <<>>
  /\ pc' = "command"
  /\ UNCHANGED <<link, wire, err, dotWriter, call, history>>

\* Released, the bufio.Writer forgets what it holds and its error.  The handler
\* returns nil in any case, and the session goes on.
Flush ==
  /\ pc = "flush"
  /\ held' = <<>>
  /\ \/ (err \/ held = <<>>) /\ UNCHANGED <<wire, err>>
     \/ ~ err /\ held # <<>> /\ link = "up" /\ wire' = wire \o held /\ UNCHANGED err
     \/ ~ err /\ held # <<>> /\ link = "down" /\ Refused(held)
  /\ pc' = "command"
  /\ UNCHANGED <<link, dotWriter, call, history>>

Break == link = "up" /\ link' = "down" /\ UNCHANGED <<pc, bufio, dotWriter, call, history>>

\* The session on the broken connection ends, and another connection is served.
NextConnection ==
  /\ pc \in {"command", "closed"} /\ link = "down"
  /\ pc' = "command" /\ link' = "up"
  /\ wire' = <<>> /\ line' = <<>> /\ content' = <<>> /\ passed' = <<>>
  /\ UNCHANGED <<held, err, dotWriter, call>>

-----------------------------------------------------------------------------
Next ==
  \/ \E l \in Lines : Respond(l) \/ RespondFails(l)
  \/ \E b \in Chunks : Write(b)
  \/ ScanByte \/ ScanEnd \/ ScanDone
  \/ Close \/ Flush \/ Break \/ NextConnection

Spec == Init /\ [][Next]_vars

-----------------------------------------------------------------------------
(* Safety *)

Prefix(s, t) == Len(s) <= Len(t) /\ \A n \in 1 .. Len(s) : s[n] = t[n]

\* The deferred calls have closed the block of the response whose status line is
\* the last of this connection.
BlockClosed == pc = "flush" \/ (pc = "command" /\ line # <<>>)

\* The block behind a status line is one article, whatever the backend has
\* written and in whatever pieces, and also if it has written nothing: it ends
\* with its first terminator (DotWriter.Write and Close, writer.go:56-92).
OneArticle == BlockClosed => IsArticleEnd(passed, 0, Len(passed))

\* The block holds what the backend has written, in this order, up to the
\* terminator if there is one, and otherwise all of it and what Close adds.
Tails == {dotCRLF, crlfDotCRLF, <<"cr", "lf">>}
ContentKept ==
  BlockClosed =>
    \/ Prefix(passed, content) /\ IsArticleEnd(content, 0, Len(passed))
    \/ /\ NoTerminator(content, 0, Len(content))
       /\ \E t \in Tails : passed = content \o t

\* Before the next command is read, the whole response is on the connection,
\* and nothing is left behind that could come after a later one; this fails
\* only on a connection that takes no more bytes.
Delivered == pc = "command" /\ link = "up" => wire = line \o passed /\ held = <<>>

\* Also on a connection that breaks off, the client gets a part of the response
\* from its beginning: an article that looks complete to it is complete.
NoFalseEnd == Prefix(wire, line \o passed)

-----------------------------------------------------------------------------
(* What the comment says and the code does not do *)

\* "The final ".\r\n" is addedd, if the content didn't contain any."
\* (writer.go:36-37).  A last line that holds a lone dot without its line end
\* takes the place of what should be added.
FinalDotAdded ==
  pc = "flush" /\ NoTerminator(content, 0, Len(content)) =>
    passed = content \o dotCRLF \/ passed = content \o crlfDotCRLF

\* "After the final ".\r\n", any further content is discarded." (writer.go:36): the
\* content that ends a block ends with these three bytes.
DiscardsAfterDotCRLF ==
  pc = "flush" /\ Len(passed) < Len(content) =>
    \E n \in 0 .. Len(passed) : SubSeq(passed, n+1, Len(passed)) = dotCRLF
=============================================================================
