---------------------------- MODULE ConnReader ----------------------------
(***************************************************************************)
(* The input side of one connection: the Reader of reader.go with its one  *)
(* 8K buffer, the command loop that takes lines from it (servceConn) and   *)
(* the DotReader that takes articles from the same buffer (handlePost,     *)
(* handleIHave, handleTakethis).                                           *)
(*                                                                         *)
(* A stored byte is represented by its index in the client's stream, so    *)
(* that lost, repeated, reordered and stale bytes can be told apart; its   *)
(* value is stream[index].  Index 0 is a byte of an earlier connection,    *)
(* left in a pooled buffer.  The loops over the bytes of a chunk are       *)
(* modelled one byte per step.                                             *)
(***************************************************************************)
EXTENDS Wire

CONSTANTS
  Size,           \* the capacity of the buffer (1<<13 in the code)
  Streams,        \* the byte streams a client may send
  EmptyReads,     \* TRUE: Read of the connection may return (0, nil)
  EofWithData     \* TRUE: it may return the last bytes together with io.EOF

ASSUME ConnReaderAssumption ==
  /\ Size \in Nat \ {0}
  /\ Streams \subseteq Seq(Symbols)
  /\ EmptyReads \in BOOLEAN
  /\ EofWithData \in BOOLEAN

VARIABLES
  stream,         \* the bytes of the current connection
  fed,            \* how many of them Read of the connection has returned
  mem,            \* buffer.b: the stored bytes
  pos, limit,     \* buffer.pos and buffer.limit
  i,              \* where the loop over the buffered bytes stands
  pc,             \* where the goroutine of the connection stands
  start,          \* history: the current line or article begins after it
  out,            \* history: the bytes handed to the session, in this order
  state,          \* DotReader.state
  dOff, dLen,     \* DotReader.data, a slice of mem
  dEnd,           \* DotReader.end
  dErr,           \* DotReader.err # nil
  caller,         \* who calls the DotReader: "perform", "consume", "discard"
  want            \* len(b) of the pending DotReader.Read

buffer    == <<fed, mem, pos, limit>>
dotReader == <<state, dOff, dLen, dEnd, dErr>>
call      == <<caller, want>>
vars == <<stream, fed, mem, pos, limit, i, pc, start, out, state, dOff, dLen,
          dEnd, dErr, caller, want>>

Cells == 0 .. Size-1

Flags == dEnd \in BOOLEAN /\ dErr \in BOOLEAN

Shape ==
  /\ stream \in Streams
  /\ fed \in 0 .. Len(stream)
  /\ mem \in [Cells -> Nat]
  /\ limit \in 0 .. Size
  /\ pos \in 0 .. limit
  /\ i \in pos .. limit
  /\ pc \in {"line", "lscan", "handler", "dot", "inner", "scan", "ret", "copied", "closed"}
  /\ start \in Nat
  /\ out \in Seq(Nat)
  /\ state \in nlDotNlStates
  /\ dOff \in 0 .. Size
  /\ dLen \in 0 .. Size
  /\ dOff + dLen <= Size
  /\ caller \in {"perform", "consume", "discard"}
  /\ want \in 1 .. Size

TypeOK == Shape /\ Flags

(***************************************************************************)
(* One connection after the other is served with the same pooled Reader.   *)
(* Reader.Init empties the buffer; the bytes stay in the memory below it.  *)
(***************************************************************************)
Init ==
  /\ stream \in Streams
  /\ fed = 0
  /\ mem = [c \in Cells |-> 0]
  /\ pos = 0 /\ limit = 0 /\ i = 0
  /\ pc = "line"
  /\ start = 0 /\ out = <<>>
  /\ state = nlDotNl_start /\ dOff = 0 /\ dLen = 0 /\ dEnd = FALSE /\ dErr = FALSE
  /\ caller = "perform" /\ want = 1

Accept ==
  /\ pc = "closed"
  /\ stream' \in Streams
  /\ fed' = 0
  /\ mem' = [c \in Cells |-> 0]
  /\ pos' = 0 /\ limit' = 0 /\ i' = 0
  /\ pc' = "line"
  /\ start' = 0 /\ out' = <<>>
  /\ state' = nlDotNl_start /\ dOff' = 0 /\ dLen' = 0 /\ dEnd' = FALSE /\ dErr' = FALSE
  /\ caller' = "perform" /\ want' = 1

-----------------------------------------------------------------------------
(***************************************************************************)
(* buffer.reset and buffer.feedFrom: n bytes of the connection replace the *)
(* contents of the buffer.                                                 *)
(***************************************************************************)
Feed(n) ==
  /\ n \in 0 .. Size /\ fed + n <= Len(stream)
  /\ mem' = [c \in Cells |-> IF c < n THEN fed + c + 1 ELSE mem[c]]
  /\ pos' = 0
  /\ limit' = n
  /\ fed' = fed + n

\* What Read of the connection may return: n bytes, with or without an error.
ReadsOK(n)  == n > 0 \/ EmptyReads
ReadsEOF(n) == fed + n = Len(stream) /\ (n = 0 \/ EofWithData)

\* n stored bytes, from mem[from] on, reach the session.
Deliver(from, n) == out' = out \o [j \in 1 .. n |-> mem[from + j - 1]]

-----------------------------------------------------------------------------
(***************************************************************************)
(* Reader.ReadLineB, called by servceConn.                                 *)
(***************************************************************************)
LineTop ==
  /\ pc = "line"
  /\ i' = pos
  /\ pc' = "lscan"
  /\ UNCHANGED <<stream, buffer, start, out, dotReader, call>>

LineByte ==
  /\ pc = "lscan" /\ i < limit
  /\ stream[mem[i]] # "lf"
  /\ i' = i + 1
  /\ UNCHANGED <<stream, buffer, pc, start, out, dotReader, call>>

LineFound ==
  /\ pc = "lscan" /\ i < limit
  /\ stream[mem[i]] = "lf"
  /\ Deliver(pos, i + 1 - pos)
  /\ pos' = i + 1
  /\ i' = i + 1
  /\ pc' = "handler"
  /\ UNCHANGED <<stream, fed, mem, limit, start, dotReader, call>>

\* A fault for the mutants: the buffered part of the line is not kept.
LineRefill_DropsPrefix ==
  /\ pc = "lscan" /\ i = limit
  /\ UNCHANGED out
  /\ \E n \in 0 .. Size : Feed(n) /\ ReadsOK(n)
  /\ i' = 0
  /\ pc' = "line"
  /\ UNCHANGED <<stream, start, dotReader, call>>

\* A fault for the mutants: a chunk boundary ends the line.
LineRefill_Splits ==
  /\ pc = "lscan" /\ i = limit
  /\ Deliver(pos, limit - pos)
  /\ \E n \in 0 .. Size : Feed(n) /\ ReadsOK(n)
  /\ i' = 0
  /\ pc' = IF limit > pos THEN "handler" ELSE "line"
  /\ UNCHANGED <<stream, start, dotReader, call>>

\* The whole buffer belongs to the line: keep it and read on.
LineRefill ==
  /\ pc = "lscan" /\ i = limit
  /\ Deliver(pos, limit - pos)
  /\ \E n \in 0 .. Size : Feed(n) /\ ReadsOK(n)
  /\ i' = 0
  /\ pc' = "line"
  /\ UNCHANGED <<stream, start, dotReader, call>>

\* A fault for the mutants: the end of the connection is noticed at once, with
\* bytes of it still in the buffer.
LineEOF_Eager ==
  /\ pc = "lscan"
  /\ Deliver(pos, limit - pos)
  /\ \E n \in 0 .. Size : Feed(n) /\ ReadsEOF(n)
  /\ i' = 0
  /\ pc' = "closed"
  /\ UNCHANGED <<stream, start, dotReader, call>>

\* The connection ends in the line: ReadLineB fails, and servceConn with it.
LineEOF ==
  /\ pc = "lscan" /\ i = limit
  /\ Deliver(pos, limit - pos)
  /\ \E n \in 0 .. Size : Feed(n) /\ ReadsEOF(n)
  /\ i' = 0
  /\ pc' = "closed"
  /\ UNCHANGED <<stream, start, dotReader, call>>

-----------------------------------------------------------------------------
(***************************************************************************)
(* The handler of the command line.  A plain command leaves the input      *)
(* alone; POST, IHAVE and TAKETHIS make a DotReader and pass it to         *)
(* PerformPost.  QUIT and a failed write of the response end the session.  *)
(***************************************************************************)
HandlerDone ==
  /\ pc \in {"handler", "copied"}
  /\ start' = Len(out)
  /\ pc' = "line"
  /\ UNCHANGED <<stream, buffer, i, out, dotReader, call>>

HandlerEnds ==
  /\ pc \in {"handler", "copied"}
  /\ start' = Len(out)
  /\ pc' = "closed"
  /\ UNCHANGED <<stream, buffer, i, out, dotReader, call>>

NewDotReader ==
  /\ pc = "handler"
  /\ start' = Len(out)
  /\ pc' = "dot"
  /\ caller' = "perform"
  /\ state' = nlDotNl_start /\ dOff' = 0 /\ dLen' = 0 /\ dEnd' = FALSE /\ dErr' = FALSE
  /\ UNCHANGED <<stream, buffer, i, out, want>>

\* PerformPost, outside the library, reads as much and as often as it likes.
PerformRead ==
  /\ pc = "dot" /\ caller = "perform"
  /\ want' \in 1 .. Size
  /\ pc' = "inner"
  /\ UNCHANGED <<stream, buffer, i, start, out, dotReader, caller>>

\* Or it calls DotReader.Consume.
PerformConsume ==
  /\ pc = "dot" /\ caller = "perform"
  /\ caller' = "consume"
  /\ pc' = "inner"
  /\ UNCHANGED <<stream, buffer, i, start, out, dotReader, want>>

\* A fault for the mutants: nothing eats up what PerformPost left unread.
PerformReturns_NoCopy ==
  /\ pc = "dot" /\ caller = "perform"
  /\ pc' = "copied"
  /\ UNCHANGED <<stream, buffer, i, start, out, dotReader, call>>

\* It returns, whatever it has read, and io.Copy eats up the rest.
PerformReturns ==
  /\ pc = "dot" /\ caller = "perform"
  /\ caller' = "discard"
  /\ want' = Size
  /\ pc' = "inner"
  /\ UNCHANGED <<stream, buffer, i, start, out, dotReader>>

-----------------------------------------------------------------------------
(***************************************************************************)
(* DotReader.innerRead.                                                    *)
(***************************************************************************)
InnerReady ==
  /\ pc = "inner" /\ (dEnd \/ dLen > 0)
  /\ pc' = "ret"
  /\ UNCHANGED <<stream, buffer, i, start, out, dotReader, call>>

InnerBuffered ==
  /\ pc = "inner" /\ ~ dEnd /\ dLen = 0
  /\ pos < limit
  /\ i' = pos
  /\ pc' = "scan"
  /\ UNCHANGED <<stream, buffer, start, out, dotReader, call>>

\* A fault for the mutants: bytes still to be handed on are not waited for.
InnerFeed_DataPending ==
  /\ pc = "inner" /\ ~ dEnd
  /\ pos = limit
  /\ \E n \in 0 .. Size : Feed(n) /\ ReadsOK(n)
  /\ i' = 0
  /\ pc' = "scan"
  /\ UNCHANGED <<stream, start, out, dotReader, call>>

InnerFeed ==
  /\ pc = "inner" /\ ~ dEnd /\ dLen = 0
  /\ pos = limit
  /\ \E n \in 0 .. Size :
       /\ Feed(n)
       /\ \/ ReadsOK(n)  /\ UNCHANGED dErr
          \/ ReadsEOF(n) /\ dErr' = TRUE
  /\ i' = 0
  /\ pc' = "scan"
  /\ UNCHANGED <<stream, start, out, state, dOff, dLen, dEnd, call>>

ScanByte ==
  /\ pc = "scan" /\ i < limit
  /\ nlDotNl_transition(state, stream[mem[i]]) # nlDotNl_end
  /\ state' = nlDotNl_transition(state, stream[mem[i]])
  /\ i' = i + 1
  /\ UNCHANGED <<stream, buffer, pc, start, out, dOff, dLen, dEnd, dErr, call>>

\* The terminator: what follows it stays in the buffer.
ScanFound ==
  /\ pc = "scan" /\ i < limit
  /\ nlDotNl_transition(state, stream[mem[i]]) = nlDotNl_end
  /\ dOff' = pos
  /\ dLen' = i + 1 - pos
  /\ dEnd' = TRUE
  /\ pos' = i + 1
  /\ i' = i + 1
  /\ pc' = "ret"
  /\ UNCHANGED <<stream, fed, mem, limit, start, out, state, dErr, call>>

\* A fault for the mutants: reset leaves the read position where it was.
ScanDone_PosKept ==
  /\ pc = "scan" /\ i = limit
  /\ dOff' = pos
  /\ dLen' = limit - pos
  /\ limit' = 0 /\ i' = 0
  /\ pc' = "ret"
  /\ UNCHANGED <<stream, fed, mem, pos, start, out, state, dEnd, dErr, call>>

\* No terminator: all buffered bytes are handed on, and the buffer is reset
\* while DotReader.data still points into it.
ScanDone ==
  /\ pc = "scan" /\ i = limit
  /\ dOff' = pos
  /\ dLen' = limit - pos
  /\ pos' = 0 /\ limit' = 0 /\ i' = 0
  /\ pc' = "ret"
  /\ UNCHANGED <<stream, fed, mem, start, out, state, dEnd, dErr, call>>

-----------------------------------------------------------------------------
(***************************************************************************)
(* DotReader.Read after innerRead.  io.Copy calls it again until it        *)
(* returns io.EOF or another error.                                        *)
(***************************************************************************)
Resume == IF caller = "discard" THEN "inner" ELSE "dot"
Finish == IF caller = "discard" THEN "copied" ELSE "dot"

ReadPart ==
  /\ pc = "ret" /\ caller # "consume"
  /\ dLen > want
  /\ Deliver(dOff, want)
  /\ dOff' = dOff + want
  /\ dLen' = dLen - want
  /\ pc' = Resume
  /\ UNCHANGED <<stream, buffer, i, start, state, dEnd, dErr, call>>

ReadAll ==
  /\ pc = "ret" /\ caller # "consume"
  /\ dLen \in 1 .. want
  /\ Deliver(dOff, dLen)
  /\ dOff' = 0
  /\ dLen' = 0
  /\ pc' = IF dEnd THEN Finish ELSE Resume
  /\ UNCHANGED <<stream, buffer, i, start, state, dEnd, dErr, call>>

\* A fault for the mutants: only the terminator ends the copy.
ReadNothing_EndOnly ==
  /\ pc = "ret" /\ caller # "consume"
  /\ dLen = 0
  /\ pc' = IF dEnd THEN Finish ELSE Resume
  /\ UNCHANGED <<stream, buffer, i, start, out, dotReader, call>>

\* (0, io.EOF) or (0, d.err): after the terminator, at the end of the
\* connection, and also after a Read of the connection that returned (0, nil).
ReadNothing ==
  /\ pc = "ret" /\ caller # "consume"
  /\ dLen = 0
  /\ pc' = Finish
  /\ UNCHANGED <<stream, buffer, i, start, out, dotReader, call>>

\* DotReader.Consume drops what innerRead found and goes on.
ConsumeMore ==
  /\ pc = "ret" /\ caller = "consume"
  /\ ~ dEnd /\ dLen > 0
  /\ Deliver(dOff, dLen)
  /\ dOff' = 0
  /\ dLen' = 0
  /\ pc' = "inner"
  /\ UNCHANGED <<stream, buffer, i, start, state, dEnd, dErr, call>>

ConsumeEnds ==
  /\ pc = "ret" /\ caller = "consume"
  /\ dEnd \/ dLen = 0
  /\ caller' = "perform"
  /\ pc' = "dot"
  /\ UNCHANGED <<stream, buffer, i, start, out, dotReader, want>>

-----------------------------------------------------------------------------
ReadLineB == LineTop \/ LineByte \/ LineFound \/ LineRefill \/ LineEOF
Handler   == HandlerDone \/ HandlerEnds \/ NewDotReader
Perform   == PerformRead \/ PerformConsume \/ PerformReturns
innerRead == InnerReady \/ InnerBuffered \/ InnerFeed \/ ScanByte \/ ScanFound \/ ScanDone
Returns   == ReadPart \/ ReadAll \/ ReadNothing \/ ConsumeMore \/ ConsumeEnds

Next == Accept \/ ReadLineB \/ Handler \/ Perform \/ innerRead \/ Returns

Spec == Init /\ [][Next]_vars

(***************************************************************************)
(* Fairness: the goroutine of the connection runs; the client sends the    *)
(* rest of its stream or the connection ends, so Read returns; PerformPost *)
(* returns after finitely many reads.                                      *)
(***************************************************************************)
FairSpec == Spec /\ WF_vars(Next) /\ SF_vars(PerformReturns)

-----------------------------------------------------------------------------
(* Safety *)

\* The session is handed every byte of its own connection once and in the
\* order sent, whatever the chunks of the connection, the sizes of the reads
\* and the owners of the buffer were (buffer, ReadLineB, DotReader.Read).
InOrder == out = [j \in 1 .. Len(out) |-> j]

\* A command line handed to servceConn is a line of the stream: it ends with
\* its first line feed, and begins where the line or article before it ended.
LineExact == pc = "handler" => IsLineEnd(stream, start, Len(out))

\* When POST, IHAVE or TAKETHIS answers, exactly the article is gone from the
\* input: up to the terminator and no further, also when PerformPost stopped
\* early or read on after the end; without a terminator, the whole stream.
ArticleExact ==
  pc = "copied" =>
    IF dEnd THEN IsArticleEnd(stream, start, Len(out))
            ELSE /\ Len(out) = Len(stream)
                 /\ NoTerminator(stream, start, Len(stream))

\* The bytes DotReader.data points to are still the next ones of the stream:
\* no refill of the buffer has overwritten them before they are handed on.
DataIntact == \A j \in 1 .. dLen : mem[dOff + j - 1] = Len(out) + j

\* "Eat up excess data": when the handler goes on, the article is over,
\* because its terminator was seen or the connection has ended.
ExcessEaten == pc = "copied" => dEnd \/ dErr

\* A session that ends in ReadLineB leaves no complete command unserved.
NoLineLost ==
  [][pc = "lscan" /\ pc' = "closed" =>
       \A e \in 1 .. Len(stream) : ~ IsLineEnd(stream, start, e)]_vars

(* Liveness *)

\* A POST, IHAVE or TAKETHIS that waits for its article gets to its answer.
ArticleHandled == (pc \in {"dot", "inner", "scan", "ret"}) ~> (pc = "copied")

(***************************************************************************)
(* The reader implements the abstract framing.                             *)
(***************************************************************************)
Mode ==
  CASE pc \in {"line", "lscan"}                -> "line"
    [] pc \in {"dot", "inner", "scan", "ret"}  -> "article"
    [] pc = "copied"                           -> "done"
    [] OTHER                                   -> pc

Frames == INSTANCE Framing WITH
            at   <- IF pc \in {"handler", "copied"} THEN Len(out) ELSE start,
            mode <- Mode

ImplementsFraming == Frames!Spec
=============================================================================
