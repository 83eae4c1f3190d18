-------------------------- MODULE ConnReaderProofs --------------------------
(***************************************************************************)
(* Proofs about ConnReader, for every buffer size and every set of streams,*)
(* however the connection cuts a stream into chunks and whatever the sizes *)
(* of the reads are.                                                       *)
(***************************************************************************)
EXTENDS ConnReader, WireProofs, SequenceTheorems

LEMMA StreamsAreSequences == Shape => stream \in Seq(Symbols) /\ Len(stream) \in Nat
BY ConnReaderAssumption DEF Shape

\* Handing on n stored bytes appends them to what was handed on before.
LEMMA Delivered ==
  ASSUME out \in Seq(Nat), mem \in [Cells -> Nat], NEW from \in 0 .. Size, NEW n \in Nat,
         from + n <= Size, Deliver(from, n)
  PROVE  /\ out' \in Seq(Nat)
         /\ Len(out') = Len(out) + n
         /\ \A j \in 1 .. Len(out) : out'[j] = out[j]
         /\ \A j \in 1 .. n : out'[Len(out) + j] = mem[from + j - 1]
<1> DEFINE t == [j \in 1 .. n |-> mem[from + j - 1]]
<1>1. \A j \in 1 .. n : from + j - 1 \in Cells
  BY ConnReaderAssumption DEF Cells
<1>2. t \in [1 .. n -> Nat]
  BY <1>1
<1>5. out' = out \o t
  BY DEF Deliver
<1>7. \A j \in 1 .. n : t[j] = mem[from + j - 1]
  OBVIOUS
<1> HIDE DEF t
<1>3. t \in Seq(Nat)
  BY <1>2, SeqDef
<1>4. Len(t) = n
  BY <1>2, <1>3, LenProperties
<1>6. /\ out' \in Seq(Nat)
      /\ Len(out') = Len(out) + n
      /\ \A j \in 1 .. Len(out) + n : out'[j] = IF j <= Len(out) THEN out[j] ELSE t[j - Len(out)]
  BY <1>3, <1>4, <1>5, ConcatProperties
<1>8. Len(out) \in Nat
  BY LenProperties
<1>9. \A j \in 1 .. Len(out) : out'[j] = out[j]
  BY <1>6, <1>8
<1>10. ASSUME NEW j \in 1 .. n PROVE out'[Len(out) + j] = t[j]
  <2>1. /\ Len(out) + j \in 1 .. Len(out) + n
        /\ ~ (Len(out) + j <= Len(out))
        /\ (Len(out) + j) - Len(out) = j
    BY <1>8
  <2> QED BY <1>6, <2>1
<1> QED BY <1>6, <1>7, <1>9, <1>10

-----------------------------------------------------------------------------
(***************************************************************************)
(* The steps, one lemma for those that are alike.                          *)
(***************************************************************************)
LEMMA FeedTypes ==
  ASSUME Shape, NEW n \in 0 .. Size, Feed(n)
  PROVE  /\ fed' \in 0 .. Len(stream)
         /\ mem' \in [Cells -> Nat]
         /\ pos' = 0 /\ limit' = n
         /\ fed' = fed + n
         /\ \A c \in Cells : mem'[c] = IF c < n THEN fed + c + 1 ELSE mem[c]
<1>1. Len(stream) \in Nat /\ fed \in Nat /\ mem \in [Cells -> Nat]
  BY StreamsAreSequences DEF Shape
<1>2. fed' = fed + n /\ fed + n <= Len(stream) /\ pos' = 0 /\ limit' = n
  BY DEF Feed
<1>3. mem' = [c \in Cells |-> IF c < n THEN fed + c + 1 ELSE mem[c]]
  BY DEF Feed
<1>4. \A c \in Cells : fed + c + 1 \in Nat
  BY <1>1 DEF Cells
<1> QED BY <1>1, <1>2, <1>3, <1>4

LEMMA ShapeInit == Init => Shape
BY ConnReaderAssumption DEF Init, Shape, Cells, nlDotNlStates

LEMMA ShapeStep == Shape /\ [Next]_vars => Shape'
<1> SUFFICES ASSUME Shape, [Next]_vars PROVE Shape'
  OBVIOUS
<1> USE ConnReaderAssumption DEF Cells, nlDotNlStates
<1>1. CASE UNCHANGED vars
  BY <1>1 DEF vars, Shape
<1>2. CASE Accept
  BY <1>2 DEF Accept, Shape, Cells, nlDotNlStates
<1>3. CASE LineTop
  BY <1>3 DEF LineTop, Shape, buffer, dotReader, call
<1>4. CASE LineByte
  BY <1>4 DEF LineByte, Shape, buffer, dotReader, call
<1>5. CASE LineFound
  <2>1. out' \in Seq(Nat)
    BY <1>5, Delivered DEF LineFound, Shape
  <2> QED BY <1>5, <2>1 DEF LineFound, Shape, dotReader, call
<1>6. CASE LineRefill
  <2>1. out' \in Seq(Nat)
    BY <1>6, Delivered DEF LineRefill, Shape
  <2>2. PICK n \in 0 .. Size : Feed(n)
    BY <1>6 DEF LineRefill
  <2> QED BY <1>6, <2>1, <2>2, FeedTypes DEF LineRefill, Shape, dotReader, call
<1>7. CASE LineEOF
  <2>1. out' \in Seq(Nat)
    BY <1>7, Delivered DEF LineEOF, Shape
  <2>2. PICK n \in 0 .. Size : Feed(n)
    BY <1>7 DEF LineEOF
  <2> QED BY <1>7, <2>1, <2>2, FeedTypes DEF LineEOF, Shape, dotReader, call
<1>8. CASE HandlerDone \/ HandlerEnds
  BY <1>8 DEF HandlerDone, HandlerEnds, Shape, buffer, dotReader, call
<1>9. CASE NewDotReader
  BY <1>9 DEF NewDotReader, Shape, buffer, nlDotNlStates
<1>10. CASE PerformRead
  BY <1>10 DEF PerformRead, Shape, buffer, dotReader
<1>11. CASE PerformConsume
  BY <1>11 DEF PerformConsume, Shape, buffer, dotReader
<1>12. CASE PerformReturns
  BY <1>12 DEF PerformReturns, Shape, buffer, dotReader
<1>13. CASE InnerReady
  <2>1. pc' = "ret" /\ UNCHANGED <<stream, buffer, i, start, out, dotReader, call>>
    BY <1>13 DEF InnerReady
  <2> QED BY <2>1 DEF Shape, buffer, dotReader, call
<1>14. CASE InnerBuffered
  <2>1. /\ pos < limit /\ i' = pos /\ pc' = "scan"
        /\ UNCHANGED <<stream, buffer, start, out, dotReader, call>>
    BY <1>14 DEF InnerBuffered
  <2> QED BY <2>1 DEF Shape, buffer, dotReader, call
<1>15. CASE InnerFeed
  <2>1. PICK n \in 0 .. Size : Feed(n) /\ (UNCHANGED dErr \/ dErr' = TRUE)
    BY <1>15 DEF InnerFeed
  <2> QED BY <1>15, <2>1, FeedTypes DEF InnerFeed, Shape, call
<1>16. CASE ScanByte
  <2>1. nlDotNl_transition(state, stream[mem[i]]) \in nlDotNlStates
    BY <1>16 DEF nlDotNl_transition, nlDotNlStates, Shape
  <2> QED BY <1>16, <2>1 DEF ScanByte, Shape, buffer, call
<1>17. CASE ScanFound
  BY <1>17 DEF ScanFound, Shape, call
<1>18. CASE ScanDone
  BY <1>18 DEF ScanDone, Shape, call
<1>19. CASE ReadPart
  <2>1. out' \in Seq(Nat)
    BY <1>19, Delivered DEF ReadPart, Shape
  <2> QED BY <1>19, <2>1 DEF ReadPart, Resume, Shape, buffer, call
<1>20. CASE ReadAll
  <2>1. out' \in Seq(Nat)
    BY <1>20, Delivered DEF ReadAll, Shape
  <2>2. pc' \in {"copied", "inner", "dot"}
    BY <1>20 DEF ReadAll, Resume, Finish
  <2>3. dOff' = 0 /\ dLen' = 0 /\ UNCHANGED <<stream, buffer, i, start, state, call>>
    BY <1>20 DEF ReadAll
  <2> QED BY <2>1, <2>2, <2>3 DEF Shape, buffer, call
<1>21. CASE ConsumeMore
  <2>1. out' \in Seq(Nat)
    BY <1>21, Delivered DEF ConsumeMore, Shape
  <2>2. /\ pc' = "inner" /\ dOff' = 0 /\ dLen' = 0
        /\ UNCHANGED <<stream, buffer, i, start, state, call>>
    BY <1>21 DEF ConsumeMore
  <2> QED BY <2>1, <2>2 DEF Shape, buffer, call
<1>22. CASE ReadNothing
  BY <1>22 DEF ReadNothing, Finish, Shape, buffer, dotReader, call
<1>23. CASE ConsumeEnds
  <2>1. pc' = "dot" /\ caller' = "perform"
        /\ UNCHANGED <<stream, buffer, i, start, out, dotReader, want>>
    BY <1>23 DEF ConsumeEnds
  <2> QED BY <2>1 DEF Shape, buffer, dotReader
<1> QED
  BY <1>1, <1>2, <1>3, <1>4, <1>5, <1>6, <1>7, <1>8, <1>9, <1>10, <1>11, <1>12, <1>13,
     <1>14, <1>15, <1>16, <1>17, <1>18, <1>19, <1>20, <1>21, <1>22, <1>23
  DEF Next, ReadLineB, Handler, Perform, innerRead, Returns

\* The flags, apart from everything that counts.
LEMMA FlagsStep == Flags /\ [Next]_vars => Flags'
BY DEF Flags, vars, Next, Accept, ReadLineB, Handler, Perform, innerRead, Returns, LineTop,
       LineByte, LineFound, LineRefill, LineEOF, HandlerDone, HandlerEnds, NewDotReader,
       PerformRead, PerformConsume, PerformReturns, InnerReady, InnerBuffered, InnerFeed,
       ScanByte, ScanFound, ScanDone, ReadPart, ReadAll, ReadNothing, ConsumeMore, ConsumeEnds,
       dotReader

\* Every variable keeps its type; in particular no index leaves the buffer.
THEOREM TypeCorrect == Spec => []TypeOK
<1>1. Init => Flags
  BY DEF Init, Flags
<1>2. Shape /\ Flags => TypeOK
  BY DEF TypeOK
<1> QED BY <1>1, <1>2, ShapeInit, ShapeStep, FlagsStep, PTL DEF Spec

-----------------------------------------------------------------------------
(***************************************************************************)
(* Conservation.  At any time the bytes read from the connection are, in   *)
(* this order and without a gap: those handed to the session, those        *)
(* DotReader.data holds, and those left in the buffer.                     *)
(***************************************************************************)
Ordered  == \A j \in 1 .. Len(out) : out[j] = j
DataNext == \A c \in Cells : c >= dOff /\ c < dOff + dLen => mem[c] = Len(out) + 1 + (c - dOff)
Buffered == \A c \in Cells : c >= pos /\ c < limit => mem[c] = Len(out) + dLen + 1 + (c - pos)

Conserved ==
  /\ Ordered
  /\ DataNext
  /\ Buffered
  /\ fed = Len(out) + dLen + (limit - pos)
  /\ pc \in {"line", "lscan", "handler", "scan", "copied", "closed"} => dLen = 0

LEMMA ShapeNumbers ==
  ASSUME Shape
  PROVE  /\ fed \in Nat /\ pos \in Nat /\ limit \in Nat /\ i \in Nat /\ start \in Nat
         /\ pos <= i /\ i <= limit /\ limit <= Size
         /\ dOff \in Nat /\ dLen \in Nat /\ dOff + dLen <= Size
         /\ Len(out) \in Nat /\ Len(stream) \in Nat /\ fed <= Len(stream)
         /\ Size \in Nat /\ want \in Nat /\ want > 0
<1>1. Len(out) \in Nat
  BY LenProperties DEF Shape
<1> QED BY <1>1, StreamsAreSequences, ConnReaderAssumption DEF Shape

\* Bytes handed on in their place keep the order.
LEMMA DeliveredInOrder ==
  ASSUME Shape, Ordered, NEW from \in 0 .. Size, NEW n \in Nat, from + n <= Size,
         Deliver(from, n),
         \A c \in Cells : c >= from /\ c < from + n => mem[c] = Len(out) + 1 + (c - from)
  PROVE  Ordered' /\ Len(out') = Len(out) + n
<1>1. /\ Len(out') = Len(out) + n
      /\ \A j \in 1 .. Len(out) : out'[j] = out[j]
      /\ \A j \in 1 .. n : out'[Len(out) + j] = mem[from + j - 1]
  BY Delivered DEF Shape
<1>2. Len(out) \in Nat /\ Size \in Nat
  BY ShapeNumbers
<1>3. ASSUME NEW k \in 1 .. Len(out) + n PROVE out'[k] = k
  <2>1. CASE k <= Len(out)
    BY <1>1, <1>2, <2>1 DEF Ordered
  <2>2. CASE k > Len(out)
    <3> DEFINE j == k - Len(out)
               c == from + j - 1
    <3>1. j \in 1 .. n /\ c \in Cells /\ c >= from /\ c < from + n /\ Len(out) + j = k
      BY <1>2, <2>2 DEF Cells
    <3>2. out'[Len(out) + j] = mem[c]
      BY <1>1, <3>1
    <3>3. mem[c] = Len(out) + 1 + (c - from)
      BY <3>1
    <3>4. Len(out) + 1 + (c - from) = k
      BY <1>2
    <3> QED BY <3>1, <3>2, <3>3, <3>4
  <2> QED BY <1>2, <2>1, <2>2
<1> QED BY <1>1, <1>3 DEF Ordered

LEMMA NothingBetween == \A d \in Nat : \A c \in Int : ~ (c >= d /\ c < d + 0)
OBVIOUS

\* A refill of a buffer with nothing in it that is still wanted.
LEMMA RefillConserves ==
  ASSUME Shape, NEW n \in 0 .. Size, Feed(n), fed = Len(out'), dOff' \in Nat, dLen' = 0,
         Ordered'
  PROVE  (Ordered /\ DataNext /\ Buffered /\ fed = Len(out) + dLen + (limit - pos))'
<1>1. /\ pos' = 0 /\ limit' = n /\ fed' = fed + n
      /\ \A c \in Cells : mem'[c] = IF c < n THEN fed + c + 1 ELSE mem[c]
  BY FeedTypes
<1>2. fed \in Nat
  BY ShapeNumbers
<1>3. Buffered'
  BY <1>1, <1>2 DEF Buffered, Cells
<1>6. Cells \subseteq Int
  BY ConnReaderAssumption DEF Cells
<1>7. \A c \in Int : ~ (c >= dOff' /\ c < dOff' + 0)
  BY NothingBetween
<1>4. \A c \in Cells : ~ (c >= dOff' /\ c < dOff' + dLen')
  BY <1>6, <1>7
<1>5. DataNext'
  BY <1>4 DEF DataNext, Cells
<1> QED BY <1>1, <1>2, <1>3, <1>5

LEMMA ConservedInit == Init => Conserved
BY ConnReaderAssumption DEF Init, Conserved, Ordered, DataNext, Buffered, Cells

LEMMA ConservedStep == Shape /\ Conserved /\ [Next]_vars => Conserved'
<1> SUFFICES ASSUME Shape, Conserved, [Next]_vars PROVE Conserved'
  OBVIOUS
<1> USE DEF Conserved
<1>n. /\ fed \in Nat /\ pos \in Nat /\ limit \in Nat /\ i \in Nat
      /\ pos <= i /\ i <= limit /\ limit <= Size
      /\ dOff \in Nat /\ dLen \in Nat /\ dOff + dLen <= Size
      /\ Len(out) \in Nat /\ Size \in Nat /\ want \in Nat /\ want > 0
  BY ShapeNumbers
\* Steps that move no byte.
<1>q. ASSUME UNCHANGED <<buffer, out, dOff, dLen>>,
             pc' \in {"line", "lscan", "handler", "scan", "copied", "closed"} => dLen = 0
      PROVE  Conserved'
  BY <1>q DEF buffer, Ordered, DataNext, Buffered
<1>1. CASE UNCHANGED vars
  BY <1>1, <1>q DEF vars, buffer
<1>2. CASE Accept
  <2>1. /\ fed' = 0 /\ pos' = 0 /\ limit' = 0 /\ out' = <<>> /\ dOff' = 0 /\ dLen' = 0
    BY <1>2 DEF Accept
  <2> QED BY <2>1 DEF Ordered, DataNext, Buffered, Cells
<1>3. CASE LineTop \/ LineByte
  BY <1>3, <1>q DEF LineTop, LineByte, dotReader, buffer
<1>4. CASE LineFound
  <2>1. /\ Deliver(pos, i + 1 - pos) /\ pos' = i + 1 /\ i < limit /\ dLen = 0
        /\ UNCHANGED <<fed, mem, limit, dOff, dLen>>
    BY <1>4 DEF LineFound, dotReader
  <2>2. i + 1 - pos \in Nat /\ pos \in 0 .. Size /\ pos + (i + 1 - pos) <= Size
    BY <1>n, <2>1
  <2>3. \A c \in Cells : c >= pos /\ c < pos + (i + 1 - pos) => mem[c] = Len(out) + 1 + (c - pos)
    BY <1>n, <2>1 DEF Buffered, Cells
  <2>4. Ordered' /\ Len(out') = Len(out) + (i + 1 - pos)
    BY <2>1, <2>2, <2>3, DeliveredInOrder
  <2>5. Buffered'
    BY <1>n, <2>1, <2>4 DEF Buffered, Cells
  <2>6. DataNext'
    BY <1>n, <2>1 DEF DataNext, Cells
  <2> QED BY <1>n, <2>1, <2>4, <2>5, <2>6
<1>5. CASE LineRefill \/ LineEOF
  <2>1. /\ Deliver(pos, limit - pos) /\ dLen = 0 /\ dOff' = dOff /\ dLen' = dLen
        /\ \E n \in 0 .. Size : Feed(n)
    BY <1>5 DEF LineRefill, LineEOF, dotReader
  <2>2. limit - pos \in Nat /\ pos \in 0 .. Size /\ pos + (limit - pos) <= Size
    BY <1>n
  <2>3. \A c \in Cells : c >= pos /\ c < pos + (limit - pos) => mem[c] = Len(out) + 1 + (c - pos)
    BY <1>n, <2>1 DEF Buffered, Cells
  <2>4. Ordered' /\ Len(out') = Len(out) + (limit - pos)
    BY <2>1, <2>2, <2>3, DeliveredInOrder
  <2>5. PICK n \in 0 .. Size : Feed(n)
    BY <2>1
  <2>6. fed = Len(out') /\ dOff' \in Nat /\ dLen' = 0
    BY <1>n, <2>1, <2>4
  <2> QED BY <2>4, <2>5, <2>6, RefillConserves
<1>6. CASE HandlerDone \/ HandlerEnds
  BY <1>6, <1>q DEF HandlerDone, HandlerEnds, dotReader, buffer
<1>7. CASE NewDotReader
  <2>1. dOff' = 0 /\ dLen' = 0 /\ dLen = 0 /\ UNCHANGED <<buffer, out>>
    BY <1>7 DEF NewDotReader
  <2>2. DataNext'
    BY <2>1 DEF DataNext, Cells
  <2> QED BY <2>1, <2>2 DEF buffer, Ordered, Buffered
<1>8. CASE PerformRead \/ PerformConsume \/ PerformReturns
  BY <1>8, <1>q DEF PerformRead, PerformConsume, PerformReturns, dotReader, buffer
<1>9. CASE InnerReady \/ InnerBuffered
  BY <1>9, <1>q DEF InnerReady, InnerBuffered, dotReader, buffer
<1>10. CASE InnerFeed
  <2>1. PICK n \in 0 .. Size : Feed(n)
    BY <1>10 DEF InnerFeed
  <2>2. dLen = 0 /\ pos = limit /\ UNCHANGED <<out, dOff, dLen>>
    BY <1>10 DEF InnerFeed
  <2>3. fed = Len(out') /\ dOff' \in Nat /\ dLen' = 0 /\ Ordered'
    BY <1>n, <2>2 DEF Ordered
  <2> QED BY <2>1, <2>3, RefillConserves
<1>11. CASE ScanByte
  BY <1>11, <1>q DEF ScanByte, buffer
<1>12. CASE ScanFound
  <2>1. /\ dLen = 0 /\ i < limit
        /\ dOff' = pos /\ dLen' = i + 1 - pos /\ pos' = i + 1 /\ pc' = "ret"
        /\ UNCHANGED <<fed, mem, limit, out>>
    BY <1>12 DEF ScanFound
  <2>2. Ordered' /\ DataNext' /\ Buffered'
    BY <1>n, <2>1 DEF Ordered, DataNext, Buffered, Cells
  <2> QED BY <1>n, <2>1, <2>2
<1>13. CASE ScanDone
  <2>1. /\ dLen = 0
        /\ dOff' = pos /\ dLen' = limit - pos /\ pos' = 0 /\ limit' = 0 /\ pc' = "ret"
        /\ UNCHANGED <<fed, mem, out>>
    BY <1>13 DEF ScanDone
  <2>2. Ordered' /\ DataNext' /\ Buffered'
    BY <1>n, <2>1 DEF Ordered, DataNext, Buffered, Cells
  <2> QED BY <1>n, <2>1, <2>2
<1>14. CASE ReadPart
  <2>1. /\ Deliver(dOff, want) /\ dLen > want
        /\ dOff' = dOff + want /\ dLen' = dLen - want /\ pc' \in {"inner", "dot"}
        /\ UNCHANGED buffer
    BY <1>14 DEF ReadPart, Resume
  <2>2. dOff \in 0 .. Size /\ dOff + want <= Size
    BY <1>n, <2>1
  <2>3. \A c \in Cells : c >= dOff /\ c < dOff + want => mem[c] = Len(out) + 1 + (c - dOff)
    BY <1>n, <2>1 DEF DataNext, Cells
  <2>4. Ordered' /\ Len(out') = Len(out) + want
    BY <1>n, <2>1, <2>2, <2>3, DeliveredInOrder
  <2>5. DataNext' /\ Buffered'
    BY <1>n, <2>1, <2>4 DEF DataNext, Buffered, Cells, buffer
  <2> QED BY <1>n, <2>1, <2>4, <2>5 DEF buffer
<1>15. CASE ReadAll \/ ConsumeMore
  <2>1. Deliver(dOff, dLen) /\ dOff' = 0 /\ dLen' = 0 /\ UNCHANGED buffer
    BY <1>15 DEF ReadAll, ConsumeMore
  <2>2. dOff \in 0 .. Size
    BY <1>n
  <2>3. Ordered' /\ Len(out') = Len(out) + dLen
    BY <1>n, <2>1, <2>2, DeliveredInOrder DEF DataNext
  <2>4. DataNext' /\ Buffered'
    BY <1>n, <2>1, <2>3 DEF DataNext, Buffered, Cells, buffer
  <2> QED BY <1>n, <2>1, <2>3, <2>4 DEF buffer
<1>16. CASE ReadNothing
  BY <1>16, <1>q DEF ReadNothing, dotReader, buffer
<1>17. CASE ConsumeEnds
  <2>1. UNCHANGED <<buffer, out, dOff, dLen>> /\ pc' = "dot"
    BY <1>17 DEF ConsumeEnds, dotReader
  <2> QED BY <1>q, <2>1
<1> QED
  BY <1>1, <1>2, <1>3, <1>4, <1>5, <1>6, <1>7, <1>8, <1>9, <1>10, <1>11, <1>12, <1>13,
     <1>14, <1>15, <1>16, <1>17
  DEF Next, ReadLineB, Handler, Perform, innerRead, Returns

THEOREM BytesConserved == Spec => [](Shape /\ Conserved)
BY ShapeInit, ShapeStep, ConservedInit, ConservedStep, PTL DEF Spec

\* The session is handed every byte of its connection once and in the order
\* sent, for every size of the buffer and of the reads and every chunking.
THEOREM DeliveryInOrder == Spec => []InOrder
<1>1. Shape /\ Conserved => InOrder
  <2> SUFFICES ASSUME Shape, Conserved PROVE out = [j \in 1 .. Len(out) |-> j]
    BY DEF InOrder
  <2>1. out = [j \in 1 .. Len(out) |-> out[j]]
    BY LenProperties DEF Shape
  <2> QED BY <2>1 DEF Conserved, Ordered
<1> QED BY <1>1, BytesConserved, PTL

\* No refill of the shared buffer overwrites bytes DotReader.data points to.
THEOREM DataStaysIntact == Spec => []DataIntact
<1>1. Shape /\ Conserved => DataIntact
  <2> SUFFICES ASSUME Shape, Conserved, NEW j \in 1 .. dLen
               PROVE  mem[dOff + j - 1] = Len(out) + j
    BY DEF DataIntact
  <2> DEFINE c == dOff + j - 1
  <2>1. /\ dOff \in Nat /\ dLen \in Nat /\ dOff + dLen <= Size /\ Size \in Nat
        /\ Len(out) \in Nat
    BY ShapeNumbers
  <2>2. c \in Cells /\ c >= dOff /\ c < dOff + dLen /\ Len(out) + 1 + (c - dOff) = Len(out) + j
    BY <2>1 DEF Cells
  <2>3. mem[c] = Len(out) + 1 + (c - dOff)
    BY <2>2 DEF Conserved, DataNext
  <2> QED BY <2>2, <2>3
<1> QED BY <1>1, BytesConserved, PTL

-----------------------------------------------------------------------------
(***************************************************************************)
(* Lines.  While a line is collected, no line feed has passed.             *)
(***************************************************************************)
NoLineFeed(a, p) == \A k \in a+1 .. p : stream[k] # "lf"

LineFrame ==
  /\ start <= Len(out)
  /\ pc = "line"    => NoLineFeed(start, Len(out))
  /\ pc = "lscan"   => NoLineFeed(start, Len(out) + (i - pos))
  /\ pc = "handler" => IsLineEnd(stream, start, Len(out))

\* The byte the loops look at is the next one of the stream.
LEMMA NextByte ==
  ASSUME Shape, Conserved, pc \in {"lscan", "scan"}, i < limit
  PROVE  /\ mem[i] = Len(out) + (i - pos) + 1
         /\ Len(out) + (i - pos) < Len(stream)
<1>1. /\ fed \in Nat /\ pos \in Nat /\ limit \in Nat /\ i \in Nat /\ Size \in Nat
      /\ pos <= i /\ limit <= Size /\ Len(out) \in Nat /\ Len(stream) \in Nat
      /\ fed <= Len(stream)
  BY ShapeNumbers
<1>2. dLen = 0 /\ fed = Len(out) + dLen + (limit - pos)
  BY DEF Conserved
<1>3. i \in Cells /\ i >= pos
  BY <1>1 DEF Cells
<1>4. mem[i] = Len(out) + dLen + 1 + (i - pos)
  BY <1>3 DEF Conserved, Buffered
<1> QED BY <1>1, <1>2, <1>4

LEMMA LineFrameStep == Shape /\ Conserved /\ LineFrame /\ [Next]_vars => LineFrame'
<1> SUFFICES ASSUME Shape, Conserved, LineFrame, [Next]_vars PROVE LineFrame'
  OBVIOUS
<1>n. /\ fed \in Nat /\ pos \in Nat /\ limit \in Nat /\ i \in Nat /\ start \in Nat
      /\ pos <= i /\ i <= limit /\ limit <= Size
      /\ dOff \in Nat /\ dLen \in Nat /\ dOff + dLen <= Size
      /\ Len(out) \in Nat /\ Len(stream) \in Nat /\ Size \in Nat /\ want \in Nat /\ want > 0
  BY ShapeNumbers
\* Steps of an article leave the frame of lines behind.
<1>q. ASSUME start' = start, Len(out') \in Nat, Len(out) <= Len(out'),
             pc' \notin {"line", "lscan", "handler"}
      PROVE  LineFrame'
  BY <1>n, <1>q DEF LineFrame
<1>d. ASSUME NEW from \in 0 .. Size, NEW n \in Nat, from + n <= Size, Deliver(from, n)
      PROVE  Len(out') = Len(out) + n
  BY <1>d, Delivered DEF Shape
<1>1. CASE UNCHANGED vars
  BY <1>1 DEF vars, LineFrame, NoLineFeed
<1>2. CASE Accept
  <2>1. start' = 0 /\ out' = <<>> /\ pc' = "line"
    BY <1>2 DEF Accept
  <2> QED BY <2>1 DEF LineFrame, NoLineFeed
<1>3. CASE LineTop
  <2>1. /\ pc = "line" /\ pc' = "lscan" /\ i' = pos /\ pos' = pos
        /\ UNCHANGED <<stream, start, out>>
    BY <1>3 DEF LineTop, buffer
  <2>2. Len(out) + (i' - pos') = Len(out)
    BY <1>n, <2>1
  <2>3. NoLineFeed(start, Len(out))' /\ start' <= Len(out')
    BY <2>1 DEF LineFrame, NoLineFeed
  <2> QED BY <2>1, <2>2, <2>3 DEF LineFrame, NoLineFeed
<1>4. CASE LineByte
  <2>1. /\ pc = "lscan" /\ pc' = "lscan" /\ i < limit /\ i' = i + 1 /\ pos' = pos
        /\ stream[mem[i]] # "lf" /\ UNCHANGED <<stream, start, out>>
    BY <1>4 DEF LineByte, buffer
  <2>2. stream[Len(out) + (i - pos) + 1] # "lf"
    BY <2>1, NextByte
  <2>3. Len(out) + (i' - pos') = Len(out) + (i - pos) + 1
    BY <1>n, <2>1
  <2>4. NoLineFeed(start, Len(out) + (i - pos) + 1)
    BY <1>n, <2>1, <2>2 DEF LineFrame, NoLineFeed
  <2> QED BY <2>1, <2>3, <2>4 DEF LineFrame, NoLineFeed
<1>5. CASE LineFound
  <2>1. /\ pc = "lscan" /\ pc' = "handler" /\ i < limit /\ stream[mem[i]] = "lf"
        /\ Deliver(pos, i + 1 - pos) /\ UNCHANGED <<stream, start>>
    BY <1>5 DEF LineFound
  <2>2. Len(out') = Len(out) + (i - pos) + 1
    <3>1. i + 1 - pos \in Nat /\ pos \in 0 .. Size /\ pos + (i + 1 - pos) <= Size
      BY <1>n, <2>1
    <3> QED BY <1>d, <1>n, <2>1, <3>1
  <2>3. mem[i] = Len(out) + (i - pos) + 1 /\ Len(out) + (i - pos) < Len(stream)
    BY <2>1, NextByte
  <2>4. NoLineFeed(start, Len(out) + (i - pos)) /\ start <= Len(out)
    BY <2>1 DEF LineFrame
  <2>5. IsLineEnd(stream, start, Len(out) + (i - pos) + 1)
    BY <1>n, <2>1, <2>3, <2>4 DEF IsLineEnd, NoLineFeed
  <2>6. start' <= Len(out') /\ IsLineEnd(stream, start, Len(out))'
    BY <1>n, <2>1, <2>2, <2>4, <2>5
  <2> QED BY <2>1, <2>6 DEF LineFrame
<1>6. CASE LineRefill \/ LineEOF
  <2>1. /\ pc = "lscan" /\ pc' \in {"line", "closed"} /\ i = limit
        /\ Deliver(pos, limit - pos) /\ UNCHANGED <<stream, start>>
    BY <1>6 DEF LineRefill, LineEOF
  <2>2. Len(out') = Len(out) + (i - pos)
    <3>1. limit - pos \in Nat /\ pos \in 0 .. Size /\ pos + (limit - pos) <= Size
      BY <1>n
    <3> QED BY <1>d, <1>n, <2>1, <3>1
  <2>3. NoLineFeed(start, Len(out))' /\ start' <= Len(out')
    BY <1>n, <2>1, <2>2 DEF LineFrame, NoLineFeed
  <2> QED BY <2>1, <2>3 DEF LineFrame
<1>7. CASE HandlerDone \/ HandlerEnds
  <2>1. start' = Len(out) /\ out' = out /\ pc' \in {"line", "closed"}
    BY <1>7 DEF HandlerDone, HandlerEnds
  <2> QED BY <1>n, <2>1 DEF LineFrame, NoLineFeed
<1>8. CASE NewDotReader
  <2>1. start' = Len(out) /\ out' = out /\ pc' = "dot"
    BY <1>8 DEF NewDotReader
  <2> QED BY <1>n, <2>1 DEF LineFrame
<1>9. CASE Perform \/ innerRead \/ ReadNothing \/ ConsumeEnds
  <2>1. start' = start /\ out' = out /\ pc' \in {"dot", "inner", "scan", "ret", "copied"}
    BY <1>9 DEF Perform, innerRead, PerformRead, PerformConsume, PerformReturns, InnerReady,
                InnerBuffered, InnerFeed, ScanByte, ScanFound, ScanDone, ReadNothing, Finish,
                ConsumeEnds
  <2> QED BY <1>n, <1>q, <2>1
<1>10. CASE ReadPart
  <2>1. /\ start' = start /\ Deliver(dOff, want) /\ dLen > want /\ pc' \in {"dot", "inner"}
    BY <1>10 DEF ReadPart, Resume
  <2>2. dOff \in 0 .. Size /\ dOff + want <= Size
    BY <1>n, <2>1
  <2> QED BY <1>d, <1>n, <1>q, <2>1, <2>2
<1>11. CASE ReadAll \/ ConsumeMore
  <2>1. start' = start /\ Deliver(dOff, dLen) /\ pc' \in {"dot", "inner", "copied"}
    BY <1>11 DEF ReadAll, ConsumeMore, Resume, Finish
  <2>2. dOff \in 0 .. Size
    BY <1>n
  <2> QED BY <1>d, <1>n, <1>q, <2>1, <2>2
<1> QED
  BY <1>1, <1>2, <1>3, <1>4, <1>5, <1>6, <1>7, <1>8, <1>9, <1>10, <1>11
  DEF Next, ReadLineB, Handler, Returns

LEMMA LineFrameInit == Init => LineFrame
BY DEF Init, LineFrame, NoLineFeed

\* Every command line a handler gets ends with its first line feed, and begins
\* where the line or the article before it has ended.
THEOREM LinesExact == Spec => []LineExact
<1>1. LineFrame => LineExact
  BY DEF LineFrame, LineExact
<1> QED BY <1>1, BytesConserved, LineFrameInit, LineFrameStep, PTL DEF Spec

-----------------------------------------------------------------------------
(***************************************************************************)
(* Articles.  The automaton has seen the bytes handed on, those of         *)
(* DotReader.data and those the loop has passed; it keeps track of them,   *)
(* or its end flag is set and they are the article.                        *)
(***************************************************************************)
SoFar(p) == IF dEnd THEN IsArticleEnd(stream, start, p) ELSE Tracks(state, stream, start, p)

ArticleFrame ==
  /\ pc \in {"dot", "inner", "ret", "copied"} => SoFar(Len(out) + dLen)
  /\ pc = "scan" => ~ dEnd /\ Tracks(state, stream, start, Len(out) + (i - pos))

LEMMA ArticleFrameStep ==
  Shape /\ Conserved /\ LineFrame /\ ArticleFrame /\ [Next]_vars => ArticleFrame'
<1> SUFFICES ASSUME Shape, Conserved, LineFrame, ArticleFrame, [Next]_vars PROVE ArticleFrame'
  OBVIOUS
<1>n. /\ pos \in Nat /\ limit \in Nat /\ i \in Nat /\ start \in Nat
      /\ pos <= i /\ i <= limit /\ limit <= Size
      /\ dOff \in Nat /\ dLen \in Nat /\ dOff + dLen <= Size
      /\ Len(out) \in Nat /\ Len(stream) \in Nat /\ Size \in Nat /\ want \in Nat /\ want > 0
  BY ShapeNumbers
\* Steps after which as much of the article has been seen as before.
<1>q. ASSUME UNCHANGED <<stream, start, state, dEnd>>,
             pc \in {"dot", "inner", "ret", "copied"}, pc' # "scan",
             Len(out') + dLen' = Len(out) + dLen
      PROVE  ArticleFrame'
  <2>1. SoFar(Len(out) + dLen)
    BY <1>q DEF ArticleFrame
  <2>2. SoFar(Len(out) + dLen)'
    BY <1>q, <2>1 DEF SoFar
  <2> QED BY <1>q, <2>2 DEF ArticleFrame
\* Steps outside of an article.
<1>o. ASSUME pc' \in {"line", "lscan", "handler", "closed"} PROVE ArticleFrame'
  BY <1>o DEF ArticleFrame
<1>d. ASSUME NEW from \in 0 .. Size, NEW n \in Nat, from + n <= Size, Deliver(from, n)
      PROVE  Len(out') = Len(out) + n
  BY <1>d, Delivered DEF Shape
\* What the automaton makes of the next byte.
<1>a. ASSUME pc = "scan", i < limit
      PROVE  LET p == Len(out) + (i - pos)
                 r == nlDotNl_transition(state, stream[mem[i]])
             IN  IF r = nlDotNl_end THEN IsArticleEnd(stream, start, p + 1)
                                    ELSE Tracks(r, stream, start, p + 1)
  <2> DEFINE p == Len(out) + (i - pos)
  <2>1. mem[i] = p + 1 /\ p < Len(stream)
    BY <1>a, NextByte
  <2>2. p \in Nat /\ start \in Nat /\ start <= p
    BY <1>n DEF LineFrame
  <2>3. stream \in Seq(Symbols) /\ Tracks(state, stream, start, p)
    BY <1>a, StreamsAreSequences DEF ArticleFrame
  <2> HIDE DEF p
  <2>4. IF nlDotNl_transition(state, stream[p + 1]) = nlDotNl_end
        THEN IsArticleEnd(stream, start, p + 1)
        ELSE Tracks(nlDotNl_transition(state, stream[p + 1]), stream, start, p + 1)
    BY <2>1, <2>2, <2>3, AutomatonTracks
  <2> QED BY <2>1, <2>4 DEF p
<1>1. CASE UNCHANGED vars
  BY <1>1 DEF vars, ArticleFrame, SoFar
<1>2. CASE Accept \/ ReadLineB \/ HandlerDone \/ HandlerEnds
  <2>1. pc' \in {"line", "lscan", "handler", "closed"}
    BY <1>2 DEF Accept, ReadLineB, LineTop, LineByte, LineFound, LineRefill, LineEOF,
                HandlerDone, HandlerEnds
  <2> QED BY <1>o, <2>1
<1>3. CASE NewDotReader
  <2>1. /\ start' = Len(out) /\ out' = out /\ dLen' = 0 /\ dEnd' = FALSE /\ pc' = "dot"
        /\ state' = nlDotNl_start /\ stream' = stream
    BY <1>3 DEF NewDotReader
  <2>2. Tracks(nlDotNl_start, stream, Len(out), Len(out))
    BY <1>n, StreamsAreSequences, TracksStart
  <2>3. Len(out') + dLen' = Len(out)
    BY <1>n, <2>1
  <2>4. SoFar(Len(out) + dLen)'
    BY <2>1, <2>2, <2>3 DEF SoFar
  <2> QED BY <2>1, <2>4 DEF ArticleFrame
<1>4. CASE Perform \/ InnerReady \/ ReadNothing \/ ConsumeEnds
  <2>1. /\ pc \in {"dot", "inner", "ret"} /\ pc' \in {"inner", "ret", "dot", "copied"}
        /\ UNCHANGED <<stream, start, state, dEnd, out, dLen>>
    BY <1>4 DEF Perform, PerformRead, PerformConsume, PerformReturns, InnerReady, ReadNothing,
                Finish, ConsumeEnds, dotReader
  <2> QED BY <1>q, <2>1
<1>5. CASE InnerBuffered \/ InnerFeed
  <2>1. /\ pc = "inner" /\ ~ dEnd /\ dLen = 0 /\ pc' = "scan"
        /\ UNCHANGED <<stream, start, state, dEnd, out>>
    BY <1>5 DEF InnerBuffered, InnerFeed, dotReader
  <2>2. i' = pos' /\ pos' \in Nat
    BY <1>5, <1>n DEF InnerBuffered, InnerFeed, Feed, buffer
  <2>3. Tracks(state, stream, start, Len(out))
    BY <1>n, <2>1 DEF ArticleFrame, SoFar
  <2>4. Len(out') + (i' - pos') = Len(out)
    BY <1>n, <2>1, <2>2
  <2> QED BY <2>1, <2>3, <2>4 DEF ArticleFrame
<1>6. CASE ScanByte
  <2>1. /\ pc = "scan" /\ pc' = "scan" /\ i < limit /\ i' = i + 1 /\ pos' = pos
        /\ nlDotNl_transition(state, stream[mem[i]]) # nlDotNl_end
        /\ state' = nlDotNl_transition(state, stream[mem[i]])
        /\ UNCHANGED <<stream, start, dEnd, out>>
    BY <1>6 DEF ScanByte, buffer
  <2>2. Tracks(state', stream, start, Len(out) + (i - pos) + 1)
    BY <1>a, <2>1
  <2>3. Len(out') + (i' - pos') = Len(out) + (i - pos) + 1
    BY <1>n, <2>1
  <2> QED BY <2>1, <2>2, <2>3 DEF ArticleFrame
<1>7. CASE ScanFound
  <2>1. /\ pc = "scan" /\ pc' = "ret" /\ i < limit /\ dLen' = i + 1 - pos /\ dEnd' = TRUE
        /\ nlDotNl_transition(state, stream[mem[i]]) = nlDotNl_end
        /\ UNCHANGED <<stream, start, out>>
    BY <1>7 DEF ScanFound
  <2>2. IsArticleEnd(stream, start, Len(out) + (i - pos) + 1)
    BY <1>a, <2>1
  <2>3. Len(out') + dLen' = Len(out) + (i - pos) + 1
    BY <1>n, <2>1
  <2>4. SoFar(Len(out) + dLen)'
    BY <2>1, <2>2, <2>3 DEF SoFar
  <2> QED BY <2>1, <2>4 DEF ArticleFrame
<1>8. CASE ScanDone
  <2>1. /\ pc = "scan" /\ pc' = "ret" /\ i = limit /\ dLen' = limit - pos
        /\ UNCHANGED <<stream, start, out, state, dEnd>>
    BY <1>8 DEF ScanDone
  <2>2. ~ dEnd /\ Tracks(state, stream, start, Len(out) + (i - pos))
    BY <2>1 DEF ArticleFrame
  <2>3. Len(out') + dLen' = Len(out) + (i - pos)
    BY <1>n, <2>1
  <2>4. SoFar(Len(out) + dLen)'
    BY <2>1, <2>2, <2>3 DEF SoFar
  <2> QED BY <2>1, <2>4 DEF ArticleFrame
<1>9. CASE ReadPart
  <2>1. /\ pc = "ret" /\ pc' \in {"inner", "dot"} /\ Deliver(dOff, want) /\ dLen > want
        /\ dLen' = dLen - want /\ UNCHANGED <<stream, start, state, dEnd>>
    BY <1>9 DEF ReadPart, Resume
  <2>2. dOff \in 0 .. Size /\ dOff + want <= Size
    BY <1>n, <2>1
  <2>3. Len(out') = Len(out) + want
    BY <1>d, <1>n, <2>1, <2>2
  <2>4. Len(out') + dLen' = Len(out) + dLen
    BY <1>n, <2>1, <2>3
  <2> QED BY <1>q, <2>1, <2>4
<1>10. CASE ReadAll \/ ConsumeMore
  <2>1. /\ pc = "ret" /\ pc' \in {"inner", "dot", "copied"} /\ Deliver(dOff, dLen)
        /\ dLen' = 0 /\ UNCHANGED <<stream, start, state, dEnd>>
    BY <1>10 DEF ReadAll, ConsumeMore, Resume, Finish
  <2>2. dOff \in 0 .. Size
    BY <1>n
  <2>3. Len(out') = Len(out) + dLen
    BY <1>d, <1>n, <2>1, <2>2
  <2>4. Len(out') + dLen' = Len(out) + dLen
    BY <1>n, <2>1, <2>3
  <2> QED BY <1>q, <2>1, <2>4
<1> QED
  BY <1>1, <1>2, <1>3, <1>4, <1>5, <1>6, <1>7, <1>8, <1>9, <1>10
  DEF Next, Handler, innerRead, Returns

LEMMA ArticleFrameInit == Init => ArticleFrame
BY DEF Init, ArticleFrame

THEOREM FramesKept == Spec => [](Shape /\ Conserved /\ LineFrame /\ ArticleFrame)
BY ShapeInit, ShapeStep, ConservedInit, ConservedStep, LineFrameInit, LineFrameStep,
   ArticleFrameInit, ArticleFrameStep, PTL DEF Spec

-----------------------------------------------------------------------------
(***************************************************************************)
(* The end of the connection.  If Read of the connection never returns     *)
(* (0, nil), an article without a terminator ends only with the stream.    *)
(***************************************************************************)
Ended ==
  /\ dErr => fed = Len(stream)
  /\ pc = "scan" /\ pos = limit => dErr
  /\ pc \in {"dot", "inner", "ret"} /\ ~ dEnd /\ dLen > 0 => pos = limit
  /\ pc = "ret" /\ ~ dEnd /\ dLen = 0 => dErr /\ pos = limit
  /\ pc = "copied" /\ ~ dEnd => Len(out) = Len(stream)

LEMMA EndedStep ==
  ASSUME EmptyReads = FALSE
  PROVE  Shape /\ Conserved /\ Ended /\ [Next]_vars => Ended'
<1> SUFFICES ASSUME Shape, Conserved, Ended, [Next]_vars PROVE Ended'
  OBVIOUS
<1>n. /\ fed \in Nat /\ pos \in Nat /\ limit \in Nat /\ i \in Nat
      /\ pos <= i /\ i <= limit /\ limit <= Size
      /\ dOff \in Nat /\ dLen \in Nat /\ dOff + dLen <= Size
      /\ Len(out) \in Nat /\ Len(stream) \in Nat /\ fed <= Len(stream)
      /\ Size \in Nat /\ want \in Nat /\ want > 0
      /\ fed = Len(out) + dLen + (limit - pos)
  BY ShapeNumbers DEF Conserved
\* Steps of the lines keep what is known of the connection.
<1>l. ASSUME pc' \in {"line", "lscan", "handler", "closed"}, stream' = stream, dErr' = dErr,
             dErr => fed' = Len(stream)
      PROVE  Ended'
  BY <1>l DEF Ended
<1>f. ASSUME NEW n \in 0 .. Size, Feed(n), dErr PROVE fed' = Len(stream)
  <2>1. fed = Len(stream) /\ fed + n <= Len(stream) /\ fed' = fed + n
    BY <1>f DEF Ended, Feed
  <2> QED BY <1>n, <2>1
<1>1. CASE UNCHANGED vars
  BY <1>1 DEF vars, Ended
<1>2. CASE Accept
  <2>1. dErr' = FALSE /\ pc' = "line"
    BY <1>2 DEF Accept
  <2> QED BY <2>1 DEF Ended
<1>3. CASE LineTop \/ LineByte \/ LineFound \/ HandlerDone \/ HandlerEnds
  <2>1. /\ pc' \in {"line", "lscan", "handler", "closed"} /\ stream' = stream /\ dErr' = dErr
        /\ fed' = fed
    BY <1>3 DEF LineTop, LineByte, LineFound, HandlerDone, HandlerEnds, buffer, dotReader
  <2> QED BY <1>l, <2>1 DEF Ended
<1>4. CASE LineRefill \/ LineEOF
  <2>1. pc' \in {"line", "closed"} /\ stream' = stream /\ dErr' = dErr
    BY <1>4 DEF LineRefill, LineEOF, dotReader
  <2>2. PICK n \in 0 .. Size : Feed(n)
    BY <1>4 DEF LineRefill, LineEOF
  <2> QED BY <1>f, <1>l, <2>1, <2>2
<1>5. CASE NewDotReader
  <2>1. pc' = "dot" /\ dErr' = FALSE /\ dLen' = 0
    BY <1>5 DEF NewDotReader
  <2> QED BY <2>1 DEF Ended
<1>6. CASE Perform
  <2>1. /\ pc = "dot" /\ pc' = "inner"
        /\ UNCHANGED <<stream, fed, pos, limit, dLen, dEnd, dErr>>
    BY <1>6 DEF Perform, PerformRead, PerformConsume, PerformReturns, buffer, dotReader
  <2> QED BY <2>1 DEF Ended
<1>7. CASE InnerReady
  <2>1. /\ pc = "inner" /\ pc' = "ret" /\ (dEnd \/ dLen > 0)
        /\ UNCHANGED <<stream, fed, pos, limit, dLen, dEnd, dErr>>
    BY <1>7 DEF InnerReady, buffer, dotReader
  <2> QED BY <1>n, <2>1 DEF Ended
<1>8. CASE InnerBuffered
  <2>1. /\ pc' = "scan" /\ pos < limit
        /\ UNCHANGED <<stream, fed, pos, limit, dErr>>
    BY <1>8 DEF InnerBuffered, buffer, dotReader
  <2> QED BY <1>n, <2>1 DEF Ended
<1>9. CASE InnerFeed
  <2>1. PICK n \in 0 .. Size : /\ Feed(n)
                               /\ \/ ReadsOK(n)  /\ dErr' = dErr
                                  \/ ReadsEOF(n) /\ dErr' = TRUE
    BY <1>9 DEF InnerFeed
  <2>2. pc' = "scan" /\ stream' = stream
    BY <1>9 DEF InnerFeed
  <2>3. pos' = 0 /\ limit' = n /\ fed' = fed + n
    BY <2>1 DEF Feed
  <2>4. CASE ReadsOK(n) /\ dErr' = dErr
    <3>1. n > 0
      BY <2>4 DEF ReadsOK
    <3>2. dErr => fed' = Len(stream)
      BY <1>f, <2>1
    <3> QED BY <2>2, <2>3, <2>4, <3>1, <3>2 DEF Ended
  <2>5. CASE ReadsEOF(n) /\ dErr' = TRUE
    <3>1. fed' = Len(stream)
      BY <2>3, <2>5 DEF ReadsEOF
    <3> QED BY <2>2, <2>5, <3>1 DEF Ended
  <2> QED BY <2>1, <2>4, <2>5
<1>10. CASE ScanByte
  <2>1. /\ pc = "scan" /\ pc' = "scan"
        /\ UNCHANGED <<stream, fed, pos, limit, dErr>>
    BY <1>10 DEF ScanByte, buffer
  <2> QED BY <2>1 DEF Ended
<1>11. CASE ScanFound
  <2>1. /\ pc' = "ret" /\ dEnd' = TRUE /\ UNCHANGED <<stream, fed, dErr>>
    BY <1>11 DEF ScanFound
  <2> QED BY <2>1 DEF Ended
<1>12. CASE ScanDone
  <2>1. /\ pc = "scan" /\ pc' = "ret" /\ dLen' = limit - pos /\ pos' = 0 /\ limit' = 0
        /\ UNCHANGED <<stream, fed, dErr>>
    BY <1>12 DEF ScanDone
  <2>2. dLen' = 0 => pos = limit
    BY <1>n, <2>1
  <2> QED BY <2>1, <2>2 DEF Ended
<1>13. CASE ReadPart
  <2>1. /\ pc = "ret" /\ pc' \in {"inner", "dot"} /\ dLen > want
        /\ UNCHANGED <<stream, fed, pos, limit, dEnd, dErr>>
    BY <1>13 DEF ReadPart, Resume, buffer
  <2>2. dLen > 0
    BY <1>n, <2>1
  <2> QED BY <2>1, <2>2 DEF Ended
<1>14. CASE ReadAll
  <2>1. /\ dLen' = 0 /\ UNCHANGED <<stream, fed, dEnd, dErr>>
    BY <1>14 DEF ReadAll, buffer
  <2>2. pc' \in {"inner", "dot", "copied"} /\ (pc' = "copied" => dEnd)
    BY <1>14 DEF ReadAll, Resume, Finish
  <2> QED BY <2>1, <2>2 DEF Ended
<1>15. CASE ReadNothing
  <2>1. /\ pc = "ret" /\ dLen = 0 /\ pc' \in {"dot", "copied"}
        /\ UNCHANGED <<stream, fed, pos, limit, out, dLen, dEnd, dErr>>
    BY <1>15 DEF ReadNothing, Finish, buffer, dotReader
  <2>2. ~ dEnd => Len(out) = Len(stream)
    <3>1. ~ dEnd => fed = Len(stream) /\ pos = limit
      BY <2>1 DEF Ended
    <3> QED BY <1>n, <2>1, <3>1
  <2> QED BY <2>1, <2>2 DEF Ended
<1>16. CASE ConsumeMore
  <2>1. /\ dLen' = 0 /\ pc' = "inner" /\ UNCHANGED <<stream, fed, dErr>>
    BY <1>16 DEF ConsumeMore, buffer
  <2> QED BY <2>1 DEF Ended
<1>17. CASE ConsumeEnds
  <2>1. /\ pc = "ret" /\ pc' = "dot"
        /\ UNCHANGED <<stream, fed, pos, limit, dLen, dEnd, dErr>>
    BY <1>17 DEF ConsumeEnds, buffer, dotReader
  <2> QED BY <2>1 DEF Ended
<1> QED
  BY <1>1, <1>2, <1>3, <1>4, <1>5, <1>6, <1>7, <1>8, <1>9, <1>10, <1>11, <1>12, <1>13,
     <1>14, <1>15, <1>16, <1>17
  DEF Next, ReadLineB, Handler, innerRead, Returns

LEMMA EndedInit == Init => Ended
BY DEF Init, Ended

\* When POST, IHAVE or TAKETHIS answers, the input is exactly behind the
\* article, for every buffer size, chunking and way PerformPost has read it.
THEOREM ArticlesExact == ASSUME EmptyReads = FALSE PROVE Spec => []ArticleExact
<1>1. Shape /\ Conserved /\ ArticleFrame /\ Ended => ArticleExact
  <2> SUFFICES ASSUME Shape, Conserved, ArticleFrame, Ended, pc = "copied"
               PROVE  IF dEnd THEN IsArticleEnd(stream, start, Len(out))
                              ELSE /\ Len(out) = Len(stream)
                                   /\ NoTerminator(stream, start, Len(stream))
    BY DEF ArticleExact
  <2>1. Len(out) + dLen = Len(out)
    BY ShapeNumbers DEF Conserved
  <2>2. SoFar(Len(out))
    BY <2>1 DEF ArticleFrame
  <2> QED BY <2>2 DEF SoFar, Tracks, Ended
<1>2. Shape /\ Conserved /\ Ended /\ [Next]_vars => Ended'
  BY EndedStep
<1> QED BY <1>1, <1>2, FramesKept, EndedInit, PTL DEF Spec

\* A connection that reports its end apart from the last bytes ends no session
\* with a complete command in the buffer.
LosesNoLine ==
  pc = "lscan" /\ pc' = "closed" => \A e \in 1 .. Len(stream) : ~ IsLineEnd(stream, start, e)

THEOREM NoLineIsLost == ASSUME EofWithData = FALSE PROVE Spec => NoLineLost
<1>1. Shape /\ Conserved /\ LineFrame /\ [Next]_vars => LosesNoLine
  <2> SUFFICES ASSUME Shape, Conserved, LineFrame, [Next]_vars, pc = "lscan", pc' = "closed",
                      NEW e \in 1 .. Len(stream), IsLineEnd(stream, start, e)
               PROVE  FALSE
    BY DEF LosesNoLine
  <2>1. LineEOF
    BY DEF Next, vars, Accept, ReadLineB, LineTop, LineByte, LineFound, LineRefill, Handler,
           HandlerDone, HandlerEnds, NewDotReader, Perform, PerformRead, PerformConsume,
           PerformReturns, innerRead, InnerReady, InnerBuffered, InnerFeed, ScanByte, ScanFound,
           ScanDone, Returns, ReadPart, ReadAll, ReadNothing, ConsumeMore, ConsumeEnds
  <2>2. i = limit /\ fed = Len(stream)
    BY <2>1, ShapeNumbers DEF LineEOF, ReadsEOF
  <2>3. Len(out) + (i - pos) = Len(stream)
    BY <2>2, ShapeNumbers DEF Conserved
  <2>4. NoLineFeed(start, Len(stream))
    BY <2>3 DEF LineFrame
  <2>5. e \in start+1 .. Len(stream) /\ stream[e] = "lf"
    BY DEF IsLineEnd
  <2> QED BY <2>4, <2>5 DEF NoLineFeed
<1>2. (Spec => [][LosesNoLine]_vars) => (Spec => NoLineLost)
  BY DEF NoLineLost, LosesNoLine
<1> QED BY <1>1, <1>2, FramesKept, PTL DEF Spec

-----------------------------------------------------------------------------
(***************************************************************************)
(* Refinement.  The steps that end a line or an article are the steps of   *)
(* Framing; what happens inside of them stutters.                          *)
(***************************************************************************)
At == IF pc \in {"handler", "copied"} THEN Len(out) ELSE start

InLineLoop == pc \in {"line", "lscan"}
InArticle  == pc \in {"dot", "inner", "scan", "ret"}

LEMMA ModeValues ==
  /\ InLineLoop     => Mode = "line"    /\ At = start
  /\ InArticle      => Mode = "article" /\ At = start
  /\ pc = "handler" => Mode = "handler" /\ At = Len(out)
  /\ pc = "copied"  => Mode = "done"    /\ At = Len(out)
  /\ pc = "closed"  => Mode = "closed"  /\ At = start
BY DEF InLineLoop, InArticle, Mode, At

LEMMA ModeValuesNext ==
  /\ InLineLoop'     => Mode' = "line"    /\ At' = start'
  /\ InArticle'      => Mode' = "article" /\ At' = start'
  /\ pc' = "handler" => Mode' = "handler" /\ At' = Len(out')
  /\ pc' = "copied"  => Mode' = "done"    /\ At' = Len(out')
  /\ pc' = "closed"  => Mode' = "closed"  /\ At' = start'
BY DEF InLineLoop, InArticle, Mode, At

\* Framing speaks of the same language, in its own instance of it.
LEMMA SameLanguage ==
  /\ \A s, a, e : IsLineEnd(s, a, e) <=> Frames!IsLineEnd(s, a, e)
  /\ \A s, a, e : IsArticleEnd(s, a, e) <=> Frames!IsArticleEnd(s, a, e)
  /\ \A s, a, p : NoTerminator(s, a, p) <=> Frames!NoTerminator(s, a, p)
<1>1. \A s, a, p : AtLineStart(s, a, p) <=> Frames!AtLineStart(s, a, p)
  BY DEF AtLineStart, OnlyCR, Frames!AtLineStart, Frames!OnlyCR
<1>2. \A s, a, p : AfterDot(s, a, p) <=> Frames!AfterDot(s, a, p)
  BY <1>1 DEF AfterDot, OnlyCR, Frames!AfterDot, Frames!OnlyCR
<1>3. \A s, a, e : IsTerminator(s, a, e) <=> Frames!IsTerminator(s, a, e)
  BY <1>2 DEF IsTerminator, Frames!IsTerminator
<1>4. \A s, a, p : NoTerminator(s, a, p) <=> Frames!NoTerminator(s, a, p)
  BY <1>3 DEF NoTerminator, Frames!NoTerminator
<1>5. \A s, a, e : IsArticleEnd(s, a, e) <=> Frames!IsArticleEnd(s, a, e)
  BY <1>3, <1>4 DEF IsArticleEnd, Frames!IsArticleEnd
<1>6. \A s, a, e : IsLineEnd(s, a, e) <=> Frames!IsLineEnd(s, a, e)
  BY DEF IsLineEnd, Frames!IsLineEnd
<1> QED BY <1>4, <1>5, <1>6

\* The two cuts, with the mapped variables written out as Frames has them.
LEMMA TakesLine ==
  ASSUME Mode = "line", Mode' = "handler", stream' = stream, NEW e \in At+1 .. Len(stream),
         At' = e, IsLineEnd(stream, At, e)
  PROVE  Frames!TakeLine
<1>1. Frames!IsLineEnd(stream, At, e)
  BY SameLanguage
<1> QED BY <1>1 DEF Frames!TakeLine, At

LEMMA TakesArticle ==
  ASSUME Mode = "article", Mode' = "done", stream' = stream,
         \/ \E e \in At+1 .. Len(stream) : At' = e /\ IsArticleEnd(stream, At, e)
         \/ NoTerminator(stream, At, Len(stream)) /\ At' = Len(stream)
  PROVE  Frames!TakeArticle
<1>1. CASE \E e \in At+1 .. Len(stream) : At' = e /\ IsArticleEnd(stream, At, e)
  <2>1. PICK e \in At+1 .. Len(stream) : At' = e /\ Frames!IsArticleEnd(stream, At, e)
    BY <1>1, SameLanguage
  <2> QED BY <2>1 DEF Frames!TakeArticle, At
<1>2. CASE NoTerminator(stream, At, Len(stream)) /\ At' = Len(stream)
  <2>1. Frames!NoTerminator(stream, At, Len(stream))
    BY <1>2, SameLanguage
  <2> QED BY <1>2, <2>1 DEF Frames!TakeArticle, At
<1> QED BY <1>1, <1>2

LEMMA FramingInit == Init => Frames!Init
<1> SUFFICES ASSUME Init PROVE Frames!Init
  OBVIOUS
<1>1. stream \in Streams /\ pc = "line" /\ start = 0
  BY DEF Init
<1>2. Mode = "line" /\ At = 0
  BY <1>1, ModeValues DEF InLineLoop
<1> QED BY <1>1, <1>2 DEF Frames!Init, At

LEMMA FramingStep ==
  ASSUME LineExact', ArticleExact', [Next]_vars
  PROVE  [Frames!Next]_(Frames!vars)
<1> USE DEF InLineLoop, InArticle
<1>s. ASSUME UNCHANGED <<stream, At, Mode>> PROVE [Frames!Next]_(Frames!vars)
  BY <1>s DEF Frames!vars, At
\* Inside of a line, and inside of an article.
<1>l. ASSUME InLineLoop, InLineLoop', UNCHANGED <<stream, start>>
      PROVE  [Frames!Next]_(Frames!vars)
  <2>1. Mode' = Mode /\ At' = At
    BY <1>l, ModeValues, ModeValuesNext
  <2> QED BY <1>l, <1>s, <2>1
<1>a. ASSUME InArticle, InArticle', UNCHANGED <<stream, start>>
      PROVE  [Frames!Next]_(Frames!vars)
  <2>1. Mode' = Mode /\ At' = At
    BY <1>a, ModeValues, ModeValuesNext
  <2> QED BY <1>a, <1>s, <2>1
\* The step that ends an article.
<1>c. ASSUME InArticle, pc' = "copied", UNCHANGED <<stream, start>>
      PROVE  [Frames!Next]_(Frames!vars)
  <2>1. Mode = "article" /\ At = start /\ Mode' = "done" /\ At' = Len(out')
    BY <1>c, ModeValues, ModeValuesNext
  <2>2. \/ IsArticleEnd(stream, At, At')
        \/ NoTerminator(stream, At, Len(stream)) /\ At' = Len(stream)
    BY <1>c, <2>1 DEF ArticleExact
  <2>3. IsArticleEnd(stream, At, At') => At' \in At+1 .. Len(stream)
    BY DEF IsArticleEnd, IsTerminator
  <2>4. Frames!TakeArticle
    BY <1>c, <2>1, <2>2, <2>3, TakesArticle
  <2> QED BY <2>4 DEF Frames!Next
<1>1. CASE UNCHANGED vars
  <2>1. UNCHANGED <<stream, At, Mode>>
    BY <1>1 DEF vars, At, Mode
  <2> QED BY <1>s, <2>1
<1>2. CASE Accept
  <2>1. pc = "closed" /\ pc' = "line" /\ stream' \in Streams /\ start' = 0
    BY <1>2 DEF Accept
  <2>2. Mode = "closed" /\ Mode' = "line" /\ At' = 0
    BY <2>1, ModeValues, ModeValuesNext
  <2>3. Frames!Accept
    BY <2>1, <2>2 DEF Frames!Accept, At
  <2> QED BY <2>3 DEF Frames!Next
<1>3. CASE LineTop \/ LineByte \/ LineRefill
  <2>1. InLineLoop /\ InLineLoop' /\ UNCHANGED <<stream, start>>
    BY <1>3 DEF LineTop, LineByte, LineRefill
  <2> QED BY <1>l, <2>1
<1>4. CASE LineFound
  <2>1. pc = "lscan" /\ pc' = "handler" /\ UNCHANGED <<stream, start>>
    BY <1>4 DEF LineFound
  <2>2. Mode = "line" /\ At = start /\ Mode' = "handler" /\ At' = Len(out')
    BY <2>1, ModeValues, ModeValuesNext
  <2>3. IsLineEnd(stream, At, At')
    BY <2>1, <2>2 DEF LineExact
  <2>4. At' \in At+1 .. Len(stream)
    BY <2>3 DEF IsLineEnd
  <2>5. Frames!TakeLine
    BY <2>1, <2>2, <2>3, <2>4, TakesLine
  <2> QED BY <2>5 DEF Frames!Next
<1>5. CASE LineEOF
  <2>1. pc = "lscan" /\ pc' = "closed" /\ UNCHANGED <<stream, start>>
    BY <1>5 DEF LineEOF
  <2>2. Mode = "line" /\ Mode' = "closed" /\ At' = At
    BY <2>1, ModeValues, ModeValuesNext
  <2>3. Frames!Close
    BY <2>1, <2>2 DEF Frames!Close, At
  <2> QED BY <2>3 DEF Frames!Next
<1>6. CASE HandlerDone \/ HandlerEnds
  <2>1. /\ pc \in {"handler", "copied"} /\ start' = Len(out) /\ stream' = stream
        /\ pc' \in {"line", "closed"}
    BY <1>6 DEF HandlerDone, HandlerEnds
  <2>2. Mode \in {"handler", "done"} /\ At = Len(out)
    BY <2>1, ModeValues
  <2>3. At' = start' /\ (Mode' = "line" \/ Mode' = "closed")
    BY <2>1, ModeValuesNext
  <2>4. Frames!NextLine \/ Frames!Close
    BY <2>1, <2>2, <2>3 DEF Frames!NextLine, Frames!Close, At
  <2> QED BY <2>4 DEF Frames!Next
<1>7. CASE NewDotReader
  <2>1. pc = "handler" /\ pc' = "dot" /\ start' = Len(out) /\ stream' = stream
    BY <1>7 DEF NewDotReader
  <2>2. Mode = "handler" /\ Mode' = "article" /\ At' = At
    BY <2>1, ModeValues, ModeValuesNext
  <2>3. Frames!BeginArticle
    BY <2>1, <2>2 DEF Frames!BeginArticle, At
  <2> QED BY <2>3 DEF Frames!Next
<1>8. CASE Perform \/ innerRead \/ Returns
  <2>1. /\ InArticle /\ (InArticle' \/ pc' = "copied")
        /\ UNCHANGED <<stream, start>>
    BY <1>8 DEF Perform, PerformRead, PerformConsume, PerformReturns, innerRead, InnerReady,
                InnerBuffered, InnerFeed, ScanByte, ScanFound, ScanDone, Returns, ReadPart,
                ReadAll, ReadNothing, ConsumeMore, ConsumeEnds, Resume, Finish
  <2> QED BY <1>a, <1>c, <2>1
<1> QED
  BY <1>1, <1>2, <1>3, <1>4, <1>5, <1>6, <1>7, <1>8 DEF Next, ReadLineB, Handler

\* The reader, with its buffer, chunks and partial reads, cuts the stream as
\* the abstract framing does.
THEOREM ReaderImplementsFraming == ASSUME EmptyReads = FALSE PROVE Spec => ImplementsFraming
<1>1. Spec => []ArticleExact
  BY ArticlesExact
<1>2. LineExact' /\ ArticleExact' /\ [Next]_vars => [Frames!Next]_(Frames!vars)
  BY FramingStep
<1> QED BY <1>1, <1>2, LinesExact, FramingInit, PTL DEF Spec, ImplementsFraming, Frames!Spec
=============================================================================
