-------------------------- MODULE DotWritingProofs --------------------------
(***************************************************************************)
(* Proofs about DotWriting, for every size of the bufio.Writer, every kind *)
(* of status line and every way to write a block in pieces.                *)
(***************************************************************************)
EXTENDS DotWriting, WireProofs, SequenceTheorems

-----------------------------------------------------------------------------
(***************************************************************************)
(* Sequences and their beginnings.                                         *)
(***************************************************************************)
LEMMA PrefixOfConcat ==
  ASSUME NEW S, NEW s \in Seq(S), NEW t \in Seq(S)
  PROVE  Prefix(s, s \o t)
<1>1. Len(s) \in Nat /\ Len(t) \in Nat
  BY LenProperties
<1>2. /\ Len(s \o t) = Len(s) + Len(t)
      /\ \A n \in 1 .. Len(s) + Len(t) : (s \o t)[n] = IF n <= Len(s) THEN s[n] ELSE t[n - Len(s)]
  BY ConcatProperties
<1> QED BY <1>1, <1>2 DEF Prefix

LEMMA PrefixExtends ==
  ASSUME NEW S, NEW s \in Seq(S), NEW t \in Seq(S), NEW u \in Seq(S), Prefix(s, t)
  PROVE  Prefix(s, t \o u)
<1>1. Len(s) \in Nat /\ Len(t) \in Nat /\ Len(u) \in Nat
  BY LenProperties
<1>2. Len(t \o u) = Len(t) + Len(u) /\ \A n \in 1 .. Len(t) : (t \o u)[n] = t[n]
  BY <1>1, PrefixOfConcat DEF Prefix
<1>3. Len(s) <= Len(t) /\ \A n \in 1 .. Len(s) : s[n] = t[n]
  BY DEF Prefix
<1> QED BY <1>1, <1>2, <1>3 DEF Prefix

LEMMA Joined == \A s, t, u \in Seq(Bytes) : (s \o t) \o u = s \o (t \o u)
BY ConcatAssociative

\* What goes on from the front and what stays are together what there was.
LEMMA Divided ==
  ASSUME NEW w \in Seq(Bytes), NEW s \in Seq(Bytes), NEW k \in 0 .. Len(s)
  PROVE  /\ w \o SubSeq(s, 1, k) \in Seq(Bytes)
         /\ SubSeq(s, k+1, Len(s)) \in Seq(Bytes)
         /\ Len(SubSeq(s, k+1, Len(s))) = Len(s) - k
         /\ (w \o SubSeq(s, 1, k)) \o SubSeq(s, k+1, Len(s)) = w \o s
<1> DEFINE front == SubSeq(s, 1, k)
           rest  == SubSeq(s, k+1, Len(s))
<1>1. Len(s) \in Nat /\ \A n \in 1 .. Len(s) : s[n] \in Bytes
  BY LenProperties, ElementOfSeq
<1>2. front \in Seq(Bytes) /\ rest \in Seq(Bytes) /\ Len(rest) = Len(s) - k
  <2>1. \A n \in 1 .. k : s[n] \in Bytes
    BY <1>1
  <2>2. \A n \in k+1 .. Len(s) : s[n] \in Bytes
    BY <1>1
  <2>3. front \in Seq(Bytes)
    BY <2>1, SubSeqProperties
  <2>4. rest \in Seq(Bytes) /\ Len(rest) = IF k+1 <= Len(s) THEN Len(s) - (k+1) + 1 ELSE 0
    BY <1>1, <2>2, SubSeqProperties
  <2> QED BY <1>1, <2>3, <2>4
<1>3. front \o rest = s
  <2>1. front \o rest = SubSeq(s, 1, Len(s))
    <3>1. 1 \in 1 .. Len(s)+1 /\ k \in 1-1 .. Len(s) /\ Len(s) \in k .. Len(s)
      BY <1>1
    <3> QED BY <3>1, ConcatAdjacentSubSeq
  <2> QED BY <2>1, SubSeqFull
<1> HIDE DEF front, rest
<1>4. (w \o front) \o rest = w \o (front \o rest)
  BY <1>2, Joined, Zenon
<1>5. w \o front \in Seq(Bytes)
  BY <1>2, ConcatProperties
<1> QED BY <1>2, <1>3, <1>4, <1>5 DEF front, rest

\* What is an article does not depend on the bytes behind it.
LEMMA SameBeginning ==
  ASSUME NEW s \in Seq(Symbols), NEW t \in Seq(Symbols), NEW p \in Nat,
         p <= Len(s), p <= Len(t), \A n \in 1 .. p : s[n] = t[n]
  PROVE  /\ AtLineStart(s, 0, p) <=> AtLineStart(t, 0, p)
         /\ AfterDot(s, 0, p) <=> AfterDot(t, 0, p)
         /\ NoTerminator(s, 0, p) <=> NoTerminator(t, 0, p)
         /\ IsArticleEnd(s, 0, p) <=> IsArticleEnd(t, 0, p)
<1>0. Len(s) \in Nat /\ Len(t) \in Nat
  BY LenProperties
<1>1. ASSUME NEW a \in 0 .. p, NEW b \in 0 .. p PROVE OnlyCR(s, a, b) <=> OnlyCR(t, a, b)
  <2>1. \A n \in a+1 .. b : n \in 1 .. p
    OBVIOUS
  <2> QED BY <2>1 DEF OnlyCR
<1>2. ASSUME NEW m \in 0 .. p PROVE AtLineStart(s, 0, m) <=> AtLineStart(t, 0, m)
  <2>1. \A b \in 0 .. m : b \in 0 .. p /\ (b = 0 \/ b \in 1 .. p)
    OBVIOUS
  <2> QED BY <1>1, <2>1 DEF AtLineStart
<1>3. ASSUME NEW m \in 0 .. p PROVE AfterDot(s, 0, m) <=> AfterDot(t, 0, m)
  <2>1. \A d \in 0+1 .. m : d \in 1 .. p /\ d \in 0 .. p /\ d-1 \in 0 .. p
    OBVIOUS
  <2> QED BY <1>1, <1>2, <2>1 DEF AfterDot
<1>4. ASSUME NEW e \in 1 .. p PROVE IsTerminator(s, 0, e) <=> IsTerminator(t, 0, e)
  <2>1. e-1 \in 0 .. p /\ e \in 0+1 .. Len(s) /\ e \in 0+1 .. Len(t)
    BY <1>0
  <2> QED BY <1>3, <2>1 DEF IsTerminator
<1>5. ASSUME NEW m \in 0 .. p PROVE NoTerminator(s, 0, m) <=> NoTerminator(t, 0, m)
  <2>1. \A e \in 0+1 .. m : e \in 1 .. p
    OBVIOUS
  <2> QED BY <1>4, <2>1 DEF NoTerminator
<1>6. p \in 0 .. p
  OBVIOUS
<1>7. IsArticleEnd(s, 0, p) <=> IsArticleEnd(t, 0, p)
  <2>1. CASE p = 0
    BY <2>1 DEF IsArticleEnd, IsTerminator
  <2>2. CASE p # 0
    <3>1. p \in 1 .. p /\ p-1 \in 0 .. p
      BY <2>2
    <3> QED BY <1>4, <1>5, <3>1 DEF IsArticleEnd
  <2> QED BY <2>1, <2>2
<1> QED BY <1>2, <1>3, <1>5, <1>6, <1>7

\* And neither does what the automaton has found out so far.
LEMMA TracksPrefix ==
  ASSUME NEW s \in Seq(Symbols), NEW t \in Seq(Symbols), NEW x, Prefix(s, t), Tracks(x, s, 0, Len(s))
  PROVE  Tracks(x, t, 0, Len(s))
<1>1. /\ Len(s) \in Nat /\ Len(s) <= Len(s) /\ Len(s) <= Len(t)
      /\ \A n \in 1 .. Len(s) : s[n] = t[n]
  BY LenProperties DEF Prefix
<1>2. /\ AtLineStart(s, 0, Len(s)) <=> AtLineStart(t, 0, Len(s))
      /\ AfterDot(s, 0, Len(s)) <=> AfterDot(t, 0, Len(s))
      /\ NoTerminator(s, 0, Len(s)) <=> NoTerminator(t, 0, Len(s))
  BY <1>1, SameBeginning
<1> QED BY <1>2 DEF Tracks

-----------------------------------------------------------------------------
(***************************************************************************)
(* The steps that write to the bufio.Writer, and the types.                *)
(***************************************************************************)
\* No write has failed and all there is to send is on the connection or in the
\* bufio.Writer, or the connection is down; what it has taken is a beginning.
Sending ==
  /\ err => link = "down"
  /\ ~ err => wire \o held = line \o passed
  /\ Prefix(wire, line \o passed)

LEMMA StatusIsBytes ==
  /\ \A s \in Seq({"status"}) : s \in Seq(Bytes)
  /\ \A s \in Seq(Symbols) : s \in Seq(Bytes)
<1>1. {"status"} \subseteq Bytes /\ Symbols \subseteq Bytes
  BY DEF Bytes
<1> QED BY <1>1, SeqMonotonic

LEMMA BufWriteSends ==
  ASSUME TypeOK, Sending, NEW p \in Seq(Symbols), BufWrite(p),
         passed' = passed \o p, line' = line, link' = link
  PROVE  /\ wire' \in Seq(Bytes) /\ held' \in Seq(Bytes) /\ Len(held') <= Room /\ err' \in BOOLEAN
         /\ Sending'
<1> DEFINE s == held \o p
<1>1. /\ wire \in Seq(Bytes) /\ held \in Seq(Bytes) /\ line \in Seq(Bytes) /\ passed \in Seq(Bytes)
      /\ p \in Seq(Bytes) /\ err \in BOOLEAN /\ Len(held) <= Room /\ link \in {"up", "down"}
  BY StatusIsBytes DEF TypeOK
<1>2. s \in Seq(Bytes) /\ Len(s) \in Nat /\ line \o passed \in Seq(Bytes) /\ wire \o s \in Seq(Bytes)
  BY <1>1, ConcatProperties, LenProperties
<1>3. line' \o passed' = (line \o passed) \o p
  BY <1>1, Joined, Zenon
<1>4. ~ err => wire \o s = line' \o passed'
  <2>1. wire \o s = (wire \o held) \o p
    BY <1>1, Joined, Zenon
  <2> QED BY <1>3, <2>1 DEF Sending
<1>5. ASSUME NEW k \in 0 .. Len(s)
      PROVE  /\ wire \o SubSeq(s, 1, k) \in Seq(Bytes)
             /\ SubSeq(s, k+1, Len(s)) \in Seq(Bytes)
             /\ Len(SubSeq(s, k+1, Len(s))) = Len(s) - k
             /\ (wire \o SubSeq(s, 1, k)) \o SubSeq(s, k+1, Len(s)) = wire \o s
             /\ Prefix(wire \o SubSeq(s, 1, k), wire \o s)
  <2>1. /\ wire \o SubSeq(s, 1, k) \in Seq(Bytes)
        /\ SubSeq(s, k+1, Len(s)) \in Seq(Bytes)
        /\ Len(SubSeq(s, k+1, Len(s))) = Len(s) - k
        /\ (wire \o SubSeq(s, 1, k)) \o SubSeq(s, k+1, Len(s)) = wire \o s
    <3> HIDE DEF s
    <3>1. wire \in Seq(Bytes) /\ s \in Seq(Bytes)
      BY <1>1, <1>2
    <3> QED BY <3>1, Divided, Zenon
  <2>2. Prefix(wire \o SubSeq(s, 1, k), (wire \o SubSeq(s, 1, k)) \o SubSeq(s, k+1, Len(s)))
    BY <2>1, PrefixOfConcat
  <2> QED BY <2>1, <2>2
<1> HIDE DEF s
<1>6. CASE err /\ UNCHANGED bufio
  <2>1. Prefix(wire, (line \o passed) \o p)
    BY <1>1, <1>2, PrefixExtends DEF Sending
  <2> QED BY <1>1, <1>3, <1>6, <2>1 DEF Sending, bufio
<1>7. CASE ~ err /\ Fits(s)
  <2>1. Prefix(wire, wire \o s)
    BY <1>1, <1>2, PrefixOfConcat
  <2> QED BY <1>1, <1>2, <1>4, <1>7, <2>1 DEF Sending, Fits
<1>8. CASE ~ err /\ link = "up" /\ Taken(s)
  <2>1. PICK k \in 1 .. Len(s) :
          /\ Len(s) - k <= Room
          /\ wire' = wire \o SubSeq(s, 1, k)
          /\ held' = SubSeq(s, k+1, Len(s))
          /\ UNCHANGED err
    BY <1>8 DEF Taken
  <2>2. k \in 0 .. Len(s)
    BY <1>2
  <2>3. /\ wire' \in Seq(Bytes) /\ held' \in Seq(Bytes) /\ Len(held') = Len(s) - k
        /\ wire' \o held' = wire \o s
        /\ Prefix(wire', wire \o s)
    BY <1>5, <2>1, <2>2
  <2> QED BY <1>1, <1>4, <1>8, <2>1, <2>3 DEF Sending
<1>9. CASE ~ err /\ link = "down" /\ Refused(s)
  <2>1. PICK k \in 0 .. Len(s)-1 : wire' = wire \o SubSeq(s, 1, k) /\ held' = <<>> /\ err' = TRUE
    BY <1>9 DEF Refused
  <2>2. k \in 0 .. Len(s) /\ Len(<<>>) <= Room
    BY <1>2, DotWritingAssumption
  <2>3. <<>> \in Seq(Bytes)
    BY EmptySeq
  <2> QED BY <1>4, <1>5, <1>9, <2>1, <2>2, <2>3 DEF Sending
<1> QED BY <1>6, <1>7, <1>8, <1>9 DEF BufWrite, Sent, s

\* What is in the bufio.Writer, and where a response stands between two others.
Conserved ==
  /\ pc \in {"block", "scan", "closing", "flush"} => Sending
  /\ pc \in {"command", "closed"} => held = <<>>
  /\ pc = "command" /\ link = "up" => wire = line \o passed
  /\ Prefix(wire, line \o passed)

LEMMA Closings ==
  /\ dotCRLF \in Seq(Symbols) /\ Len(dotCRLF) = 3
  /\ dotCRLF[1] = "dot" /\ dotCRLF[2] = "cr" /\ dotCRLF[3] = "lf"
  /\ crlfDotCRLF \in Seq(Symbols) /\ Len(crlfDotCRLF) = 5
  /\ crlfDotCRLF[1] = "cr" /\ crlfDotCRLF[2] = "lf" /\ crlfDotCRLF[3] = "dot"
  /\ crlfDotCRLF[4] = "cr" /\ crlfDotCRLF[5] = "lf"
BY DEF dotCRLF, crlfDotCRLF, Symbols

\* The piece of a Write that ends with the byte the loop looks at.
LEMMA PieceTyped ==
  ASSUME TypeOK, NEW n \in 0 .. Len(buf)
  PROVE  SubSeq(buf, 1, n) \in Seq(Symbols) /\ Len(SubSeq(buf, 1, n)) = n
<1>1. Len(buf) \in Nat /\ \A m \in 1 .. Len(buf) : buf[m] \in Symbols
  BY LenProperties, ElementOfSeq DEF TypeOK
<1>2. \A m \in 1 .. n : buf[m] \in Symbols
  BY <1>1
<1> QED BY <1>1, <1>2, SubSeqProperties

LEMMA TypeInit == Init => TypeOK
<1>1. <<>> \in Seq(Bytes) /\ <<>> \in Seq(Symbols) /\ <<>> \in Seq({"status"}) /\ Len(<<>>) = 0
  BY EmptySeq
<1>2. Room \in Nat /\ InLine \in nlDotNlStates \ {nlDotNl_end}
  BY DotWritingAssumption DEF nlDotNlStates, nlDotNl_end, InLine
<1> SUFFICES ASSUME Init PROVE TypeOK
  OBVIOUS
<1>3. /\ pc = "command" /\ link = "up" /\ wire = <<>> /\ held = <<>> /\ err = FALSE
      /\ state \in nlDotNlStates \ {nlDotNl_end} /\ end \in BOOLEAN
      /\ buf = <<>> /\ i = 0 /\ q = InLine
      /\ line = <<>> /\ content = <<>> /\ passed = <<>>
  BY DEF Init
<1>4. Len(held) <= Room /\ i \in 0 .. Len(buf)
  BY <1>1, <1>2, <1>3
<1> QED BY <1>1, <1>2, <1>3, <1>4 DEF TypeOK

LEMMA TypeStep == TypeOK /\ Conserved /\ [Next]_vars => TypeOK'
<1> SUFFICES ASSUME TypeOK, Conserved, [Next]_vars PROVE TypeOK'
  OBVIOUS
<1> USE DEF bufio, dotWriter, call, history
<1>0. /\ <<>> \in Seq(Bytes) /\ <<>> \in Seq(Symbols) /\ <<>> \in Seq({"status"}) /\ Len(<<>>) = 0
      /\ Len(buf) \in Nat /\ Room \in Nat
  BY EmptySeq, LenProperties, DotWritingAssumption DEF TypeOK
<1>1. CASE UNCHANGED vars
  BY <1>1 DEF vars, TypeOK
<1>2. ASSUME NEW l \in Lines, Respond(l) PROVE TypeOK'
  <2>1. l \in Seq({"status"}) /\ l \in Seq(Bytes)
    BY StatusIsBytes, DotWritingAssumption
  <2>2. nlDotNl_start \in nlDotNlStates \ {nlDotNl_end}
    BY DEF nlDotNlStates, nlDotNl_start, nlDotNl_end
  <2>3. wire' \in Seq(Bytes) /\ held' \in Seq(Bytes) /\ Len(held') <= Room /\ err' \in BOOLEAN
    <3>1. err' = FALSE
      BY <1>2 DEF Respond, Status
    <3>2. CASE Len(l) <= Room /\ held' = l /\ wire' = <<>>
      BY <1>0, <2>1, <3>1, <3>2
    <3>3. CASE held' = <<>> /\ wire' = l
      <4>1. Len(held') = 0 /\ 0 <= Room
        BY <1>0, <3>3
      <4> QED BY <1>0, <2>1, <3>1, <3>3, <4>1
    <3> QED BY <1>2, <3>2, <3>3 DEF Respond, Status
  <2>4. /\ pc' = "block" /\ state' = nlDotNl_start /\ end' = FALSE
        /\ line' = l /\ content' = <<>> /\ passed' = <<>>
        /\ UNCHANGED <<link, buf, i, q>>
    BY <1>2 DEF Respond, Reset
  <2> QED BY <1>0, <2>1, <2>2, <2>3, <2>4 DEF TypeOK
<1>3. ASSUME NEW l \in Lines, RespondFails(l) PROVE TypeOK'
  BY <1>3 DEF RespondFails, TypeOK
<1>4. ASSUME NEW b \in Chunks, Write(b) PROVE TypeOK'
  <2>1. b \in Seq(Symbols) /\ Len(b) \in Nat
    BY DotWritingAssumption, LenProperties
  <2>2. content' \in Seq(Symbols)
    BY <1>4, <2>1, ConcatProperties DEF Write, TypeOK
  <2> QED BY <1>4, <2>1, <2>2 DEF Write, StartScan, TypeOK
<1>5. CASE ScanByte
  <2>1. i + 1 \in 0 .. Len(buf)
    BY <1>0, <1>5 DEF ScanByte, TypeOK
  <2>2. next \in nlDotNlStates \ {nlDotNl_end}
    BY <1>5 DEF ScanByte, next, nlDotNl_transition, nlDotNlStates, TypeOK
  <2> QED BY <1>5, <2>1, <2>2 DEF ScanByte, TypeOK
<1>6. CASE ScanEnd
  <2> DEFINE p == SubSeq(buf, 1, i+1)
  <2>1. i + 1 \in 0 .. Len(buf)
    BY <1>0, <1>6 DEF ScanEnd, TypeOK
  <2>2. p \in Seq(Symbols)
    BY <2>1, PieceTyped
  <2>3. /\ BufWrite(p) /\ passed' = passed \o p /\ end' = TRUE
        /\ pc' \in {"block", "flush"} /\ Sending
        /\ UNCHANGED <<link, state, buf, i, q, line, content>>
    BY <1>6 DEF ScanEnd, Scanning, Return, Conserved
  <2> HIDE DEF p
  <2>4. wire' \in Seq(Bytes) /\ held' \in Seq(Bytes) /\ Len(held') <= Room /\ err' \in BOOLEAN
    BY <2>2, <2>3, BufWriteSends
  <2>5. passed' \in Seq(Symbols)
    BY <2>2, <2>3, ConcatProperties DEF TypeOK
  <2> QED BY <2>3, <2>4, <2>5 DEF TypeOK
<1>7. CASE ScanDone
  <2>1. /\ BufWrite(buf) /\ passed' = passed \o buf /\ state' = q
        /\ pc' \in {"block", "flush"} /\ Sending
        /\ UNCHANGED <<link, end, buf, i, q, line, content>>
    BY <1>7 DEF ScanDone, Scanning, Return, Conserved
  <2>2. buf \in Seq(Symbols)
    BY DEF TypeOK
  <2>3. wire' \in Seq(Bytes) /\ held' \in Seq(Bytes) /\ Len(held') <= Room /\ err' \in BOOLEAN
    BY <2>1, <2>2, BufWriteSends
  <2>4. passed' \in Seq(Symbols)
    BY <2>1, <2>2, ConcatProperties DEF TypeOK
  <2> QED BY <2>1, <2>3, <2>4 DEF TypeOK
<1>8. CASE Close
  <2>1. \A b \in {dotCRLF, crlfDotCRLF} : b \in Seq(Symbols) /\ 0 \in 0 .. Len(b)
    BY Closings
  <2> QED BY <1>8, <2>1 DEF Close, StartScan, TypeOK
<1>9. CASE Flush
  <2>1. wire' \in Seq(Bytes) /\ err' \in BOOLEAN
    <3>1. CASE UNCHANGED <<wire, err>>
      BY <3>1 DEF TypeOK
    <3>2. CASE wire' = wire \o held /\ UNCHANGED err
      BY <3>2, ConcatProperties DEF TypeOK
    <3>3. CASE Refused(held)
      <4>1. PICK k \in 0 .. Len(held)-1 : wire' = wire \o SubSeq(held, 1, k) /\ err' = TRUE
        BY <3>3 DEF Refused
      <4>2. Len(held) \in Nat /\ held \in Seq(Bytes) /\ wire \in Seq(Bytes)
        BY LenProperties DEF TypeOK
      <4>3. k \in 0 .. Len(held)
        BY <4>2
      <4> QED BY <4>1, <4>2, <4>3, Divided
    <3> QED BY <1>9, <3>1, <3>2, <3>3 DEF Flush
  <2> QED BY <1>0, <1>9, <2>1 DEF Flush, TypeOK
<1>10. CASE Break
  BY <1>10 DEF Break, TypeOK
<1>11. CASE NextConnection
  BY <1>0, <1>11 DEF NextConnection, TypeOK
<1> QED BY <1>1, <1>2, <1>3, <1>4, <1>5, <1>6, <1>7, <1>8, <1>9, <1>10, <1>11 DEF Next

-----------------------------------------------------------------------------
(***************************************************************************)
(* What is on the connection.                                              *)
(***************************************************************************)
LEMMA EmptyIsPrefix == ASSUME NEW s \in Seq(Bytes) PROVE Prefix(<<>>, s)
<1>1. Len(s) \in Nat /\ Len(<<>>) = 0
  BY LenProperties
<1> QED BY <1>1 DEF Prefix

LEMMA ConservedInit == Init => Conserved
<1>1. <<>> \o <<>> = <<>> /\ <<>> \in Seq(Bytes)
  BY ConcatEmptySeq, EmptySeq
<1>2. Prefix(<<>>, <<>> \o <<>>)
  BY <1>1, EmptyIsPrefix
<1> QED BY <1>1, <1>2 DEF Init, Conserved

LEMMA ConservedStep == TypeOK /\ Conserved /\ [Next]_vars => Conserved'
<1> SUFFICES ASSUME TypeOK, Conserved, [Next]_vars PROVE Conserved'
  OBVIOUS
<1> USE DEF bufio, dotWriter, call, history
<1>0. /\ <<>> \in Seq(Bytes)
      /\ wire \in Seq(Bytes) /\ held \in Seq(Bytes) /\ line \in Seq(Bytes) /\ passed \in Seq(Bytes)
      /\ line \o passed \in Seq(Bytes)
  <2>1. line \in Seq(Bytes) /\ passed \in Seq(Bytes) /\ wire \in Seq(Bytes) /\ held \in Seq(Bytes)
    BY StatusIsBytes DEF TypeOK
  <2> QED BY <2>1, ConcatProperties, EmptySeq
<1>1. CASE UNCHANGED vars
  BY <1>1 DEF vars, Conserved, Sending
<1>2. ASSUME NEW l \in Lines, Respond(l) PROVE Conserved'
  <2>1. l \in Seq(Bytes)
    BY StatusIsBytes, DotWritingAssumption
  <2>2. l \o <<>> = l /\ <<>> \o l = l /\ Prefix(<<>>, l) /\ Prefix(l, l)
    <3>1. l \o <<>> = l /\ <<>> \o l = l
      BY <2>1, ConcatEmptySeq
    <3>2. Prefix(l, l \o <<>>)
      BY <1>0, <2>1, PrefixOfConcat
    <3> QED BY <2>1, <3>1, <3>2, EmptyIsPrefix
  <2>3. pc' = "block" /\ line' = l /\ passed' = <<>> /\ err' = FALSE
    BY <1>2 DEF Respond, Status
  <2>4. (held' = l /\ wire' = <<>>) \/ (held' = <<>> /\ wire' = l)
    BY <1>2 DEF Respond, Status
  <2> QED BY <2>2, <2>3, <2>4 DEF Conserved, Sending
<1>3. ASSUME NEW l \in Lines, RespondFails(l) PROVE Conserved'
  BY <1>3 DEF RespondFails, Conserved
<1>4. ASSUME NEW b \in Chunks, Write(b) PROVE Conserved'
  <2>1. pc = "block" /\ pc' \in {"block", "scan"} /\ UNCHANGED <<link, wire, held, err, line, passed>>
    BY <1>4 DEF Write, StartScan
  <2> QED BY <2>1 DEF Conserved, Sending
<1>5. CASE ScanByte
  <2>1. pc \in {"scan", "closing"} /\ UNCHANGED <<pc, link, wire, held, err, line, passed>>
    BY <1>5 DEF ScanByte, Scanning
  <2> QED BY <2>1 DEF Conserved, Sending
<1>6. CASE ScanEnd
  <2> DEFINE p == SubSeq(buf, 1, i+1)
  <2>1. i + 1 \in 0 .. Len(buf)
    <3>1. Len(buf) \in Nat
      BY LenProperties DEF TypeOK
    <3> QED BY <1>6, <3>1 DEF ScanEnd, TypeOK
  <2>2. p \in Seq(Symbols)
    BY <2>1, PieceTyped
  <2>3. /\ BufWrite(p) /\ passed' = passed \o p
        /\ pc' \in {"block", "flush"} /\ Sending
        /\ UNCHANGED <<link, line>>
    BY <1>6 DEF ScanEnd, Scanning, Return, Conserved
  <2> HIDE DEF p
  <2>4. Sending'
    BY <2>2, <2>3, BufWriteSends
  <2> QED BY <2>3, <2>4 DEF Conserved, Sending
<1>7. CASE ScanDone
  <2>1. /\ BufWrite(buf) /\ passed' = passed \o buf
        /\ pc' \in {"block", "flush"} /\ Sending
        /\ UNCHANGED <<link, line>>
    BY <1>7 DEF ScanDone, Scanning, Return, Conserved
  <2>2. buf \in Seq(Symbols)
    BY DEF TypeOK
  <2>3. Sending'
    BY <2>1, <2>2, BufWriteSends
  <2> QED BY <2>1, <2>3 DEF Conserved, Sending
<1>8. CASE Close
  <2>1. pc = "block" /\ pc' \in {"flush", "closing"} /\ UNCHANGED <<link, wire, held, err, line, passed>>
    BY <1>8 DEF Close, StartScan
  <2> QED BY <2>1 DEF Conserved, Sending
<1>9. CASE Flush
  <2>1. /\ pc' = "command" /\ held' = <<>> /\ UNCHANGED <<link, line, passed>> /\ Sending
    BY <1>9 DEF Flush, Conserved
  <2>2. CASE err /\ UNCHANGED <<wire, err>>
    BY <2>1, <2>2 DEF Conserved, Sending
  <2>3. CASE ~ err /\ held = <<>> /\ UNCHANGED <<wire, err>>
    <3>1. wire \o <<>> = wire
      BY <1>0, ConcatEmptySeq
    <3> QED BY <2>1, <2>3, <3>1 DEF Conserved, Sending
  <2>4. CASE ~ err /\ wire' = wire \o held
    <3>1. wire' = line' \o passed'
      BY <2>1, <2>4 DEF Sending
    <3>2. Prefix(line \o passed, (line \o passed) \o <<>>) /\ (line \o passed) \o <<>> = line \o passed
      BY <1>0, PrefixOfConcat, ConcatEmptySeq
    <3> QED BY <2>1, <3>1, <3>2 DEF Conserved
  <2>5. CASE ~ err /\ link = "down" /\ Refused(held)
    <3>1. PICK k \in 0 .. Len(held)-1 : wire' = wire \o SubSeq(held, 1, k)
      BY <2>5 DEF Refused
    <3>2. Len(held) \in Nat
      BY <1>0, LenProperties
    <3>3. k \in 0 .. Len(held)
      BY <3>1, <3>2
    <3>4. /\ wire' \in Seq(Bytes) /\ SubSeq(held, k+1, Len(held)) \in Seq(Bytes)
          /\ wire' \o SubSeq(held, k+1, Len(held)) = wire \o held
      BY <1>0, <3>1, <3>3, Divided
    <3>5. Prefix(wire', wire \o held)
      BY <3>4, PrefixOfConcat
    <3> QED BY <2>1, <2>5, <3>5 DEF Conserved, Sending
  <2> QED BY <1>9, <2>2, <2>3, <2>4, <2>5 DEF Flush, TypeOK
<1>10. CASE Break
  BY <1>10 DEF Break, Conserved, Sending
<1>11. CASE NextConnection
  <2>1. <<>> \o <<>> = <<>> /\ Prefix(<<>>, <<>>)
    BY <1>0, ConcatEmptySeq, EmptyIsPrefix
  <2> QED BY <1>11, <2>1 DEF NextConnection, Conserved
<1> QED BY <1>1, <1>2, <1>3, <1>4, <1>5, <1>6, <1>7, <1>8, <1>9, <1>10, <1>11 DEF Next

\* Every variable of the writers keeps its type, and the bytes of a response are
\* on the connection or in the bufio.Writer as long as no write has failed.
THEOREM BytesConserved == Spec => [](TypeOK /\ Conserved)
<1>1. Init => TypeOK /\ Conserved
  BY TypeInit, ConservedInit
<1>2. TypeOK /\ Conserved /\ [Next]_vars => (TypeOK /\ Conserved)'
  BY TypeStep, ConservedStep
<1> QED BY <1>1, <1>2, PTL DEF Spec

\* Before the next command is read, all of the response is on the connection
\* (ReleaseBufferedWriter, bufio.go:41-44).
THEOREM ResponsesAreDelivered == Spec => []Delivered
<1>1. TypeOK /\ Conserved => Delivered
  BY DEF Conserved, Delivered
<1> QED BY <1>1, BytesConserved, PTL

\* A connection that breaks off shows a beginning of the response, never an end
\* that it does not have.
THEOREM NoEndIsFalse == Spec => []NoFalseEnd
<1>1. TypeOK /\ Conserved => NoFalseEnd
  BY DEF Conserved, NoFalseEnd
<1> QED BY <1>1, BytesConserved, PTL

-----------------------------------------------------------------------------
(***************************************************************************)
(* The block.                                                              *)
(***************************************************************************)
\* The Write that Close makes: where the automaton is, byte by byte.
ClosingWrite ==
  \/ state = nlDotNl_start /\ buf = dotCRLF /\ i = 0 /\ q = nlDotNl_start
  \/ state = nlDotNl_start /\ buf = dotCRLF /\ i \in {1, 2} /\ q = DotSeen
  \/ state = InLine /\ buf = crlfDotCRLF /\ i \in {0, 1} /\ q = InLine
  \/ state = InLine /\ buf = crlfDotCRLF /\ i = 2 /\ q = nlDotNl_start
  \/ state = InLine /\ buf = crlfDotCRLF /\ i \in {3, 4} /\ q = DotSeen
  \/ state = DotSeen /\ buf = crlfDotCRLF /\ i \in {0, 1} /\ q = DotSeen

\* The automaton has tracked what was passed on, and in a Write what it has seen.
Follows ==
  /\ pc = "block" => IF end THEN IsArticleEnd(passed, 0, Len(passed))
                            ELSE Tracks(state, passed, 0, Len(passed))
  /\ pc \in {"scan", "closing"} =>
       /\ ~ end
       /\ Tracks(state, passed, 0, Len(passed))
       /\ Tracks(q, passed \o buf, 0, Len(passed) + i)
  /\ pc = "closing" => ClosingWrite
  /\ BlockClosed => IsArticleEnd(passed, 0, Len(passed))

\* Neither closing sequence is used up before the terminator is found.
LEMMA ClosingUnfinished == ClosingWrite => i < Len(buf)
<1> SUFFICES ASSUME ClosingWrite PROVE i < Len(buf)
  OBVIOUS
<1>1. CASE buf = dotCRLF /\ i \in {0, 1, 2}
  <2>1. Len(buf) = 3
    BY <1>1, Closings
  <2> QED BY <1>1, <2>1
<1>2. CASE buf = crlfDotCRLF /\ i \in {0, 1, 2, 3, 4}
  <2>1. Len(buf) = 5
    BY <1>2, Closings
  <2> QED BY <1>2, <2>1
<1> QED BY <1>1, <1>2 DEF ClosingWrite

LEMMA ClosingNext ==
  ASSUME TypeOK, ClosingWrite, i < Len(buf)
  PROVE  /\ next = nlDotNl_end => \/ state = nlDotNl_start /\ buf = dotCRLF /\ i = 2
                                  \/ state = InLine /\ buf = crlfDotCRLF /\ i = 4
                                  \/ state = DotSeen /\ buf = crlfDotCRLF /\ i = 1
         /\ next # nlDotNl_end /\ ScanByte => ClosingWrite'
<1> USE DEF nlDotNl_transition, InLine, nlDotNl_start, DotSeen, nlDotNl_end
<1>1. CASE buf = dotCRLF /\ i = 0 /\ state = nlDotNl_start /\ q = nlDotNl_start
  <2>1. next = DotSeen
    BY <1>1, Closings DEF next
  <2>2. ScanByte => i' = 1 /\ q' = DotSeen /\ buf' = dotCRLF /\ state' = state
    BY <1>1, <2>1 DEF ScanByte, dotWriter
  <2> QED BY <1>1, <2>1, <2>2 DEF ClosingWrite
<1>2. CASE buf = dotCRLF /\ i = 1 /\ state = nlDotNl_start /\ q = DotSeen
  <2>1. next = DotSeen
    BY <1>2, Closings DEF next
  <2>2. ScanByte => i' = 2 /\ q' = DotSeen /\ buf' = dotCRLF /\ state' = state
    BY <1>2, <2>1 DEF ScanByte, dotWriter
  <2> QED BY <1>2, <2>1, <2>2 DEF ClosingWrite
<1>3. CASE buf = dotCRLF /\ i = 2 /\ state = nlDotNl_start /\ q = DotSeen
  <2>1. next = nlDotNl_end
    BY <1>3, Closings DEF next
  <2> QED BY <1>3, <2>1
<1>4. CASE buf = crlfDotCRLF /\ i = 0 /\ state = InLine /\ q = InLine
  <2>1. next = InLine
    BY <1>4, Closings DEF next
  <2>2. ScanByte => i' = 1 /\ q' = InLine /\ buf' = crlfDotCRLF /\ state' = state
    BY <1>4, <2>1 DEF ScanByte, dotWriter
  <2> QED BY <1>4, <2>1, <2>2 DEF ClosingWrite
<1>5. CASE buf = crlfDotCRLF /\ i = 1 /\ state = InLine /\ q = InLine
  <2>1. next = nlDotNl_start
    BY <1>5, Closings DEF next
  <2>2. ScanByte => i' = 2 /\ q' = nlDotNl_start /\ buf' = crlfDotCRLF /\ state' = state
    BY <1>5, <2>1 DEF ScanByte, dotWriter
  <2> QED BY <1>5, <2>1, <2>2 DEF ClosingWrite
<1>6. CASE buf = crlfDotCRLF /\ i = 2 /\ state = InLine /\ q = nlDotNl_start
  <2>1. next = DotSeen
    BY <1>6, Closings DEF next
  <2>2. ScanByte => i' = 3 /\ q' = DotSeen /\ buf' = crlfDotCRLF /\ state' = state
    BY <1>6, <2>1 DEF ScanByte, dotWriter
  <2> QED BY <1>6, <2>1, <2>2 DEF ClosingWrite
<1>7. CASE buf = crlfDotCRLF /\ i = 3 /\ state = InLine /\ q = DotSeen
  <2>1. next = DotSeen
    BY <1>7, Closings DEF next
  <2>2. ScanByte => i' = 4 /\ q' = DotSeen /\ buf' = crlfDotCRLF /\ state' = state
    BY <1>7, <2>1 DEF ScanByte, dotWriter
  <2> QED BY <1>7, <2>1, <2>2 DEF ClosingWrite
<1>8. CASE buf = crlfDotCRLF /\ i = 4 /\ state = InLine /\ q = DotSeen
  <2>1. next = nlDotNl_end
    BY <1>8, Closings DEF next
  <2> QED BY <1>8, <2>1
<1>9. CASE buf = crlfDotCRLF /\ i = 0 /\ state = DotSeen /\ q = DotSeen
  <2>1. next = DotSeen
    BY <1>9, Closings DEF next
  <2>2. ScanByte => i' = 1 /\ q' = DotSeen /\ buf' = crlfDotCRLF /\ state' = state
    BY <1>9, <2>1 DEF ScanByte, dotWriter
  <2> QED BY <1>9, <2>1, <2>2 DEF ClosingWrite
<1>10. CASE buf = crlfDotCRLF /\ i = 1 /\ state = DotSeen /\ q = DotSeen
  <2>1. next = nlDotNl_end
    BY <1>10, Closings DEF next
  <2> QED BY <1>10, <2>1
<1> QED BY <1>1, <1>2, <1>3, <1>4, <1>5, <1>6, <1>7, <1>8, <1>9, <1>10 DEF ClosingWrite

\* The byte the loop looks at, in what will have been passed on.
LEMMA ByteSeen ==
  ASSUME TypeOK
  PROVE  /\ passed \o buf \in Seq(Symbols)
         /\ Len(passed) \in Nat /\ Len(buf) \in Nat /\ i \in Nat
         /\ Len(passed \o buf) = Len(passed) + Len(buf)
         /\ \A n \in 1 .. Len(buf) : (passed \o buf)[Len(passed) + n] = buf[n]
<1>1. passed \in Seq(Symbols) /\ buf \in Seq(Symbols) /\ Len(passed) \in Nat /\ Len(buf) \in Nat /\ i \in Nat
  BY LenProperties DEF TypeOK
<1>2. /\ passed \o buf \in Seq(Symbols)
      /\ Len(passed \o buf) = Len(passed) + Len(buf)
      /\ \A n \in 1 .. Len(passed) + Len(buf) :
           (passed \o buf)[n] = IF n <= Len(passed) THEN passed[n] ELSE buf[n - Len(passed)]
  BY <1>1, ConcatProperties
<1>3. ASSUME NEW n \in 1 .. Len(buf) PROVE (passed \o buf)[Len(passed) + n] = buf[n]
  <2>1. /\ Len(passed) + n \in 1 .. Len(passed) + Len(buf)
        /\ ~ (Len(passed) + n <= Len(passed))
        /\ (Len(passed) + n) - Len(passed) = n
    BY <1>1
  <2> QED BY <1>2, <2>1
<1> QED BY <1>1, <1>2, <1>3

\* A Write begins where the one before it ended.
LEMMA ScanBegins ==
  ASSUME TypeOK, Tracks(state, passed, 0, Len(passed)), NEW b \in Seq(Symbols)
  PROVE  Tracks(state, passed \o b, 0, Len(passed) + 0)
<1>1. passed \in Seq(Symbols) /\ Len(passed) \in Nat /\ passed \o b \in Seq(Symbols)
  BY LenProperties, ConcatProperties DEF TypeOK
<1>2. Prefix(passed, passed \o b)
  BY <1>1, PrefixOfConcat
<1>3. Tracks(state, passed \o b, 0, Len(passed))
  BY <1>1, <1>2, TracksPrefix
<1>4. Len(passed) + 0 = Len(passed)
  BY <1>1
<1> QED BY <1>3, <1>4

\* One turn of the loop.
LEMMA LoopTracks ==
  ASSUME TypeOK, i < Len(buf), Tracks(q, passed \o buf, 0, Len(passed) + i)
  PROVE  IF next = nlDotNl_end
         THEN IsArticleEnd(passed \o buf, 0, Len(passed) + (i+1))
         ELSE Tracks(next, passed \o buf, 0, Len(passed) + (i+1))
<1> DEFINE s == passed \o buf
           p == Len(passed) + i
<1>1. /\ s \in Seq(Symbols) /\ p \in Nat /\ 0 \in Nat /\ 0 <= p /\ p < Len(s)
      /\ s[p+1] = buf[i+1] /\ p + 1 = Len(passed) + (i+1)
  <2>1. i+1 \in 1 .. Len(buf) /\ Len(passed) + (i+1) = p + 1
    BY ByteSeen
  <2> QED BY <2>1, ByteSeen
<1>2. Tracks(q, s, 0, p)
  OBVIOUS
<1> HIDE DEF s, p
<1>3. IF nlDotNl_transition(q, s[p+1]) = nlDotNl_end
      THEN IsArticleEnd(s, 0, p+1)
      ELSE Tracks(nlDotNl_transition(q, s[p+1]), s, 0, p+1)
  BY <1>1, <1>2, AutomatonTracks
<1>4. next = nlDotNl_transition(q, s[p+1])
  BY <1>1 DEF next
<1>5. IF next = nlDotNl_end THEN IsArticleEnd(s, 0, p+1) ELSE Tracks(next, s, 0, p+1)
  BY <1>3, <1>4, Zenon
<1>6. IF next = nlDotNl_end THEN IsArticleEnd(s, 0, Len(passed) + (i+1)) ELSE Tracks(next, s, 0, Len(passed) + (i+1))
  BY <1>1, <1>5, Zenon
<1> QED BY <1>6 DEF s

\* Of a Write that finds the terminator, what is passed on ends with it.
LEMMA PassedEnds ==
  ASSUME TypeOK, i < Len(buf), next = nlDotNl_end, Tracks(q, passed \o buf, 0, Len(passed) + i)
  PROVE  LET p == passed \o SubSeq(buf, 1, i+1)
         IN  IsArticleEnd(p, 0, Len(p)) /\ Prefix(p, passed \o buf)
<1> DEFINE p == passed \o SubSeq(buf, 1, i+1)
<1>1. i+1 \in 0 .. Len(buf) /\ i+1 \in Nat
  BY ByteSeen
<1>2. SubSeq(buf, 1, i+1) \in Seq(Symbols) /\ Len(SubSeq(buf, 1, i+1)) = i+1
  BY <1>1, PieceTyped
<1>3. p \in Seq(Symbols) /\ Len(p) = Len(passed) + (i+1)
  BY <1>2, ConcatProperties DEF TypeOK
<1>4. Prefix(p, passed \o buf)
  <2>1. passed \in Seq(Bytes) /\ buf \in Seq(Bytes)
    BY StatusIsBytes DEF TypeOK
  <2>2. /\ p \in Seq(Bytes) /\ SubSeq(buf, i+1+1, Len(buf)) \in Seq(Bytes)
        /\ p \o SubSeq(buf, i+1+1, Len(buf)) = passed \o buf
    BY <1>1, <2>1, Divided
  <2> HIDE DEF p
  <2>3. Prefix(p, p \o SubSeq(buf, i+1+1, Len(buf)))
    BY <2>2, PrefixOfConcat
  <2> QED BY <2>2, <2>3
<1>5. IsArticleEnd(passed \o buf, 0, Len(p))
  BY <1>3, LoopTracks
<1> HIDE DEF p
<1>6. IsArticleEnd(p, 0, Len(p))
  <2>1. /\ passed \o buf \in Seq(Symbols) /\ Len(p) \in Nat
        /\ Len(p) <= Len(p) /\ Len(p) <= Len(passed \o buf)
        /\ \A n \in 1 .. Len(p) : p[n] = (passed \o buf)[n]
    BY <1>3, <1>4, ByteSeen, LenProperties DEF Prefix
  <2> QED BY <1>3, <1>5, <2>1, SameBeginning
<1> QED BY <1>4, <1>6 DEF p

LEMMA FollowsInit == Init => Follows
BY DEF Init, Follows, BlockClosed

LEMMA FollowsStep == TypeOK /\ Follows /\ [Next]_vars => Follows'
<1> SUFFICES ASSUME TypeOK, Follows, [Next]_vars PROVE Follows'
  OBVIOUS
<1> USE DEF bufio, dotWriter, call, history, BlockClosed
<1>0. passed \in Seq(Symbols) /\ state \in {InLine, nlDotNl_start, DotSeen}
  BY DEF TypeOK, nlDotNlStates, nlDotNl_end, InLine, nlDotNl_start, DotSeen
<1>1. CASE UNCHANGED vars
  BY <1>1 DEF vars, Follows, ClosingWrite
<1>2. ASSUME NEW l \in Lines, Respond(l) PROVE Follows'
  <2>1. pc' = "block" /\ state' = nlDotNl_start /\ end' = FALSE /\ passed' = <<>>
    BY <1>2 DEF Respond, Reset
  <2>2. <<>> \in Seq(Symbols) /\ Len(<<>>) = 0 /\ 0 \in Nat
    BY EmptySeq
  <2>3. Tracks(nlDotNl_start, <<>>, 0, Len(<<>>))
    BY <2>2, TracksStart
  <2> QED BY <2>1, <2>3 DEF Follows
<1>3. ASSUME NEW l \in Lines, RespondFails(l) PROVE Follows'
  BY <1>3 DEF RespondFails, Follows
<1>4. ASSUME NEW b \in Chunks, Write(b) PROVE Follows'
  <2>1. b \in Seq(Symbols)
    BY DotWritingAssumption
  <2>2. CASE end
    <3>1. pc = "block" /\ UNCHANGED <<pc, state, end, passed>>
      BY <1>4, <2>2 DEF Write
    <3> QED BY <2>2, <3>1 DEF Follows
  <2>3. CASE ~ end
    <3>1. /\ pc = "block" /\ pc' = "scan" /\ buf' = b /\ i' = 0 /\ q' = state
          /\ UNCHANGED <<state, end, passed>>
      BY <1>4, <2>3 DEF Write, StartScan
    <3>2. Tracks(state, passed, 0, Len(passed))
      BY <2>3, <3>1 DEF Follows
    <3>3. Tracks(state, passed \o b, 0, Len(passed) + 0)
      BY <2>1, <3>2, ScanBegins
    <3> QED BY <2>3, <3>1, <3>2, <3>3 DEF Follows
  <2> QED BY <2>2, <2>3
<1>5. CASE ScanByte
  <2>1. /\ pc \in {"scan", "closing"} /\ i < Len(buf) /\ next # nlDotNl_end
        /\ q' = next /\ i' = i + 1
        /\ UNCHANGED <<pc, state, end, buf, passed>>
    BY <1>5 DEF ScanByte, Scanning
  <2>2. Tracks(next, passed \o buf, 0, Len(passed) + (i+1))
    BY <2>1, LoopTracks DEF Follows
  <2>3. pc = "closing" => ClosingWrite'
    BY <1>5, <2>1, ClosingNext DEF Follows
  <2> QED BY <2>1, <2>2, <2>3 DEF Follows
<1>6. CASE ScanEnd
  <2> DEFINE p == passed \o SubSeq(buf, 1, i+1)
  <2>1. /\ pc \in {"scan", "closing"} /\ i < Len(buf) /\ next = nlDotNl_end
        /\ passed' = p /\ end' = TRUE /\ pc' \in {"block", "flush"}
    BY <1>6 DEF ScanEnd, Scanning, Return
  <2>2. IsArticleEnd(p, 0, Len(p))
    BY <2>1, PassedEnds DEF Follows
  <2> HIDE DEF p
  <2> QED BY <2>1, <2>2 DEF Follows
<1>7. CASE ScanDone
  <2>1. /\ pc \in {"scan", "closing"} /\ i = Len(buf) /\ state' = q /\ passed' = passed \o buf
        /\ pc' = IF pc = "scan" THEN "block" ELSE "flush"
        /\ UNCHANGED <<end, buf, i, q>>
    BY <1>7 DEF ScanDone, Scanning, Return
  <2>2. pc = "scan"
    <3>1. ~ ClosingWrite
      <4>1. Len(buf) \in Nat /\ ~ (i < Len(buf))
        BY <2>1, ByteSeen
      <4> QED BY <4>1, ClosingUnfinished
    <3> QED BY <2>1, <3>1 DEF Follows
  <2>3. Len(passed') = Len(passed) + i
    BY <2>1, ByteSeen
  <2> QED BY <2>1, <2>2, <2>3 DEF Follows
<1>8. CASE Close
  <2>1. pc = "block" /\ UNCHANGED <<state, end, passed>>
    BY <1>8 DEF Close
  <2>2. CASE end
    BY <1>8, <2>1, <2>2 DEF Close, Follows
  <2>3. CASE ~ end
    <3> DEFINE b == IF state = nlDotNl_start THEN dotCRLF ELSE crlfDotCRLF
    <3>1. pc' = "closing" /\ buf' = b /\ i' = 0 /\ q' = state
      BY <1>8, <2>3 DEF Close, StartScan
    <3>2. b \in Seq(Symbols)
      BY Closings
    <3>3. Tracks(state, passed, 0, Len(passed))
      BY <2>1, <2>3 DEF Follows
    <3>4. ClosingWrite'
      BY <1>0, <2>1, <3>1 DEF ClosingWrite
    <3> HIDE DEF b
    <3>5. Tracks(state, passed \o b, 0, Len(passed) + 0)
      BY <3>2, <3>3, ScanBegins
    <3> QED BY <2>1, <2>3, <3>1, <3>3, <3>4, <3>5 DEF Follows
  <2> QED BY <2>2, <2>3
<1>9. CASE Flush
  BY <1>9 DEF Flush, Follows
<1>10. CASE Break
  BY <1>10 DEF Break, Follows, ClosingWrite
<1>11. CASE NextConnection
  BY <1>11 DEF NextConnection, Follows
<1> QED BY <1>1, <1>2, <1>3, <1>4, <1>5, <1>6, <1>7, <1>8, <1>9, <1>10, <1>11 DEF Next

\* The block is one article, whatever the pieces are in which it is written
\* (DotWriter.Write and Close, writer.go:56-92).
THEOREM BlocksAreArticles == Spec => []OneArticle
<1>1. Init => Follows
  BY FollowsInit
<1>2. TypeOK /\ Follows /\ [Next]_vars => Follows'
  BY FollowsStep
<1>3. Follows => OneArticle
  BY DEF Follows, OneArticle
<1> QED BY <1>1, <1>2, <1>3, BytesConserved, PTL DEF Spec

-----------------------------------------------------------------------------
(***************************************************************************)
(* The content.                                                            *)
(***************************************************************************)
\* What has been passed on is what the backend has written, up to the terminator.
Kept ==
  /\ pc = "block" => IF end THEN Prefix(passed, content) ELSE passed = content
  /\ pc = "scan" => content = passed \o buf
  /\ pc = "closing" => content = passed
  /\ BlockClosed =>
       \/ Prefix(passed, content) /\ IsArticleEnd(content, 0, Len(passed))
       \/ /\ NoTerminator(content, 0, Len(content))
          /\ \E t \in Tails : passed = content \o t

LEMMA KeptInit == Init => Kept
BY DEF Init, Kept, BlockClosed

\* The end of an article is still its end when more is written behind it.
LEMMA EndIsKept ==
  ASSUME TypeOK, Prefix(passed, content), IsArticleEnd(passed, 0, Len(passed))
  PROVE  IsArticleEnd(content, 0, Len(passed))
<1>1. /\ passed \in Seq(Symbols) /\ content \in Seq(Symbols) /\ Len(passed) \in Nat
      /\ Len(passed) <= Len(passed) /\ Len(passed) <= Len(content)
      /\ \A n \in 1 .. Len(passed) : passed[n] = content[n]
  BY LenProperties DEF TypeOK, Prefix
<1> QED BY <1>1, SameBeginning

LEMMA KeptStep == TypeOK /\ Follows /\ Kept /\ [Next]_vars => Kept'
<1> SUFFICES ASSUME TypeOK, Follows, Kept, [Next]_vars PROVE Kept'
  OBVIOUS
<1> USE DEF bufio, dotWriter, call, history, BlockClosed
<1>0. passed \in Seq(Symbols) /\ content \in Seq(Symbols) /\ buf \in Seq(Symbols)
  BY DEF TypeOK
<1>1. CASE UNCHANGED vars
  BY <1>1 DEF vars, Kept
<1>2. ASSUME NEW l \in Lines, Respond(l) PROVE Kept'
  BY <1>2 DEF Respond, Reset, Kept
<1>3. ASSUME NEW l \in Lines, RespondFails(l) PROVE Kept'
  BY <1>3 DEF RespondFails, Kept
<1>4. ASSUME NEW b \in Chunks, Write(b) PROVE Kept'
  <2>1. b \in Seq(Symbols)
    BY DotWritingAssumption
  <2>2. CASE end
    <3>1. pc = "block" /\ content' = content \o b /\ UNCHANGED <<pc, end, passed>>
      BY <1>4, <2>2 DEF Write
    <3>2. Prefix(passed, content)
      BY <2>2, <3>1 DEF Kept
    <3>3. Prefix(passed, content \o b)
      BY <1>0, <2>1, <3>2, PrefixExtends
    <3> QED BY <2>2, <3>1, <3>3 DEF Kept
  <2>3. CASE ~ end
    BY <1>4, <2>3 DEF Write, StartScan, Kept
  <2> QED BY <2>2, <2>3
<1>5. CASE ScanByte
  BY <1>5 DEF ScanByte, Scanning, Kept
<1>6. CASE ScanEnd
  <2> DEFINE p == passed \o SubSeq(buf, 1, i+1)
  <2>1. /\ pc \in {"scan", "closing"} /\ i < Len(buf) /\ next = nlDotNl_end
        /\ passed' = p /\ end' = TRUE /\ pc' = (IF pc = "scan" THEN "block" ELSE "flush")
        /\ content' = content
    BY <1>6 DEF ScanEnd, Scanning, Return
  <2>2. CASE pc = "scan"
    <3>1. Prefix(p, passed \o buf)
      BY <2>1, PassedEnds DEF Follows
    <3> HIDE DEF p
    <3> QED BY <2>1, <2>2, <3>1 DEF Kept
  <2>3. CASE pc = "closing"
    <3>1. NoTerminator(content, 0, Len(content)) /\ content = passed
      BY <2>3 DEF Follows, Kept, Tracks
    <3>2. \/ state = nlDotNl_start /\ buf = dotCRLF /\ i = 2
          \/ state = InLine /\ buf = crlfDotCRLF /\ i = 4
          \/ state = DotSeen /\ buf = crlfDotCRLF /\ i = 1
      BY <2>1, <2>3, ClosingNext DEF Follows
    <3>3. SubSeq(buf, 1, i+1) \in Tails
      <4>1. CASE buf = dotCRLF /\ i = 2
        <5>1. SubSeq(dotCRLF, 1, 3) = dotCRLF
          BY Closings, SubSeqFull
        <5> QED BY <4>1, <5>1 DEF Tails
      <4>2. CASE buf = crlfDotCRLF /\ i = 4
        <5>1. SubSeq(crlfDotCRLF, 1, 5) = crlfDotCRLF
          BY Closings, SubSeqFull
        <5> QED BY <4>2, <5>1 DEF Tails
      <4>3. CASE buf = crlfDotCRLF /\ i = 1
        <5>1. SubSeq(crlfDotCRLF, 1, 2) = <<"cr", "lf">>
          <6>1. \A m \in 1 .. 2 : crlfDotCRLF[m] \in Symbols
            BY Closings DEF Symbols
          <6>2. /\ SubSeq(crlfDotCRLF, 1, 2) \in Seq(Symbols) /\ Len(SubSeq(crlfDotCRLF, 1, 2)) = 2
                /\ \A m \in 1 .. 2 : SubSeq(crlfDotCRLF, 1, 2)[m] = crlfDotCRLF[m]
            BY <6>1, SubSeqProperties
          <6>3. /\ <<"cr", "lf">> \in Seq(Symbols) /\ Len(<<"cr", "lf">>) = 2
                /\ <<"cr", "lf">>[1] = "cr" /\ <<"cr", "lf">>[2] = "lf"
            BY DEF Symbols
          <6>4. \A m \in 1 .. 2 : SubSeq(crlfDotCRLF, 1, 2)[m] = <<"cr", "lf">>[m]
            BY <6>2, <6>3, Closings
          <6> QED BY <6>2, <6>3, <6>4, SeqEqual
        <5> QED BY <4>3, <5>1 DEF Tails
      <4> QED BY <3>2, <4>1, <4>2, <4>3
    <3> QED BY <2>1, <2>3, <3>1, <3>3 DEF Kept
  <2> QED BY <2>1, <2>2, <2>3
<1>7. CASE ScanDone
  <2>1. /\ pc \in {"scan", "closing"} /\ i = Len(buf) /\ passed' = passed \o buf
        /\ pc' = (IF pc = "scan" THEN "block" ELSE "flush")
        /\ UNCHANGED <<end, content>>
    BY <1>7 DEF ScanDone, Scanning, Return
  <2>2. pc = "scan"
    <3>1. ~ ClosingWrite
      <4>1. Len(buf) \in Nat /\ ~ (i < Len(buf))
        BY <2>1, ByteSeen
      <4> QED BY <4>1, ClosingUnfinished
    <3> QED BY <2>1, <3>1 DEF Follows
  <2> QED BY <2>1, <2>2 DEF Kept, Follows
<1>8. CASE Close
  <2>1. pc = "block" /\ UNCHANGED <<passed, content>>
    BY <1>8 DEF Close
  <2>2. CASE end
    <3>1. pc' = "flush" /\ Prefix(passed, content) /\ IsArticleEnd(passed, 0, Len(passed))
      BY <1>8, <2>1, <2>2 DEF Close, Kept, Follows
    <3>2. IsArticleEnd(content, 0, Len(passed))
      BY <3>1, EndIsKept
    <3> QED BY <2>1, <3>1, <3>2 DEF Kept
  <2>3. CASE ~ end
    BY <1>8, <2>1, <2>3 DEF Close, StartScan, Kept
  <2> QED BY <2>2, <2>3
<1>9. CASE Flush
  BY <1>9 DEF Flush, Kept
<1>10. CASE Break
  BY <1>10 DEF Break, Kept
<1>11. CASE NextConnection
  BY <1>11 DEF NextConnection, Kept
<1> QED BY <1>1, <1>2, <1>3, <1>4, <1>5, <1>6, <1>7, <1>8, <1>9, <1>10, <1>11 DEF Next

\* The block holds what the backend has written up to the first terminator, or all
\* of it and one of three endings (DotWriter.Close, writer.go:82-92).
THEOREM ContentIsKept == Spec => []ContentKept
<1>1. Init => Follows /\ Kept
  BY FollowsInit, KeptInit
<1>2. TypeOK /\ Follows /\ Kept /\ [Next]_vars => (Follows /\ Kept)'
  BY FollowsStep, KeptStep
<1>3. Kept => ContentKept
  BY DEF Kept, ContentKept
<1> QED BY <1>1, <1>2, <1>3, BytesConserved, PTL DEF Spec
=============================================================================
