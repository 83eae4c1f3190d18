------------------------ MODULE PostedArticleProofs ------------------------
(***************************************************************************)
(* Proofs about PostedArticle and PostedHeader, for every article that a   *)
(* client may send and every way it comes in.                              *)
(***************************************************************************)
EXTENDS PostedHeader, WireProofs, SequenceTheorems, FiniteSetTheorems, WellFoundedInduction, TLAPS

-----------------------------------------------------------------------------
(***************************************************************************)
(* Induction over the bytes of a piece: of a set of numbers take the least.*)
(***************************************************************************)
LEMMA Least ==
  ASSUME NEW T \in SUBSET Nat, T # {}
  PROVE  \E n \in T : \A m \in T : n <= m
<1>1. IsWellFoundedOn(OpToRel(<, Nat), Nat)
  BY NatLessThanWellFounded
<1>2. PICK n \in T : \A m \in T : ~ (<<m, n>> \in OpToRel(<, Nat))
  BY <1>1, WFMin
<1>3. \A m \in T : ~ (m < n)
  BY <1>2 DEF OpToRel
<1> QED BY <1>3

\* A set that holds 0, and with n the number behind it up to N, holds all up to N.
LEMMA UpTo ==
  ASSUME NEW N \in Nat, NEW S, 0 \in S, \A n \in 0 .. N : n < N /\ n \in S => n+1 \in S
  PROVE  \A n \in 0 .. N : n \in S
<1> DEFINE T == {n \in 0 .. N : n \notin S}
<1>1. ASSUME T # {}
      PROVE  FALSE
  <2>1. T \in SUBSET Nat
    OBVIOUS
  <2> HIDE DEF T
  <2>2. PICK n \in T : \A m \in T : n <= m
    BY <1>1, <2>1, Least
  <2>3. n \in 0 .. N /\ n \notin S /\ n > 0
    BY <2>2 DEF T
  <2>4. n-1 \in 0 .. N /\ n-1 \notin T
    BY <2>2, <2>3
  <2>5. n-1 \in S
    BY <2>4 DEF T
  <2>6. n-1 < N /\ (n-1)+1 = n
    BY <2>3
  <2> QED BY <2>3, <2>4, <2>5, <2>6
<1> QED BY <1>1

-----------------------------------------------------------------------------
\* The states of an automaton exist, and each follows from the one before it.
LEMMA RunStates ==
  ASSUME NEW what, NEW s, NEW b, Len(b) \in Nat
  PROVE  Run(what, s, b) =
           [n \in 0 .. Len(b) |-> IF n = 0 THEN s ELSE transition(what, Run(what, s, b)[n-1], b[n])]
<1> DEFINE Fits(g, k) == g = [n \in 0 .. k |-> IF n = 0 THEN s ELSE transition(what, g[n-1], b[n])]
           S == {k \in Nat : \E g : Fits(g, k)}
<1>1. 0 \in S
  <2> DEFINE g == [n \in 0 .. 0 |-> s]
  <2>1. Fits(g, 0)
    OBVIOUS
  <2> QED BY <2>1
<1>2. ASSUME NEW k \in 0 .. Len(b), k < Len(b), k \in S
      PROVE  k+1 \in S
  <2>1. PICK g : Fits(g, k)
    BY <1>2
  <2> DEFINE h == [n \in 0 .. k+1 |-> IF n = k+1 THEN transition(what, g[k], b[k+1]) ELSE g[n]]
  <2>2. ASSUME NEW n \in 0 .. k+1
        PROVE  h[n] = IF n = 0 THEN s ELSE transition(what, h[n-1], b[n])
    <3>1. CASE n = k+1
      <4>1. h[n-1] = g[k] /\ n - 1 = k
        BY <3>1
      <4> QED BY <3>1, <4>1
    <3>2. CASE n \in 0 .. k
      <4>1. h[n] = g[n] /\ (n > 0 => h[n-1] = g[n-1])
        BY <3>2
      <4>2. g[n] = IF n = 0 THEN s ELSE transition(what, g[n-1], b[n])
        BY <2>1, <3>2
      <4> QED BY <3>2, <4>1, <4>2
    <3> QED BY <3>1, <3>2
  <2>3. DOMAIN h = 0 .. k+1
    OBVIOUS
  <2> HIDE DEF h
  <2>5. h = [n \in 0 .. k+1 |-> h[n]]
    BY <2>3 DEF h
  <2>4. Fits(h, k+1)
    BY <2>2, <2>5
  <2> QED BY <2>4
<1>3. Len(b) \in S
  <2> HIDE DEF S
  <2>1. \A n \in 0 .. Len(b) : n < Len(b) /\ n \in S => n+1 \in S
    BY <1>2
  <2>2. \A n \in 0 .. Len(b) : n \in S
    BY <1>1, <2>1, UpTo
  <2> QED BY <2>2
<1>4. \E g : Fits(g, Len(b))
  BY <1>3
<1>5. Run(what, s, b) = CHOOSE g : Fits(g, Len(b))
  BY DEF Run
<1>6. Fits(Run(what, s, b), Len(b))
  <2> HIDE DEF Fits
  <2> QED BY <1>4, <1>5
<1> QED BY <1>6

\* A writer that has not come to the end it looks for, and one that has.
Open(q)  == [state |-> q, end |-> FALSE]
Ended(q) == [state |-> q, end |-> TRUE]

LEMMA WriterFields ==
  ASSUME NEW q
  PROVE  Open(q).state = q /\ Open(q).end = FALSE /\ Ended(q).state = q /\ Ended(q).end = TRUE
BY DEF Open, Ended

\* What one Write scans: to the first byte that brings the automaton to e, or all.
LEMMA ScannedTo ==
  ASSUME NEW w, NEW what, NEW e, NEW b, Len(b) \in Nat,
         NEW f, f = Run(what, w.state, b), NEW s, s = Scanned(w, what, e, b)
  PROVE  /\ f[0] = w.state
         /\ \A n \in 1 .. Len(b) : f[n] = transition(what, f[n-1], b[n])
         /\ \/ /\ \A n \in 1 .. Len(b) : f[n] # e
               /\ s.w = Open(f[Len(b)]) /\ s.upTo = Len(b)
            \/ \E j \in 1 .. Len(b) :
                 /\ f[j] = e /\ \A m \in 1 .. j-1 : f[m] # e
                 /\ s.w = Ended(w.state) /\ s.upTo = j
<1>1. f = [n \in 0 .. Len(b) |-> IF n = 0 THEN w.state ELSE transition(what, f[n-1], b[n])]
  BY RunStates
<1>2. s = IF Reaches(f, e) > 0
          THEN [w |-> Ended(w.state), upTo |-> Reaches(f, e)]
          ELSE [w |-> Open(f[Len(b)]), upTo |-> Len(b)]
  BY DEF Scanned, Open, Ended
<1>3. DOMAIN f = 0 .. Len(b)
  BY <1>1
<1>4. f[0] = w.state /\ \A n \in 1 .. Len(b) : f[n] = transition(what, f[n-1], b[n])
  <2>1. \A n \in 0 .. Len(b) : f[n] = IF n = 0 THEN w.state ELSE transition(what, f[n-1], b[n])
    BY <1>1
  <2> QED BY <2>1
<1> DEFINE R == {n \in 1 .. Len(b) : f[n] = e}
<1>5. CASE R = {}
  <2>1. Reaches(f, e) = 0
    BY <1>3, <1>5 DEF Reaches
  <2>2. s.w = Open(f[Len(b)]) /\ s.upTo = Len(b)
    BY <1>2, <2>1
  <2> QED BY <1>4, <1>5, <2>2
<1>6. CASE R # {}
  <2>1. R \in SUBSET Nat
    OBVIOUS
  <2> HIDE DEF R
  <2>2. PICK k \in R : \A m \in R : k <= m
    BY <1>6, <2>1, Least
  <2>3. k \in DOMAIN f /\ k \in 1 .. Len(b) /\ f[k] = e /\ \A m \in 1 .. k-1 : f[m] # e
    BY <1>3, <2>2 DEF R
  <2> DEFINE P(n) == n > 0 /\ f[n] = e /\ \A m \in 1 .. n-1 : f[m] # e
  <2>4. Reaches(f, e) = CHOOSE n \in DOMAIN f : P(n)
    BY <1>3, <2>3 DEF Reaches
  <2>5. P(k)
    BY <2>3
  <2> DEFINE j == Reaches(f, e)
  <2>6. j \in DOMAIN f /\ P(j)
    <3> HIDE DEF P
    <3> QED BY <2>3, <2>4, <2>5
  <2>7. j \in 1 .. Len(b) /\ f[j] = e /\ \A m \in 1 .. j-1 : f[m] # e
    BY <1>3, <2>6
  <2> HIDE DEF j
  <2>8. s.w = Ended(w.state) /\ s.upTo = j
    BY <1>2, <2>7 DEF j
  <2> QED BY <1>4, <2>7, <2>8
<1> QED BY <1>5, <1>6

\* The bytes of b are those of the stream t behind the first c.
IsPiece(b, t, c) ==
  /\ b \in Seq(Symbols) /\ Len(b) \in Nat /\ c \in Nat /\ c + Len(b) <= Len(t)
  /\ \A i \in 1 .. Len(b) : b[i] = t[c+i]

\* The DotWriter keeps track of the article through one Write, or finds its end.
LEMMA ArticleScanned ==
  ASSUME NEW t \in Seq(Symbols), NEW c, NEW b, IsPiece(b, t, c), NEW w, Tracks(w.state, t, 0, c),
         NEW s, s = Scanned(w, "article", nlDotNl_end, b)
  PROVE  \/ s.w = Open(s.w.state) /\ s.upTo = Len(b) /\ Tracks(s.w.state, t, 0, c + Len(b))
         \/ s.w = Ended(w.state) /\ s.upTo \in 1 .. Len(b) /\ IsArticleEnd(t, 0, c + s.upTo)
<1>1. Len(b) \in Nat /\ c \in Nat /\ c + Len(b) <= Len(t) /\ \A i \in 1 .. Len(b) : b[i] = t[c+i]
  BY DEF IsPiece
<1>names. PICK what, e : what = "article" /\ e = nlDotNl_end
  OBVIOUS
<1>run. PICK f : f = Run(what, w.state, b)
  OBVIOUS
<1>scan. s = Scanned(w, what, e, b)
  BY <1>names
<1>2. /\ f[0] = w.state
      /\ \A n \in 1 .. Len(b) : f[n] = transition("article", f[n-1], b[n])
      /\ \/ /\ \A n \in 1 .. Len(b) : f[n] # nlDotNl_end
            /\ s.w = Open(f[Len(b)]) /\ s.upTo = Len(b)
         \/ \E j \in 1 .. Len(b) :
              /\ f[j] = nlDotNl_end /\ \A m \in 1 .. j-1 : f[m] # nlDotNl_end
              /\ s.w = Ended(w.state) /\ s.upTo = j
  <2>1. /\ f[0] = w.state
        /\ \A n \in 1 .. Len(b) : f[n] = transition(what, f[n-1], b[n])
        /\ \/ /\ \A n \in 1 .. Len(b) : f[n] # e
              /\ s.w = Open(f[Len(b)]) /\ s.upTo = Len(b)
           \/ \E j \in 1 .. Len(b) :
                /\ f[j] = e /\ \A m \in 1 .. j-1 : f[m] # e
                /\ s.w = Ended(w.state) /\ s.upTo = j
    <3>1. Len(b) \in Nat
      BY <1>1
    <3> QED BY <1>run, <1>scan, <3>1, ScannedTo
  <2> QED BY <1>names, <2>1
<1>3. ASSUME NEW n \in 0 .. Len(b) - 1, Tracks(f[n], t, 0, c+n)
      PROVE  IF f[n+1] = nlDotNl_end THEN IsArticleEnd(t, 0, c+n+1) ELSE Tracks(f[n+1], t, 0, c+n+1)
  <2>1. n+1 \in 1 .. Len(b) /\ (n+1)-1 = n /\ c + (n+1) = (c+n)+1
    BY <1>1
  <2>2. f[n+1] = nlDotNl_transition(f[n], t[(c+n)+1])
    BY <1>1, <1>2, <2>1 DEF transition
  <2>3. c+n \in Nat /\ 0 <= c+n /\ c+n < Len(t) /\ Len(t) \in Nat
    BY <1>1, LenProperties
  <2> DEFINE p == c+n
  <2> HIDE DEF p
  <2>4. IF nlDotNl_transition(f[n], t[p+1]) = nlDotNl_end
        THEN IsArticleEnd(t, 0, p+1)
        ELSE Tracks(nlDotNl_transition(f[n], t[p+1]), t, 0, p+1)
    BY <1>3, <2>3, AutomatonTracks DEF p
  <2> QED BY <2>2, <2>4 DEF p
<1> DEFINE S == {n \in Nat : (\A m \in 1 .. n : f[m] # nlDotNl_end) => Tracks(f[n], t, 0, c+n)}
<1>4. \A n \in 0 .. Len(b) : n \in S
  <2>1. 0 \in S
    BY <1>1, <1>2
  <2>2. ASSUME NEW n \in 0 .. Len(b), n < Len(b), n \in S
        PROVE  n+1 \in S
    <3>1. n \in 0 .. Len(b) - 1 /\ n+1 \in Nat /\ c+(n+1) = c+n+1
      BY <1>1, <2>2
    <3>2. ASSUME \A m \in 1 .. n+1 : f[m] # nlDotNl_end
          PROVE  Tracks(f[n+1], t, 0, c+(n+1))
      <4>1. Tracks(f[n], t, 0, c+n) /\ f[n+1] # nlDotNl_end
        BY <2>2, <3>1, <3>2
      <4> QED BY <1>3, <3>1, <4>1
    <3> QED BY <3>1, <3>2
  <2> HIDE DEF S
  <2>3. \A n \in 0 .. Len(b) : n < Len(b) /\ n \in S => n+1 \in S
    BY <2>2
  <2> QED BY <1>1, <2>1, <2>3, UpTo
<1>5. ASSUME \A n \in 1 .. Len(b) : f[n] # nlDotNl_end, s.w = Open(f[Len(b)])
      PROVE  s.w = Open(s.w.state) /\ Tracks(s.w.state, t, 0, c + Len(b))
  <2>1. Tracks(f[Len(b)], t, 0, c + Len(b))
    <3>1. Len(b) \in S
      BY <1>1, <1>4
    <3> QED BY <1>5, <3>1
  <2>2. s.w.state = f[Len(b)]
    BY <1>5, WriterFields
  <2> QED BY <1>5, <2>1, <2>2
<1>6. ASSUME NEW j \in 1 .. Len(b), f[j] = nlDotNl_end, \A m \in 1 .. j-1 : f[m] # nlDotNl_end
      PROVE  IsArticleEnd(t, 0, c + j)
  <2>1. j-1 \in 0 .. Len(b) - 1 /\ (j-1)+1 = j /\ c+(j-1)+1 = c+j
    BY <1>1
  <2>2. Tracks(f[j-1], t, 0, c+(j-1))
    <3> HIDE DEF S
    <3>1. j-1 \in 0 .. Len(b)
      BY <1>1
    <3>2. j-1 \in S
      BY <1>4, <3>1
    <3> QED BY <1>6, <3>2 DEF S
  <2> QED BY <1>3, <1>6, <2>1, <2>2
<1> HIDE DEF S
<1> QED BY <1>2, <1>5, <1>6

-----------------------------------------------------------------------------
\* Up to i, the current line holds only carriage returns, and is not the first.
EmptyLine(t, i) == \E b \in 1 .. i : t[b] = "lf" /\ OnlyCR(t, b, i)

HeadTracks(q, t, i) ==
  /\ q \in {0, 256}
  /\ q = 256 <=> EmptyLine(t, i)
  /\ \A k \in 1 .. i : ~ BlankLine(t, k)

LEMMA EmptyLineStep ==
  ASSUME NEW t \in Seq(Symbols), NEW i \in Nat, i < Len(t)
  PROVE  EmptyLine(t, i+1) <=> t[i+1] = "lf" \/ (t[i+1] = "cr" /\ EmptyLine(t, i))
<1>1. ASSUME EmptyLine(t, i+1)
      PROVE  t[i+1] = "lf" \/ (t[i+1] = "cr" /\ EmptyLine(t, i))
  <2>1. PICK b \in 1 .. i+1 : t[b] = "lf" /\ OnlyCR(t, b, i+1)
    BY <1>1 DEF EmptyLine
  <2>2. CASE b = i+1
    BY <2>1, <2>2
  <2>3. CASE b \in 1 .. i
    <3>1. t[i+1] = "cr" /\ OnlyCR(t, b, i)
      BY <2>1, <2>3 DEF OnlyCR
    <3> QED BY <2>1, <2>3, <3>1 DEF EmptyLine
  <2> QED BY <2>1, <2>2, <2>3
<1>2. ASSUME t[i+1] = "lf"
      PROVE  EmptyLine(t, i+1)
  <2>1. i+1 \in 1 .. i+1 /\ OnlyCR(t, i+1, i+1)
    BY DEF OnlyCR
  <2> QED BY <1>2, <2>1 DEF EmptyLine
<1>3. ASSUME t[i+1] = "cr", EmptyLine(t, i)
      PROVE  EmptyLine(t, i+1)
  <2>1. PICK b \in 1 .. i : t[b] = "lf" /\ OnlyCR(t, b, i)
    BY <1>3 DEF EmptyLine
  <2>2. b \in 1 .. i+1 /\ OnlyCR(t, b, i+1)
    BY <1>3, <2>1 DEF OnlyCR
  <2> QED BY <2>1, <2>2 DEF EmptyLine
<1> QED BY <1>1, <1>2, <1>3

\* Until the first blank line behind another line, the automaton that looks for the end of
\* a head is in 256 just while the line is empty so far and not the first; with the line
\* feed of that line it comes to its end, and with no other byte (nlNl_transition).
THEOREM HeadTracksStep ==
  ASSUME NEW t \in Seq(Symbols), NEW i \in Nat, i < Len(t), NEW q, HeadTracks(q, t, i)
  PROVE  IF nlNl_transition(q, t[i+1]) = nlNl_end
         THEN HeadEnds(t, i+1)
         ELSE HeadTracks(nlNl_transition(q, t[i+1]), t, i+1)
<1> DEFINE b == t[i+1]
           r == nlNl_transition(q, b)
<1>1. b \in Symbols
  OBVIOUS
<1>2. /\ r = nlNl_end <=> b = "lf" /\ q = 256
      /\ r = 256 <=> (b = "lf" /\ q = 0) \/ (b = "cr" /\ q = 256)
      /\ r \in {0, 256, nlNl_end}
  BY <1>1 DEF HeadTracks, nlNl_transition, nlNl_end, Symbols
<1>3. BlankLine(t, i+1) <=> b = "lf" /\ EmptyLine(t, i)
  <2>1. (i+1)-1 = i
    OBVIOUS
  <2> QED BY <2>1 DEF BlankLine, EmptyLine
<1>4. r = nlNl_end => HeadEnds(t, i+1)
  <2>1. (i+1)-1 = i
    OBVIOUS
  <2> QED BY <1>2, <1>3, <2>1 DEF HeadTracks, HeadEnds
<1>5. ASSUME r # nlNl_end
      PROVE  HeadTracks(r, t, i+1)
  <2>1. ~ BlankLine(t, i+1)
    BY <1>2, <1>3, <1>5 DEF HeadTracks
  <2>2. \A k \in 1 .. i+1 : ~ BlankLine(t, k)
    BY <2>1 DEF HeadTracks
  <2>3. r = 256 <=> EmptyLine(t, i+1)
    BY <1>2, <1>5, EmptyLineStep DEF HeadTracks
  <2> QED BY <1>2, <1>5, <2>2, <2>3 DEF HeadTracks
<1> QED BY <1>4, <1>5

\* The HeadBodyWriter keeps track of the head through one Write, or finds its end.
LEMMA HeadScanned ==
  ASSUME NEW t \in Seq(Symbols), NEW c, NEW b, IsPiece(b, t, c), NEW w, HeadTracks(w.state, t, c),
         NEW s, s = Scanned(w, "head", nlNl_end, b)
  PROVE  \/ s.w = Open(s.w.state) /\ s.upTo = Len(b) /\ HeadTracks(s.w.state, t, c + Len(b))
         \/ s.w = Ended(w.state) /\ s.upTo \in 1 .. Len(b) /\ HeadEnds(t, c + s.upTo)
<1>1. Len(b) \in Nat /\ c \in Nat /\ c + Len(b) <= Len(t) /\ \A i \in 1 .. Len(b) : b[i] = t[c+i]
  BY DEF IsPiece
<1>2. PICK what, e : what = "head" /\ e = nlNl_end
  OBVIOUS
<1>3. PICK f : f = Run(what, w.state, b)
  OBVIOUS
<1>4. s = Scanned(w, what, e, b)
  BY <1>2
<1>5. /\ f[0] = w.state
      /\ \A n \in 1 .. Len(b) : f[n] = nlNl_transition(f[n-1], b[n])
      /\ \/ /\ \A n \in 1 .. Len(b) : f[n] # nlNl_end
            /\ s.w = Open(f[Len(b)]) /\ s.upTo = Len(b)
         \/ \E j \in 1 .. Len(b) :
              /\ f[j] = nlNl_end /\ \A m \in 1 .. j-1 : f[m] # nlNl_end
              /\ s.w = Ended(w.state) /\ s.upTo = j
  <2>1. /\ f[0] = w.state
        /\ \A n \in 1 .. Len(b) : f[n] = transition(what, f[n-1], b[n])
        /\ \/ /\ \A n \in 1 .. Len(b) : f[n] # e
              /\ s.w = Open(f[Len(b)]) /\ s.upTo = Len(b)
           \/ \E j \in 1 .. Len(b) :
                /\ f[j] = e /\ \A m \in 1 .. j-1 : f[m] # e
                /\ s.w = Ended(w.state) /\ s.upTo = j
    <3>1. Len(b) \in Nat
      BY <1>1
    <3> QED BY <1>3, <1>4, <3>1, ScannedTo
  <2> QED BY <1>2, <2>1 DEF transition
<1>6. ASSUME NEW n \in 0 .. Len(b) - 1, HeadTracks(f[n], t, c+n)
      PROVE  IF f[n+1] = nlNl_end THEN HeadEnds(t, c+n+1) ELSE HeadTracks(f[n+1], t, c+n+1)
  <2>1. n+1 \in 1 .. Len(b) /\ (n+1)-1 = n /\ c + (n+1) = (c+n)+1
    BY <1>1
  <2>2. f[n+1] = nlNl_transition(f[n], t[(c+n)+1])
    BY <1>1, <1>5, <2>1
  <2>3. c+n \in Nat /\ c+n < Len(t)
    BY <1>1, LenProperties
  <2> DEFINE p == c+n
  <2> HIDE DEF p
  <2>4. IF nlNl_transition(f[n], t[p+1]) = nlNl_end
        THEN HeadEnds(t, p+1)
        ELSE HeadTracks(nlNl_transition(f[n], t[p+1]), t, p+1)
    BY <1>6, <2>3, HeadTracksStep DEF p
  <2> QED BY <2>2, <2>4 DEF p
<1> DEFINE S == {n \in Nat : (\A m \in 1 .. n : f[m] # nlNl_end) => HeadTracks(f[n], t, c+n)}
<1>7. \A n \in 0 .. Len(b) : n \in S
  <2>1. 0 \in S
    BY <1>1, <1>5
  <2>2. ASSUME NEW n \in 0 .. Len(b), n < Len(b), n \in S
        PROVE  n+1 \in S
    <3>1. n \in 0 .. Len(b) - 1 /\ n+1 \in Nat /\ c+(n+1) = c+n+1
      BY <1>1, <2>2
    <3>2. ASSUME \A m \in 1 .. n+1 : f[m] # nlNl_end
          PROVE  HeadTracks(f[n+1], t, c+(n+1))
      <4>1. HeadTracks(f[n], t, c+n) /\ f[n+1] # nlNl_end
        BY <2>2, <3>1, <3>2
      <4> QED BY <1>6, <3>1, <4>1
    <3> QED BY <3>1, <3>2
  <2> HIDE DEF S
  <2>3. \A n \in 0 .. Len(b) : n < Len(b) /\ n \in S => n+1 \in S
    BY <2>2
  <2> QED BY <1>1, <2>1, <2>3, UpTo
<1>8. ASSUME \A n \in 1 .. Len(b) : f[n] # nlNl_end, s.w = Open(f[Len(b)])
      PROVE  s.w = Open(s.w.state) /\ HeadTracks(s.w.state, t, c + Len(b))
  <2>1. HeadTracks(f[Len(b)], t, c + Len(b))
    <3>1. Len(b) \in S
      BY <1>1, <1>7
    <3> QED BY <1>8, <3>1
  <2>2. s.w.state = f[Len(b)]
    BY <1>8, WriterFields
  <2> QED BY <1>8, <2>1, <2>2
<1>9. ASSUME NEW j \in 1 .. Len(b), f[j] = nlNl_end, \A m \in 1 .. j-1 : f[m] # nlNl_end
      PROVE  HeadEnds(t, c + j)
  <2>1. j-1 \in 0 .. Len(b) - 1 /\ (j-1)+1 = j /\ c+(j-1)+1 = c+j
    BY <1>1
  <2>2. HeadTracks(f[j-1], t, c+(j-1))
    <3> HIDE DEF S
    <3>1. j-1 \in 0 .. Len(b)
      BY <1>1
    <3>2. j-1 \in S
      BY <1>7, <3>1
    <3> QED BY <1>9, <3>2 DEF S
  <2> QED BY <1>6, <1>9, <2>1, <2>2
<1> HIDE DEF S
<1> QED BY <1>5, <1>8, <1>9

-----------------------------------------------------------------------------
LEMMA SubSeqIs ==
  ASSUME NEW t \in Seq(Symbols), NEW m \in Nat \ {0}, NEW n \in Nat, n <= Len(t)
  PROVE  /\ SubSeq(t, m, n) \in Seq(Symbols)
         /\ Len(SubSeq(t, m, n)) = IF m <= n THEN n - m + 1 ELSE 0
         /\ \A i \in 1 .. Len(SubSeq(t, m, n)) : SubSeq(t, m, n)[i] = t[m+i-1]
<1>1. Len(t) \in Nat
  BY LenProperties
<1>2. CASE m <= n
  <2>1. m \in 1 .. Len(t) /\ n \in m .. Len(t)
    BY <1>1, <1>2
  <2>2. \A i \in m .. n : t[i] \in Symbols
    BY <1>1, <2>1, ElementOfSeq
  <2>3. SubSeq(t, m, n) \in Seq(Symbols)
    BY <2>2, SubSeqProperties
  <2> QED BY <1>2, <2>1, <2>2, <2>3, SubSeqProperties
<1>3. CASE ~ (m <= n)
  <2>1. SubSeq(t, m, n) = <<>>
    BY <1>3, SubSeqProperties
  <2> QED BY <1>3, <2>1, EmptySeq
<1> QED BY <1>2, <1>3

\* The bytes behind the first e, up to z, and those up to z.
LEMMA Slice ==
  ASSUME NEW t \in Seq(Symbols), NEW e \in Nat, NEW z \in Nat, e <= z, z <= Len(t)
  PROVE  /\ SubSeq(t, e+1, z) \in Seq(Symbols) /\ Len(SubSeq(t, e+1, z)) = z - e
         /\ \A i \in 1 .. z - e : SubSeq(t, e+1, z)[i] = t[e+i]
<1> DEFINE a == e+1
<1>1. a \in Nat \ {0} /\ (IF a <= z THEN z - a + 1 ELSE 0) = z - e /\ \A i \in 1 .. z - e : a+i-1 = e+i
  OBVIOUS
<1> HIDE DEF a
<1>2. /\ SubSeq(t, a, z) \in Seq(Symbols)
      /\ Len(SubSeq(t, a, z)) = IF a <= z THEN z - a + 1 ELSE 0
      /\ \A i \in 1 .. Len(SubSeq(t, a, z)) : SubSeq(t, a, z)[i] = t[a+i-1]
  BY <1>1, SubSeqIs
<1>3. Len(SubSeq(t, a, z)) = z - e
  BY <1>1, <1>2
<1>4. \A i \in 1 .. z - e : SubSeq(t, a, z)[i] = t[e+i]
  BY <1>1, <1>2, <1>3
<1> QED BY <1>2, <1>3, <1>4 DEF a

LEMMA Front ==
  ASSUME NEW t \in Seq(Symbols), NEW z \in Nat, z <= Len(t)
  PROVE  /\ SubSeq(t, 1, z) \in Seq(Symbols) /\ Len(SubSeq(t, 1, z)) = z
         /\ \A i \in 1 .. z : SubSeq(t, 1, z)[i] = t[i]
<1>1. 1 \in Nat \ {0} /\ (IF 1 <= z THEN z - 1 + 1 ELSE 0) = z /\ \A i \in 1 .. z : 1+i-1 = i
  OBVIOUS
<1>2. /\ SubSeq(t, 1, z) \in Seq(Symbols)
      /\ Len(SubSeq(t, 1, z)) = IF 1 <= z THEN z - 1 + 1 ELSE 0
      /\ \A i \in 1 .. Len(SubSeq(t, 1, z)) : SubSeq(t, 1, z)[i] = t[1+i-1]
  BY <1>1, SubSeqIs
<1>3. Len(SubSeq(t, 1, z)) = z
  BY <1>1, <1>2
<1>4. \A i \in 1 .. z : SubSeq(t, 1, z)[i] = t[i]
  BY <1>1, <1>2, <1>3
<1> QED BY <1>2, <1>3, <1>4

LEMMA Joined ==
  ASSUME NEW t \in Seq(Symbols), NEW c \in Nat, NEW b, IsPiece(b, t, c), NEW a \in Nat, a <= c
  PROVE  SubSeq(t, a+1, c) \o b = SubSeq(t, a+1, c + Len(b))
<1>1. /\ b \in Seq(Symbols) /\ Len(b) \in Nat /\ c + Len(b) <= Len(t)
      /\ \A i \in 1 .. Len(b) : b[i] = t[c+i]
      /\ Len(t) \in Nat
  BY LenProperties DEF IsPiece
<1>2. PICK p, q, n : p = SubSeq(t, a+1, c) /\ q = SubSeq(t, a+1, n) /\ n = c + Len(b)
  OBVIOUS
<1>3. n \in Nat /\ a <= n /\ n <= Len(t) /\ c <= Len(t)
  BY <1>1, <1>2
<1>4. p \in Seq(Symbols) /\ Len(p) = c - a /\ \A i \in 1 .. c - a : p[i] = t[a+i]
  BY <1>2, <1>3, Slice
<1>5. q \in Seq(Symbols) /\ Len(q) = n - a /\ \A i \in 1 .. n - a : q[i] = t[a+i]
  BY <1>2, <1>3, Slice
<1>6. /\ p \o b \in Seq(Symbols) /\ Len(p \o b) = Len(p) + Len(b)
      /\ \A i \in 1 .. Len(p) + Len(b) : (p \o b)[i] = IF i <= Len(p) THEN p[i] ELSE b[i - Len(p)]
  BY <1>1, <1>4, ConcatProperties
<1>7. Len(p \o b) = Len(q) /\ Len(q) = n - a
  BY <1>1, <1>2, <1>4, <1>5, <1>6
<1>8. ASSUME NEW i \in 1 .. Len(p \o b)
      PROVE  (p \o b)[i] = q[i]
  <2>1. q[i] = t[a+i]
    BY <1>5, <1>7
  <2>2. CASE i <= Len(p)
    <3>1. (p \o b)[i] = p[i] /\ i \in 1 .. c - a
      BY <1>1, <1>4, <1>6, <2>2
    <3> QED BY <1>4, <2>1, <3>1
  <2>3. CASE ~ (i <= Len(p))
    <3>1. (p \o b)[i] = b[i - Len(p)] /\ i - Len(p) \in 1 .. Len(b)
      BY <1>1, <1>4, <1>6, <2>3
    <3>2. c + (i - Len(p)) = a + i
      BY <1>1, <1>4
    <3> QED BY <1>1, <2>1, <3>1, <3>2
  <2> QED BY <2>2, <2>3
<1>9. p \o b = q
  BY <1>5, <1>6, <1>7, <1>8, SeqEqual
<1> QED BY <1>2, <1>9

LEMMA PieceCut ==
  ASSUME NEW t \in Seq(Symbols), NEW c \in Nat, NEW b, IsPiece(b, t, c), NEW u \in Nat, u <= Len(b)
  PROVE  /\ IsPiece(SubSeq(b, 1, u), t, c) /\ Len(SubSeq(b, 1, u)) = u
         /\ SubSeq(b, u+1, Len(b)) = SubSeq(t, c+u+1, c + Len(b))
<1>1. /\ b \in Seq(Symbols) /\ Len(b) \in Nat /\ c + Len(b) <= Len(t)
      /\ \A i \in 1 .. Len(b) : b[i] = t[c+i]
      /\ Len(t) \in Nat
  BY LenProperties DEF IsPiece
<1>2. /\ SubSeq(b, 1, u) \in Seq(Symbols) /\ Len(SubSeq(b, 1, u)) = u
      /\ \A i \in 1 .. u : SubSeq(b, 1, u)[i] = b[i]
  BY <1>1, Front
<1>3. IsPiece(SubSeq(b, 1, u), t, c)
  BY <1>1, <1>2 DEF IsPiece
<1>4. PICK p, q, m, n : /\ p = SubSeq(b, u+1, Len(b)) /\ q = SubSeq(t, m+1, n)
                        /\ m = c+u /\ n = c + Len(b)
  OBVIOUS
<1>5. m \in Nat /\ n \in Nat /\ m <= n /\ n <= Len(t) /\ n - m = Len(b) - u
  BY <1>1, <1>4
<1>6. p \in Seq(Symbols) /\ Len(p) = Len(b) - u /\ \A i \in 1 .. Len(b) - u : p[i] = b[u+i]
  BY <1>1, <1>4, Slice
<1>7. q \in Seq(Symbols) /\ Len(q) = n - m /\ \A i \in 1 .. n - m : q[i] = t[m+i]
  BY <1>4, <1>5, Slice
<1>8. ASSUME NEW i \in 1 .. Len(p)
      PROVE  p[i] = q[i]
  <2>1. u+i \in 1 .. Len(b) /\ c + (u+i) = m+i
    BY <1>1, <1>4, <1>6
  <2> QED BY <1>1, <1>5, <1>6, <1>7, <2>1
<1>9. p = q
  BY <1>5, <1>6, <1>7, <1>8, SeqEqual
<1> QED BY <1>2, <1>3, <1>4, <1>9

\* Of the first c bytes of t the two buffers hold all: until the head has ended,
\* the head, and then the head and what has come of the body.
Divided(t, c) ==
  \/ /\ \E q \in {0, 256} : hbw = Open(q) /\ HeadTracks(q, t, c)
     /\ headw = SubSeq(t, 1, c) /\ bodyw = <<>>
  \/ /\ \E q \in {0, 256} : hbw = Ended(q)
     /\ \E e \in 1 .. c : HeadEnds(t, e) /\ headw = SubSeq(t, 1, e) /\ bodyw = SubSeq(t, e+1, c)

LEMMA HeadBodyKeeps ==
  ASSUME NEW t \in Seq(Symbols), NEW c, NEW b, IsPiece(b, t, c), Divided(t, c), HeadBodyWrite(b)
  PROVE  Divided(t, c + Len(b))'
<1>1. /\ b \in Seq(Symbols) /\ Len(b) \in Nat /\ c \in Nat /\ c + Len(b) <= Len(t) /\ Len(t) \in Nat
  BY LenProperties DEF IsPiece
<1>2. ASSUME NEW q \in {0, 256}, hbw = Open(q), HeadTracks(q, t, c), headw = SubSeq(t, 1, c), bodyw = <<>>
      PROVE  Divided(t, c + Len(b))'
  <2>1. hbw.end = FALSE /\ hbw.state = q
    BY <1>2, WriterFields
  <2>2. PICK s : s = Scanned(hbw, "head", nlNl_end, b)
    OBVIOUS
  <2>3. /\ hbw' = s.w
        /\ headw' = headw \o SubSeq(b, 1, s.upTo)
        /\ bodyw' = bodyw \o SubSeq(b, s.upTo + 1, Len(b))
    BY <2>1, <2>2 DEF HeadBodyWrite
  <2>4. \/ s.w = Open(s.w.state) /\ s.upTo = Len(b) /\ HeadTracks(s.w.state, t, c + Len(b))
        \/ s.w = Ended(q) /\ s.upTo \in 1 .. Len(b) /\ HeadEnds(t, c + s.upTo)
    <3>1. HeadTracks(hbw.state, t, c)
      BY <1>2, <2>1
    <3>2. \/ s.w = Open(s.w.state) /\ s.upTo = Len(b) /\ HeadTracks(s.w.state, t, c + Len(b))
          \/ s.w = Ended(hbw.state) /\ s.upTo \in 1 .. Len(b) /\ HeadEnds(t, c + s.upTo)
      BY <2>2, <3>1, HeadScanned
    <3> QED BY <2>1, <3>2
  <2>5. PICK u : u = s.upTo
    OBVIOUS
  <2>6. u \in 0 .. Len(b)
    BY <1>1, <2>4, <2>5
  <2>7. /\ IsPiece(SubSeq(b, 1, u), t, c) /\ Len(SubSeq(b, 1, u)) = u
        /\ SubSeq(b, u+1, Len(b)) = SubSeq(t, c+u+1, c + Len(b))
    <3>1. c \in Nat /\ u \in Nat /\ u <= Len(b)
      BY <1>1, <2>6
    <3> QED BY <3>1, PieceCut
  <2>8. headw' = SubSeq(t, 1, c+u)
    <3>1. PICK a : a = 0 /\ a \in Nat /\ a <= c
      BY <1>1
    <3>5. a+1 = 1
      BY <3>1
    <3>2. PICK p : p = SubSeq(b, 1, u)
      OBVIOUS
    <3>3. IsPiece(p, t, c) /\ Len(p) = u
      BY <2>7, <3>2
    <3>4. SubSeq(t, a+1, c) \o p = SubSeq(t, a+1, c + Len(p))
      BY <1>1, <3>1, <3>3, Joined
    <3> QED BY <1>2, <2>3, <2>5, <3>5, <3>2, <3>3, <3>4
  <2>9. bodyw' = SubSeq(t, c+u+1, c + Len(b))
    <3>1. u+1 \in Nat \ {0} /\ Len(b) <= Len(b)
      BY <1>1, <2>6
    <3>2. SubSeq(b, u+1, Len(b)) \in Seq(Symbols)
      BY <1>1, <3>1, SubSeqIs
    <3>3. <<>> \o SubSeq(b, u+1, Len(b)) = SubSeq(b, u+1, Len(b))
      BY <3>2, ConcatEmptySeq
    <3> QED BY <1>2, <2>3, <2>5, <2>7, <3>3
  <2>10. CASE s.w = Open(s.w.state) /\ u = Len(b) /\ HeadTracks(s.w.state, t, c + Len(b))
    <3>1. bodyw' = <<>>
      <4>1. c + Len(b) < c+u+1 /\ c+u+1 \in Int /\ c + Len(b) \in Int
        BY <1>1, <2>10
      <4> QED BY <2>9, <4>1, SubSeqEmpty
    <3>2. PICK r : r = s.w.state
      OBVIOUS
    <3>3. r \in {0, 256} /\ hbw' = Open(r) /\ HeadTracks(r, t, c + Len(b))
      BY <2>3, <2>10, <3>2 DEF HeadTracks
    <3>4. c+u = c + Len(b)
      BY <2>10
    <3> QED BY <2>8, <3>1, <3>3, <3>4 DEF Divided
  <2>11. CASE s.w = Ended(q) /\ u \in 1 .. Len(b) /\ HeadEnds(t, c+u)
    <3>1. hbw' = Ended(q)
      BY <2>3, <2>11
    <3>2. c+u \in 1 .. c + Len(b)
      BY <1>1, <2>11
    <3> QED BY <2>8, <2>9, <2>11, <3>1, <3>2 DEF Divided
  <2> QED BY <2>4, <2>5, <2>10, <2>11
<1>3. ASSUME NEW q \in {0, 256}, hbw = Ended(q),
             NEW e \in 1 .. c, HeadEnds(t, e), headw = SubSeq(t, 1, e), bodyw = SubSeq(t, e+1, c)
      PROVE  Divided(t, c + Len(b))'
  <2>1. hbw.end = TRUE
    BY <1>3, WriterFields
  <2>2. bodyw' = bodyw \o b /\ hbw' = hbw /\ headw' = headw
    BY <2>1 DEF HeadBodyWrite
  <2>3. bodyw' = SubSeq(t, e+1, c + Len(b))
    <3>1. e \in Nat /\ e <= c
      BY <1>1
    <3>2. SubSeq(t, e+1, c) \o b = SubSeq(t, e+1, c + Len(b))
      BY <1>1, <3>1, Joined
    <3> QED BY <1>3, <2>2, <3>2
  <2>4. e \in 1 .. c + Len(b)
    BY <1>1
  <2> QED BY <1>3, <2>2, <2>3, <2>4 DEF Divided
<1> QED BY <1>2, <1>3 DEF Divided

\* One Write of the DotWriter.
LEMMA DotKeeps ==
  ASSUME NEW t \in Seq(Symbols), NEW c \in Nat, NEW b, IsPiece(b, t, c), NEW q, dw = Open(q),
         Tracks(q, t, 0, c), Divided(t, c), DotWrite(b)
  PROVE  \/ \E r : dw' = Open(r) /\ Tracks(r, t, 0, c + Len(b)) /\ Divided(t, c + Len(b))'
         \/ \E u \in 1 .. Len(b) : dw' = Ended(q) /\ IsArticleEnd(t, 0, c+u) /\ Divided(t, c+u)'
<1>1. dw.end = FALSE /\ dw.state = q
  BY WriterFields
<1>2. PICK s : s = Scanned(dw, "article", nlDotNl_end, b)
  OBVIOUS
<1>3. dw' = s.w /\ HeadBodyWrite(SubSeq(b, 1, s.upTo))
  BY <1>1, <1>2 DEF DotWrite
<1>4. \/ s.w = Open(s.w.state) /\ s.upTo = Len(b) /\ Tracks(s.w.state, t, 0, c + Len(b))
      \/ s.w = Ended(q) /\ s.upTo \in 1 .. Len(b) /\ IsArticleEnd(t, 0, c + s.upTo)
  <2>1. Tracks(dw.state, t, 0, c)
    BY <1>1
  <2>2. \/ s.w = Open(s.w.state) /\ s.upTo = Len(b) /\ Tracks(s.w.state, t, 0, c + Len(b))
        \/ s.w = Ended(dw.state) /\ s.upTo \in 1 .. Len(b) /\ IsArticleEnd(t, 0, c + s.upTo)
    BY <1>2, <2>1, ArticleScanned
  <2> QED BY <1>1, <2>2
<1>5. PICK u, p : u = s.upTo /\ p = SubSeq(b, 1, u)
  OBVIOUS
<1>6. u \in Nat /\ u <= Len(b) /\ Len(b) \in Nat
  <2>1. Len(b) \in Nat
    BY DEF IsPiece
  <2> QED BY <1>4, <1>5, <2>1
<1>7. IsPiece(p, t, c) /\ Len(p) = u
  BY <1>5, <1>6, PieceCut
<1>8. Divided(t, c + Len(p))'
  <2>1. HeadBodyWrite(p)
    BY <1>3, <1>5
  <2> QED BY <1>7, <2>1, HeadBodyKeeps
<1>9. Divided(t, c + u)'
  BY <1>7, <1>8
<1>10. CASE s.w = Open(s.w.state) /\ u = Len(b) /\ Tracks(s.w.state, t, 0, c + Len(b))
  <2>1. PICK r : r = s.w.state
    OBVIOUS
  <2>2. dw' = Open(r) /\ Tracks(r, t, 0, c + Len(b))
    BY <1>3, <1>10, <2>1
  <2>3. Divided(t, c + Len(b))'
    BY <1>9, <1>10
  <2> QED BY <2>2, <2>3
<1>11. CASE s.w = Ended(q) /\ u \in 1 .. Len(b) /\ IsArticleEnd(t, 0, c + u)
  BY <1>3, <1>9, <1>11
<1> QED BY <1>4, <1>5, <1>10, <1>11

-----------------------------------------------------------------------------
\* Where a sequence is cut so that no byte of a set is at its end.
Cut(s, bytes, n) ==
  /\ n > 0 => s[n] \notin bytes
  /\ \A m \in n+1 .. Len(s) : s[m] \in bytes

LEMMA Trimming ==
  ASSUME NEW s \in Seq(Symbols), NEW bytes
  PROVE  \E n \in 0 .. Len(s) : /\ Cut(s, bytes, n) /\ TrimmedOf(s, bytes) = SubSeq(s, 1, n)
                                /\ \A k \in 0 .. Len(s) : Cut(s, bytes, k) => k = n
<1>1. Len(s) \in Nat
  BY LenProperties
<1> DEFINE T == {n \in 0 .. Len(s) : \A m \in n+1 .. Len(s) : s[m] \in bytes}
<1>2. T # {} /\ T \in SUBSET Nat
  <2>1. Len(s) \in T
    BY <1>1
  <2> QED BY <2>1
<1> HIDE DEF T
<1>3. PICK n \in T : \A m \in T : n <= m
  BY <1>2, Least
<1>4. n \in 0 .. Len(s) /\ \A m \in n+1 .. Len(s) : s[m] \in bytes
  BY DEF T
<1>5. Cut(s, bytes, n)
  <2>1. ASSUME n > 0, s[n] \in bytes
        PROVE  FALSE
    <3>1. n-1 \in 0 .. Len(s) /\ \A m \in (n-1)+1 .. Len(s) : m = n \/ m \in n+1 .. Len(s)
      BY <1>1, <1>4, <2>1
    <3>2. \A m \in (n-1)+1 .. Len(s) : s[m] \in bytes
      BY <1>4, <2>1, <3>1
    <3>3. n-1 \in T
      BY <3>1, <3>2 DEF T
    <3>4. n <= n-1
      BY <1>3, <3>3
    <3> QED BY <1>1, <1>4, <3>4
  <2> QED BY <1>4, <2>1 DEF Cut
<1>6. ASSUME NEW j \in 0 .. Len(s), NEW k \in 0 .. Len(s), Cut(s, bytes, j), Cut(s, bytes, k), j < k
      PROVE  FALSE
  <2>1. k > 0 /\ k \in j+1 .. Len(s)
    BY <1>1, <1>6
  <2> QED BY <1>6, <2>1 DEF Cut
<1>7. ASSUME NEW j \in 0 .. Len(s), NEW k \in 0 .. Len(s), Cut(s, bytes, j), Cut(s, bytes, k)
      PROVE  j = k
  <2>1. ~ (j < k) /\ ~ (k < j)
    BY <1>6, <1>7
  <2> QED BY <1>1, <2>1
<1> DEFINE c == CHOOSE j \in 0 .. Len(s) : Cut(s, bytes, j)
<1>8. TrimmedOf(s, bytes) = SubSeq(s, 1, c)
  BY DEF TrimmedOf, Cut
<1>9. c = n
  <2>1. c \in 0 .. Len(s) /\ Cut(s, bytes, c)
    BY <1>4, <1>5
  <2> HIDE DEF c
  <2> QED BY <1>4, <1>5, <1>7, <2>1
<1> HIDE DEF c
<1> QED BY <1>4, <1>5, <1>7, <1>8, <1>9

LEMMA TrimmedType ==
  ASSUME NEW s \in Seq(Symbols)
  PROVE  /\ trimCRLF(s) \in Seq(Symbols) /\ NoTrail(trimCRLF(s), s)
         /\ trimDOT(s) \in Seq(Symbols)
<1>1. Len(s) \in Nat
  BY LenProperties
<1>2. PICK n \in 0 .. Len(s) : Cut(s, {"cr", "lf"}, n) /\ trimCRLF(s) = SubSeq(s, 1, n)
  BY Trimming DEF trimCRLF
<1>3. ASSUME NEW m \in 0 .. Len(s)
      PROVE  /\ SubSeq(s, 1, m) \in Seq(Symbols) /\ Len(SubSeq(s, 1, m)) = m
             /\ \A i \in 1 .. m : SubSeq(s, 1, m)[i] = s[i]
  BY <1>1, Front
<1>4. NoTrail(trimCRLF(s), s)
  <2> DEFINE h == trimCRLF(s)
  <2>1. h = SubSeq(s, 1, n) /\ h \in Seq(Symbols) /\ Len(h) = n /\ \A i \in 1 .. n : h[i] = s[i]
    BY <1>2, <1>3
  <2> HIDE DEF h
  <2>2. h # <<>> => n > 0 /\ h[n] = s[n]
    BY <1>1, <2>1, EmptySeq
  <2> QED BY <1>1, <1>2, <2>1, <2>2 DEF NoTrail, Cut, h
<1>5. trimDOT(s) \in Seq(Symbols)
  <2>1. CASE s # <<>> /\ s[Len(s)] = "dot"
    <3>1. Len(s) - 1 \in 0 .. Len(s)
      BY <1>1, <2>1, EmptySeq
    <3> QED BY <1>3, <2>1, <3>1 DEF trimDOT
  <2>2. CASE ~ (s # <<>> /\ s[Len(s)] = "dot")
    BY <2>2 DEF trimDOT
  <2> QED BY <2>1, <2>2
<1> QED BY <1>2, <1>3, <1>4, <1>5

LEMMA FrontOfSlice ==
  ASSUME NEW t \in Seq(Symbols), NEW e \in Nat, NEW z \in Nat, e <= z, z <= Len(t), NEW j \in Nat, j <= z - e
  PROVE  SubSeq(SubSeq(t, e+1, z), 1, j) = SubSeq(t, e+1, e+j)
<1>1. Len(t) \in Nat
  BY LenProperties
<1>2. PICK s, p, q, n : s = SubSeq(t, e+1, z) /\ p = SubSeq(s, 1, j) /\ q = SubSeq(t, e+1, n) /\ n = e+j
  OBVIOUS
<1>3. n \in Nat /\ e <= n /\ n <= Len(t) /\ n - e = j
  BY <1>1, <1>2
<1>4. s \in Seq(Symbols) /\ Len(s) = z - e /\ \A i \in 1 .. z - e : s[i] = t[e+i]
  BY <1>2, Slice
<1>5. p \in Seq(Symbols) /\ Len(p) = j /\ \A i \in 1 .. j : p[i] = s[i]
  BY <1>2, <1>4, Front
<1>6. q \in Seq(Symbols) /\ Len(q) = n - e /\ \A i \in 1 .. n - e : q[i] = t[e+i]
  BY <1>2, <1>3, Slice
<1>7. \A i \in 1 .. Len(p) : p[i] = q[i]
  BY <1>3, <1>4, <1>5, <1>6
<1>8. p = q
  BY <1>3, <1>5, <1>6, <1>7, SeqEqual
<1> QED BY <1>2, <1>8

\* What is left of the body, when the last dot of the stream t up to m is at n.
LEMMA BodyCut ==
  ASSUME NEW t \in Seq(Symbols), NEW e \in Nat, NEW m \in Nat, NEW n \in Nat, e < n, n <= m, m <= Len(t),
         t[n] = "dot", \A k \in n+1 .. m : t[k] \in {"cr", "lf"}
  PROVE  trimDOT(trimCRLF(SubSeq(t, e+1, m))) = SubSeq(t, e+1, n-1)
<1>1. Len(t) \in Nat
  BY LenProperties
<1>2. PICK s, h, j : s = SubSeq(t, e+1, m) /\ h = trimCRLF(s) /\ j = n - e
  OBVIOUS
<1>3. s \in Seq(Symbols) /\ Len(s) = m - e /\ \A i \in 1 .. m - e : s[i] = t[e+i]
  BY <1>2, Slice
<1>4. j \in Nat \ {0} /\ j <= m - e /\ e+j = n
  BY <1>2
<1>5. s[j] = "dot" /\ Cut(s, {"cr", "lf"}, j)
  <2>1. s[j] = "dot"
    BY <1>3, <1>4
  <2>2. ASSUME NEW k \in j+1 .. Len(s)
        PROVE  s[k] \in {"cr", "lf"}
    <3>1. k \in 1 .. m - e /\ e+k \in n+1 .. m
      BY <1>3, <1>4
    <3> QED BY <1>3, <3>1
  <2> QED BY <2>1, <2>2 DEF Cut
<1>6. h = SubSeq(t, e+1, n)
  <2>1. PICK k \in 0 .. Len(s) : /\ trimCRLF(s) = SubSeq(s, 1, k)
                                 /\ \A i \in 0 .. Len(s) : Cut(s, {"cr", "lf"}, i) => i = k
    BY <1>3, Trimming DEF trimCRLF
  <2>2. j \in 0 .. Len(s)
    BY <1>3, <1>4
  <2>3. h = SubSeq(s, 1, j)
    BY <1>2, <1>5, <2>1, <2>2
  <2>4. SubSeq(SubSeq(t, e+1, m), 1, j) = SubSeq(t, e+1, e+j)
    BY <1>4, FrontOfSlice
  <2> QED BY <1>2, <1>4, <2>3, <2>4
<1>7. h # <<>> /\ h[Len(h)] = "dot" /\ Len(h) = j
  <2>1. h \in Seq(Symbols) /\ Len(h) = n - e /\ \A i \in 1 .. n - e : h[i] = t[e+i]
    BY <1>1, <1>6, Slice
  <2>2. Len(h) = j /\ h[j] = "dot"
    BY <1>2, <1>4, <2>1
  <2> QED BY <1>4, <2>1, <2>2, EmptySeq
<1>8. trimDOT(h) = SubSeq(h, 1, j - 1)
  BY <1>7 DEF trimDOT
<1>9. SubSeq(SubSeq(t, e+1, n), 1, j-1) = SubSeq(t, e+1, e + (j-1))
  <2> DEFINE i == j-1
  <2>1. i \in Nat /\ i <= n - e
    BY <1>4
  <2> HIDE DEF i
  <2>2. e <= n /\ n <= Len(t)
    BY <1>1
  <2>3. SubSeq(SubSeq(t, e+1, n), 1, i) = SubSeq(t, e+1, e+i)
    BY <2>1, <2>2, FrontOfSlice
  <2> QED BY <2>3 DEF i
<1>10. e + (j-1) = n-1
  BY <1>4
<1> QED BY <1>2, <1>6, <1>8, <1>9, <1>10

-----------------------------------------------------------------------------
\* What is said of the first c bytes of a stream holds of any that begins with them.
Agree(s, t, c) == c <= Len(s) /\ c <= Len(t) /\ \A k \in 1 .. c : s[k] = t[k]

LEMMA AgreeOnce ==
  ASSUME NEW s \in Seq(Symbols), NEW t \in Seq(Symbols), NEW c \in Nat, Agree(s, t, c)
  PROVE  /\ \A n \in 0 .. c : AtLineStart(s, 0, n) => AtLineStart(t, 0, n)
         /\ \A n \in 0 .. c : AfterDot(s, 0, n) => AfterDot(t, 0, n)
         /\ \A n \in 0 .. c : EmptyLine(s, n) => EmptyLine(t, n)
         /\ \A n \in 1 .. c : IsTerminator(s, 0, n) => IsTerminator(t, 0, n)
         /\ \A n \in 1 .. c : BlankLine(s, n) => BlankLine(t, n)
<1>1. \A k \in 1 .. c : s[k] = t[k]
  BY DEF Agree
<1>2. \A b \in 0 .. c, n \in 0 .. c : OnlyCR(s, b, n) => OnlyCR(t, b, n)
  BY <1>1 DEF OnlyCR
<1>3. ASSUME NEW n \in 0 .. c, AtLineStart(s, 0, n)
      PROVE  AtLineStart(t, 0, n)
  <2>1. PICK b \in 0 .. n : (b = 0 \/ s[b] = "lf") /\ OnlyCR(s, b, n)
    BY <1>3 DEF AtLineStart
  <2>2. (b = 0 \/ t[b] = "lf") /\ OnlyCR(t, b, n)
    BY <1>1, <1>2, <2>1
  <2> QED BY <2>2 DEF AtLineStart
<1>4. ASSUME NEW n \in 0 .. c, AfterDot(s, 0, n)
      PROVE  AfterDot(t, 0, n)
  <2>1. PICK d \in 0+1 .. n : s[d] = "dot" /\ AtLineStart(s, 0, d-1) /\ OnlyCR(s, d, n)
    BY <1>4 DEF AfterDot
  <2>2. t[d] = "dot" /\ AtLineStart(t, 0, d-1) /\ OnlyCR(t, d, n)
    <3>1. d \in 1 .. c /\ d-1 \in 0 .. c /\ d \in 0 .. c
      OBVIOUS
    <3> QED BY <1>1, <1>2, <1>3, <2>1, <3>1
  <2> QED BY <2>2 DEF AfterDot
<1>5. ASSUME NEW n \in 0 .. c, EmptyLine(s, n)
      PROVE  EmptyLine(t, n)
  <2>1. PICK b \in 1 .. n : s[b] = "lf" /\ OnlyCR(s, b, n)
    BY <1>5 DEF EmptyLine
  <2>2. t[b] = "lf" /\ OnlyCR(t, b, n)
    BY <1>1, <1>2, <2>1
  <2> QED BY <2>2 DEF EmptyLine
<1>6. ASSUME NEW n \in 1 .. c, IsTerminator(s, 0, n)
      PROVE  IsTerminator(t, 0, n)
  <2>1. s[n] = "lf" /\ AfterDot(s, 0, n-1) /\ n-1 \in 0 .. c
    BY <1>6 DEF IsTerminator
  <2>2. n \in 0+1 .. Len(t)
    BY LenProperties DEF Agree
  <2> QED BY <1>1, <1>4, <2>1, <2>2 DEF IsTerminator
<1>7. ASSUME NEW n \in 1 .. c, BlankLine(s, n)
      PROVE  BlankLine(t, n)
  <2>1. s[n] = "lf" /\ EmptyLine(s, n-1) /\ n-1 \in 0 .. c
    BY <1>7 DEF BlankLine, EmptyLine
  <2>2. t[n] = "lf" /\ EmptyLine(t, n-1)
    BY <1>1, <1>5, <2>1
  <2> QED BY <2>2 DEF BlankLine, EmptyLine
<1> QED BY <1>3, <1>4, <1>5, <1>6, <1>7

LEMMA AgreeBoth ==
  ASSUME NEW s \in Seq(Symbols), NEW t \in Seq(Symbols), NEW c \in Nat, Agree(s, t, c)
  PROVE  /\ \A n \in 0 .. c : AtLineStart(s, 0, n) <=> AtLineStart(t, 0, n)
         /\ \A n \in 0 .. c : AfterDot(s, 0, n) <=> AfterDot(t, 0, n)
         /\ \A n \in 0 .. c : EmptyLine(s, n) <=> EmptyLine(t, n)
         /\ \A n \in 1 .. c : IsTerminator(s, 0, n) <=> IsTerminator(t, 0, n)
         /\ \A n \in 1 .. c : BlankLine(s, n) <=> BlankLine(t, n)
<1>1. Agree(t, s, c)
  BY DEF Agree
<1>2. /\ \A n \in 0 .. c : AtLineStart(s, 0, n) => AtLineStart(t, 0, n)
      /\ \A n \in 0 .. c : AfterDot(s, 0, n) => AfterDot(t, 0, n)
      /\ \A n \in 0 .. c : EmptyLine(s, n) => EmptyLine(t, n)
      /\ \A n \in 1 .. c : IsTerminator(s, 0, n) => IsTerminator(t, 0, n)
      /\ \A n \in 1 .. c : BlankLine(s, n) => BlankLine(t, n)
  BY AgreeOnce
<1>3. /\ \A n \in 0 .. c : AtLineStart(t, 0, n) => AtLineStart(s, 0, n)
      /\ \A n \in 0 .. c : AfterDot(t, 0, n) => AfterDot(s, 0, n)
      /\ \A n \in 0 .. c : EmptyLine(t, n) => EmptyLine(s, n)
      /\ \A n \in 1 .. c : IsTerminator(t, 0, n) => IsTerminator(s, 0, n)
      /\ \A n \in 1 .. c : BlankLine(t, n) => BlankLine(s, n)
  BY <1>1, AgreeOnce
<1> QED BY <1>2, <1>3

LEMMA SamePrefix ==
  ASSUME NEW s \in Seq(Symbols), NEW t \in Seq(Symbols), NEW c \in Nat, Agree(s, t, c)
  PROVE  /\ \A q : Tracks(q, s, 0, c) => Tracks(q, t, 0, c)
         /\ \A q : HeadTracks(q, s, c) => HeadTracks(q, t, c)
         /\ \A e \in 1 .. c : HeadEnds(s, e) => HeadEnds(t, e)
         /\ \A a \in 0 .. c, e \in 0 .. c : SubSeq(s, a+1, e) = SubSeq(t, a+1, e)
         /\ \A e \in 0 .. c : SubSeq(s, 1, e) = SubSeq(t, 1, e)
<1>1. /\ \A n \in 0 .. c : AtLineStart(s, 0, n) <=> AtLineStart(t, 0, n)
      /\ \A n \in 0 .. c : AfterDot(s, 0, n) <=> AfterDot(t, 0, n)
      /\ \A n \in 0 .. c : EmptyLine(s, n) <=> EmptyLine(t, n)
      /\ \A n \in 1 .. c : IsTerminator(s, 0, n) <=> IsTerminator(t, 0, n)
      /\ \A n \in 1 .. c : BlankLine(s, n) <=> BlankLine(t, n)
  BY AgreeBoth
<1>2. c \in 0 .. c /\ \A k \in 0+1 .. c : k \in 1 .. c
  OBVIOUS
<1>3. \A q : Tracks(q, s, 0, c) => Tracks(q, t, 0, c)
  BY <1>1, <1>2 DEF Tracks, NoTerminator
<1>4. \A q : HeadTracks(q, s, c) => HeadTracks(q, t, c)
  BY <1>1, <1>2 DEF HeadTracks
<1>5. \A e \in 1 .. c : HeadEnds(s, e) => HeadEnds(t, e)
  <2>1. \A e \in 1 .. c : \A k \in 1 .. e-1 : k \in 1 .. c
    OBVIOUS
  <2> QED BY <1>1, <2>1 DEF HeadEnds
<1>6. c <= Len(s) /\ c <= Len(t) /\ \A k \in 1 .. c : s[k] = t[k]
  BY DEF Agree
<1>7. ASSUME NEW a \in 0 .. c, NEW e \in 0 .. c
      PROVE  SubSeq(s, a+1, e) = SubSeq(t, a+1, e)
  <2>1. Len(s) \in Nat /\ Len(t) \in Nat /\ a \in Nat /\ e \in Nat /\ e <= Len(s) /\ e <= Len(t)
    BY <1>6, LenProperties
  <2>2. CASE a <= e
    <3>1. PICK p, q : p = SubSeq(s, a+1, e) /\ q = SubSeq(t, a+1, e)
      OBVIOUS
    <3>2. p \in Seq(Symbols) /\ Len(p) = e - a /\ \A i \in 1 .. e - a : p[i] = s[a+i]
      BY <2>1, <2>2, <3>1, Slice
    <3>3. q \in Seq(Symbols) /\ Len(q) = e - a /\ \A i \in 1 .. e - a : q[i] = t[a+i]
      BY <2>1, <2>2, <3>1, Slice
    <3>4. \A i \in 1 .. e - a : a+i \in 1 .. c
      BY <2>1
    <3>5. p = q
      BY <1>6, <3>2, <3>3, <3>4, SeqEqual
    <3> QED BY <3>1, <3>5
  <2>3. CASE ~ (a <= e)
    <3>1. a+1 \in Int /\ e \in Int /\ e < a+1
      BY <2>1, <2>3
    <3>2. SubSeq(s, a+1, e) = <<>> /\ SubSeq(t, a+1, e) = <<>>
      BY <3>1, SubSeqEmpty
    <3> QED BY <3>2
  <2> QED BY <2>2, <2>3
<1>8. \A e \in 0 .. c : SubSeq(s, 1, e) = SubSeq(t, 1, e)
  <2>1. PICK a : a = 0 /\ a \in 0 .. c /\ a+1 = 1
    OBVIOUS
  <2>2. \A e \in 0 .. c : SubSeq(s, a+1, e) = SubSeq(t, a+1, e)
    BY <1>7, <2>1
  <2> QED BY <2>1, <2>2
<1> QED BY <1>3, <1>4, <1>5, <1>7, <1>8

LEMMA OneHeadEnd ==
  ASSUME NEW t, NEW e \in Nat \ {0}, NEW k \in Nat \ {0}, HeadEnds(t, e), HeadEnds(t, k)
  PROVE  e = k
<1>1. ~ (e \in 1 .. k-1) /\ ~ (k \in 1 .. e-1)
  BY DEF HeadEnds
<1> QED BY <1>1

\* A stream with more bytes behind it.
LEMMA Behind ==
  ASSUME NEW s \in Seq(Symbols), NEW b \in Seq(Symbols), NEW t, t = s \o b
  PROVE  /\ t \in Seq(Symbols) /\ Len(t) = Len(s) + Len(b) /\ Agree(s, t, Len(s)) /\ IsPiece(b, t, Len(s))
         /\ \A i \in 1 .. Len(b) : t[Len(s) + i] = b[i]
<1>1. Len(s) \in Nat /\ Len(b) \in Nat
  BY LenProperties
<1>2. /\ t \in Seq(Symbols) /\ Len(t) = Len(s) + Len(b)
      /\ \A i \in 1 .. Len(s) + Len(b) : t[i] = IF i <= Len(s) THEN s[i] ELSE b[i - Len(s)]
  BY ConcatProperties
<1>3. Agree(s, t, Len(s))
  BY <1>1, <1>2 DEF Agree
<1>4. \A i \in 1 .. Len(b) : t[Len(s) + i] = b[i]
  BY <1>1, <1>2
<1> QED BY <1>1, <1>2, <1>3, <1>4 DEF IsPiece

LEMMA DividedSame ==
  ASSUME NEW s \in Seq(Symbols), NEW t \in Seq(Symbols), NEW c \in Nat, Agree(s, t, c), Divided(s, c)
  PROVE  Divided(t, c)
<1>1. /\ \A q : HeadTracks(q, s, c) => HeadTracks(q, t, c)
      /\ \A e \in 1 .. c : HeadEnds(s, e) => HeadEnds(t, e)
      /\ \A a \in 0 .. c, e \in 0 .. c : SubSeq(s, a+1, e) = SubSeq(t, a+1, e)
      /\ \A e \in 0 .. c : SubSeq(s, 1, e) = SubSeq(t, 1, e)
  BY SamePrefix
<1>2. c \in 0 .. c /\ \A e \in 1 .. c : e \in 0 .. c
  OBVIOUS
<1>3. ASSUME NEW q \in {0, 256}, hbw = Open(q), HeadTracks(q, s, c), headw = SubSeq(s, 1, c), bodyw = <<>>
      PROVE  Divided(t, c)
  BY <1>1, <1>2, <1>3 DEF Divided
<1>4. ASSUME NEW q \in {0, 256}, hbw = Ended(q),
             NEW e \in 1 .. c, HeadEnds(s, e), headw = SubSeq(s, 1, e), bodyw = SubSeq(s, e+1, c)
      PROVE  Divided(t, c)
  <2>1. HeadEnds(t, e) /\ headw = SubSeq(t, 1, e)
    BY <1>1, <1>2, <1>4
  <2>2. bodyw = SubSeq(t, e+1, c)
    BY <1>1, <1>2, <1>4
  <2> QED BY <1>4, <2>1, <2>2 DEF Divided
<1> QED BY <1>3, <1>4 DEF Divided

\* What Close adds behind the first L bytes, and the place in it of the end.
Added(t, L, q) ==
  /\ q = nlDotNl_start => Len(t) = L+3 /\ t[L+1] = "dot" /\ t[L+2] = "cr" /\ t[L+3] = "lf"
  /\ q # nlDotNl_start => /\ Len(t) = L+5 /\ t[L+1] = "cr" /\ t[L+2] = "lf" /\ t[L+3] = "dot"
                          /\ t[L+4] = "cr" /\ t[L+5] = "lf"
PlaceOfEnd(q) == IF q = nlDotNl_start THEN 3 ELSE IF q = DotSeen THEN 2 ELSE 5

\* Close: what it adds ends the article, wherever it was cut off.
LEMMA Closes ==
  ASSUME NEW t \in Seq(Symbols), NEW L \in Nat, NEW q, Tracks(q, t, 0, L), Added(t, L, q)
  PROVE  /\ PlaceOfEnd(q) \in 1 .. Len(t) - L
         /\ \A u \in 1 .. Len(t) - L : IsArticleEnd(t, 0, L+u) <=> u = PlaceOfEnd(q)
<1>place. PICK v : v = PlaceOfEnd(q)
  OBVIOUS
<1>1. ASSUME NEW i \in Nat, L+i < Len(t)
      PROVE  /\ AtLineStart(t, 0, L+i+1) <=> \/ t[L+i+1] = "lf"
                                             \/ t[L+i+1] = "cr" /\ AtLineStart(t, 0, L+i)
             /\ AfterDot(t, 0, L+i+1) <=> \/ t[L+i+1] = "dot" /\ AtLineStart(t, 0, L+i)
                                          \/ t[L+i+1] = "cr" /\ AfterDot(t, 0, L+i)
             /\ IsTerminator(t, 0, L+i+1) <=> t[L+i+1] = "lf" /\ AfterDot(t, 0, L+i)
  <2> DEFINE p == L+i
  <2>1. p \in Nat /\ 0 <= p /\ p < Len(t) /\ 0 \in Nat
    BY <1>1
  <2> HIDE DEF p
  <2>2. /\ AtLineStart(t, 0, p+1) <=> \/ t[p+1] = "lf"
                                      \/ t[p+1] = "cr" /\ AtLineStart(t, 0, p)
        /\ AfterDot(t, 0, p+1) <=> \/ t[p+1] = "dot" /\ AtLineStart(t, 0, p)
                                   \/ t[p+1] = "cr" /\ AfterDot(t, 0, p)
        /\ IsTerminator(t, 0, p+1) <=> t[p+1] = "lf" /\ AfterDot(t, 0, p)
    BY <2>1, AtLineStartStep, AfterDotStep, TerminatorStep
  <2> QED BY <2>2 DEF p
<1>2. /\ q = nlDotNl_start <=> AtLineStart(t, 0, L)
      /\ q = DotSeen <=> AfterDot(t, 0, L)
      /\ \A e \in 1 .. L : ~ IsTerminator(t, 0, e)
  BY DEF Tracks, NoTerminator
<1> DEFINE line(i) == AtLineStart(t, 0, L+i)
           dot(i)  == AfterDot(t, 0, L+i)
           term(i) == IsTerminator(t, 0, L+i)
           ends(i) == IsArticleEnd(t, 0, L+i)
<1>3. /\ line(0) <=> q = nlDotNl_start
      /\ dot(0) <=> q = DotSeen
  <2>1. L+0 = L
    OBVIOUS
  <2> QED BY <1>2, <2>1
<1>4. ASSUME NEW u \in 1 .. 5
      PROVE  ends(u) <=> term(u) /\ \A k \in 1 .. u-1 : ~ term(k)
  <2>1. (L+u)-1 = L + (u-1)
    OBVIOUS
  <2>2. (\A e \in 0+1 .. (L+u)-1 : ~ IsTerminator(t, 0, e)) <=> \A k \in 1 .. u-1 : ~ term(k)
    <3>1. ASSUME \A e \in 0+1 .. (L+u)-1 : ~ IsTerminator(t, 0, e), NEW k \in 1 .. u-1
          PROVE  ~ term(k)
      <4>1. L+k \in 0+1 .. (L+u)-1
        OBVIOUS
      <4> QED BY <3>1, <4>1
    <3>2. ASSUME \A k \in 1 .. u-1 : ~ term(k), NEW e \in 0+1 .. (L+u)-1
          PROVE  ~ IsTerminator(t, 0, e)
      <4>1. CASE e <= L
        BY <1>2, <4>1
      <4>2. CASE e > L
        <5>1. e - L \in 1 .. u-1 /\ L + (e - L) = e
          BY <4>2
        <5>2. ~ term(e - L)
          BY <3>2, <5>1
        <5> QED BY <5>1, <5>2
      <4> QED BY <4>1, <4>2
    <3> QED BY <3>1, <3>2
  <2> QED BY <2>2 DEF IsArticleEnd, NoTerminator
<1>5. ASSUME NEW i \in 0 .. 4, L+i < Len(t)
      PROVE  /\ line(i+1) <=> t[L+(i+1)] = "lf" \/ (t[L+(i+1)] = "cr" /\ line(i))
             /\ dot(i+1) <=> (t[L+(i+1)] = "dot" /\ line(i)) \/ (t[L+(i+1)] = "cr" /\ dot(i))
             /\ term(i+1) <=> t[L+(i+1)] = "lf" /\ dot(i)
  <2>1. L+i+1 = L+(i+1) /\ i \in Nat
    OBVIOUS
  <2> QED BY <1>1, <1>5, <2>1
<1> HIDE DEF line, dot, term, ends
<1>6. ASSUME Len(t) = L+3, q = nlDotNl_start, t[L+1] = "dot", t[L+2] = "cr", t[L+3] = "lf", NEW u \in 1 .. 3
      PROVE  ends(u) <=> u = 3
  <2>1. line(0)
    BY <1>3, <1>6
  <2>2. dot(1) /\ ~ term(1)
    <3>1. 0 \in 0 .. 4 /\ L+0 < Len(t) /\ 0+1 = 1
      BY <1>6
    <3> QED BY <1>5, <1>6, <2>1, <3>1
  <2>3. dot(2) /\ ~ term(2)
    <3>1. 1 \in 0 .. 4 /\ L+1 < Len(t) /\ 1+1 = 2
      BY <1>6
    <3> QED BY <1>5, <1>6, <2>2, <3>1
  <2>4. term(3)
    <3>1. 2 \in 0 .. 4 /\ L+2 < Len(t) /\ 2+1 = 3
      BY <1>6
    <3> QED BY <1>5, <1>6, <2>3, <3>1
  <2>5. u \in 1 .. 5 /\ u \in {1, 2, 3} /\ \A k \in 1 .. 2 : k = 1 \/ k = 2
    OBVIOUS
  <2> QED BY <1>4, <2>2, <2>3, <2>4, <2>5
<1>7. ASSUME Len(t) = L+5, t[L+1] = "cr", t[L+2] = "lf", t[L+3] = "dot", t[L+4] = "cr", t[L+5] = "lf"
      PROVE  /\ dot(1) <=> dot(0)
             /\ ~ term(1) /\ (term(2) <=> dot(0)) /\ ~ term(3) /\ ~ term(4) /\ term(5)
  <2>1. (dot(1) <=> dot(0)) /\ ~ term(1)
    <3>1. 0 \in 0 .. 4 /\ L+0 < Len(t) /\ 0+1 = 1
      BY <1>7
    <3> QED BY <1>5, <1>7, <3>1
  <2>2. line(2) /\ (term(2) <=> dot(1))
    <3>1. 1 \in 0 .. 4 /\ L+1 < Len(t) /\ 1+1 = 2
      BY <1>7
    <3> QED BY <1>5, <1>7, <3>1
  <2>3. dot(3) /\ ~ term(3)
    <3>1. 2 \in 0 .. 4 /\ L+2 < Len(t) /\ 2+1 = 3
      BY <1>7
    <3> QED BY <1>5, <1>7, <2>2, <3>1
  <2>4. dot(4) /\ ~ term(4)
    <3>1. 3 \in 0 .. 4 /\ L+3 < Len(t) /\ 3+1 = 4
      BY <1>7
    <3> QED BY <1>5, <1>7, <2>3, <3>1
  <2>5. term(5)
    <3>1. 4 \in 0 .. 4 /\ L+4 < Len(t) /\ 4+1 = 5
      BY <1>7
    <3> QED BY <1>5, <1>7, <2>4, <3>1
  <2> QED BY <2>1, <2>2, <2>3, <2>4, <2>5
<1>8. ASSUME Len(t) = L+5, q \in {InLine, DotSeen}, NEW u \in 1 .. 5,
             t[L+1] = "cr", t[L+2] = "lf", t[L+3] = "dot", t[L+4] = "cr", t[L+5] = "lf"
      PROVE  ends(u) <=> u = IF q = DotSeen THEN 2 ELSE 5
  <2>1. /\ term(2) <=> q = DotSeen
        /\ ~ term(1) /\ ~ term(3) /\ ~ term(4) /\ term(5)
    BY <1>3, <1>7, <1>8
  <2>2. u \in {1, 2, 3, 4, 5} /\ (2 \in 1 .. 5-1) /\ \A k \in 1 .. u-1 : k \in {1, 2, 3, 4}
    OBVIOUS
  <2>3. \A k \in 1 .. 2-1 : k = 1
    OBVIOUS
  <2> QED BY <1>4, <2>1, <2>2, <2>3
<1>9. CASE q = nlDotNl_start
  <2>1. Len(t) = L+3 /\ t[L+1] = "dot" /\ t[L+2] = "cr" /\ t[L+3] = "lf"
    BY <1>9, Zenon DEF Added
  <2>2. v = 3
    BY <1>place, <1>9 DEF PlaceOfEnd
  <2>3. \A u \in 1 .. 3 : ends(u) <=> u = 3
    BY <1>6, <1>9, <2>1
  <2>4. Len(t) - L = 3
    BY <2>1
  <2> QED BY <1>place, <2>2, <2>3, <2>4 DEF ends
<1>10. CASE q # nlDotNl_start
  <2>1. /\ Len(t) = L+5 /\ t[L+1] = "cr" /\ t[L+2] = "lf" /\ t[L+3] = "dot"
        /\ t[L+4] = "cr" /\ t[L+5] = "lf"
    BY <1>10, Zenon DEF Added
  <2>2. v = (IF q = DotSeen THEN 2 ELSE 5) /\ q \in {InLine, DotSeen}
    BY <1>place, <1>10 DEF Tracks, PlaceOfEnd
  <2>3. \A u \in 1 .. 5 : ends(u) <=> u = IF q = DotSeen THEN 2 ELSE 5
    BY <1>8, <2>1, <2>2
  <2>4. v \in 1 .. 5 /\ Len(t) - L = 5
    BY <2>1, <2>2
  <2> QED BY <1>place, <2>2, <2>3, <2>4 DEF ends
<1> QED BY <1>9, <1>10

-----------------------------------------------------------------------------
(***************************************************************************)
(* While io.Copy runs, the DotWriter keeps track of the article, and the   *)
(* buffers hold what has come.                                             *)
(***************************************************************************)
CopyInv ==
  /\ Delivered(post)
  /\ \/ \E q : dw = Open(q) /\ Tracks(q, post, 0, copied)
     \/ copied = Len(post) /\ Whole /\ \E q : dw = Ended(q)
  /\ Divided(post, copied)

ArticleInv ==
  /\ pc # "taken" => TypeOK
  /\ pc = "copy" => CopyInv
  /\ SplitExact /\ CutKept

\* A head or a body in the buffers: what the writers may hold.
LEMMA DividedType ==
  ASSUME NEW t \in Seq(Symbols), NEW c \in Nat, c <= Len(t), Divided(t, c)'
  PROVE  /\ hbw' \in Automaton /\ hbw'.state \in {0, 256}
         /\ headw' \in Seq(Symbols) /\ bodyw' \in Seq(Symbols)
<1>1. \A q \in {0, 256} : /\ Open(q) \in Automaton /\ Open(q).state \in {0, 256}
                          /\ Ended(q) \in Automaton /\ Ended(q).state \in {0, 256}
  BY WriterFields DEF Open, Ended, Automaton
<1>2. SubSeq(t, 1, c) \in Seq(Symbols) /\ <<>> \in Seq(Symbols)
  BY Front, EmptySeq
<1>3. ASSUME NEW e \in 1 .. c
      PROVE  SubSeq(t, 1, e) \in Seq(Symbols) /\ SubSeq(t, e+1, c) \in Seq(Symbols)
  <2>1. e \in Nat /\ e <= c /\ e <= Len(t)
    BY LenProperties
  <2> QED BY <2>1, Front, Slice
<1>4. CASE (\E q \in {0, 256} : hbw' = Open(q)) /\ headw' = SubSeq(t, 1, c) /\ bodyw' = <<>>
  BY <1>1, <1>2, <1>4
<1>5. CASE (\E q \in {0, 256} : hbw' = Ended(q)) /\ \E e \in 1 .. c : headw' = SubSeq(t, 1, e) /\ bodyw' = SubSeq(t, e+1, c)
  BY <1>1, <1>3, <1>5
<1> QED BY <1>4, <1>5 DEF Divided

LEMMA TracksType ==
  ASSUME NEW q, NEW s, NEW a, NEW p, Tracks(q, s, a, p)
  PROVE  /\ Open(q) \in Automaton /\ Open(q).state \in nlDotNlStates \ {nlDotNl_end}
         /\ Ended(q) \in Automaton /\ Ended(q).state \in nlDotNlStates \ {nlDotNl_end}
<1>1. q \in Nat /\ q \in nlDotNlStates \ {nlDotNl_end}
  BY DEF Tracks, nlDotNlStates, InLine, nlDotNl_start, DotSeen, nlDotNl_end
<1>2. Open(q) \in Automaton /\ Ended(q) \in Automaton
  BY <1>1 DEF Open, Ended, Automaton
<1> QED BY <1>1, <1>2, WriterFields

LEMMA CopyKeeps ==
  ASSUME ArticleInv, NEW n, Copy(n)
  PROVE  ArticleInv'
<1>1. /\ pc = "copy" /\ n \in 1 .. Len(post) - copied
      /\ DotWrite(SubSeq(post, copied+1, copied+n))
      /\ copied' = copied + n
      /\ UNCHANGED <<post, pc, head, body>>
  BY DEF Copy
<1>2. TypeOK /\ CopyInv
  BY <1>1 DEF ArticleInv
<1>3. post \in Seq(Symbols) /\ post \in Posts /\ Len(post) \in Nat /\ copied \in Nat /\ n \in Nat /\ copied + n <= Len(post)
  BY <1>1, <1>2, PostedArticleAssumption, LenProperties DEF TypeOK
<1>4. PICK b, c, z : b = SubSeq(post, c+1, z) /\ c = copied /\ z = copied + n
  OBVIOUS
<1>5. IsPiece(b, post, c) /\ Len(b) = n
  <2>1. c \in Nat /\ z \in Nat /\ c <= z /\ z <= Len(post) /\ z - c = n
    BY <1>3, <1>4
  <2>2. b \in Seq(Symbols) /\ Len(b) = z - c /\ \A i \in 1 .. z - c : b[i] = post[c+i]
    BY <1>3, <1>4, <2>1, Slice
  <2> QED BY <1>3, <1>4, <2>1, <2>2 DEF IsPiece
<1>6. PICK q : dw = Open(q) /\ Tracks(q, post, 0, c)
  <2>1. ~ (copied = Len(post))
    BY <1>1, <1>3
  <2> QED BY <1>2, <1>4, <2>1 DEF CopyInv
<1>7. PICK t : t = post
  OBVIOUS
<1>8. \/ \E r : dw' = Open(r) /\ Tracks(r, t, 0, c + Len(b)) /\ Divided(t, c + Len(b))'
      \/ \E u \in 1 .. Len(b) : dw' = Ended(q) /\ IsArticleEnd(t, 0, c+u) /\ Divided(t, c+u)'
  <2>1. t \in Seq(Symbols) /\ c \in Nat /\ IsPiece(b, t, c) /\ dw = Open(q) /\ Tracks(q, t, 0, c)
    BY <1>3, <1>4, <1>5, <1>6, <1>7
  <2>2. Divided(t, c)
    BY <1>2, <1>4, <1>7 DEF CopyInv
  <2>3. DotWrite(b)
    BY <1>1, <1>4
  <2> QED BY <2>1, <2>2, <2>3, DotKeeps
<1>9. t' = t /\ post' = t /\ copied' = c + n /\ c + n \in Nat /\ c + n <= Len(t)
  BY <1>1, <1>3, <1>4, <1>7
<1>10. ASSUME NEW r, dw' = Open(r), Tracks(r, t, 0, c + Len(b)), Divided(t, c + Len(b))'
       PROVE  /\ dw' \in Automaton /\ dw'.state \in nlDotNlStates \ {nlDotNl_end}
              /\ Divided(t, c + n)'
              /\ (\E q1 : dw' = Open(q1) /\ Tracks(q1, post', 0, copied'))
  BY <1>5, <1>9, <1>10, TracksType
<1>11. ASSUME NEW u \in 1 .. Len(b), dw' = Ended(q), IsArticleEnd(t, 0, c+u), Divided(t, c+u)'
       PROVE  /\ dw' \in Automaton /\ dw'.state \in nlDotNlStates \ {nlDotNl_end}
              /\ Divided(t, c + n)'
              /\ copied' = Len(post') /\ Whole' /\ \E q1 : dw' = Ended(q1)
  <2>1. IsTerminator(t, 0, c+u)
    BY <1>11 DEF IsArticleEnd
  <2>2. \A e \in 1 .. Len(t) - 1 : ~ IsTerminator(t, 0, e)
    BY <1>2, <1>7 DEF CopyInv, Delivered, NoTerminator
  <2>3. c+u \notin 1 .. Len(t) - 1
    BY <2>1, <2>2
  <2>4. u = n /\ c+n = Len(t)
    BY <1>3, <1>4, <1>5, <1>7, <1>9, <2>3
  <2>5. Whole'
    BY <1>9, <1>11, <2>4 DEF Whole
  <2>6. dw' \in Automaton /\ dw'.state \in nlDotNlStates \ {nlDotNl_end}
    BY <1>6, <1>11, TracksType
  <2> QED BY <1>9, <1>11, <2>4, <2>5, <2>6
<1>12. /\ dw' \in Automaton /\ dw'.state \in nlDotNlStates \ {nlDotNl_end}
       /\ Divided(t, c + n)'
       /\ \/ \E q1 : dw' = Open(q1) /\ Tracks(q1, post', 0, copied')
          \/ copied' = Len(post') /\ Whole' /\ \E q1 : dw' = Ended(q1)
  BY <1>8, <1>10, <1>11
<1>13. CopyInv'
  <2>1. Delivered(post)'
    BY <1>1, <1>2 DEF CopyInv, Delivered
  <2>2. Divided(post, copied)'
    <3>1. PICK z1 : z1 = c + n
      OBVIOUS
    <3>2. Divided(t, z1)' /\ z1' = copied'
      BY <1>9, <1>12, <3>1
    <3> QED BY <1>9, <3>1, <3>2 DEF Divided
  <2> QED BY <1>12, <2>1, <2>2 DEF CopyInv
<1>14. TypeOK'
  <2>1. /\ hbw' \in Automaton /\ hbw'.state \in {0, 256}
        /\ headw' \in Seq(Symbols) /\ bodyw' \in Seq(Symbols)
    BY <1>3, <1>7, <1>9, <1>12, DividedType
  <2> QED BY <1>1, <1>2, <1>3, <1>12, <2>1 DEF TypeOK
<1> QED BY <1>1, <1>13, <1>14 DEF ArticleInv, SplitExact, CutKept

\* What has come to the two buffers in the end: the article, and what was added.
EndsLike(t, L, m) ==
  \/ Whole /\ t = post /\ m = L
  \/ /\ ~ Whole /\ AtLineStart(post, 0, L)
     /\ m = L+3 /\ t[L+1] = "dot" /\ t[L+2] = "cr" /\ t[L+3] = "lf"
  \/ /\ ~ Whole /\ AfterDot(post, 0, L)
     /\ m = L+2 /\ t[L+1] = "cr" /\ t[L+2] = "lf"
  \/ /\ ~ Whole /\ ~ AtLineStart(post, 0, L) /\ ~ AfterDot(post, 0, L)
     /\ m = L+5 /\ t[L+1] = "cr" /\ t[L+2] = "lf" /\ t[L+3] = "dot" /\ t[L+4] = "cr" /\ t[L+5] = "lf"

LEMMA FinishShape ==
  ASSUME ArticleInv, Finish, NEW L, L = Len(post)
  PROVE  /\ \E t \in Seq(Symbols), m \in Nat :
              /\ L <= m /\ m <= Len(t) /\ Agree(post, t, L) /\ Divided(t, m)' /\ EndsLike(t, L, m)
         /\ dw' \in Automaton /\ dw'.state \in nlDotNlStates \ {nlDotNl_end}
<1>1. /\ pc = "copy" /\ copied = L
      /\ IF dw.end
         THEN UNCHANGED <<dw, hbw, headw, bodyw>>
         ELSE DotWrite(IF dw.state = nlDotNl_start THEN <<"dot", "cr", "lf">>
                                                   ELSE <<"cr", "lf", "dot", "cr", "lf">>)
  BY DEF Finish
<1>2. TypeOK /\ CopyInv
  BY <1>1 DEF ArticleInv
<1>3. post \in Seq(Symbols) /\ L \in Nat
  BY <1>2, PostedArticleAssumption, LenProperties DEF TypeOK
<1>4. Divided(post, L)
  BY <1>1, <1>2 DEF CopyInv
<1>5. CASE Whole /\ \E q : dw = Ended(q)
  <2>1. dw.end = TRUE
    BY <1>5, WriterFields
  <2>2. UNCHANGED <<dw, hbw, headw, bodyw>>
    BY <1>1, <2>1
  <2>3. PICK t : t = post
    OBVIOUS
  <2>4. Divided(t, L)'
    BY <1>4, <2>2, <2>3 DEF Divided
  <2>5. Agree(post, t, L)
    BY <1>3, <2>3 DEF Agree
  <2>6. EndsLike(t, L, L)
    BY <1>5, <2>3 DEF EndsLike
  <2>7. dw' \in Automaton /\ dw'.state \in nlDotNlStates \ {nlDotNl_end}
    BY <1>2, <2>2 DEF TypeOK
  <2>8. t \in Seq(Symbols) /\ L \in Nat /\ L <= L /\ L <= Len(t)
    BY <1>3, <2>3
  <2> QED BY <2>4, <2>5, <2>6, <2>7, <2>8
<1>6. ASSUME NEW q, dw = Open(q), Tracks(q, post, 0, L)
      PROVE  /\ \E t \in Seq(Symbols), m \in Nat :
                  /\ L <= m /\ m <= Len(t) /\ Agree(post, t, L) /\ Divided(t, m)' /\ EndsLike(t, L, m)
             /\ dw' \in Automaton /\ dw'.state \in nlDotNlStates \ {nlDotNl_end}
  <2>1. dw.end = FALSE /\ dw.state = q
    BY <1>6, WriterFields
  <2>2. PICK b : b = IF q = nlDotNl_start THEN <<"dot", "cr", "lf">> ELSE <<"cr", "lf", "dot", "cr", "lf">>
    OBVIOUS
  <2>3. DotWrite(b)
    BY <1>1, <2>1, <2>2
  <2>4. /\ b \in Seq(Symbols)
        /\ q = nlDotNl_start => Len(b) = 3 /\ b[1] = "dot" /\ b[2] = "cr" /\ b[3] = "lf"
        /\ q # nlDotNl_start =>
             Len(b) = 5 /\ b[1] = "cr" /\ b[2] = "lf" /\ b[3] = "dot" /\ b[4] = "cr" /\ b[5] = "lf"
    <3>1. CASE q = nlDotNl_start
      BY <2>2, <3>1 DEF Symbols
    <3>2. CASE q # nlDotNl_start
      BY <2>2, <3>2 DEF Symbols
    <3> QED BY <3>1, <3>2
  <2>5. PICK t : t = post \o b
    OBVIOUS
  <2>6. /\ t \in Seq(Symbols) /\ Len(t) = L + Len(b) /\ Agree(post, t, L) /\ IsPiece(b, t, L)
        /\ \A i \in 1 .. Len(b) : t[L + i] = b[i]
    BY <1>3, <2>4, <2>5, Behind
  <2>7. Tracks(q, t, 0, L) /\ Divided(t, L)
    BY <1>3, <1>4, <1>6, <2>6, SamePrefix, DividedSame
  <2>8. \/ \E r : dw' = Open(r) /\ Tracks(r, t, 0, L + Len(b)) /\ Divided(t, L + Len(b))'
        \/ \E u \in 1 .. Len(b) : dw' = Ended(q) /\ IsArticleEnd(t, 0, L+u) /\ Divided(t, L+u)'
    BY <1>3, <1>6, <2>3, <2>6, <2>7, DotKeeps
  <2>9. q \in {InLine, nlDotNl_start, DotSeen} /\ DotSeen # InLine /\ nlDotNl_start # InLine /\ DotSeen # nlDotNl_start
    BY <1>6 DEF Tracks, InLine, nlDotNl_start, DotSeen
  <2>10. /\ q = nlDotNl_start => Len(t) = L+3 /\ t[L+1] = "dot" /\ t[L+2] = "cr" /\ t[L+3] = "lf"
         /\ q # nlDotNl_start =>
              /\ Len(t) = L+5 /\ t[L+1] = "cr" /\ t[L+2] = "lf" /\ t[L+3] = "dot"
              /\ t[L+4] = "cr" /\ t[L+5] = "lf"
    <3>1. CASE q = nlDotNl_start
      <4>1. Len(b) = 3 /\ 1 \in 1 .. 3 /\ 2 \in 1 .. 3 /\ 3 \in 1 .. 3
        BY <2>4, <3>1
      <4> QED BY <2>4, <2>6, <3>1, <4>1
    <3>2. CASE q # nlDotNl_start
      <4>1. Len(b) = 5 /\ 1 \in 1 .. 5 /\ 2 \in 1 .. 5 /\ 3 \in 1 .. 5 /\ 4 \in 1 .. 5 /\ 5 \in 1 .. 5
        BY <2>4, <3>2
      <4> QED BY <2>4, <2>6, <3>2, <4>1
    <3> QED BY <3>1, <3>2
  <2>11. L <= Len(t) /\ Len(b) \in Nat
    BY <1>3, <2>4, <2>6, LenProperties
  <2>place. PICK v : v = PlaceOfEnd(q)
    OBVIOUS
  <2>12. v \in 1 .. Len(b) /\ \A u \in 1 .. Len(b) : IsArticleEnd(t, 0, L+u) <=> u = v
    <3>1. v \in 1 .. Len(t) - L /\ \A u \in 1 .. Len(t) - L : IsArticleEnd(t, 0, L+u) <=> u = v
      <4>1. t \in Seq(Symbols) /\ L \in Nat /\ Tracks(q, t, 0, L)
        BY <1>3, <2>6, <2>7
      <4>2. Added(t, L, q)
        BY <2>10 DEF Added
      <4>3. /\ PlaceOfEnd(q) \in 1 .. Len(t) - L
            /\ \A u \in 1 .. Len(t) - L : IsArticleEnd(t, 0, L+u) <=> u = PlaceOfEnd(q)
        BY <4>1, <4>2, Closes
      <4> QED BY <2>place, <4>3
    <3>2. Len(t) - L = Len(b)
      BY <1>3, <2>6, <2>11
    <3> QED BY <3>1, <3>2
  <2>13. ~ \E r : Tracks(r, t, 0, L + Len(b))
    <3>1. IsTerminator(t, 0, L+v) /\ L+v \in 0+1 .. L + Len(b)
      BY <1>3, <2>11, <2>12 DEF IsArticleEnd
    <3> QED BY <3>1 DEF Tracks, NoTerminator
  <2>14. dw' = Ended(q) /\ Divided(t, L+v)'
    <3>1. PICK u \in 1 .. Len(b) : dw' = Ended(q) /\ IsArticleEnd(t, 0, L+u) /\ Divided(t, L+u)'
      BY <2>8, <2>13
    <3>2. u = v
      BY <2>12, <3>1
    <3> QED BY <3>1, <3>2
  <2>15. ~ Whole
    <3>1. ASSUME Whole PROVE FALSE
      <4>1. IsTerminator(post, 0, L) /\ L \in 0+1 .. L
        BY <3>1 DEF Whole, IsArticleEnd, IsTerminator
      <4> QED BY <1>6, <4>1 DEF Tracks, NoTerminator
    <3> QED BY <3>1
  <2>16. EndsLike(t, L, L+v)
    <3>1. /\ q = nlDotNl_start <=> AtLineStart(post, 0, L)
          /\ q = DotSeen <=> AfterDot(post, 0, L)
      BY <1>6 DEF Tracks
    <3> QED BY <2>9, <2>10, <2>15, <2>place, <3>1 DEF EndsLike, PlaceOfEnd
  <2>17. dw' \in Automaton /\ dw'.state \in nlDotNlStates \ {nlDotNl_end}
    BY <1>6, <2>14, TracksType
  <2>18. L+v \in Nat /\ L <= L+v /\ L+v <= Len(t)
    BY <1>3, <2>6, <2>11, <2>12
  <2> QED BY <2>6, <2>14, <2>16, <2>17, <2>18
<1> QED BY <1>1, <1>2, <1>5, <1>6 DEF CopyInv

\* The last dot of what has come to the buffers, and the body before it.
LEMMA BodyBefore ==
  ASSUME NEW t \in Seq(Symbols), NEW m \in Nat, m <= Len(t), Divided(t, m)', Finish,
         NEW e \in 1 .. m, HeadEnds(t, e),
         NEW n \in Nat, e < n, n <= m, t[n] = "dot", \A k \in n+1 .. m : t[k] \in {"cr", "lf"}
  PROVE  NoTrail(head', SubSeq(t, 1, e)) /\ body' = SubSeq(t, e+1, n-1)
<1>1. head' = trimCRLF(headw') /\ body' = trimDOT(trimCRLF(bodyw'))
  BY DEF Finish
<1>2. headw' = SubSeq(t, 1, e) /\ bodyw' = SubSeq(t, e+1, m)
  <2>1. ASSUME NEW q, HeadTracks(q, t, m)
        PROVE  FALSE
    BY <2>1 DEF HeadTracks, HeadEnds
  <2>2. ASSUME NEW k \in 1 .. m, HeadEnds(t, k)
        PROVE  k = e
    <3>1. k \in Nat \ {0} /\ e \in Nat \ {0}
      OBVIOUS
    <3> QED BY <2>2, <3>1, OneHeadEnd
  <2>3. \E k \in 1 .. m : HeadEnds(t, k) /\ headw' = SubSeq(t, 1, k) /\ bodyw' = SubSeq(t, k+1, m)
    BY <2>1 DEF Divided
  <2> QED BY <2>2, <2>3
<1>3. e \in Nat /\ e <= Len(t) /\ Len(t) \in Nat
  BY LenProperties
<1>4. NoTrail(head', SubSeq(t, 1, e))
  <2>1. SubSeq(t, 1, e) \in Seq(Symbols)
    BY <1>3, Front
  <2> QED BY <1>1, <1>2, <2>1, TrimmedType
<1>5. trimDOT(trimCRLF(SubSeq(t, e+1, m))) = SubSeq(t, e+1, n-1)
  BY <1>3, BodyCut
<1> QED BY <1>1, <1>2, <1>4, <1>5

\* The dot of a line that holds nothing else comes after the head, and is the last dot.
LEMMA DotInBody ==
  ASSUME NEW s \in Seq(Symbols), NEW p \in Nat, p <= Len(s), AfterDot(s, 0, p),
         NEW e \in 1 .. Len(s), HeadEnds(s, e), e <= p \/ (e = p+1 /\ s[p+1] = "lf")
  PROVE  \E d \in e+1 .. p : s[d] = "dot" /\ \A k \in d+1 .. p : s[k] = "cr"
<1>1. PICK d \in 0+1 .. p : s[d] = "dot" /\ OnlyCR(s, d, p)
  BY DEF AfterDot
<1>2. \A k \in d+1 .. p : s[k] = "cr"
  BY <1>1 DEF OnlyCR
<1>3. BlankLine(s, e)
  BY DEF HeadEnds
<1>4. s[e] = "lf"
  BY <1>3 DEF BlankLine
<1>6. ASSUME e = p+1 PROVE FALSE
  <2>1. PICK b \in 1 .. e-1 : s[b] = "lf" /\ OnlyCR(s, b, e-1)
    BY <1>3 DEF BlankLine
  <2>2. \A k \in b+1 .. p : s[k] = "cr"
    BY <1>6, <2>1 DEF OnlyCR
  <2>3. b \in 1 .. p
    BY <1>6
  <2>4. b < d \/ b = d \/ b \in d+1 .. p
    BY <1>1, <2>3
  <2>5. ~ (b < d)
    BY <1>1, <2>2, <2>3
  <2> QED BY <1>1, <1>2, <2>1, <2>4, <2>5
<1>7. e <= p
  BY <1>6
<1>8. d \in e+1 .. p
  <2>1. d \in Nat /\ d <= p /\ e \in Nat
    BY <1>1
  <2>2. ~ (d <= e)
    <3>1. ASSUME d < e PROVE FALSE
      <4>1. e \in d+1 .. p
        BY <1>7, <2>1, <3>1
      <4> QED BY <1>2, <1>4, <4>1
    <3>2. d # e
      BY <1>1, <1>4
    <3> QED BY <2>1, <3>1, <3>2
  <2> QED BY <2>1, <2>2
<1> QED BY <1>1, <1>2, <1>8

LEMMA NothingTrimmed == trimDOT(trimCRLF(<<>>)) = <<>>
<1>1. <<>> \in Seq(Symbols) /\ Len(<<>>) = 0
  BY EmptySeq
<1>2. trimCRLF(<<>>) \in Seq(Symbols) /\ Len(trimCRLF(<<>>)) <= 0
  BY <1>1, TrimmedType DEF NoTrail
<1>3. trimCRLF(<<>>) = <<>>
  <2>1. Len(trimCRLF(<<>>)) \in Nat
    BY <1>2, LenProperties
  <2> QED BY <1>2, <2>1, EmptySeq
<1> QED BY <1>3 DEF trimDOT

LEMMA SplitAtEnd ==
  ASSUME ArticleInv, Finish
  PROVE  SplitExact'
<1>1. PICK s, L : s = post /\ L = Len(post)
  OBVIOUS
<1>2. /\ pc = "copy" /\ post' = post /\ head' = trimCRLF(headw') /\ body' = trimDOT(trimCRLF(bodyw'))
  BY DEF Finish
<1>3. s \in Seq(Symbols) /\ L \in Nat /\ L = Len(s)
  BY <1>1, <1>2, PostedArticleAssumption, LenProperties DEF ArticleInv, TypeOK
<1>4. SUFFICES ASSUME Whole
               PROVE  SplitExact'
  BY <1>2 DEF SplitExact, Whole
<1>5. Divided(s, L)'
  <2>1. PICK t \in Seq(Symbols), m \in Nat : Divided(t, m)' /\ EndsLike(t, L, m)
    BY <1>1, FinishShape
  <2>2. t = s /\ m = L
    BY <1>1, <1>4, <2>1 DEF EndsLike
  <2> QED BY <2>1, <2>2
<1>6. L > 0 /\ s[L] = "lf" /\ AfterDot(s, 0, L-1)
  BY <1>1, <1>3, <1>4 DEF Whole, IsArticleEnd, IsTerminator
<1>7. ASSUME NEW e \in 1 .. L, HeadEnds(s, e)
      PROVE  /\ NoTrail(head', SubSeq(s, 1, e))
             /\ \E d \in e+1 .. L : LastDot(s, d) /\ body' = SubSeq(s, e+1, d-1)
  <2>1. PICK d \in e+1 .. L-1 : s[d] = "dot" /\ \A k \in d+1 .. L-1 : s[k] = "cr"
    <3>1. L-1 \in Nat /\ L-1 <= Len(s) /\ (e <= L-1 \/ (e = (L-1)+1 /\ s[(L-1)+1] = "lf")) /\ e \in 1 .. Len(s)
      BY <1>3, <1>6
    <3> DEFINE p == L-1
    <3> HIDE DEF p
    <3>2. \E d \in e+1 .. p : s[d] = "dot" /\ \A k \in d+1 .. p : s[k] = "cr"
      BY <1>3, <1>6, <1>7, <3>1, DotInBody DEF p
    <3> QED BY <3>2 DEF p
  <2>2. \A k \in d+1 .. L : s[k] \in {"cr", "lf"}
    <3>1. \A k \in d+1 .. L : k \in d+1 .. L-1 \/ k = L
      BY <1>3
    <3> QED BY <1>6, <2>1, <3>1
  <2>3. d \in Nat /\ e < d /\ d <= L /\ L <= Len(s) /\ d \in e+1 .. L
    BY <1>3, <2>1
  <2>4. NoTrail(head', SubSeq(s, 1, e)) /\ body' = SubSeq(s, e+1, d-1)
    BY <1>3, <1>5, <1>7, <2>1, <2>2, <2>3, BodyBefore
  <2>5. LastDot(s, d)
    BY <1>3, <2>1, <2>2 DEF LastDot
  <2> QED BY <2>3, <2>4, <2>5
<1>8. ASSUME \A e \in 1 .. L : ~ HeadEnds(s, e)
      PROVE  body' = <<>> /\ NoTrail(head', s)
  <2>1. headw' = SubSeq(s, 1, L) /\ bodyw' = <<>>
    BY <1>5, <1>8 DEF Divided
  <2>2. SubSeq(s, 1, L) = s
    <3>1. PICK p : p = SubSeq(s, 1, L)
      OBVIOUS
    <3>2. p \in Seq(Symbols) /\ Len(p) = L /\ \A i \in 1 .. L : p[i] = s[i]
      BY <1>3, <3>1, Front
    <3>3. p = s
      BY <1>3, <3>2, SeqEqual
    <3> QED BY <3>1, <3>3
  <2> QED BY <1>2, <1>3, <2>1, <2>2, NothingTrimmed, TrimmedType
<1>9. post' = s /\ Len(post') = L
  BY <1>1, <1>2
<1> QED BY <1>7, <1>8, <1>9 DEF SplitExact

LEMMA CutAtEnd ==
  ASSUME ArticleInv, Finish
  PROVE  CutKept'
<1>1. PICK s, L : s = post /\ L = Len(post)
  OBVIOUS
<1>2. pc = "copy" /\ post' = post
  BY DEF Finish
<1>3. s \in Seq(Symbols) /\ L \in Nat /\ L = Len(s)
  BY <1>1, <1>2, PostedArticleAssumption, LenProperties DEF ArticleInv, TypeOK
<1>4. SUFFICES ASSUME ~ Whole
               PROVE  CutKept'
  BY <1>2 DEF CutKept, Whole
<1>5. PICK t \in Seq(Symbols), m \in Nat :
        L <= m /\ m <= Len(t) /\ Agree(s, t, L) /\ Divided(t, m)' /\ EndsLike(t, L, m)
  BY <1>1, FinishShape
<1>6. Len(t) \in Nat /\ \A k \in 1 .. L : s[k] = t[k]
  BY <1>5, LenProperties DEF Agree
<1>7. /\ \A e \in 1 .. L : HeadEnds(s, e) => HeadEnds(t, e)
      /\ \A a \in 0 .. L, e \in 0 .. L : SubSeq(s, a+1, e) = SubSeq(t, a+1, e)
      /\ \A e \in 0 .. L : SubSeq(s, 1, e) = SubSeq(t, 1, e)
  BY <1>3, <1>5, SamePrefix
<1> DEFINE Rest(e) ==
      \/ AtLineStart(s, 0, L) /\ body' = SubSeq(s, e+1, L)
      \/ AfterDot(s, 0, L) /\ \E d \in e+1 .. L : LastDot(s, d) /\ body' = SubSeq(s, e+1, d-1)
      \/ /\ body' = SubSeq(s, e+1, L) \o <<"cr", "lf">>
         /\ ~ AtLineStart(s, 0, L) /\ ~ AfterDot(s, 0, L)
<1>8. ASSUME NEW e \in 1 .. L, HeadEnds(s, e),
             NEW n \in Nat, e < n, n <= m, t[n] = "dot", \A k \in n+1 .. m : t[k] \in {"cr", "lf"}
      PROVE  NoTrail(head', SubSeq(s, 1, e)) /\ body' = SubSeq(t, e+1, n-1)
  <2>1. HeadEnds(t, e) /\ SubSeq(s, 1, e) = SubSeq(t, 1, e) /\ e \in 1 .. m
    BY <1>3, <1>5, <1>7, <1>8
  <2>2. NoTrail(head', SubSeq(t, 1, e)) /\ body' = SubSeq(t, e+1, n-1)
    BY <1>5, <1>8, <2>1, BodyBefore
  <2> QED BY <2>1, <2>2
<1>9. ASSUME NEW e \in 1 .. L, HeadEnds(s, e)
      PROVE  NoTrail(head', SubSeq(s, 1, e)) /\ Rest(e)
  <2>1. CASE /\ AtLineStart(s, 0, L)
             /\ m = L+3 /\ t[L+1] = "dot" /\ t[L+2] = "cr" /\ t[L+3] = "lf"
    <3>1. L+1 \in Nat /\ e < L+1 /\ L+1 <= m /\ (L+1)-1 = L /\ \A k \in (L+1)+1 .. m : k = L+2 \/ k = L+3
      BY <1>3, <2>1
    <3>2. \A k \in (L+1)+1 .. m : t[k] \in {"cr", "lf"}
      BY <2>1, <3>1
    <3> DEFINE n == L+1
    <3>3. t[n] = "dot"
      BY <2>1
    <3> HIDE DEF n
    <3>4. NoTrail(head', SubSeq(s, 1, e)) /\ body' = SubSeq(t, e+1, n-1)
      BY <1>8, <1>9, <3>1, <3>2, <3>3 DEF n
    <3>5. SubSeq(s, e+1, L) = SubSeq(t, e+1, L)
      BY <1>3, <1>7
    <3> QED BY <2>1, <3>1, <3>4, <3>5 DEF n
  <2>2. CASE AfterDot(s, 0, L) /\ m = L+2 /\ t[L+1] = "cr" /\ t[L+2] = "lf"
    <3>1. PICK d \in e+1 .. L : s[d] = "dot" /\ \A k \in d+1 .. L : s[k] = "cr"
      BY <1>3, <1>9, <2>2, DotInBody
    <3>2. d \in Nat /\ e < d /\ d <= m /\ d \in 1 .. L /\ d-1 \in 0 .. L /\ e \in 0 .. L
      BY <1>3, <2>2, <3>1
    <3>3. \A k \in d+1 .. m : t[k] \in {"cr", "lf"}
      <4>1. \A k \in d+1 .. m : (k \in d+1 .. L /\ k \in 1 .. L) \/ k = L+1 \/ k = L+2
        BY <1>3, <2>2, <3>2
      <4> QED BY <1>6, <2>2, <3>1, <4>1
    <3>4. t[d] = "dot"
      BY <1>6, <3>1, <3>2
    <3>5. NoTrail(head', SubSeq(s, 1, e)) /\ body' = SubSeq(t, e+1, d-1)
      BY <1>8, <1>9, <3>2, <3>3, <3>4
    <3>6. SubSeq(s, e+1, d-1) = SubSeq(t, e+1, d-1)
      BY <1>7, <3>2
    <3>7. LastDot(s, d)
      BY <1>3, <3>1 DEF LastDot
    <3> QED BY <2>2, <3>1, <3>5, <3>6, <3>7
  <2>3. CASE /\ ~ AtLineStart(s, 0, L) /\ ~ AfterDot(s, 0, L)
             /\ m = L+5 /\ t[L+1] = "cr" /\ t[L+2] = "lf" /\ t[L+3] = "dot" /\ t[L+4] = "cr" /\ t[L+5] = "lf"
    <3>1. L+3 \in Nat /\ e < L+3 /\ L+3 <= m /\ (L+3)-1 = L+2 /\ \A k \in (L+3)+1 .. m : k = L+4 \/ k = L+5
      BY <1>3, <2>3
    <3>2. \A k \in (L+3)+1 .. m : t[k] \in {"cr", "lf"}
      BY <2>3, <3>1
    <3> DEFINE n == L+3
    <3>3. t[n] = "dot"
      BY <2>3
    <3> HIDE DEF n
    <3>4. NoTrail(head', SubSeq(s, 1, e)) /\ body' = SubSeq(t, e+1, n-1)
      BY <1>8, <1>9, <3>1, <3>2, <3>3 DEF n
    <3>5. body' = SubSeq(t, e+1, L+2)
      BY <3>1, <3>4 DEF n
    <3>6. PICK b : b = <<"cr", "lf">>
      OBVIOUS
    <3>7. b \in Seq(Symbols) /\ Len(b) = 2 /\ b[1] = "cr" /\ b[2] = "lf"
      BY <3>6 DEF Symbols
    <3>8. IsPiece(b, t, L)
      <4>1. \A i \in 1 .. 2 : i = 1 \/ i = 2
        OBVIOUS
      <4>2. \A i \in 1 .. 2 : b[i] = t[L+i]
        BY <2>3, <3>7, <4>1
      <4> QED BY <1>3, <1>5, <1>6, <2>3, <3>7, <4>2 DEF IsPiece
    <3>9. SubSeq(t, e+1, L) \o b = SubSeq(t, e+1, L + Len(b))
      <4>1. e \in Nat /\ e <= L /\ L \in Nat
        BY <1>3
      <4> QED BY <3>8, <4>1, Joined
    <3>10. SubSeq(s, e+1, L) = SubSeq(t, e+1, L)
      BY <1>3, <1>7
    <3> QED BY <2>3, <3>4, <3>5, <3>6, <3>7, <3>9, <3>10
  <2> QED BY <1>1, <1>4, <1>5, <2>1, <2>2, <2>3 DEF EndsLike
<1>10. post' = s /\ Len(post') = L
  BY <1>1, <1>2
<1> QED BY <1>9, <1>10 DEF CutKept

LEMMA FinishKeeps ==
  ASSUME ArticleInv, Finish
  PROVE  ArticleInv'
<1>1. /\ pc = "copy" /\ pc' = "done" /\ UNCHANGED <<post, copied>>
      /\ head' = trimCRLF(headw') /\ body' = trimDOT(trimCRLF(bodyw'))
  BY DEF Finish
<1>2. TypeOK
  BY <1>1 DEF ArticleInv
<1>3. PICK L : L = Len(post)
  OBVIOUS
<1>4. PICK t \in Seq(Symbols), m \in Nat : m <= Len(t) /\ Divided(t, m)'
  BY <1>3, FinishShape
<1>5. /\ hbw' \in Automaton /\ hbw'.state \in {0, 256}
      /\ headw' \in Seq(Symbols) /\ bodyw' \in Seq(Symbols)
  BY <1>4, DividedType
<1>6. dw' \in Automaton /\ dw'.state \in nlDotNlStates \ {nlDotNl_end}
  BY <1>3, FinishShape
<1>7. head' \in Seq(Symbols) /\ body' \in Seq(Symbols)
  BY <1>1, <1>5, TrimmedType
<1>8. TypeOK'
  BY <1>1, <1>2, <1>5, <1>6, <1>7 DEF TypeOK
<1> QED BY <1>1, <1>8, SplitAtEnd, CutAtEnd DEF ArticleInv

-----------------------------------------------------------------------------
(***************************************************************************)
(* The header.  Up to line w of the head all is written: header a is in    *)
(* hand, and its lines are those from a to the one before at.              *)
(***************************************************************************)
InHand(a) ==
  /\ a \in 1 .. Len(lines) + 1
  /\ last = <<>> => (at = 1 /\ a = 1) \/ (at = Len(lines) + 2 /\ a = Len(lines) + 1)
  /\ last # <<>> => /\ at \in 2 .. Len(lines) + 1 /\ a \in 1 .. at - 1
                    /\ Len(last) = at - a
                    /\ \A k \in 1 .. at - a : last[k] = a + k - 1
                    /\ \A n \in a+1 .. at - 1 : lines[n].name = "fold"
                    /\ a > 1 => lines[a].name # "fold"

Off == IF lines # <<>> /\ lines[1].name = "fold" THEN 1 ELSE 0

\* Line n is written, in its place.
LineAt(n, k) ==
  /\ raw[k].is = "line" /\ raw[k].n = n
  /\ raw[k].seg <=> stamper.seg /\ lines[n].name = "path"

RawUpTo(w) ==
  /\ Len(raw) = IF w = 0 THEN 0 ELSE Off + w
  /\ w > 0 => /\ \A k \in 1 .. Off : raw[k].is = "blank" /\ ~ raw[k].seg
              /\ \A n \in 1 .. w : LineAt(n, Off + n)

FoundUpTo(w) == \A name \in {"path", "message-id"} :
                  name \in found <=> \E n \in 1 .. w : lines[n].name = name

FieldIs(field, name, w) ==
  \/ field = NoField /\ \A n \in 1 .. w : lines[n].name # name
  \/ \E n \in 1 .. w : /\ lines[n].name = name /\ field = Entry(n)
                       /\ \A k \in n+1 .. w : lines[k].name # name

FieldsUpTo(w) == FieldIs(hi.subject, "subject", w) /\ FieldIs(hi.id, "message-id", w)

\* None of the lines has ended the function.
PassedUpTo(w) ==
  \A n \in 1 .. w : /\ ~ (stamper.given /\ OwnId(n))
                    /\ FoldsOf(n) = {} /\ lines[n].name # "fold" => lines[n].colon # "last"

Progress ==
  \E a \in 1 .. Len(lines) + 1 :
    /\ InHand(a)
    /\ RawUpTo(a-1) /\ FoundUpTo(a-1) /\ FieldsUpTo(a-1) /\ PassedUpTo(a-1)

Begins == lines = <<>> /\ last = <<>> /\ found = {} /\ raw = <<>> /\ hi = [subject |-> NoField, id |-> NoField]

HeadInv ==
  /\ HeaderTypeOK /\ hi = [subject |-> hi.subject, id |-> hi.id]
  /\ pc # "taken" => stage = "none"
  /\ stage = "none" => Begins
  /\ stage = "lines" => Progress
  /\ RawKept /\ FieldsPicked /\ EndsEarly

-----------------------------------------------------------------------------
LEMMA LineForms ==
  ASSUME NEW l \in Line
  PROVE  /\ l.name \in Standard \cup {"other", "fold"}
         /\ l.colon \in {"none", "last", "inside", "far"}
         /\ l.own \in BOOLEAN
         /\ l.name \in Standard => l.colon \in {"last", "inside"}
         /\ l.own => l.name = "message-id"
BY DEF Line, Standard

LEMMA LinesOf ==
  ASSUME HeaderTypeOK
  PROVE  /\ lines \in Seq(Line) /\ Len(lines) \in Nat /\ DOMAIN lines = 1 .. Len(lines)
         /\ \A n \in 1 .. Len(lines) : lines[n] \in Line
         /\ last \in Seq(1 .. Len(lines)) /\ Len(last) \in Nat /\ DOMAIN last = 1 .. Len(last)
         /\ raw \in Seq(Written) /\ Len(raw) \in Nat /\ DOMAIN raw = 1 .. Len(raw)
<1>1. lines \in Seq(Line) /\ raw \in Seq(Written) /\ last \in Seq(DOMAIN lines)
  BY DEF HeaderTypeOK
<1>2. DOMAIN lines = 1 .. Len(lines) /\ Len(lines) \in Nat
  BY <1>1, LenProperties
<1>3. last \in Seq(1 .. Len(lines))
  BY <1>1, <1>2
<1> QED BY <1>1, <1>2, <1>3, LenProperties, ElementOfSeq

\* A header is complete when no fold follows: what is in hand is all of it.
LEMMA Complete ==
  ASSUME HeaderTypeOK, NEW a, InHand(a), last # <<>>, at <= Len(lines) + 1, ~ IsFold
  PROVE  /\ a \in Nat \ {0} /\ at \in 2 .. Len(lines) + 1 /\ a \in 1 .. at - 1
         /\ Len(last) = at - a /\ last[1] = a /\ last[at - a] = at - 1
         /\ FoldsOf(a) = a+1 .. at - 1
         /\ Entry(a) = last
         /\ \A n \in a .. at - 1 : FoldsOf(n) = {} <=> n = at - 1
<1>1. /\ at \in 2 .. Len(lines) + 1 /\ a \in 1 .. at - 1 /\ Len(last) = at - a
      /\ \A k \in 1 .. at - a : last[k] = a + k - 1
      /\ \A n \in a+1 .. at - 1 : lines[n].name = "fold"
  BY DEF InHand
<1>2. Len(lines) \in Nat /\ last \in Seq(1 .. Len(lines)) /\ DOMAIN last = 1 .. Len(last)
  BY LinesOf
<1>3. at \in 1 .. Len(lines) => lines[at].name # "fold"
  BY <1>1, <1>2 DEF IsFold
<1>4. ASSUME NEW n \in a .. at - 1
      PROVE  FoldsOf(n) = n+1 .. at - 1
  <2>1. ASSUME NEW k \in n+1 .. at - 1
        PROVE  k \in FoldsOf(n)
    <3>1. k \in n+1 .. Len(lines)
      BY <1>1, <1>2
    <3>2. ASSUME NEW j \in n+1 .. k
          PROVE  lines[j].name = "fold"
      <4>1. j \in a+1 .. at - 1
        BY <1>1
      <4> QED BY <1>1, <4>1
    <3> QED BY <3>1, <3>2 DEF FoldsOf
  <2>2. ASSUME NEW k \in FoldsOf(n)
        PROVE  k \in n+1 .. at - 1
    <3>1. k \in n+1 .. Len(lines) /\ \A j \in n+1 .. k : lines[j].name = "fold"
      BY DEF FoldsOf
    <3>2. ~ (at <= k)
      BY <1>1, <1>2, <1>3, <1>4, <3>1
    <3> QED BY <1>1, <1>2, <1>4, <3>1, <3>2
  <2> QED BY <2>1, <2>2
<1>5. FoldsOf(a) = a+1 .. at - 1
  BY <1>1, <1>4
<1>6. Cardinality(FoldsOf(a)) = at - 1 - a
  <2>1. a+1 \in Int /\ at - 1 \in Int
    BY <1>1
  <2>2. Cardinality(a+1 .. at - 1) = IF a+1 > at - 1 THEN 0 ELSE (at - 1) - (a+1) + 1
    BY <2>1, FS_Interval
  <2> QED BY <1>1, <1>5, <2>2
<1>7. Entry(a) = last
  <2>1. Entry(a) = [k \in 1 .. at - a |-> a + k - 1]
    BY <1>1, <1>6 DEF Entry
  <2> QED BY <1>1, <1>2, <2>1
<1>8. ASSUME NEW n \in a .. at - 1
      PROVE  FoldsOf(n) = {} <=> n = at - 1
  <2>1. FoldsOf(n) = n+1 .. at - 1
    BY <1>4
  <2>2. CASE n = at - 1
    BY <1>1, <2>1, <2>2
  <2>3. CASE n # at - 1
    <3>1. n+1 \in n+1 .. at - 1
      BY <1>1, <2>3
    <3> QED BY <2>1, <2>3, <3>1
  <2> QED BY <2>2, <2>3
<1> QED BY <1>1, <1>5, <1>7, <1>8

\* Only the first line of a header has a name that is known, and gives it to the header.
LEMMA NameOf ==
  ASSUME HeaderTypeOK, NEW a \in 1 .. Len(lines), Len(last) \in Nat \ {0}, last[1] = a
  PROVE  \A name \in Standard : Name = name <=> lines[a].name = name
<1>1. lines[a] \in Line /\ DOMAIN last = 1 .. Len(last) /\ last # <<>>
  BY LinesOf, EmptySeq
<1>2. /\ lines[a].name \in Standard \cup {"other", "fold"}
      /\ lines[a].name \in Standard => lines[a].colon \in {"last", "inside"}
  BY <1>1, LineForms
<1>3. ASSUME lines[a].name \in Standard
      PROVE  HasName /\ Colon = 1
  <2> DEFINE c == {k \in DOMAIN last : lines[last[k]].colon # "none"}
  <2>1. 1 \in c /\ c # {} /\ \A k \in c : k \in Nat /\ 1 <= k
    BY <1>1, <1>2, <1>3
  <2>2. Colon = CHOOSE k \in c : \A j \in c : k <= j
    BY <2>1 DEF Colon
  <2> HIDE DEF c
  <2>3. \A k \in c : (\A j \in c : k <= j) => k = 1
    BY <2>1
  <2>4. \E k \in c : \A j \in c : k <= j
    BY <2>1
  <2>5. Colon = 1
    BY <2>2, <2>3, <2>4
  <2> QED BY <1>2, <1>3, <2>5 DEF HasName
<1>4. CASE lines[a].name \in Standard
  BY <1>3, <1>4 DEF Name
<1>5. CASE lines[a].name \notin Standard
  <2>1. Name \in {lines[a].name, "other"}
    BY DEF Name
  <2> QED BY <1>2, <1>5, <2>1 DEF Standard
<1> QED BY <1>4, <1>5

LEMMA ThreeParts ==
  ASSUME NEW S, NEW r \in Seq(S), NEW b \in Seq(S), NEW l \in Seq(S)
  PROVE  LET t == r \o b \o l
         IN  /\ t \in Seq(S)
             /\ Len(t) = Len(r) + Len(b) + Len(l)
             /\ \A k \in 1 .. Len(r) : t[k] = r[k]
             /\ \A k \in 1 .. Len(b) : t[Len(r) + k] = b[k]
             /\ \A k \in 1 .. Len(l) : t[Len(r) + Len(b) + k] = l[k]
<1> DEFINE rb == r \o b
<1>1. Len(r) \in Nat /\ Len(b) \in Nat /\ Len(l) \in Nat
  BY LenProperties
<1>2. /\ rb \in Seq(S) /\ Len(rb) = Len(r) + Len(b)
      /\ \A i \in 1 .. Len(r) + Len(b) : rb[i] = IF i <= Len(r) THEN r[i] ELSE b[i - Len(r)]
  BY ConcatProperties
<1>7. rb \in Seq(S)
  BY <1>2
<1> HIDE DEF rb
<1>3. /\ rb \o l \in Seq(S) /\ Len(rb \o l) = Len(rb) + Len(l)
      /\ \A i \in 1 .. Len(rb) + Len(l) : (rb \o l)[i] = IF i <= Len(rb) THEN rb[i] ELSE l[i - Len(rb)]
  BY <1>7, ConcatProperties
<1>4. \A k \in 1 .. Len(r) : (rb \o l)[k] = r[k]
  BY <1>1, <1>2, <1>3
<1>5. \A k \in 1 .. Len(b) : (rb \o l)[Len(r) + k] = b[k]
  BY <1>1, <1>2, <1>3
<1>6. \A k \in 1 .. Len(l) : (rb \o l)[Len(r) + Len(b) + k] = l[k]
  BY <1>1, <1>2, <1>3
<1> QED BY <1>1, <1>2, <1>3, <1>4, <1>5, <1>6 DEF rb

LEMMA PieceShape ==
  ASSUME NEW is \in {"line", "blank", "path", "id"}, NEW n \in Nat, NEW seg \in BOOLEAN
  PROVE  /\ Piece(is, n, seg) \in Seq(Written) /\ Len(Piece(is, n, seg)) = 1
         /\ Piece(is, n, seg)[1] \in Written
         /\ Piece(is, n, seg)[1].is = is /\ Piece(is, n, seg)[1].n = n /\ Piece(is, n, seg)[1].seg = seg
<1>1. [is |-> is, n |-> n, seg |-> seg] \in Written
  BY DEF Written
<1> QED BY <1>1 DEF Piece

LEMMA LinesShape ==
  ASSUME HeaderTypeOK, NEW seg \in BOOLEAN
  PROVE  /\ Lines(seg) \in Seq(Written) /\ Len(Lines(seg)) = Len(last)
         /\ \A k \in 1 .. Len(last) : /\ Lines(seg)[k].is = "line" /\ Lines(seg)[k].n = last[k]
                                      /\ Lines(seg)[k].seg <=> seg /\ k = 1
<1>1. /\ DOMAIN last = 1 .. Len(last) /\ Len(last) \in Nat /\ Len(lines) \in Nat
      /\ \A k \in 1 .. Len(last) : last[k] \in 1 .. Len(lines)
  BY LinesOf, ElementOfSeq
<1>2. Lines(seg) = [k \in 1 .. Len(last) |-> [is |-> "line", n |-> last[k], seg |-> seg /\ k = 1]]
  BY <1>1 DEF Lines
<1>3. \A k \in 1 .. Len(last) : [is |-> "line", n |-> last[k], seg |-> seg /\ k = 1] \in Written
  BY <1>1 DEF Written
<1>4. Lines(seg) \in [1 .. Len(last) -> Written]
  BY <1>2, <1>3
<1>5. Lines(seg) \in Seq(Written) /\ Len(Lines(seg)) = Len(last)
  BY <1>1, <1>4, LenProperties
<1>6. ASSUME NEW k \in 1 .. Len(last)
      PROVE  /\ Lines(seg)[k].is = "line" /\ Lines(seg)[k].n = last[k]
             /\ Lines(seg)[k].seg = (seg /\ k = 1)
  <2> DEFINE first == seg /\ k = 1
  <2>1. Lines(seg)[k] = [is |-> "line", n |-> last[k], seg |-> first]
    BY <1>2
  <2> HIDE DEF first
  <2>2. Lines(seg)[k].is = "line" /\ Lines(seg)[k].n = last[k] /\ Lines(seg)[k].seg = first
    BY <2>1
  <2> QED BY <2>2 DEF first
<1> QED BY <1>5, <1>6

\* Writing the header in hand.
LEMMA HeaderWritten ==
  ASSUME HeaderTypeOK, NEW a, InHand(a), last # <<>>, at <= Len(lines) + 1, ~ IsFold,
         RawUpTo(a-1), WriteHeader, UNCHANGED <<lines, stamper>>, NEW w, w = at - 1
  PROVE  raw' \in Seq(Written) /\ RawUpTo(w)'
<1>1. /\ a \in Nat \ {0} /\ at \in 2 .. Len(lines) + 1 /\ a \in 1 .. at - 1 /\ Len(last) = at - a /\ last[1] = a
      /\ \A k \in 1 .. at - a : last[k] = a + k - 1
      /\ \A n \in a+1 .. at - 1 : lines[n].name = "fold"
      /\ a > 1 => lines[a].name # "fold"
  BY Complete DEF InHand
<1>2. /\ Len(lines) \in Nat /\ raw \in Seq(Written) /\ Len(raw) \in Nat /\ lines # <<>>
  BY <1>1, LinesOf, EmptySeq
<1> DEFINE seg == Name = "path" /\ stamper.seg
<1>3. seg \in BOOLEAN /\ (seg <=> stamper.seg /\ lines[a].name = "path")
  <2>1. Name = "path" <=> lines[a].name = "path"
    BY <1>1, <1>2, NameOf DEF Standard
  <2> QED BY <2>1
<1> DEFINE l == Lines(seg)
<1>4. /\ l \in Seq(Written) /\ Len(l) = at - a
      /\ \A k \in 1 .. at - a : l[k].is = "line" /\ l[k].n = last[k] /\ (l[k].seg <=> seg /\ k = 1)
  <2>1. seg \in BOOLEAN
    OBVIOUS
  <2> HIDE DEF seg
  <2> QED BY <1>1, <2>1, LinesShape
<1>5. /\ Blank \in Seq(Written)
      /\ Len(Blank) = IF a = 1 THEN Off ELSE 0
      /\ \A k \in 1 .. Len(Blank) : Blank[k].is = "blank" /\ ~ Blank[k].seg
  <2>1. CASE lines[a].name = "fold"
    <3>1. a = 1 /\ Off = 1
      BY <1>1, <1>2, <2>1 DEF Off
    <3>2. Blank = Piece("blank", 0, FALSE)
      BY <1>1, <2>1 DEF Blank
    <3> DEFINE b == Piece("blank", 0, FALSE)
    <3>3. b \in Seq(Written) /\ Len(b) = 1 /\ b[1].is = "blank" /\ b[1].seg = FALSE
      BY DEF Piece, Written
    <3> HIDE DEF b
    <3>4. Len(b) = (IF a = 1 THEN Off ELSE 0) /\ \A k \in 1 .. Len(b) : k = 1
      BY <3>1, <3>3
    <3> QED BY <3>2, <3>3, <3>4 DEF b
  <2>2. CASE lines[a].name # "fold"
    <3>1. a = 1 => Off = 0
      BY <2>2 DEF Off
    <3>2. Blank = <<>>
      BY <1>1, <2>2 DEF Blank
    <3> QED BY <3>1, <3>2, EmptySeq
  <2> QED BY <2>1, <2>2
<1>6. raw' = raw \o Blank \o l
  BY DEF WriteHeader
<1> HIDE DEF l
<1>7. /\ raw' \in Seq(Written)
      /\ Len(raw') = Len(raw) + Len(Blank) + Len(l)
      /\ \A k \in 1 .. Len(raw) : raw'[k] = raw[k]
      /\ \A k \in 1 .. Len(Blank) : raw'[Len(raw) + k] = Blank[k]
      /\ \A k \in 1 .. Len(l) : raw'[Len(raw) + Len(Blank) + k] = l[k]
  <2>1. raw \in Seq(Written) /\ Blank \in Seq(Written) /\ l \in Seq(Written)
    BY <1>2, <1>4, <1>5
  <2> QED BY <1>6, <2>1, ThreeParts
<1>8. Off \in {0, 1} /\ Off' = Off
  BY DEF Off
<1>9. Len(raw) + Len(Blank) = Off + (a - 1) /\ Len(Blank) \in Nat
  BY <1>1, <1>5, <1>8 DEF RawUpTo
<1>10. Len(raw') = Off + w
  <2>1. Len(raw') = (Off + (a - 1)) + (at - a)
    BY <1>4, <1>7, <1>9
  <2> QED BY <1>1, <1>8, <2>1
<1>11. \A k \in 1 .. Off : (raw'[k]).is = "blank" /\ ~ (raw'[k]).seg
  <2>1. CASE a = 1
    <3>1. Len(raw) = 0 /\ Len(Blank) = Off
      BY <1>5, <2>1 DEF RawUpTo
    <3> QED BY <1>5, <1>7, <1>8, <3>1
  <2>2. CASE a > 1
    <3>1. Len(raw) = Off + (a - 1) /\ \A k \in 1 .. Off : raw[k].is = "blank" /\ ~ raw[k].seg
      BY <1>1, <2>2 DEF RawUpTo
    <3>2. \A k \in 1 .. Off : k \in 1 .. Len(raw)
      BY <1>1, <1>8, <3>1
    <3> QED BY <1>7, <3>1, <3>2
  <2> QED BY <1>1, <2>1, <2>2
<1>12. ASSUME NEW n \in 1 .. w
       PROVE  LineAt(n, Off + n)'
  <2>1. CASE n < a
    <3>1. Len(raw) = Off + (a - 1) /\ LineAt(n, Off + n)
      BY <1>1, <2>1 DEF RawUpTo
    <3>2. Off + n \in 1 .. Len(raw)
      BY <1>1, <1>8, <2>1, <3>1
    <3> QED BY <1>7, <1>8, <3>1, <3>2 DEF LineAt
  <2>2. CASE n >= a
    <3> DEFINE k == n - a + 1
    <3>1. k \in 1 .. at - a /\ last[k] = n /\ Len(raw) + Len(Blank) + k = Off + n
      BY <1>1, <1>8, <1>9, <2>2
    <3>2. raw'[Off + n] = l[k]
      BY <1>4, <1>7, <3>1
    <3>3. l[k].is = "line" /\ l[k].n = n /\ (l[k].seg <=> seg /\ k = 1)
      BY <1>4, <3>1
    <3>4. seg /\ k = 1 <=> stamper.seg /\ lines[n].name = "path"
      <4>1. CASE n = a
        BY <1>1, <1>3, <4>1
      <4>2. CASE n # a
        <5>1. n \in a+1 .. at - 1
          BY <1>1, <2>2, <4>2
        <5> QED BY <1>1, <4>2, <5>1
      <4> QED BY <4>1, <4>2
    <3>5. (Off + n)' = Off + n
      BY <1>8
    <3> HIDE DEF k, seg
    <3> QED BY <1>8, <3>2, <3>3, <3>4, <3>5 DEF LineAt
  <2> QED BY <1>1, <2>1, <2>2
<1>13. w > 0
  BY <1>1
<1> QED BY <1>7, <1>8, <1>10, <1>11, <1>12, <1>13 DEF RawUpTo

-----------------------------------------------------------------------------
(***************************************************************************)
(* What else becomes of the header in hand.                                *)
(***************************************************************************)
LEMMA FieldWritten ==
  ASSUME HeaderTypeOK, NEW a, InHand(a), last # <<>>, at <= Len(lines) + 1, ~ IsFold,
         NEW name \in Standard, NEW f, FieldIs(f, name, a-1)
  PROVE  FieldIs(IF Name = name THEN last ELSE f, name, at-1)
<1>1. /\ a \in Nat \ {0} /\ at \in 2 .. Len(lines) + 1 /\ a \in 1 .. at - 1 /\ Len(last) = at - a /\ last[1] = a
      /\ Entry(a) = last
      /\ \A n \in a+1 .. at - 1 : lines[n].name = "fold"
  BY Complete DEF InHand
<1>2. Len(lines) \in Nat
  BY LinesOf
<1>3. Name = name <=> lines[a].name = name
  BY <1>1, <1>2, NameOf
<1>4. \A n \in a+1 .. at - 1 : lines[n].name # name
  BY <1>1 DEF Standard
<1>5. CASE lines[a].name = name
  BY <1>1, <1>3, <1>4, <1>5 DEF FieldIs
<1>6. CASE lines[a].name # name
  <2>1. \A n \in a .. at - 1 : lines[n].name # name
    BY <1>1, <1>4, <1>6
  <2>2. CASE f = NoField /\ \A n \in 1 .. a-1 : lines[n].name # name
    <3>1. \A n \in 1 .. at - 1 : n \in 1 .. a-1 \/ n \in a .. at - 1
      BY <1>1
    <3> QED BY <1>3, <1>6, <2>1, <2>2, <3>1 DEF FieldIs
  <2>3. ASSUME NEW n \in 1 .. a-1, lines[n].name = name, f = Entry(n),
               \A k \in n+1 .. a-1 : lines[k].name # name
        PROVE  FieldIs(f, name, at-1)
    <3>1. n \in 1 .. at - 1 /\ \A k \in n+1 .. at - 1 : k \in n+1 .. a-1 \/ k \in a .. at - 1
      BY <1>1
    <3> QED BY <2>1, <2>3, <3>1 DEF FieldIs
  <2> QED BY <1>3, <1>6, <2>2, <2>3 DEF FieldIs
<1> QED BY <1>5, <1>6

LEMMA FoundWritten ==
  ASSUME HeaderTypeOK, NEW a, InHand(a), last # <<>>, at <= Len(lines) + 1, ~ IsFold, FoundUpTo(a-1),
         found' = found \cup ({Name} \cap {"path", "message-id"}), lines' = lines, NEW w, w = at - 1
  PROVE  FoundUpTo(w)'
<1>1. /\ a \in Nat \ {0} /\ at \in 2 .. Len(lines) + 1 /\ a \in 1 .. at - 1 /\ Len(last) = at - a /\ last[1] = a
      /\ \A n \in a+1 .. at - 1 : lines[n].name = "fold"
  BY Complete DEF InHand
<1>2. Len(lines) \in Nat
  BY LinesOf
<1> SUFFICES ASSUME NEW name \in {"path", "message-id"}
             PROVE  name \in found' <=> \E n \in 1 .. w : lines[n].name = name
  BY DEF FoundUpTo
<1>3. Name = name <=> lines[a].name = name
  BY <1>1, <1>2, NameOf DEF Standard
<1>4. name \in found' <=> name \in found \/ lines[a].name = name
  BY <1>3
<1>5. name \in found <=> \E n \in 1 .. a-1 : lines[n].name = name
  BY DEF FoundUpTo
<1>6. \A n \in 1 .. w : n \in 1 .. a-1 \/ n = a \/ n \in a+1 .. at - 1
  BY <1>1
<1>7. a \in 1 .. w /\ \A n \in 1 .. a-1 : n \in 1 .. w
  BY <1>1
<1>8. \A n \in a+1 .. at - 1 : lines[n].name # name
  BY <1>1
<1> QED BY <1>4, <1>5, <1>6, <1>7, <1>8

LEMMA PassedWritten ==
  ASSUME HeaderTypeOK, NEW a, InHand(a), last # <<>>, at <= Len(lines) + 1, ~ IsFold, PassedUpTo(a-1),
         ~ PastTheEnd, ~ Owned
  PROVE  PassedUpTo(at-1)
<1>1. /\ a \in Nat \ {0} /\ at \in 2 .. Len(lines) + 1 /\ a \in 1 .. at - 1 /\ Len(last) = at - a /\ last[1] = a
      /\ \A n \in a+1 .. at - 1 : lines[n].name = "fold"
      /\ \A n \in a .. at - 1 : FoldsOf(n) = {} <=> n = at - 1
  BY Complete DEF InHand
<1>2. Len(lines) \in Nat /\ DOMAIN lines = 1 .. Len(lines) /\ DOMAIN last = 1 .. Len(last)
  BY LinesOf
<1>3. Name = "message-id" <=> lines[a].name = "message-id"
  BY <1>1, <1>2, NameOf DEF Standard
<1>4. ASSUME NEW n \in a+1 .. at - 1
      PROVE  ~ OwnId(n) /\ lines[n].name = "fold"
  BY <1>1 DEF OwnId, Named
<1>5. ~ (stamper.given /\ OwnId(a))
  <2>1. ASSUME stamper.given, OwnId(a)
        PROVE  FALSE
    <3>1. lines[a].name = "message-id" /\ lines[a].own /\ FoldsOf(a) = {}
      BY <2>1 DEF OwnId, Named
    <3>2. Len(last) = 1
      BY <1>1, <3>1
    <3> QED BY <1>1, <1>3, <2>1, <3>1, <3>2 DEF Owned
  <2> QED BY <2>1
<1>6. FoldsOf(a) = {} => lines[a].colon # "last"
  <2>1. ASSUME FoldsOf(a) = {}, lines[a].colon = "last"
        PROVE  FALSE
    <3>1. DOMAIN last = {1} /\ Len(last) = 1
      BY <1>1, <1>2, <2>1
    <3> DEFINE c == {k \in DOMAIN last : lines[last[k]].colon # "none"}
    <3>2. c = {1}
      BY <1>1, <2>1, <3>1
    <3>3. Colon = CHOOSE k \in c : \A j \in c : k <= j
      BY <3>2 DEF Colon
    <3>4. Colon = 1
      BY <3>2, <3>3
    <3> QED BY <1>1, <2>1, <3>1, <3>4 DEF PastTheEnd, HasName
  <2> QED BY <2>1
<1>7. \A n \in 1 .. at - 1 : n \in 1 .. a-1 \/ n = a \/ n \in a+1 .. at - 1
  BY <1>1
<1> QED BY <1>4, <1>5, <1>6, <1>7 DEF PassedUpTo

-----------------------------------------------------------------------------
(* The steps *)

LEMMA SameLines ==
  ASSUME lines' = lines, stamper' = stamper
  PROVE  /\ Off' = Off
         /\ \A n : FoldsOf(n)' = FoldsOf(n) /\ Entry(n)' = Entry(n) /\ OwnId(n)' = OwnId(n)
         /\ \A f, name, w : FieldIs(f, name, w)' = FieldIs(f, name, w)
         /\ \A w : PassedUpTo(w)' = PassedUpTo(w)
         /\ \A name : Named(name)' = Named(name) /\ LastNamed(name)' = LastNamed(name)
<1>1. Off' = Off
  BY DEF Off
<1>2. \A n : FoldsOf(n)' = FoldsOf(n)
  BY DEF FoldsOf
<1>3. \A n : Entry(n)' = Entry(n)
  BY <1>2 DEF Entry
<1>4. \A n : OwnId(n)' = OwnId(n)
  BY <1>2 DEF OwnId, Named
<1>5. \A f, name, w : FieldIs(f, name, w)' = FieldIs(f, name, w)
  BY <1>3 DEF FieldIs
<1>6. \A w : PassedUpTo(w)' = PassedUpTo(w)
  BY <1>2, <1>4 DEF PassedUpTo
<1>7. \A name : Named(name)' = Named(name) /\ LastNamed(name)' = LastNamed(name)
  BY DEF Named, LastNamed
<1> QED BY <1>1, <1>2, <1>3, <1>4, <1>5, <1>6, <1>7

LEMMA FoldKeeps ==
  ASSUME HeadInv, Fold
  PROVE  HeadInv'
<1>1. /\ stage = "lines" /\ stage' = "lines" /\ pc' = pc /\ last' = Append(last, at) /\ at' = at + 1
      /\ at <= Len(lines) /\ lines[at].name = "fold"
      /\ UNCHANGED <<stamper, lines, found, raw, hi>>
  BY DEF Fold, IsFold, article
<1>2. PICK a \in 1 .. Len(lines) + 1 :
        InHand(a) /\ RawUpTo(a-1) /\ FoundUpTo(a-1) /\ FieldsUpTo(a-1) /\ PassedUpTo(a-1)
  BY <1>1 DEF HeadInv, Progress
<1>3. /\ Len(lines) \in Nat /\ last \in Seq(1 .. Len(lines)) /\ Len(last) \in Nat /\ HeaderTypeOK
      /\ DOMAIN lines = 1 .. Len(lines)
  BY LinesOf DEF HeadInv
<1>4. at \in 1 .. Len(lines)
  BY <1>1, <1>2, <1>3, EmptySeq DEF InHand
<1>5. /\ last' \in Seq(1 .. Len(lines)) /\ Len(last') = Len(last) + 1
      /\ \A k \in 1 .. Len(last) : last'[k] = last[k]
      /\ last'[Len(last) + 1] = at
  BY <1>1, <1>3, <1>4, AppendProperties
<1>6. last' # <<>>
  BY <1>3, <1>5, EmptySeq
<1>7. InHand(a)'
  <2>1. CASE last = <<>>
    <3>1. a = 1 /\ at = 1 /\ Len(last) = 0
      BY <1>2, <1>3, <1>4, <2>1, EmptySeq DEF InHand
    <3> QED BY <1>1, <1>2, <1>4, <1>5, <1>6, <3>1 DEF InHand
  <2>2. CASE last # <<>>
    <3>1. /\ a \in 1 .. at - 1 /\ Len(last) = at - a
          /\ \A k \in 1 .. at - a : last[k] = a + k - 1
          /\ \A n \in a+1 .. at - 1 : lines[n].name = "fold"
          /\ a > 1 => lines[a].name # "fold"
      BY <1>2, <2>2 DEF InHand
    <3>2. \A k \in 1 .. (at + 1) - a : last'[k] = a + k - 1
      <4> TAKE k \in 1 .. (at + 1) - a
      <4>1. CASE k \in 1 .. Len(last)
        BY <1>5, <3>1, <4>1
      <4>2. CASE k = Len(last) + 1
        BY <1>4, <1>5, <3>1, <4>2
      <4> QED BY <1>4, <3>1, <4>1, <4>2
    <3>3. \A n \in a+1 .. (at + 1) - 1 : lines[n].name = "fold"
      <4> TAKE n \in a+1 .. (at + 1) - 1
      <4>1. CASE n = at
        BY <1>1, <4>1
      <4>2. CASE n \in a+1 .. at - 1
        BY <3>1, <4>2
      <4> QED BY <1>4, <3>1, <4>1, <4>2
    <3>4. at' \in 2 .. Len(lines) + 1 /\ a \in 1 .. at' - 1 /\ Len(last') = at' - a
      BY <1>1, <1>3, <1>4, <1>5, <3>1
    <3> QED BY <1>1, <1>2, <1>6, <3>1, <3>2, <3>3, <3>4 DEF InHand
  <2> QED BY <2>1, <2>2
<1>8. (RawUpTo(a-1) /\ FoundUpTo(a-1) /\ FieldsUpTo(a-1) /\ PassedUpTo(a-1))'
  BY <1>1, <1>2, SameLines DEF RawUpTo, LineAt, FoundUpTo, FieldsUpTo
<1>9. HeaderTypeOK'
  BY <1>1, <1>3, <1>4, <1>5 DEF HeaderTypeOK
<1>10. Progress'
  BY <1>1, <1>2, <1>7, <1>8 DEF Progress
<1> QED BY <1>1, <1>9, <1>10 DEF HeadInv, RawKept, FieldsPicked, EndsEarly

\* A new line is in hand, or none is left.
LEMMA NextInHand ==
  ASSUME HeaderTypeOK, at \in 1 .. Len(lines) + 1, ~ IsFold,
         last' = Begun, at' = at + 1, lines' = lines, NEW b, b = at
  PROVE  InHand(b)' /\ last' \in Seq(1 .. Len(lines))
<1>1. Len(lines) \in Nat
  BY LinesOf
<1>2. CASE at <= Len(lines)
  <2>1. last' = <<at>> /\ lines[at].name # "fold"
    BY <1>1, <1>2 DEF Begun, IsFold
  <2>2. last' \in Seq(1 .. Len(lines)) /\ Len(last') = 1 /\ last'[1] = at /\ last' # <<>>
    BY <1>1, <1>2, <2>1
  <2> QED BY <1>1, <1>2, <2>1, <2>2 DEF InHand
<1>3. CASE at = Len(lines) + 1
  <2>1. last' = <<>>
    BY <1>1, <1>3 DEF Begun
  <2> QED BY <1>1, <1>3, <2>1, EmptySeq DEF InHand
<1> QED BY <1>1, <1>2, <1>3

LEMMA NextLineKeeps ==
  ASSUME HeadInv, NextLine
  PROVE  HeadInv'
<1>1. /\ stage = "lines" /\ stage' = "lines" /\ pc' = pc /\ last' = Begun /\ at' = at + 1
      /\ ~ IsFold /\ at <= Len(lines) + 1 /\ lines' = lines /\ stamper' = stamper
  BY DEF NextLine, article
<1>2. PICK a \in 1 .. Len(lines) + 1 :
        InHand(a) /\ RawUpTo(a-1) /\ FoundUpTo(a-1) /\ FieldsUpTo(a-1) /\ PassedUpTo(a-1)
  BY <1>1 DEF HeadInv, Progress
<1>3. HeaderTypeOK /\ hi = [subject |-> hi.subject, id |-> hi.id]
  BY DEF HeadInv
<1>4. Len(lines) \in Nat /\ last \in Seq(1 .. Len(lines)) /\ DOMAIN lines = 1 .. Len(lines)
  BY <1>3, LinesOf
<1>5. at \in 1 .. Len(lines) + 1
  BY <1>1, <1>2, <1>4 DEF InHand
<1>10. PICK b, w : b = at /\ w = at - 1
  OBVIOUS
<1>6. InHand(b)' /\ last' \in Seq(1 .. Len(lines))
  BY <1>1, <1>3, <1>5, <1>10, NextInHand
<1>7. /\ raw' \in Seq(Written) /\ RawUpTo(w)' /\ FoundUpTo(w)' /\ FieldsUpTo(w)' /\ PassedUpTo(w)'
      /\ found' \subseteq {"path", "message-id"}
      /\ hi' = [subject |-> hi'.subject, id |-> hi'.id]
      /\ hi'.subject \in Seq(DOMAIN lines) /\ hi'.id \in Seq(DOMAIN lines) \cup {GivenId, MadeId}
  <2>1. CASE last = <<>>
    <3>1. raw' = raw /\ hi' = hi /\ found' = found
      BY <1>1, <2>1 DEF NextLine
    <3>2. at = 1 /\ a = 1
      BY <1>2, <1>4, <1>5, <2>1 DEF InHand
    <3>3. w = a-1
      BY <1>10, <3>2
    <3>4. RawUpTo(w)' /\ FoundUpTo(w)' /\ FieldsUpTo(w)' /\ PassedUpTo(w)'
      BY <1>1, <1>2, <3>1, <3>3, SameLines DEF RawUpTo, LineAt, FoundUpTo, FieldsUpTo
    <3> QED BY <1>3, <3>1, <3>4 DEF HeaderTypeOK
  <2>2. CASE last # <<>>
    <3>1. ~ PastTheEnd /\ ~ Owned /\ WriteHeader /\ SetField
          /\ found' = found \cup ({Name} \cap {"path", "message-id"})
      BY <1>1, <2>2 DEF NextLine
    <3>2. raw' \in Seq(Written) /\ RawUpTo(w)'
      BY <1>1, <1>2, <1>3, <1>10, <2>2, <3>1, HeaderWritten
    <3>3. FoundUpTo(w)'
      BY <1>1, <1>2, <1>3, <1>10, <2>2, <3>1, FoundWritten
    <3>4. PassedUpTo(w)'
      BY <1>1, <1>2, <1>3, <1>10, <2>2, <3>1, PassedWritten, SameLines
    <3>5. /\ hi' = [subject |-> hi'.subject, id |-> hi'.id]
          /\ hi'.subject = IF Name = "subject" THEN last ELSE hi.subject
          /\ hi'.id = IF Name = "message-id" THEN last ELSE hi.id
      <4>1. CASE Name = "message-id"
        BY <1>3, <3>1, <4>1 DEF SetField
      <4>2. CASE Name = "subject"
        BY <1>3, <3>1, <4>2 DEF SetField
      <4>3. CASE Name \notin {"message-id", "subject"}
        BY <1>3, <3>1, <4>3 DEF SetField
      <4> QED BY <4>1, <4>2, <4>3
    <3>6. FieldIs(hi'.subject, "subject", w) /\ FieldIs(hi'.id, "message-id", w)
      <4>1. FieldIs(hi.subject, "subject", a-1) /\ FieldIs(hi.id, "message-id", a-1)
        BY <1>2 DEF FieldsUpTo
      <4>2. "subject" \in Standard /\ "message-id" \in Standard
        BY DEF Standard
      <4>3. FieldIs(IF Name = "subject" THEN last ELSE hi.subject, "subject", w)
        BY <1>1, <1>2, <1>3, <1>10, <2>2, <4>1, <4>2, FieldWritten
      <4>4. FieldIs(IF Name = "message-id" THEN last ELSE hi.id, "message-id", w)
        BY <1>1, <1>2, <1>3, <1>10, <2>2, <4>1, <4>2, FieldWritten
      <4> QED BY <3>5, <4>3, <4>4
    <3>7. FieldsUpTo(w)'
      <4>1. \A n : Entry(n)' = Entry(n)
        BY <1>1, SameLines
      <4>2. FieldIs(hi.subject, "subject", w)'
        BY <1>1, <3>6, <4>1 DEF FieldIs
      <4>3. FieldIs(hi.id, "message-id", w)'
        BY <1>1, <3>6, <4>1 DEF FieldIs
      <4> QED BY <4>2, <4>3 DEF FieldsUpTo
    <3>8. hi'.subject \in Seq(DOMAIN lines) /\ hi'.id \in Seq(DOMAIN lines) \cup {GivenId, MadeId}
      BY <1>3, <1>4, <3>5 DEF HeaderTypeOK
    <3>9. found' \subseteq {"path", "message-id"}
      BY <1>3, <3>1 DEF HeaderTypeOK
    <3> QED BY <3>2, <3>3, <3>4, <3>5, <3>7, <3>8, <3>9
  <2> QED BY <2>1, <2>2
<1>8. HeaderTypeOK'
  BY <1>1, <1>3, <1>4, <1>5, <1>6, <1>7 DEF HeaderTypeOK
<1>9. Progress'
  <2>1. b \in 1 .. Len(lines) + 1 /\ w = b - 1
    BY <1>5, <1>10
  <2>2. (InHand(b) /\ RawUpTo(b-1) /\ FoundUpTo(b-1) /\ FieldsUpTo(b-1) /\ PassedUpTo(b-1))'
    BY <1>6, <1>7, <2>1
  <2> QED BY <1>1, <2>1, <2>2 DEF Progress
<1> QED BY <1>1, <1>7, <1>8, <1>9 DEF HeadInv, RawKept, FieldsPicked, EndsEarly

\* The header in hand ends the function.
LEMMA StopKeeps ==
  ASSUME HeadInv, Panics \/ ReturnNil
  PROVE  HeadInv'
<1>1. /\ stage = "lines" /\ stage' \in {"nil", "panic"} /\ pc' = pc
      /\ UNCHANGED <<stamper, lines, at, last, found, raw, hi>>
      /\ ~ IsFold /\ at <= Len(lines) + 1 /\ last # <<>>
  BY DEF Panics, ReturnNil, Header, Stop, article
<1>2. PICK a \in 1 .. Len(lines) + 1 : InHand(a)
  BY <1>1 DEF HeadInv, Progress
<1>3. HeaderTypeOK
  BY DEF HeadInv
<1>4. /\ a \in Nat \ {0} /\ at \in 2 .. Len(lines) + 1 /\ a \in 1 .. at - 1 /\ Len(last) = at - a
      /\ last[1] = a /\ last[at - a] = at - 1
      /\ \A n \in a .. at - 1 : FoldsOf(n) = {} <=> n = at - 1
  BY <1>1, <1>2, <1>3, Complete
<1>5. Len(lines) \in Nat /\ DOMAIN lines = 1 .. Len(lines)
  BY <1>3, LinesOf
<1>6. EndsEarly'
  <2>1. CASE Panics
    <3>1. stage' = "panic" /\ Colon = Len(last) /\ lines[last[Colon]].colon = "last"
      BY <2>1 DEF Panics, PastTheEnd, Stop
    <3>2. at - 1 \in DOMAIN lines /\ FoldsOf(at - 1) = {} /\ lines[at - 1].colon = "last"
      BY <1>4, <1>5, <3>1
    <3>3. PICK n : n = at - 1
      OBVIOUS
    <3>4. n \in DOMAIN lines' /\ FoldsOf(n)' = {} /\ (lines'[n]).colon = "last"
      BY <1>1, <3>2, <3>3, SameLines
    <3> QED BY <3>1, <3>4 DEF EndsEarly
  <2>2. CASE ReturnNil
    <3>1. stage' = "nil" /\ Owned
      BY <2>2 DEF ReturnNil, Stop
    <3>2. Name = "message-id" /\ stamper.given /\ lines[a].own /\ at - a = 1
      BY <1>4, <3>1 DEF Owned
    <3>3. lines[a].name = "message-id" /\ a \in DOMAIN lines
      BY <1>3, <1>4, <1>5, <3>2, NameOf DEF Standard
    <3>4. OwnId(a)
      BY <1>4, <3>2, <3>3 DEF OwnId, Named
    <3>5. a \in DOMAIN lines' /\ OwnId(a)' /\ stamper'.given
      BY <1>1, <3>2, <3>3, <3>4, SameLines
    <3> QED BY <3>1, <3>5 DEF EndsEarly
  <2> QED BY <2>1, <2>2
<1>7. HeaderTypeOK'
  BY <1>1, <1>3 DEF HeaderTypeOK
<1> QED BY <1>1, <1>6, <1>7 DEF HeadInv, RawKept, FieldsPicked

\* A step of ConsumePostedArticle is before all that.
LEMMA ArticleStepKeeps ==
  ASSUME HeadInv, Next, UNCHANGED header
  PROVE  HeadInv'
<1>1. pc = "copy" /\ pc' \in {"copy", "done"}
  BY DEF Next, Copy, Finish
<1>2. UNCHANGED <<stage, stamper, lines, at, last, found, raw, hi>>
  BY DEF header
<1>3. stage = "none" /\ Begins
  BY <1>1 DEF HeadInv
<1>4. HeaderTypeOK'
  BY <1>2 DEF HeadInv, HeaderTypeOK
<1> QED BY <1>1, <1>2, <1>3, <1>4 DEF HeadInv, Begins, RawKept, FieldsPicked, EndsEarly

-----------------------------------------------------------------------------
(***************************************************************************)
(* What RAW is at the end: perhaps an empty line, the lines, perhaps a     *)
(* Path and a message-id.                                                  *)
(***************************************************************************)
AddedPath == IF "path" \notin found /\ stamper.seg THEN Piece("path", 0, TRUE) ELSE <<>>
AddedId   == IF "message-id" \notin found /\ MessageId # NoField THEN Piece("id", 0, FALSE) ELSE <<>>

LEMMA AddedShapes ==
  /\ AddedPath \in Seq(Written)
  /\ Len(AddedPath) = IF "path" \notin found /\ stamper.seg THEN 1 ELSE 0
  /\ \A k \in 1 .. Len(AddedPath) : AddedPath[k].is = "path" /\ AddedPath[k].seg
  /\ AddedId \in Seq(Written)
  /\ Len(AddedId) = IF "message-id" \notin found /\ MessageId # NoField THEN 1 ELSE 0
  /\ \A k \in 1 .. Len(AddedId) : AddedId[k].is = "id" /\ ~ AddedId[k].seg
<1> DEFINE p == Piece("path", 0, TRUE)
           i == Piece("id", 0, FALSE)
<1>1. p \in Seq(Written) /\ Len(p) = 1 /\ p[1].is = "path" /\ p[1].seg = TRUE
  BY DEF Piece, Written
<1>2. i \in Seq(Written) /\ Len(i) = 1 /\ i[1].is = "id" /\ i[1].seg = FALSE
  BY DEF Piece, Written
<1>3. AddedPath = (IF "path" \notin found /\ stamper.seg THEN p ELSE <<>>)
  BY DEF AddedPath
<1>4. AddedId = (IF "message-id" \notin found /\ MessageId # NoField THEN i ELSE <<>>)
  BY DEF AddedId
<1> HIDE DEF p, i
<1>5. /\ AddedPath \in Seq(Written)
      /\ Len(AddedPath) = IF "path" \notin found /\ stamper.seg THEN 1 ELSE 0
      /\ \A k \in 1 .. Len(AddedPath) : AddedPath[k].is = "path" /\ AddedPath[k].seg
  <2>1. CASE "path" \notin found /\ stamper.seg
    <3>1. AddedPath = p /\ \A k \in 1 .. Len(AddedPath) : k = 1
      BY <1>1, <1>3, <2>1
    <3> QED BY <1>1, <2>1, <3>1
  <2>2. CASE ~ ("path" \notin found /\ stamper.seg)
    <3>1. AddedPath = <<>> /\ Len(AddedPath) = 0
      BY <1>3, <2>2, EmptySeq
    <3> QED BY <2>2, <3>1, EmptySeq
  <2> QED BY <2>1, <2>2
<1>6. /\ AddedId \in Seq(Written)
      /\ Len(AddedId) = IF "message-id" \notin found /\ MessageId # NoField THEN 1 ELSE 0
      /\ \A k \in 1 .. Len(AddedId) : AddedId[k].is = "id" /\ ~ AddedId[k].seg
  <2>1. CASE "message-id" \notin found /\ MessageId # NoField
    <3>1. AddedId = i
      BY <1>4, <2>1
    <3>2. Len(AddedId) = 1
      BY <1>2, <3>1
    <3>3. \A k \in 1 .. Len(AddedId) : k = 1
      BY <3>2
    <3> QED BY <1>2, <2>1, <3>1, <3>2, <3>3
  <2>2. CASE ~ ("message-id" \notin found /\ MessageId # NoField)
    <3>1. AddedId = <<>> /\ Len(AddedId) = 0
      BY <1>4, <2>2, EmptySeq
    <3> QED BY <2>2, <3>1, EmptySeq
  <2> QED BY <2>1, <2>2
<1> QED BY <1>5, <1>6

LEMMA AllWritten ==
  ASSUME HeadInv, AddMissing, NEW N, N = Len(lines),
         NEW P, P = Len(AddedPath), NEW I, I = Len(AddedId)
  PROVE  /\ raw' \in Seq(Written) /\ DOMAIN raw' = 1 .. Off + N + P + I
         /\ N \in Nat /\ P \in {0, 1} /\ I \in {0, 1} /\ Off \in {0, 1}
         /\ \A k \in 1 .. Off : (raw'[k]).is = "blank" /\ ~ (raw'[k]).seg
         /\ \A n \in 1 .. N : /\ (raw'[Off + n]).is = "line" /\ (raw'[Off + n]).n = n
                              /\ (raw'[Off + n]).seg <=> stamper.seg /\ lines[n].name = "path"
         /\ P = 1 => (raw'[Off + N + 1]).is = "path" /\ (raw'[Off + N + 1]).seg
         /\ I = 1 => (raw'[Off + N + P + 1]).is = "id" /\ ~ (raw'[Off + N + P + 1]).seg
         /\ RawUpTo(N) /\ FoundUpTo(N) /\ FieldsUpTo(N) /\ PassedUpTo(N)
<1>1. /\ stage = "lines" /\ at = Len(lines) + 2 /\ raw' = raw \o AddedPath \o AddedId
  BY DEF AddMissing, AddedPath, AddedId
<1>2. PICK a \in 1 .. Len(lines) + 1 :
        InHand(a) /\ RawUpTo(a-1) /\ FoundUpTo(a-1) /\ FieldsUpTo(a-1) /\ PassedUpTo(a-1)
  BY <1>1 DEF HeadInv, Progress
<1>3. Len(lines) \in Nat /\ raw \in Seq(Written) /\ Len(raw) \in Nat /\ lines \in Seq(Line)
  BY LinesOf DEF HeadInv
<1>4. a-1 = N
  BY <1>1, <1>2, <1>3 DEF InHand
<1>5. RawUpTo(N) /\ FoundUpTo(N) /\ FieldsUpTo(N) /\ PassedUpTo(N)
  BY <1>2, <1>4
<1>6. Off \in {0, 1} /\ (N = 0 => Off = 0)
  BY <1>3, EmptySeq DEF Off
<1>7. Len(raw) = Off + N
  BY <1>3, <1>5, <1>6 DEF RawUpTo
<1>8. P \in {0, 1} /\ I \in {0, 1}
  BY AddedShapes
<1>9. /\ raw' \in Seq(Written)
      /\ Len(raw') = Len(raw) + Len(AddedPath) + Len(AddedId)
      /\ \A k \in 1 .. Len(raw) : raw'[k] = raw[k]
      /\ \A k \in 1 .. Len(AddedPath) : raw'[Len(raw) + k] = AddedPath[k]
      /\ \A k \in 1 .. Len(AddedId) : raw'[Len(raw) + Len(AddedPath) + k] = AddedId[k]
  <2>1. AddedPath \in Seq(Written) /\ AddedId \in Seq(Written)
    BY AddedShapes
  <2> QED BY <1>1, <1>3, <2>1, ThreeParts
<1>10. DOMAIN raw' = 1 .. Off + N + P + I
  BY <1>7, <1>9, LenProperties
<1>11. ASSUME NEW k \in 1 .. Off
       PROVE  (raw'[k]).is = "blank" /\ ~ (raw'[k]).seg
  <2>1. k \in 1 .. Len(raw) /\ N > 0
    BY <1>3, <1>6, <1>7
  <2> QED BY <1>5, <1>9, <2>1 DEF RawUpTo
<1>12. ASSUME NEW n \in 1 .. N
       PROVE  /\ (raw'[Off + n]).is = "line" /\ (raw'[Off + n]).n = n
              /\ (raw'[Off + n]).seg <=> stamper.seg /\ lines[n].name = "path"
  <2>1. Off + n \in 1 .. Len(raw) /\ N > 0
    BY <1>3, <1>6, <1>7
  <2>2. LineAt(n, Off + n)
    BY <1>5, <2>1 DEF RawUpTo
  <2> QED BY <1>9, <2>1, <2>2 DEF LineAt
<1>13. P = 1 => (raw'[Off + N + 1]).is = "path" /\ (raw'[Off + N + 1]).seg
  BY <1>7, <1>9, AddedShapes
<1>14. I = 1 => (raw'[Off + N + P + 1]).is = "id" /\ ~ (raw'[Off + N + P + 1]).seg
  BY <1>7, <1>9, AddedShapes
<1> QED BY <1>3, <1>5, <1>6, <1>8, <1>9, <1>10, <1>11, <1>12, <1>13, <1>14

LEMMA RawKeptAtLast ==
  ASSUME HeadInv, AddMissing
  PROVE  RawKept'
<1> DEFINE own == {k \in DOMAIN raw' : (raw'[k]).is = "line"}
           stamps == {k \in DOMAIN raw' : (raw'[k]).seg}
<1>1. PICK N, P, I : N = Len(lines) /\ P = Len(AddedPath) /\ I = Len(AddedId)
  OBVIOUS
<1>2. lines' = lines /\ stamper' = stamper /\ HeaderTypeOK
  BY DEF AddMissing, HeadInv
<1>3. /\ DOMAIN raw' = 1 .. Off + N + P + I
      /\ N \in Nat /\ P \in {0, 1} /\ I \in {0, 1} /\ Off \in {0, 1}
      /\ \A k \in 1 .. Off : (raw'[k]).is = "blank" /\ ~ (raw'[k]).seg
      /\ \A n \in 1 .. N : /\ (raw'[Off + n]).is = "line" /\ (raw'[Off + n]).n = n
                           /\ (raw'[Off + n]).seg <=> stamper.seg /\ lines[n].name = "path"
      /\ P = 1 => (raw'[Off + N + 1]).is = "path" /\ (raw'[Off + N + 1]).seg
      /\ I = 1 => (raw'[Off + N + P + 1]).is = "id" /\ ~ (raw'[Off + N + P + 1]).seg
      /\ FoundUpTo(N)
  BY <1>1, AllWritten
<1>4. ASSUME NEW k \in DOMAIN raw'
      PROVE  \/ k \in 1 .. Off
             \/ k - Off \in 1 .. N /\ k = Off + (k - Off)
             \/ P = 1 /\ k = Off + N + 1
             \/ I = 1 /\ k = Off + N + P + 1
  BY <1>3
<1>5. own = Off+1 .. Off + N /\ \A k \in own : (raw'[k]).n = k - Off
  <2>1. ASSUME NEW k \in own
        PROVE  k \in Off+1 .. Off + N /\ (raw'[k]).n = k - Off
    <3>1. k - Off \in 1 .. N
      BY <1>3, <1>4
    <3>2. Off + (k - Off) = k
      BY <1>3
    <3> QED BY <1>3, <3>1, <3>2
  <2>2. ASSUME NEW k \in Off+1 .. Off + N
        PROVE  k \in own
    <3>1. k - Off \in 1 .. N /\ Off + (k - Off) = k /\ k \in 1 .. Off + N + P + I
      BY <1>3
    <3> QED BY <1>3, <3>1
  <2> QED BY <2>1, <2>2
<1>6. \A k \in DOMAIN raw' : (raw'[k]).is = "blank" <=> k <= Off
  <2> TAKE k \in DOMAIN raw'
  <2>1. CASE k \in 1 .. Off
    BY <1>3, <2>1
  <2>2. CASE k - Off \in 1 .. N /\ k = Off + (k - Off)
    <3>1. (raw'[k]).is = "line" /\ ~ (k <= Off)
      BY <1>3, <2>2
    <3> QED BY <3>1
  <2>3. CASE P = 1 /\ k = Off + N + 1
    BY <1>3, <2>3
  <2>4. CASE I = 1 /\ k = Off + N + P + 1
    BY <1>3, <2>4
  <2> QED BY <1>4, <2>1, <2>2, <2>3, <2>4
<1>7. DOMAIN lines = 1 .. N
  BY <1>1, <1>2, LinesOf
<1>8. Named("path") = {n \in 1 .. N : lines[n].name = "path"}
  BY <1>7 DEF Named
<1>9. P = 1 <=> Named("path") = {} /\ stamper.seg
  BY <1>1, <1>3, <1>8, AddedShapes DEF FoundUpTo
<1>10. IF ~ stamper.seg THEN stamps = {}
       ELSE IF Named("path") = {} THEN \E k \in DOMAIN raw' : stamps = {k} /\ (raw'[k]).is = "path"
       ELSE {(raw'[k]).n : k \in stamps} = Named("path") /\ stamps \subseteq own
  <2>1. ASSUME NEW k \in stamps
        PROVE  \/ P = 1 /\ k = Off + N + 1
               \/ k \in own /\ (raw'[k]).n \in Named("path") /\ stamper.seg
    <3>1. CASE k - Off \in 1 .. N /\ k = Off + (k - Off)
      <4>1. /\ (raw'[k]).is = "line" /\ (raw'[k]).n = k - Off
            /\ (raw'[k]).seg <=> stamper.seg /\ lines[k - Off].name = "path"
        BY <1>3, <3>1
      <4> QED BY <1>8, <3>1, <4>1
    <3> QED BY <1>3, <1>4, <3>1
  <2>2. ASSUME NEW n \in Named("path"), stamper.seg
        PROVE  Off + n \in stamps /\ (raw'[Off + n]).n = n
    <3>1. n \in 1 .. N /\ lines[n].name = "path"
      BY <1>8
    <3>2. Off + n \in DOMAIN raw'
      BY <1>3, <3>1
    <3> QED BY <1>3, <2>2, <3>1, <3>2
  <2>3. CASE ~ stamper.seg
    BY <1>9, <2>1, <2>3
  <2>4. CASE stamper.seg /\ Named("path") = {}
    <3>1. P = 1
      BY <1>9, <2>4
    <3>2. Off + N + 1 \in stamps /\ Off + N + 1 \in DOMAIN raw'
      BY <1>3, <3>1
    <3>3. stamps = {Off + N + 1}
      BY <2>1, <2>4, <3>2
    <3> QED BY <1>3, <2>4, <3>1, <3>2, <3>3
  <2>5. CASE stamper.seg /\ Named("path") # {}
    <3>1. P # 1
      BY <1>9, <2>5
    <3>2. stamps \subseteq own /\ \A k \in stamps : (raw'[k]).n \in Named("path")
      BY <2>1, <3>1
    <3>3. \A n \in Named("path") : \E k \in stamps : (raw'[k]).n = n
      BY <2>2, <2>5
    <3>4. {(raw'[k]).n : k \in stamps} = Named("path")
      BY <3>2, <3>3
    <3> QED BY <2>5, <3>2, <3>4
  <2> QED BY <2>3, <2>4, <2>5
<1>11. Named("path")' = Named("path") /\ Off' = Off /\ Len(lines') = N
  BY <1>1, <1>2, SameLines
<1> QED BY <1>2, <1>5, <1>6, <1>10, <1>11 DEF RawKept, Off

\* The field that is left is that of the last header with the name.
LEMMA LastOfAll ==
  ASSUME HeaderTypeOK, NEW f, NEW name, FieldIs(f, name, Len(lines))
  PROVE  f = IF Named(name) = {} THEN NoField ELSE Entry(LastNamed(name))
<1>1. DOMAIN lines = 1 .. Len(lines) /\ Len(lines) \in Nat
  BY LinesOf
<1>2. Named(name) = {n \in 1 .. Len(lines) : lines[n].name = name}
  BY <1>1 DEF Named
<1>3. CASE f = NoField /\ \A n \in 1 .. Len(lines) : lines[n].name # name
  BY <1>2, <1>3
<1>4. ASSUME NEW n \in 1 .. Len(lines), lines[n].name = name, f = Entry(n),
             \A k \in n+1 .. Len(lines) : lines[k].name # name
      PROVE  f = IF Named(name) = {} THEN NoField ELSE Entry(LastNamed(name))
  <2>1. n \in Named(name)
    BY <1>2, <1>4
  <2>2. \A k \in Named(name) : k \in Nat /\ k <= n
    <3> TAKE k \in Named(name)
    <3>1. k \in 1 .. Len(lines) /\ lines[k].name = name
      BY <1>2
    <3>2. k \notin n+1 .. Len(lines)
      BY <1>4, <3>1
    <3> QED BY <1>1, <3>1, <3>2
  <2>3. \A m \in Named(name) : (\A k \in Named(name) : k <= m) => m = n
    BY <2>1, <2>2
  <2>4. LastNamed(name) = n
    <3> DEFINE A == Named(name)
    <3>1. LastNamed(name) = CHOOSE m \in A : \A k \in A : k <= m
      BY DEF LastNamed
    <3> HIDE DEF A
    <3>2. \E m \in A : \A k \in A : k <= m
      BY <2>1, <2>2 DEF A
    <3>3. LastNamed(name) \in A /\ \A k \in A : k <= LastNamed(name)
      BY <3>1, <3>2
    <3> QED BY <2>3, <3>3 DEF A
  <2> QED BY <1>4, <2>1, <2>4
<1> QED BY <1>3, <1>4 DEF FieldIs

LEMMA FieldsPickedAtLast ==
  ASSUME HeadInv, AddMissing
  PROVE  FieldsPicked'
<1>1. PICK N, P, I : N = Len(lines) /\ P = Len(AddedPath) /\ I = Len(AddedId)
  OBVIOUS
<1>2. /\ lines' = lines /\ stamper' = stamper /\ HeaderTypeOK
      /\ hi' = [hi EXCEPT !.id = IF "message-id" \in found THEN @ ELSE MessageId]
      /\ hi = [subject |-> hi.subject, id |-> hi.id]
  BY DEF AddMissing, HeadInv
<1>3. hi'.subject = hi.subject /\ hi'.id = IF "message-id" \in found THEN hi.id ELSE MessageId
  BY <1>2
<1>4. /\ DOMAIN raw' = 1 .. Off + N + P + I
      /\ N \in Nat /\ P \in {0, 1} /\ I \in {0, 1} /\ Off \in {0, 1}
      /\ \A k \in 1 .. Off : (raw'[k]).is = "blank"
      /\ \A n \in 1 .. N : (raw'[Off + n]).is = "line"
      /\ P = 1 => (raw'[Off + N + 1]).is = "path"
      /\ I = 1 => (raw'[Off + N + P + 1]).is = "id"
      /\ FoundUpTo(N) /\ FieldsUpTo(N)
  BY <1>1, AllWritten
<1>5. ASSUME NEW k \in DOMAIN raw'
      PROVE  (raw'[k]).is = "id" <=> I = 1 /\ k = Off + N + P + 1
  <2>1. CASE k \in 1 .. Off
    BY <1>4, <2>1
  <2>2. CASE k - Off \in 1 .. N
    <3>1. Off + (k - Off) = k
      BY <1>4
    <3>2. (raw'[Off + (k - Off)]).is = "line"
      BY <1>4, <2>2
    <3>3. k # Off + N + P + 1
      BY <1>4, <2>2
    <3> QED BY <3>1, <3>2, <3>3
  <2>3. CASE P = 1 /\ k = Off + N + 1
    BY <1>4, <2>3
  <2>4. CASE I = 1 /\ k = Off + N + P + 1
    BY <1>4, <2>4
  <2>5. \/ k \in 1 .. Off \/ k - Off \in 1 .. N
        \/ P = 1 /\ k = Off + N + 1
        \/ I = 1 /\ k = Off + N + P + 1
    BY <1>4
  <2> QED BY <2>1, <2>2, <2>3, <2>4, <2>5
<1> DEFINE ids == {k \in DOMAIN raw' : (raw'[k]).is = "id"}
<1>6. /\ I = 0 => \A k \in DOMAIN raw' : (raw'[k]).is # "id"
      /\ I = 1 => Cardinality(ids) = 1
  <2>1. I = 1 => ids = {Off + N + P + 1}
    <3>1. I = 1 => Off + N + P + 1 \in DOMAIN raw'
      BY <1>4
    <3> QED BY <1>5, <3>1
  <2> HIDE DEF ids
  <2>2. I = 1 => Cardinality(ids) = 1
    BY <2>1, FS_Singleton
  <2> QED BY <1>5, <2>2
<1>7. DOMAIN lines = 1 .. N
  BY <1>1, <1>2, LinesOf
<1>8. "message-id" \in found <=> Named("message-id") # {}
  BY <1>4, <1>7 DEF FoundUpTo, Named
<1>9. I = 1 <=> "message-id" \notin found /\ MessageId # NoField
  BY <1>1, <1>4, AddedShapes
<1>10. /\ hi.subject = IF Named("subject") = {} THEN NoField ELSE Entry(LastNamed("subject"))
       /\ hi.id = IF Named("message-id") = {} THEN NoField ELSE Entry(LastNamed("message-id"))
  BY <1>1, <1>2, <1>4, LastOfAll DEF FieldsUpTo
<1>11. hi'.subject = IF Named("subject") = {} THEN NoField ELSE Entry(LastNamed("subject"))
  BY <1>3, <1>10
<1>12. Named("message-id") # {} =>
         hi'.id = Entry(LastNamed("message-id")) /\ \A k \in DOMAIN raw' : (raw'[k]).is # "id"
  BY <1>3, <1>4, <1>6, <1>8, <1>9, <1>10
<1>13. Named("message-id") = {} =>
         /\ hi'.id = IF stamper.given THEN GivenId ELSE IF stamper.id THEN MadeId ELSE NoField
         /\ hi'.id # NoField => Cardinality(ids) = 1
  BY <1>3, <1>6, <1>8, <1>9 DEF MessageId
<1>14. /\ \A name : Named(name)' = Named(name) /\ LastNamed(name)' = LastNamed(name)
       /\ \A n : Entry(n)' = Entry(n)
  BY <1>2, SameLines
<1> DEFINE s == LastNamed("subject")
           m == LastNamed("message-id")
<1>15. Entry(s)' = Entry(s) /\ Entry(m)' = Entry(m)
  BY <1>14
<1> QED BY <1>2, <1>11, <1>12, <1>13, <1>14, <1>15 DEF FieldsPicked

LEMMA EndsEarlyAtLast ==
  ASSUME HeadInv, AddMissing
  PROVE  EndsEarly'
<1>1. PICK N, P, I : N = Len(lines) /\ P = Len(AddedPath) /\ I = Len(AddedId)
  OBVIOUS
<1>2. lines' = lines /\ stamper' = stamper /\ HeaderTypeOK /\ stage' = "hi"
  BY DEF AddMissing, HeadInv
<1>3. PassedUpTo(N)
  BY <1>1, AllWritten
<1>4. DOMAIN lines = 1 .. N
  BY <1>1, <1>2, LinesOf
<1>5. \A n : FoldsOf(n)' = FoldsOf(n) /\ OwnId(n)' = OwnId(n)
  BY <1>2, SameLines
<1>6. ~ (stamper'.given /\ \E n \in DOMAIN lines' : OwnId(n)')
  BY <1>2, <1>3, <1>4, <1>5 DEF PassedUpTo
<1>7. \A n \in DOMAIN lines' : FoldsOf(n)' = {} /\ (lines'[n]).name # "fold" => (lines'[n]).colon # "last"
  BY <1>2, <1>3, <1>4, <1>5 DEF PassedUpTo
<1> QED BY <1>2, <1>6, <1>7 DEF EndsEarly

LEMMA AddMissingKeeps ==
  ASSUME HeadInv, AddMissing
  PROVE  HeadInv'
<1>1. /\ stage = "lines" /\ stage' = "hi" /\ pc' = pc /\ UNCHANGED <<stamper, lines, at, last, found>>
      /\ hi' = [hi EXCEPT !.id = IF "message-id" \in found THEN @ ELSE MessageId]
  BY DEF AddMissing, article
<1>2. HeaderTypeOK /\ hi = [subject |-> hi.subject, id |-> hi.id]
  BY DEF HeadInv
<1>3. PICK N, P, I : N = Len(lines) /\ P = Len(AddedPath) /\ I = Len(AddedId)
  OBVIOUS
<1>4. raw' \in Seq(Written)
  BY <1>3, AllWritten
<1>5. /\ hi' = [subject |-> hi'.subject, id |-> hi'.id] /\ hi'.subject = hi.subject
      /\ hi'.id \in {hi.id, MessageId}
  BY <1>1, <1>2
<1>6. MessageId \in Seq(DOMAIN lines) \cup {GivenId, MadeId}
  BY EmptySeq DEF MessageId, NoField
<1>7. HeaderTypeOK'
  BY <1>1, <1>2, <1>4, <1>5, <1>6 DEF HeaderTypeOK
<1> QED BY <1>1, <1>5, <1>7, RawKeptAtLast, FieldsPickedAtLast, EndsEarlyAtLast DEF HeadInv

\* The lines are those of the head that are not empty; they are as many as can be.
LEMMA LinesBegin ==
  ASSUME HeadInv, head \in Seq(Symbols), ParseAndProcessHeader
  PROVE  HeadInv'
<1>1. /\ pc = "done" /\ stage' = "lines" /\ pc' = "taken" /\ at' = 1
      /\ lines' \in [1 .. Cardinality(HeadLines) -> Line]
      /\ stamper' \in [given : BOOLEAN, id : BOOLEAN, seg : BOOLEAN]
      /\ UNCHANGED <<last, found, raw, hi>>
  BY DEF ParseAndProcessHeader
<1>2. Begins
  BY <1>1 DEF HeadInv
<1>3. Cardinality(HeadLines) \in Nat
  <2>1. HeadLines \in SUBSET (1 .. Len(head)) /\ Len(head) \in Nat
    BY LenProperties DEF HeadLines
  <2>2. IsFiniteSet(1 .. Len(head))
    BY <2>1, FS_Interval
  <2>3. IsFiniteSet(HeadLines)
    BY <2>1, <2>2, FS_Subset
  <2> QED BY <2>3, FS_CardinalityType
<1> DEFINE n == Cardinality(HeadLines)
<1>4. lines' \in Seq(Line) /\ Len(lines') \in Nat
  <2> HIDE DEF n
  <2> QED BY <1>1, <1>3, LenProperties DEF n
<1>5. last' = <<>> /\ found' = {} /\ raw' = <<>> /\ hi' = [subject |-> NoField, id |-> NoField]
  BY <1>1, <1>2 DEF Begins
<1>6. HeaderTypeOK'
  BY <1>1, <1>4, <1>5, EmptySeq DEF HeaderTypeOK, NoField
<1>7. InHand(1)'
  BY <1>1, <1>4, <1>5 DEF InHand
<1>8. (RawUpTo(1-1) /\ FoundUpTo(1-1) /\ FieldsUpTo(1-1) /\ PassedUpTo(1-1))'
  <2>1. Len(raw') = 0
    BY <1>5, EmptySeq
  <2> QED BY <1>5, <2>1 DEF RawUpTo, FoundUpTo, FieldsUpTo, FieldIs, PassedUpTo
<1>9. Progress'
  BY <1>4, <1>7, <1>8 DEF Progress
<1> QED BY <1>1, <1>5, <1>6, <1>9 DEF HeadInv, RawKept, FieldsPicked, EndsEarly

LEMMA HeadStarts ==
  ASSUME HeaderInit
  PROVE  HeadInv
<1>1. /\ stage = "none" /\ lines = <<>> /\ at = 0 /\ last = <<>> /\ found = {} /\ raw = <<>>
      /\ stamper = [given |-> FALSE, id |-> FALSE, seg |-> FALSE]
      /\ hi = [subject |-> NoField, id |-> NoField] /\ pc = "copy"
  BY DEF HeaderInit, Init
<1>2. HeaderTypeOK
  BY <1>1, EmptySeq DEF HeaderTypeOK, NoField
<1> QED BY <1>1, <1>2 DEF HeadInv, Begins, RawKept, FieldsPicked, EndsEarly

-----------------------------------------------------------------------------
LEMMA ArticleStarts ==
  ASSUME Init
  PROVE  ArticleInv
<1>1. /\ post \in Posts /\ Delivered(post) /\ copied = 0 /\ pc = "copy" /\ head = <<>> /\ body = <<>>
      /\ dw = Open(nlDotNl_start) /\ hbw = Open(0) /\ headw = <<>> /\ bodyw = <<>>
  BY DEF Init, Open
<1>2. post \in Seq(Symbols) /\ Len(post) \in Nat /\ <<>> \in Seq(Symbols)
  BY <1>1, PostedArticleAssumption, LenProperties, EmptySeq
<1>3. Tracks(nlDotNl_start, post, 0, 0)
  BY <1>2, TracksStart
<1>4. HeadTracks(0, post, 0)
  BY DEF HeadTracks, EmptyLine
<1>5. Divided(post, 0)
  <2>1. SubSeq(post, 1, 0) = <<>>
    BY SubSeqEmpty
  <2> QED BY <1>1, <1>4, <2>1 DEF Divided
<1>6. TypeOK
  <2>1. dw \in Automaton /\ dw.state \in nlDotNlStates \ {nlDotNl_end}
    BY <1>1, <1>3, TracksType
  <2>2. hbw \in Automaton /\ hbw.state \in {0, 256}
    BY <1>1, WriterFields DEF Open, Automaton
  <2> QED BY <1>1, <1>2, <2>1, <2>2 DEF TypeOK
<1> QED BY <1>1, <1>3, <1>5, <1>6 DEF ArticleInv, CopyInv, SplitExact, CutKept

\* What becomes of the header changes nothing of the article.
LEMMA ArticleRests ==
  ASSUME ArticleInv, UNCHANGED article
  PROVE  ArticleInv'
<1>1. UNCHANGED <<post, copied, dw, hbw, headw, bodyw, pc, head, body>>
  BY DEF article
<1>2. TypeOK => TypeOK'
  BY <1>1 DEF TypeOK
<1>3. Divided(post, copied) => Divided(post, copied)'
  BY <1>1 DEF Divided
<1>4. CopyInv => CopyInv'
  <2>1. Delivered(post)' = Delivered(post) /\ Whole' = Whole
    BY <1>1 DEF Delivered, Whole
  <2> QED BY <1>1, <1>3, <2>1 DEF CopyInv
<1>5. SplitExact => SplitExact'
  BY <1>1 DEF SplitExact, Whole
<1>6. CutKept => CutKept'
  BY <1>1 DEF CutKept, Whole
<1> QED BY <1>1, <1>2, <1>4, <1>5, <1>6 DEF ArticleInv

LEMMA HeaderRests ==
  ASSUME HeadInv, UNCHANGED headerVars
  PROVE  HeadInv'
<1>1. UNCHANGED <<pc, stage, stamper, lines, at, last, found, raw, hi>>
  BY DEF headerVars
<1>2. HeaderTypeOK' /\ hi' = [subject |-> hi'.subject, id |-> hi'.id]
  BY <1>1 DEF HeadInv, HeaderTypeOK
<1>3. Progress => Progress'
  <2>1. ASSUME NEW a \in 1 .. Len(lines) + 1, InHand(a),
               RawUpTo(a-1), FoundUpTo(a-1), FieldsUpTo(a-1), PassedUpTo(a-1)
        PROVE  (InHand(a) /\ RawUpTo(a-1) /\ FoundUpTo(a-1) /\ FieldsUpTo(a-1) /\ PassedUpTo(a-1))'
    <3>1. \A n : FoldsOf(n)' = FoldsOf(n) /\ OwnId(n)' = OwnId(n) /\ Entry(n)' = Entry(n)
      BY <1>1 DEF FoldsOf, OwnId, Named, Entry
    <3>2. InHand(a)'
      BY <1>1, <2>1 DEF InHand
    <3>3. RawUpTo(a-1)'
      BY <1>1, <2>1 DEF RawUpTo, LineAt, Off
    <3>4. FoundUpTo(a-1)'
      BY <1>1, <2>1 DEF FoundUpTo
    <3>5. FieldsUpTo(a-1)'
      BY <1>1, <2>1, <3>1 DEF FieldsUpTo, FieldIs
    <3>6. PassedUpTo(a-1)'
      BY <1>1, <2>1, <3>1 DEF PassedUpTo
    <3> QED BY <3>2, <3>3, <3>4, <3>5, <3>6
  <2> QED BY <1>1, <2>1 DEF Progress
<1>4. Begins => Begins'
  BY <1>1 DEF Begins
<1>5. RawKept' /\ FieldsPicked' /\ EndsEarly'
  <2>1. \A n : /\ FoldsOf(n)' = FoldsOf(n) /\ OwnId(n)' = OwnId(n) /\ Entry(n)' = Entry(n)
              /\ Named(n)' = Named(n) /\ LastNamed(n)' = LastNamed(n)
    BY <1>1 DEF FoldsOf, OwnId, Named, LastNamed, Entry
  <2>2. RawKept'
    BY <1>1 DEF HeadInv, RawKept, Named
  <2>3. FieldsPicked'
    <3> DEFINE s == LastNamed("subject")
               m == LastNamed("message-id")
    <3>1. Entry(s)' = Entry(s) /\ Entry(m)' = Entry(m)
      BY <2>1
    <3> QED BY <1>1, <2>1, <3>1 DEF HeadInv, FieldsPicked
  <2>4. EndsEarly'
    BY <1>1, <2>1 DEF HeadInv, EndsEarly
  <2> QED BY <2>2, <2>3, <2>4
<1> QED BY <1>1, <1>2, <1>3, <1>4, <1>5 DEF HeadInv

-----------------------------------------------------------------------------
(***************************************************************************)
(* The theorems: both invariants hold in every state.                      *)
(***************************************************************************)
LEMMA Starts == HeaderInit => ArticleInv /\ HeadInv
BY ArticleStarts, HeadStarts DEF HeaderInit

LEMMA Steps == ArticleInv /\ HeadInv /\ [HeaderNext]_headerVars => (ArticleInv /\ HeadInv)'
<1> SUFFICES ASSUME ArticleInv, HeadInv, [HeaderNext]_headerVars
             PROVE  ArticleInv' /\ HeadInv'
  OBVIOUS
<1>1. CASE Next /\ UNCHANGED header
  <2>1. HeadInv'
    BY <1>1, ArticleStepKeeps
  <2>2. ASSUME NEW n, Copy(n) PROVE ArticleInv'
    BY <2>2, CopyKeeps
  <2>3. ASSUME Finish PROVE ArticleInv'
    BY <2>3, FinishKeeps
  <2>4. ArticleInv'
    BY <1>1, <2>2, <2>3 DEF Next
  <2> QED BY <2>1, <2>4
<1>2. CASE ParseAndProcessHeader
  <2>1. pc = "done" /\ pc' = "taken"
    BY <1>2 DEF ParseAndProcessHeader
  <2>2. head \in Seq(Symbols)
    BY <2>1 DEF ArticleInv, TypeOK
  <2>3. HeadInv'
    BY <1>2, <2>2, LinesBegin
  <2>4. ArticleInv'
    BY <2>1 DEF ArticleInv, SplitExact, CutKept
  <2> QED BY <2>3, <2>4
<1>3. CASE Fold
  BY <1>3, FoldKeeps, ArticleRests DEF Fold
<1>4. CASE Panics \/ ReturnNil
  BY <1>4, StopKeeps, ArticleRests DEF Panics, ReturnNil, Stop
<1>5. CASE NextLine
  BY <1>5, NextLineKeeps, ArticleRests DEF NextLine
<1>6. CASE AddMissing
  BY <1>6, AddMissingKeeps, ArticleRests DEF AddMissing
<1>7. CASE UNCHANGED headerVars
  <2>1. UNCHANGED article
    BY <1>7 DEF headerVars, article
  <2> QED BY <1>7, <2>1, ArticleRests, HeaderRests
<1> QED BY <1>1, <1>2, <1>3, <1>4, <1>5, <1>6, <1>7 DEF HeaderNext

LEMMA BothHold == HeaderSpec => [](ArticleInv /\ HeadInv)
BY Starts, Steps, PTL DEF HeaderSpec

\* Every variable stays in its range: the automata of the two writers are never left in
\* their last state, and until the caller takes head and body these are bytes of the
\* article's alphabet (writer2.go, ParseAndProcessHeader).
THEOREM TypeCorrect == HeaderSpec => [](HeaderTypeOK /\ (pc # "taken" => TypeOK))
<1>1. ArticleInv /\ HeadInv => HeaderTypeOK /\ (pc # "taken" => TypeOK)
  BY DEF ArticleInv, HeadInv
<1> QED BY <1>1, BothHold, PTL

\* Every article that comes with its terminator is divided at its first blank line behind
\* another line, in whatever pieces it comes in (HeadBodyWriter.Write, ConsumePostedArticle).
THEOREM SplitIsExact == HeaderSpec => []SplitExact
<1>1. ArticleInv => SplitExact
  BY DEF ArticleInv
<1> QED BY <1>1, BothHold, PTL

\* Of an article that the end of the connection cuts off in its body nothing is lost but
\* a dot alone on its line (DotWriter.Close, ConsumePostedArticle).
THEOREM CutIsKept == HeaderSpec => []CutKept
<1>1. ArticleInv => CutKept
  BY DEF ArticleInv
<1> QED BY <1>1, BothHold, PTL

\* RAW is the lines of the head in their order, each once, with what was missing behind
\* them and the stamp in every Path (ParseAndProcessHeaderWithBuffer).
THEOREM RawIsKept == HeaderSpec => []RawKept
<1>1. HeadInv => RawKept
  BY DEF HeadInv
<1> QED BY <1>1, BothHold, PTL

\* HeadInfo has of each field the last header with the name, folds and all; an article
\* without a message-id gets the one that was given, or else the Stamper's, once in RAW
\* (ParseAndProcessHeaderWithBuffer).
THEOREM FieldsArePicked == HeaderSpec => []FieldsPicked
<1>1. HeadInv => FieldsPicked
  BY DEF HeadInv
<1> QED BY <1>1, BothHold, PTL

\* The function ends early, or does not end, for the headers named and for no others
\* (ParseAndProcessHeaderWithBuffer).
THEOREM EndIsEarly == HeaderSpec => []EndsEarly
<1>1. HeadInv => EndsEarly
  BY DEF HeadInv
<1> QED BY <1>1, BothHold, PTL
=============================================================================
