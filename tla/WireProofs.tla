---------------------------- MODULE WireProofs ----------------------------
(***************************************************************************)
(* The automaton of matcher.go recognises the end of an article: it is in  *)
(* nlDotNl_start after an empty line so far, in DotSeen after a lone dot,  *)
(* and it reaches nlDotNl_end exactly at a terminator.                     *)
(***************************************************************************)
EXTENDS Wire, TLAPS

\* State q is the automaton's state after bytes a+1 .. p of the stream s,
\* when none of them ends a terminator.
Tracks(q, s, a, p) ==
  /\ q \in {InLine, nlDotNl_start, DotSeen}
  /\ q = nlDotNl_start <=> AtLineStart(s, a, p)
  /\ q = DotSeen <=> AfterDot(s, a, p)
  /\ NoTerminator(s, a, p)

\* What one more byte does to a line that is empty so far.
LEMMA AtLineStartStep ==
  ASSUME NEW s \in Seq(Symbols), NEW a \in Nat, NEW p \in Nat, a <= p, p < Len(s)
  PROVE  AtLineStart(s, a, p+1) <=> \/ s[p+1] = "lf"
                                    \/ s[p+1] = "cr" /\ AtLineStart(s, a, p)
<1>1. ASSUME AtLineStart(s, a, p+1)
      PROVE  s[p+1] = "lf" \/ (s[p+1] = "cr" /\ AtLineStart(s, a, p))
  <2>1. PICK b \in a .. p+1 : (b = a \/ s[b] = "lf") /\ OnlyCR(s, b, p+1)
    BY <1>1 DEF AtLineStart
  <2>2. CASE b = p+1
    BY <2>1, <2>2
  <2>3. CASE b \in a .. p
    <3>1. s[p+1] = "cr" /\ OnlyCR(s, b, p)
      BY <2>1, <2>3 DEF OnlyCR
    <3> QED BY <2>1, <2>3, <3>1 DEF AtLineStart
  <2> QED BY <2>2, <2>3
<1>2. ASSUME s[p+1] = "lf" PROVE AtLineStart(s, a, p+1)
  <2>1. p+1 \in a .. p+1 /\ OnlyCR(s, p+1, p+1)
    BY DEF OnlyCR
  <2> QED BY <1>2, <2>1 DEF AtLineStart
<1>3. ASSUME s[p+1] = "cr", AtLineStart(s, a, p) PROVE AtLineStart(s, a, p+1)
  <2>1. PICK b \in a .. p : (b = a \/ s[b] = "lf") /\ OnlyCR(s, b, p)
    BY <1>3 DEF AtLineStart
  <2>2. b \in a .. p+1 /\ OnlyCR(s, b, p+1)
    BY <1>3, <2>1 DEF OnlyCR
  <2> QED BY <2>1, <2>2 DEF AtLineStart
<1> QED BY <1>1, <1>2, <1>3

\* And to a line that holds a lone dot so far.
LEMMA AfterDotStep ==
  ASSUME NEW s \in Seq(Symbols), NEW a \in Nat, NEW p \in Nat, a <= p, p < Len(s)
  PROVE  AfterDot(s, a, p+1) <=> \/ s[p+1] = "dot" /\ AtLineStart(s, a, p)
                                 \/ s[p+1] = "cr" /\ AfterDot(s, a, p)
<1>1. ASSUME AfterDot(s, a, p+1)
      PROVE  (s[p+1] = "dot" /\ AtLineStart(s, a, p)) \/ (s[p+1] = "cr" /\ AfterDot(s, a, p))
  <2>1. PICK d \in a+1 .. p+1 :
          s[d] = "dot" /\ AtLineStart(s, a, d-1) /\ OnlyCR(s, d, p+1)
    BY <1>1 DEF AfterDot
  <2>2. CASE d = p+1
    BY <2>1, <2>2
  <2>3. CASE d \in a+1 .. p
    <3>1. s[p+1] = "cr" /\ OnlyCR(s, d, p)
      BY <2>1, <2>3 DEF OnlyCR
    <3> QED BY <2>1, <2>3, <3>1 DEF AfterDot
  <2> QED BY <2>2, <2>3
<1>2. ASSUME s[p+1] = "dot", AtLineStart(s, a, p) PROVE AfterDot(s, a, p+1)
  <2>1. p+1 \in a+1 .. p+1 /\ (p+1)-1 = p /\ OnlyCR(s, p+1, p+1)
    BY DEF OnlyCR
  <2> QED BY <1>2, <2>1 DEF AfterDot
<1>3. ASSUME s[p+1] = "cr", AfterDot(s, a, p) PROVE AfterDot(s, a, p+1)
  <2>1. PICK d \in a+1 .. p : s[d] = "dot" /\ AtLineStart(s, a, d-1) /\ OnlyCR(s, d, p)
    BY <1>3 DEF AfterDot
  <2>2. d \in a+1 .. p+1 /\ OnlyCR(s, d, p+1)
    BY <1>3, <2>1 DEF OnlyCR
  <2> QED BY <2>1, <2>2 DEF AfterDot
<1> QED BY <1>1, <1>2, <1>3

LEMMA TerminatorStep ==
  ASSUME NEW s \in Seq(Symbols), NEW a \in Nat, NEW p \in Nat, a <= p, p < Len(s)
  PROVE  IsTerminator(s, a, p+1) <=> s[p+1] = "lf" /\ AfterDot(s, a, p)
<1>1. p+1 \in a+1 .. Len(s) /\ (p+1)-1 = p
  OBVIOUS
<1> QED BY <1>1 DEF IsTerminator

\* The start of an article is the start of a line.
LEMMA TracksStart ==
  ASSUME NEW s \in Seq(Symbols), NEW a \in Nat
  PROVE  Tracks(nlDotNl_start, s, a, a)
<1>1. AtLineStart(s, a, a)
  <2>1. a \in a .. a /\ OnlyCR(s, a, a)
    BY DEF OnlyCR
  <2> QED BY <2>1 DEF AtLineStart
<1>2. ~ AfterDot(s, a, a) /\ NoTerminator(s, a, a)
  BY DEF AfterDot, NoTerminator
<1> QED BY <1>1, <1>2 DEF Tracks, InLine, nlDotNl_start, DotSeen

\* One byte: the automaton keeps track, or it has found the end of the
\* article, its first terminator.
THEOREM AutomatonTracks ==
  ASSUME NEW s \in Seq(Symbols), NEW a \in Nat, NEW p \in Nat, a <= p, p < Len(s),
         NEW q, Tracks(q, s, a, p)
  PROVE  IF nlDotNl_transition(q, s[p+1]) = nlDotNl_end
         THEN IsArticleEnd(s, a, p+1)
         ELSE Tracks(nlDotNl_transition(q, s[p+1]), s, a, p+1)
<1> DEFINE b == s[p+1]
           r == nlDotNl_transition(q, b)
<1>1. b \in Symbols
  OBVIOUS
<1>2. /\ r = nlDotNl_end   <=> b = "lf" /\ q = DotSeen
      /\ r = nlDotNl_start <=> (b = "lf" /\ q # DotSeen) \/ (b = "cr" /\ q = nlDotNl_start)
      /\ r = DotSeen       <=> (b = "dot" /\ q = nlDotNl_start) \/ (b = "cr" /\ q = DotSeen)
      /\ r \in {InLine, nlDotNl_start, DotSeen, nlDotNl_end}
  BY <1>1 DEF Tracks, nlDotNl_transition, InLine, nlDotNl_start, DotSeen, nlDotNl_end, Symbols
<1>3. CASE r = nlDotNl_end
  <2>1. IsTerminator(s, a, p+1)
    BY <1>2, <1>3, TerminatorStep DEF Tracks
  <2>2. (p+1)-1 = p /\ NoTerminator(s, a, p)
    BY DEF Tracks
  <2> QED BY <1>3, <2>1, <2>2 DEF IsArticleEnd
<1>4. CASE r # nlDotNl_end
  <2>1. ~ IsTerminator(s, a, p+1)
    BY <1>2, <1>4, TerminatorStep DEF Tracks
  <2>2. NoTerminator(s, a, p+1)
    BY <2>1 DEF Tracks, NoTerminator
  <2>3. r = nlDotNl_start <=> AtLineStart(s, a, p+1)
    BY <1>2, <1>4, AtLineStartStep DEF Tracks
  <2>4. r = DotSeen <=> AfterDot(s, a, p+1)
    BY <1>2, AfterDotStep DEF Tracks
  <2> QED BY <1>2, <1>4, <2>2, <2>3, <2>4 DEF Tracks
<1> QED BY <1>3, <1>4
=============================================================================
