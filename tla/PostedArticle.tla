---------------------------- MODULE PostedArticle ----------------------------
(***************************************************************************)
(* ConsumePostedArticle of posting/postingpull.go: io.Copy moves a posted  *)
(* article from the DotReader to a DotWriter, which passes it on to a      *)
(* HeadBodyWriter (writer2.go), which divides it between two buffers; what *)
(* is in them is trimmed.                                                  *)
(*                                                                         *)
(* The DotReader delivers an article with its terminator, or one that the  *)
(* end of the connection has cut off, in pieces of any size.               *)
(***************************************************************************)
EXTENDS Wire

CONSTANT Posts    \* what a client may send as an article

ASSUME PostedArticleAssumption == Posts \subseteq Seq(Symbols)

VARIABLES
  post,           \* the bytes the DotReader delivers
  copied,         \* how many of them io.Copy has moved
  dw,             \* the DotWriter: its state, and whether it has seen the end
  hbw,            \* the HeadBodyWriter: likewise
  headw, bodyw,   \* the two bytes.Buffers
  pc,             \* "copy", "done", and "taken" when the caller has gone on (PostedHeader)
  head, body      \* what the function returns

vars == <<post, copied, dw, hbw, headw, bodyw, pc, head, body>>

Automaton == [state : Nat, end : BOOLEAN]

TypeOK ==
  /\ post \in Posts
  /\ copied \in 0 .. Len(post)
  /\ dw \in Automaton /\ dw.state \in nlDotNlStates \ {nlDotNl_end}
  /\ hbw \in Automaton /\ hbw.state \in {0, 256}
  /\ headw \in Seq(Symbols) /\ bodyw \in Seq(Symbols)
  /\ pc \in {"copy", "done", "taken"}
  /\ head \in Seq(Symbols) /\ body \in Seq(Symbols)

\* Of the connection's input a DotReader delivers nothing after the article.
Delivered(s) == NoTerminator(s, 0, Len(s)-1)

Init ==
  /\ post \in Posts /\ Delivered(post)
  /\ copied = 0
  /\ dw = [state |-> nlDotNl_start, end |-> FALSE]
  /\ hbw = [state |-> 0, end |-> FALSE]
  /\ headw = <<>> /\ bodyw = <<>>
  /\ pc = "copy"
  /\ head = <<>> /\ body = <<>>

-----------------------------------------------------------------------------
\* The end of a head: a line feed, then an empty line.
nlNl_end == 512

\* A fault for the mutants: a carriage return is a byte like any other.
nlNl_transition_CRCounts(s, b) == IF b = "lf" THEN s + 256 ELSE 0

nlNl_transition(s, b) == CASE b = "cr" -> s [] b = "lf" -> s + 256 [] OTHER -> 0

\* The two automata of matcher.go, by the name of what they find the end of.
transition(what, s, b) == IF what = "article" THEN nlDotNl_transition(s, b) ELSE nlNl_transition(s, b)

\* The states of an automaton over the bytes of b, state s first.
Run(what, s, b) ==
  LET f[n \in 0 .. Len(b)] == IF n = 0 THEN s ELSE transition(what, f[n-1], b[n]) IN f

\* Where it is in state e for the first time, or 0.
Reaches(f, e) ==
  IF \E n \in DOMAIN f : n > 0 /\ f[n] = e
  THEN CHOOSE n \in DOMAIN f : n > 0 /\ f[n] = e /\ \A m \in 1 .. n-1 : f[m] # e
  ELSE 0

\* One Write of either writer: up to the end it looks for, or all of b.
Scanned(w, what, e, b) ==
  LET f == Run(what, w.state, b)
      j == Reaches(f, e)
  IN  IF j > 0 THEN [w |-> [state |-> w.state, end |-> TRUE], upTo |-> j]
               ELSE [w |-> [state |-> f[Len(b)], end |-> FALSE], upTo |-> Len(b)]

HeadBodyWrite(b) ==
  IF hbw.end
  THEN bodyw' = bodyw \o b /\ UNCHANGED <<hbw, headw>>
  ELSE LET s == Scanned(hbw, "head", nlNl_end, b)
       IN  /\ hbw' = s.w
           /\ headw' = headw \o SubSeq(b, 1, s.upTo)
           /\ bodyw' = bodyw \o SubSeq(b, s.upTo + 1, Len(b))

DotWrite(b) ==
  IF dw.end
  THEN UNCHANGED <<dw, hbw, headw, bodyw>>
  ELSE LET s == Scanned(dw, "article", nlDotNl_end, b)
       IN  dw' = s.w /\ HeadBodyWrite(SubSeq(b, 1, s.upTo))

\* io.Copy: the next piece.
Copy(n) ==
  /\ pc = "copy"
  /\ n \in 1 .. Len(post) - copied
  /\ DotWrite(SubSeq(post, copied + 1, copied + n))
  /\ copied' = copied + n
  /\ UNCHANGED <<post, pc, head, body>>

\* The longest prefix that does not end in one of the bytes.
TrimmedOf(s, bytes) ==
  SubSeq(s, 1, CHOOSE n \in 0 .. Len(s) :
                 /\ n > 0 => s[n] \notin bytes
                 /\ \A m \in n+1 .. Len(s) : s[m] \in bytes)

trimCRLF(s) == TrimmedOf(s, {"cr", "lf"})

trimDOT(s) == IF s # <<>> /\ s[Len(s)] = "dot" THEN SubSeq(s, 1, Len(s) - 1) ELSE s

\* A fault for the mutants: the DotWriter is not closed.
Finish_NoClose ==
  /\ pc = "copy" /\ copied = Len(post)
  /\ UNCHANGED <<dw, hbw, headw, bodyw>>
  /\ head' = trimCRLF(headw)
  /\ body' = trimDOT(trimCRLF(bodyw))
  /\ pc' = "done"
  /\ UNCHANGED <<post, copied>>

\* io.Copy is through.  Close adds the terminator that is missing.
Finish ==
  /\ pc = "copy" /\ copied = Len(post)
  /\ IF dw.end
     THEN UNCHANGED <<dw, hbw, headw, bodyw>>
     ELSE DotWrite(IF dw.state = nlDotNl_start THEN <<"dot", "cr", "lf">>
                                               ELSE <<"cr", "lf", "dot", "cr", "lf">>)
  /\ head' = trimCRLF(headw')
  /\ body' = trimDOT(trimCRLF(bodyw'))
  /\ pc' = "done"
  /\ UNCHANGED <<post, copied>>

Next == (\E n \in 1 .. Len(post) : Copy(n)) \/ Finish

Spec == Init /\ [][Next]_vars

-----------------------------------------------------------------------------
(***************************************************************************)
(* Head and body of an article, said without automata and pieces.          *)
(***************************************************************************)
\* The line that ends at e holds only carriage returns, and is not the first.
BlankLine(s, e) ==
  /\ s[e] = "lf"
  /\ \E b \in 1 .. e-1 : s[b] = "lf" /\ OnlyCR(s, b, e-1)

HeadEnds(s, e) == BlankLine(s, e) /\ \A k \in 1 .. e-1 : ~ BlankLine(s, k)

\* The dot of the terminator, which is the last dot.
LastDot(s, d) == s[d] = "dot" /\ \A k \in d+1 .. Len(s) : s[k] # "dot"

NoTrail(s, t) ==
  /\ Len(s) <= Len(t) /\ s = SubSeq(t, 1, Len(s))
  /\ s # <<>> => s[Len(s)] \notin {"cr", "lf"}
  /\ \A k \in Len(s)+1 .. Len(t) : t[k] \in {"cr", "lf"}

Whole == IsArticleEnd(post, 0, Len(post))

\* However the article comes in, it is divided at its first blank line behind
\* another line: the head is what is before, and the body is what is between this
\* line and the dot that ends the article; without a blank line all is head (HeadBodyWriter.Write,
\* writer2.go:65-89, ConsumePostedArticle, posting/postingpull.go:100-116).
SplitExact ==
  pc = "done" /\ Whole =>
    /\ \A e \in 1 .. Len(post) : HeadEnds(post, e) =>
         /\ NoTrail(head, SubSeq(post, 1, e))
         /\ \E d \in e+1 .. Len(post) : LastDot(post, d) /\ body = SubSeq(post, e+1, d-1)
    /\ (\A e \in 1 .. Len(post) : ~ HeadEnds(post, e)) => body = <<>> /\ NoTrail(head, post)

\* Of an article that was cut off in its body nothing that has come is lost, but
\* for a dot alone on its line; the line it was cut in is ended.
CutKept ==
  pc = "done" /\ ~ Whole =>
    \A e \in 1 .. Len(post) : HeadEnds(post, e) =>
      /\ NoTrail(head, SubSeq(post, 1, e))
      /\ LET rest == SubSeq(post, e+1, Len(post))
         IN  \/ AtLineStart(post, 0, Len(post)) /\ body = rest
             \/ AfterDot(post, 0, Len(post)) /\ \E d \in e+1 .. Len(post) :
                  LastDot(post, d) /\ body = SubSeq(post, e+1, d-1)
             \/ body = rest \o <<"cr", "lf">>
                /\ ~ AtLineStart(post, 0, Len(post)) /\ ~ AfterDot(post, 0, Len(post))

-----------------------------------------------------------------------------
(* What the comment says and the code does not do *)

\* "Subject: This is the head ... This is the 1. line of the Body. ... (trailing
\* <CRLF>.<CRLF>)" (writer2.go:34-44): the terminator belongs to neither part.  Of
\* an article without a body its dot stays at the end of the head.
HeadHasNoDot == pc = "done" /\ Whole => ~ (head # <<>> /\ AfterDot(head, 0, Len(head)))
=============================================================================
