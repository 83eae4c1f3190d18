------------------------------- MODULE Wire -------------------------------
(***************************************************************************)
(* The byte language of an NNTP connection: what ends a command line, what *)
(* ends an article, and the automaton of matcher.go that recognises the    *)
(* end of an article one byte at a time.                                   *)
(*                                                                         *)
(* A byte is one of the three that the matcher tells apart, or any other   *)
(* one.  A stream is the finite sequence of the bytes a client sends before*)
(* the connection ends.                                                    *)
(***************************************************************************)
EXTENDS Naturals, Sequences

Symbols == {"cr", "lf", "dot", "other"}

(***************************************************************************)
(* The states of the automaton, with the values of matcher.go (0x0100,     *)
(* 0x0200 and 0x0300), and its transition function.                        *)
(***************************************************************************)
InLine        == 0
nlDotNl_start == 256
DotSeen       == 512
nlDotNl_end   == 768

nlDotNlStates == {InLine, nlDotNl_start, DotSeen, nlDotNl_end}

\* A fault for the mutants: a carriage return forgets the dot before it.
nlDotNl_transition_DotLostAtCR(s, b) ==
  CASE s = nlDotNl_start /\ b = "cr"             -> s
    [] s \in {InLine, nlDotNl_start} /\ b = "lf" -> nlDotNl_start
    [] s = nlDotNl_start /\ b = "dot"            -> DotSeen
    [] s = DotSeen /\ b = "lf"                   -> nlDotNl_end
    [] OTHER                                     -> InLine

nlDotNl_transition(s, b) ==
  CASE s \in {nlDotNl_start, DotSeen} /\ b = "cr" -> s
    [] s \in {InLine, nlDotNl_start} /\ b = "lf"  -> nlDotNl_start
    [] s = nlDotNl_start /\ b = "dot"             -> DotSeen
    [] s = DotSeen /\ b = "lf"                    -> nlDotNl_end
    [] OTHER                                      -> InLine

-----------------------------------------------------------------------------
(***************************************************************************)
(* The language, said without an automaton.  A line or an article begins   *)
(* after the first a bytes of the stream s.  A line ends with the first    *)
(* line feed; an article ends with the first line that holds a lone dot,   *)
(* where carriage returns around the dot do not count.                     *)
(***************************************************************************)
IsLineEnd(s, a, e) ==
  /\ e \in a+1 .. Len(s)
  /\ s[e] = "lf"
  /\ \A k \in a+1 .. e-1 : s[k] # "lf"

OnlyCR(s, a, b) == \A k \in a+1 .. b : s[k] = "cr"

\* Up to p, the current line holds nothing but carriage returns.
AtLineStart(s, a, p) ==
  \E b \in a .. p : (b = a \/ s[b] = "lf") /\ OnlyCR(s, b, p)

\* Up to p, the current line holds one dot and otherwise carriage returns.
AfterDot(s, a, p) ==
  \E d \in a+1 .. p : s[d] = "dot" /\ AtLineStart(s, a, d-1) /\ OnlyCR(s, d, p)

IsTerminator(s, a, e) ==
  /\ e \in a+1 .. Len(s)
  /\ s[e] = "lf"
  /\ AfterDot(s, a, e-1)

NoTerminator(s, a, p) == \A e \in a+1 .. p : ~ IsTerminator(s, a, e)

IsArticleEnd(s, a, e) == IsTerminator(s, a, e) /\ NoTerminator(s, a, e-1)
=============================================================================
