--------------------------- MODULE PostingProofs ---------------------------
(***************************************************************************)
(* What Posting promises for any number of connections and articles: its   *)
(* types, InSync, RepliesPaired and AcceptedIsStored.  None of them is     *)
(* inductive: that an article is never taken for a command depends on      *)
(* where the prompts are, these on which replies are on the way, and the   *)
(* replies on what the store held when they were written.  Sound says all  *)
(* of it of one connection, and the lemmas below how the steps of the      *)
(* client and the server change such a connection.                         *)
(***************************************************************************)
EXTENDS Posting, SequenceTheorems, TLAPS

Links == {"free", "open", "cut", "ended"}
Spots == {"idle", "perform", "eat", "answer"}

\* The client waits for a, it will read r and the server q, after the article
\* lo; the handler is at p, with the command h and PerformPost's verdict v.
Typed(a, l, q, lo, r, p, h, v) ==
  /\ a \in Seq(Command) /\ q \in Seq(Command) /\ h \in Seq(Command)
  /\ r \in Seq(Replies) /\ l \in Links /\ p \in Spots /\ lo \in Articles /\ v \in Verdict

Prompted(r) == \E n \in 1 .. Len(r) : r[n].code \in Prompts

Closed(a, l, q, lo, r, p) ==
  /\ l = "free"  => a = <<>> /\ q = <<>> /\ lo = "none" /\ r = <<>> /\ p = "idle"
  /\ l = "cut"   => a = <<>> /\ r = <<>>
  /\ l = "ended" => q = <<>> /\ lo = "none" /\ p = "idle"

Handled(lo, p, h, v, st) ==
  /\ p = "idle" => h = <<>> /\ lo = "none"
  /\ p # "idle" => Len(h) = 1
  /\ p = "answer" => h[1].name # "CHECK"
  /\ p = "perform" => h[1].name # "CHECK"
  /\ p = "answer" /\ ~ v.rejected /\ ~ v.failed => h[1].id \in st

Orderly(a, q) ==
  /\ \A n \in 1 .. Len(q) : q[n].name # "TAKETHIS" => q[n].more = "none"
  /\ \A n \in 1 .. Len(a) : a[n].name \in Alone => Len(a) = 1

Prompting(a, q, lo, r, p, h) ==
  Prompted(r) => /\ Len(r) = 1 /\ Len(a) = 1 /\ Len(h) = 1 /\ Len(q) = 0
                 /\ p = "perform" /\ lo = "none" /\ a[1] = h[1] /\ a[1].name \in Alone

Paired(a, l, q, r, h) ==
  /\ \A n \in 1 .. Len(r) : n <= Len(a) /\ r[n].to = a[n]
  /\ l = "open" /\ ~ Prompted(r) =>
       /\ Len(a) = Len(r) + Len(h) + Len(q)
       /\ \A n \in 1 .. Len(h) : a[Len(r) + n] = h[n]
       /\ \A n \in 1 .. Len(q) : a[Len(r) + Len(h) + n] = q[n]

True(r, st) ==
  \A n \in 1 .. Len(r) :
    /\ r[n].code \in {235, 239, 240} => r[n].to.id \in st
    /\ r[n].code \in {435, 438} => r[n].to.id \in st \cup Junk

Sound(a, l, q, lo, r, p, h, v, st) ==
  /\ Closed(a, l, q, lo, r, p)
  /\ Handled(lo, p, h, v, st)
  /\ Orderly(a, q)
  /\ Prompting(a, q, lo, r, p, h)
  /\ Paired(a, l, q, r, h)
  /\ True(r, st)

Safe(c) == Sound(asked[c], link[c], toServer[c], loose[c], toClient[c],
                 pc[c], hand[c], verdict[c], store)

IInv == TypeOK /\ AcceptedIsStored /\ \A c \in Conns : Safe(c)

-----------------------------------------------------------------------------
(* Steps of one connection *)

LEMMA SoundSend ==
  ASSUME NEW a, NEW q, NEW lo, NEW r, NEW p, NEW h, NEW v, NEW st, NEW cmd \in Command,
         Typed(a, "open", q, lo, r, p, h, v), Sound(a, "open", q, lo, r, p, h, v, st),
         cmd.name # "TAKETHIS" => cmd.more = "none",
         IF cmd.name \in Alone THEN a = <<>> ELSE \A n \in 1 .. Len(a) : a[n].name \notin Alone
  PROVE  Sound(Append(a, cmd), "open", Append(q, cmd), lo, r, p, h, v, st)
<1> DEFINE b == Append(a, cmd)
           s == Append(q, cmd)
<1>1. /\ a \in Seq(Command) /\ q \in Seq(Command) /\ h \in Seq(Command) /\ r \in Seq(Replies)
      /\ Len(b) = Len(a) + 1 /\ b[Len(a) + 1] = cmd /\ \A n \in 1 .. Len(a) : b[n] = a[n]
      /\ Len(s) = Len(q) + 1 /\ s[Len(q) + 1] = cmd /\ \A n \in 1 .. Len(q) : s[n] = q[n]
      /\ Len(a) \in Nat /\ Len(q) \in Nat /\ Len(r) \in Nat /\ Len(h) \in Nat
  BY DEF Typed
<1>2. Closed(b, "open", s, lo, r, p) /\ Handled(lo, p, h, v, st) /\ True(r, st)
  BY DEF Sound, Closed
<1>3. ~ Prompted(r)
  BY <1>1 DEF Sound, Prompting
<1>4. Orderly(b, s)
  BY <1>1, SMT DEF Sound, Orderly
<1>5. Paired(b, "open", s, r, h)
  <2>1. \A n \in 1 .. Len(r) : n <= Len(b) /\ r[n].to = b[n]
    BY <1>1, SMT DEF Sound, Paired
  <2>2. Len(b) = Len(r) + Len(h) + Len(s) /\ \A n \in 1 .. Len(h) : b[Len(r) + n] = h[n]
    BY <1>1, <1>3, SMT DEF Sound, Paired
  <2>3. /\ Len(a) = Len(r) + Len(h) + Len(q)
        /\ \A n \in 1 .. Len(q) : a[Len(r) + Len(h) + n] = q[n]
    BY <1>3 DEF Sound, Paired
  <2>4. ASSUME NEW n \in 1 .. Len(s) PROVE b[Len(r) + Len(h) + n] = s[n]
    <3>1. CASE n = Len(q) + 1
      <4>1. Len(r) + Len(h) + n = Len(a) + 1
        BY <3>1, <1>1, <2>3, SMT
      <4> QED
        BY <4>1, <3>1, <1>1
    <3>2. CASE n \in 1 .. Len(q)
      <4>1. Len(r) + Len(h) + n \in 1 .. Len(a)
        BY <3>2, <1>1, <2>3, SMT
      <4> QED
        BY <4>1, <3>2, <1>1, <2>3
    <3>3. n = Len(q) + 1 \/ n \in 1 .. Len(q)
      BY <1>1, SMT
    <3> QED
      BY <3>1, <3>2, <3>3
  <2> QED
    BY <2>1, <2>2, <2>4 DEF Paired
<1>6. Prompting(b, s, lo, r, p, h)
  BY <1>3 DEF Prompting
<1> QED
  BY <1>2, <1>4, <1>5, <1>6 DEF Sound

\* The server takes the next command: it is in hand, or it is answered.
LEMMA TailFacts ==
  ASSUME NEW q \in Seq(Command), q # <<>>
  PROVE  /\ Head(q) = q[1] /\ q[1] \in Command /\ Tail(q) \in Seq(Command)
         /\ Len(q) \in Nat /\ Len(q) >= 1 /\ Len(Tail(q)) = Len(q) - 1
         /\ \A n \in 1 .. Len(Tail(q)) : n + 1 \in 1 .. Len(q) /\ Tail(q)[n] = q[n + 1]
BY SMT

LEMMA SoundGo ==
  ASSUME NEW a, NEW l \in {"open", "cut"}, NEW q, NEW r, NEW h, NEW v, NEW st, NEW p,
         Typed(a, l, q, "none", r, "idle", h, v), Sound(a, l, q, "none", r, "idle", h, v, st),
         q # <<>>, p \in {"perform", "eat"}, p = "perform" => q[1].name # "CHECK"
  PROVE  Sound(a, l, Tail(q), q[1].more, r, p, <<q[1]>>, v, st)
<1>1. a \in Seq(Command) /\ q \in Seq(Command) /\ r \in Seq(Replies)
      /\ Len(a) \in Nat /\ Len(r) \in Nat
  BY DEF Typed
<1>2. /\ Len(Tail(q)) = Len(q) - 1 /\ Len(q) \in Nat /\ Len(q) >= 1 /\ Tail(q) \in Seq(Command)
      /\ \A n \in 1 .. Len(Tail(q)) : n + 1 \in 1 .. Len(q) /\ Tail(q)[n] = q[n + 1]
  BY <1>1, TailFacts
<1>3. h = <<>> /\ Len(h) = 0 /\ Len(<<q[1]>>) = 1 /\ <<q[1]>>[1] = q[1]
  BY DEF Sound, Handled
<1>4. ~ Prompted(r)
  BY DEF Sound, Prompting
<1>5. Closed(a, l, Tail(q), q[1].more, r, p) /\ Handled(q[1].more, p, <<q[1]>>, v, st) /\ True(r, st)
  BY <1>3 DEF Sound, Closed, Handled
<1>6. Orderly(a, Tail(q))
  BY <1>2 DEF Sound, Orderly
<1>7. Paired(a, l, Tail(q), r, <<q[1]>>)
  <2>1. \A n \in 1 .. Len(r) : n <= Len(a) /\ r[n].to = a[n]
    BY DEF Sound, Paired
  <2>2. ASSUME l = "open"
        PROVE  /\ Len(a) = Len(r) + Len(<<q[1]>>) + Len(Tail(q))
               /\ \A n \in 1 .. Len(<<q[1]>>) : a[Len(r) + n] = <<q[1]>>[n]
    <3>1. /\ Len(a) = Len(r) + Len(h) + Len(q)
          /\ \A n \in 1 .. Len(q) : a[Len(r) + Len(h) + n] = q[n]
      BY <2>2, <1>4 DEF Sound, Paired
    <3>2. Len(a) = Len(r) + Len(<<q[1]>>) + Len(Tail(q)) /\ 1 \in 1 .. Len(q)
      BY <3>1, <1>1, <1>2, <1>3, SMT
    <3>3. a[Len(r) + Len(h) + 1] = q[1] /\ Len(r) + Len(h) + 1 = Len(r) + 1
      BY <3>1, <3>2, <1>1, <1>3, SMT
    <3>4. \A n \in 1 .. Len(<<q[1]>>) : n = 1
      BY <1>3, SMT
    <3> QED
      BY <3>2, <3>3, <3>4, <1>3
  <2>3. ASSUME l = "open", NEW n \in 1 .. Len(Tail(q))
        PROVE  a[Len(r) + Len(<<q[1]>>) + n] = Tail(q)[n]
    <3>1. n \in Nat /\ n + 1 \in 1 .. Len(q) /\ Tail(q)[n] = q[n + 1]
      BY <1>2
    <3>2. a[Len(r) + Len(h) + (n + 1)] = q[n + 1]
      BY <2>3, <3>1, <1>4 DEF Sound, Paired
    <3>3. Len(r) + Len(h) + (n + 1) = Len(r) + Len(<<q[1]>>) + n
      BY <1>1, <1>3, <3>1, SMT
    <3> QED
      BY <3>1, <3>2, <3>3
  <2> QED
    BY <2>1, <2>2, <2>3 DEF Paired
<1> QED
  BY <1>4, <1>5, <1>6, <1>7 DEF Sound, Prompting

\* A last reply to the command in hand.
LEMMA SoundDone ==
  ASSUME NEW a, NEW l \in {"open", "cut"}, NEW q, NEW lo, NEW r, NEW p, NEW h, NEW v, NEW st,
         NEW w, NEW y \in Replies,
         Typed(a, l, q, lo, r, p, h, v), Sound(a, l, q, lo, r, p, h, v, st),
         p # "idle", ~ Prompted(r), y.to = h[1], y.code \notin Prompts,
         y.code \in {235, 239, 240} => h[1].id \in st,
         y.code \in {435, 438} => h[1].id \in st \cup Junk
  PROVE  Sound(a, l, q, "none", IF l = "open" THEN Append(r, y) ELSE r, "idle", <<>>, w, st)
<1> DEFINE s == Append(r, y)
           none == <<>>
<1>1. /\ a \in Seq(Command) /\ q \in Seq(Command) /\ r \in Seq(Replies) /\ h \in Seq(Command)
      /\ Len(a) \in Nat /\ Len(r) \in Nat /\ Len(q) \in Nat /\ Len(h) = 1 /\ Len(none) = 0
      /\ Len(s) = Len(r) + 1 /\ s[Len(r) + 1] = y /\ \A n \in 1 .. Len(r) : s[n] = r[n]
  BY DEF Typed, Sound, Handled
<1>2. CASE l = "cut"
  <2>1. a = <<>> /\ r = <<>>
    BY <1>2 DEF Sound, Closed
  <2>2. Closed(a, l, q, "none", r, "idle") /\ Handled("none", "idle", none, w, st)
    BY <1>2, <2>1 DEF Closed, Handled
  <2>3. Orderly(a, q) /\ True(r, st)
    BY DEF Sound
  <2>4. Paired(a, l, q, r, none)
    BY <1>2, <2>1 DEF Paired
  <2> QED
    BY <1>2, <2>2, <2>3, <2>4 DEF Sound, Prompting
<1>3. CASE l = "open"
  <2>1. Closed(a, l, q, "none", s, "idle") /\ Handled("none", "idle", none, w, st) /\ Orderly(a, q)
    BY <1>3 DEF Sound, Closed, Handled
  <2>2. ASSUME NEW n \in 1 .. Len(s) PROVE s[n].code \notin Prompts
    BY <1>1, SMT DEF Prompted
  <2>3. ~ Prompted(s)
    BY <2>2 DEF Prompted
  <2>4. True(s, st)
    <3>1. ASSUME NEW n \in 1 .. Len(s), n # Len(r) + 1
          PROVE  n \in 1 .. Len(r) /\ s[n] = r[n]
      BY <3>1, <1>1, SMT
    <3> QED
      BY <3>1, <1>1 DEF Sound, True
  <2>5. Paired(a, l, q, s, none)
    <3>1. Len(a) = Len(r) + 1 + Len(q) /\ a[Len(r) + 1] = h[1]
      BY <1>1, <1>3 DEF Sound, Paired
    <3>2. \A n \in 1 .. Len(s) : n <= Len(a) /\ s[n].to = a[n]
      <4>1. TAKE n \in 1 .. Len(s)
      <4>2. CASE n \in 1 .. Len(r)
        BY <4>2, <1>1, <3>1 DEF Sound, Paired
      <4>3. CASE n = Len(r) + 1
        BY <4>3, <1>1, <3>1
      <4> QED
        BY <4>2, <4>3, <1>1, SMT
    <3>3. Len(a) = Len(s) + Len(none) + Len(q)
      BY <1>1, <3>1, SMT
    <3>4. ASSUME NEW n \in 1 .. Len(q) PROVE a[Len(s) + Len(none) + n] = q[n]
      <4>1. a[Len(r) + Len(h) + n] = q[n]
        BY <1>3 DEF Sound, Paired
      <4> QED
        BY <4>1, <1>1, SMT
    <3> QED
      BY <3>2, <3>3, <3>4, <1>1 DEF Paired
  <2> QED
    BY <1>3, <2>1, <2>3, <2>4, <2>5 DEF Sound, Prompting
<1> QED
  BY <1>2, <1>3

\* A command that is answered at once is in hand for that long.
LEMMA SoundRefuse ==
  ASSUME NEW a, NEW l \in {"open", "cut"}, NEW q, NEW r, NEW h, NEW v, NEW st, NEW y \in Replies,
         Typed(a, l, q, "none", r, "idle", h, v), Sound(a, l, q, "none", r, "idle", h, v, st),
         q # <<>>, q[1].name # "TAKETHIS", y.to = q[1], y.code \notin Prompts, y.code \notin {235, 239, 240},
         y.code \in {435, 438} => q[1].id \in st \cup Junk
  PROVE  /\ Sound(a, l, Tail(q), "none", IF l = "open" THEN Append(r, y) ELSE r, "idle", h, v, st)
         /\ q[1].more = "none"
<1> DEFINE k == <<q[1]>>
<1>1. q \in Seq(Command) /\ 1 \in 1 .. Len(q) /\ q[1] \in Command /\ Tail(q) \in Seq(Command)
  BY TailFacts DEF Typed
<1>2. q[1].more = "none" /\ h = <<>>
  BY <1>1 DEF Sound, Orderly, Handled
<1>3. Sound(a, l, Tail(q), "none", r, "eat", k, v, st)
  BY <1>2, SoundGo
<1>4. Typed(a, l, Tail(q), "none", r, "eat", k, v)
  BY <1>1 DEF Typed, Articles, Spots
<1>5. ~ Prompted(r) /\ k[1] = q[1]
  BY DEF Sound, Prompting
<1>6. /\ y.code \in {235, 239, 240} => k[1].id \in st
      /\ y.code \in {435, 438} => k[1].id \in st \cup Junk
  BY <1>5
<1>7. Sound(a, l, Tail(q), "none", IF l = "open" THEN Append(r, y) ELSE r, "idle", <<>>, v, st)
  BY <1>3, <1>4, <1>5, <1>6, SoundDone
<1> QED
  BY <1>2, <1>7

LEMMA SoundPrompt ==
  ASSUME NEW a, NEW l \in {"open", "cut"}, NEW q, NEW r, NEW h, NEW v, NEW st, NEW y \in Replies,
         Typed(a, l, q, "none", r, "idle", h, v), Sound(a, l, q, "none", r, "idle", h, v, st),
         q # <<>>, q[1].name \in Alone, y.to = q[1], y.code \in Prompts
  PROVE  /\ Sound(a, l, Tail(q), "none", IF l = "open" THEN Append(r, y) ELSE r,
                  "perform", <<q[1]>>, v, st)
         /\ q[1].more = "none"
<1> DEFINE k == <<q[1]>>
<1>1. /\ q \in Seq(Command) /\ 1 \in 1 .. Len(q) /\ q[1] \in Command /\ Tail(q) \in Seq(Command)
      /\ a \in Seq(Command) /\ r \in Seq(Replies) /\ Len(k) = 1 /\ k[1] = q[1]
      /\ Len(a) \in Nat /\ Len(r) \in Nat /\ Len(Tail(q)) \in Nat
  BY TailFacts DEF Typed
<1>2. q[1].more = "none" /\ q[1].name # "CHECK"
  BY <1>1 DEF Sound, Orderly, Alone
<1>3. Sound(a, l, Tail(q), "none", r, "perform", k, v, st)
  BY <1>2, SoundGo
<1>4. CASE l = "cut"
  BY <1>2, <1>3, <1>4
<1>5. CASE l = "open"
  <2> DEFINE s == Append(r, y)
  <2>1. ~ Prompted(r)
    BY DEF Sound, Prompting
  <2>2. /\ Len(a) = Len(r) + Len(k) + Len(Tail(q))
        /\ \A n \in 1 .. Len(k) : a[Len(r) + n] = k[n]
    BY <1>3, <1>5, <2>1 DEF Sound, Paired
  <2>3. a[Len(r) + 1] = q[1] /\ Len(r) + 1 \in 1 .. Len(a)
    BY <2>2, <1>1, SMT
  <2>4. Len(a) = 1
    BY <2>3 DEF Sound, Orderly
  <2>5. Len(r) = 0 /\ Len(Tail(q)) = 0 /\ a[1] = q[1]
    BY <2>2, <2>3, <2>4, <1>1, SMT
  <2>6. Len(s) = 1 /\ s[1] = y /\ \A n \in 1 .. Len(s) : n = 1
    BY <2>5, <1>1, SMT
  <2>7. Prompting(a, Tail(q), "none", s, "perform", k)
    BY <2>4, <2>5, <2>6, <1>1 DEF Prompting
  <2>8. Prompted(s)
    <3>1. 1 \in 1 .. Len(s)
      BY <2>6, SMT
    <3> QED
      BY <3>1, <2>6 DEF Prompted
  <2>9. Paired(a, l, Tail(q), s, k)
    BY <2>4, <2>5, <2>6, <2>8, SMT DEF Paired
  <2>10. True(s, st)
    <3>1. y.code \notin {235, 239, 240, 435, 438}
      BY SMT DEF Prompts
    <3> QED
      BY <3>1, <2>6 DEF True
  <2> QED
    BY <1>2, <1>3, <1>5, <2>7, <2>9, <2>10 DEF Sound, Closed
<1> QED
  BY <1>4, <1>5

\* The client reads.
LEMMA SoundReadReply ==
  ASSUME NEW a, NEW l, NEW q, NEW lo, NEW r, NEW p, NEW h, NEW v, NEW st,
         Typed(a, l, q, lo, r, p, h, v), Sound(a, l, q, lo, r, p, h, v, st),
         r # <<>>, r[1].code \notin Prompts
  PROVE  /\ a # <<>> /\ r[1].to = a[1]
         /\ Sound(Tail(a), l, q, lo, Tail(r), p, h, v, st)
<1>1. /\ a \in Seq(Command) /\ q \in Seq(Command) /\ h \in Seq(Command) /\ r \in Seq(Replies)
      /\ Len(a) \in Nat /\ Len(r) \in Nat /\ Len(q) \in Nat /\ Len(h) \in Nat /\ l \in Links
  BY DEF Typed
<1>2. /\ 1 \in 1 .. Len(r) /\ Len(Tail(r)) = Len(r) - 1
      /\ \A n \in 1 .. Len(Tail(r)) : n + 1 \in 1 .. Len(r) /\ Tail(r)[n] = r[n + 1]
  BY <1>1, SMT
<1>3. 1 <= Len(a) /\ r[1].to = a[1]
  BY <1>2 DEF Sound, Paired
<1>4. /\ a # <<>> /\ Len(Tail(a)) = Len(a) - 1
      /\ \A n \in 1 .. Len(Tail(a)) : n + 1 \in 1 .. Len(a) /\ Tail(a)[n] = a[n + 1]
  BY <1>1, <1>3, SMT
<1>5. ~ Prompted(r)
  <2>1. SUFFICES ASSUME Prompted(r) PROVE FALSE
    OBVIOUS
  <2>2. Len(r) = 1
    BY <2>1 DEF Sound, Prompting
  <2> QED
    BY <2>1, <2>2, SMT DEF Prompted
<1>6. ~ Prompted(Tail(r))
  BY <1>2, <1>5 DEF Prompted
<1>7. Closed(Tail(a), l, q, lo, Tail(r), p)
  BY <1>4, <1>1 DEF Sound, Closed
<1>8. Orderly(Tail(a), q)
  <2>1. ASSUME NEW n \in 1 .. Len(Tail(a)), Tail(a)[n].name \in Alone PROVE Len(Tail(a)) = 1
    <3>1. n + 1 \in 1 .. Len(a) /\ a[n + 1].name \in Alone
      BY <2>1, <1>4
    <3>2. Len(a) = 1
      BY <3>1 DEF Sound, Orderly
    <3> QED
      BY <3>2, <1>4, SMT
  <2> QED
    BY <2>1 DEF Sound, Orderly
<1>9. Paired(Tail(a), l, q, Tail(r), h)
  <2>1. \A n \in 1 .. Len(Tail(r)) : n <= Len(Tail(a)) /\ Tail(r)[n].to = Tail(a)[n]
    <3>1. TAKE n \in 1 .. Len(Tail(r))
    <3>2. n + 1 <= Len(a) /\ r[n + 1].to = a[n + 1]
      BY <1>2 DEF Sound, Paired
    <3>3. n <= Len(Tail(a)) /\ n \in 1 .. Len(Tail(a))
      BY <3>2, <1>1, <1>2, <1>4, SMT
    <3> QED
      BY <3>2, <3>3, <1>2, <1>4
  <2>2. ASSUME l = "open"
        PROVE  /\ Len(Tail(a)) = Len(Tail(r)) + Len(h) + Len(q)
               /\ \A n \in 1 .. Len(h) : Tail(a)[Len(Tail(r)) + n] = h[n]
               /\ \A n \in 1 .. Len(q) : Tail(a)[Len(Tail(r)) + Len(h) + n] = q[n]
    <3>1. /\ Len(a) = Len(r) + Len(h) + Len(q)
          /\ \A n \in 1 .. Len(h) : a[Len(r) + n] = h[n]
          /\ \A n \in 1 .. Len(q) : a[Len(r) + Len(h) + n] = q[n]
      BY <2>2, <1>5 DEF Sound, Paired
    <3>2. Len(Tail(a)) = Len(Tail(r)) + Len(h) + Len(q)
      BY <3>1, <1>1, <1>2, <1>4, SMT
    <3>3. ASSUME NEW n \in 1 .. Len(h) PROVE Tail(a)[Len(Tail(r)) + n] = h[n]
      <4>1. Len(Tail(r)) + n \in 1 .. Len(Tail(a)) /\ (Len(Tail(r)) + n) + 1 = Len(r) + n
        BY <3>2, <1>1, <1>2, SMT
      <4> QED
        BY <4>1, <3>1, <1>4
    <3>4. ASSUME NEW n \in 1 .. Len(q) PROVE Tail(a)[Len(Tail(r)) + Len(h) + n] = q[n]
      <4>1. /\ Len(Tail(r)) + Len(h) + n \in 1 .. Len(Tail(a))
            /\ (Len(Tail(r)) + Len(h) + n) + 1 = Len(r) + Len(h) + n
        BY <3>2, <1>1, <1>2, SMT
      <4> QED
        BY <4>1, <3>1, <1>4
    <3> QED
      BY <3>2, <3>3, <3>4
  <2> QED
    BY <2>1, <2>2 DEF Paired
<1>10. True(Tail(r), st)
  BY <1>2 DEF Sound, True
<1> QED
  BY <1>3, <1>4, <1>6, <1>7, <1>8, <1>9, <1>10 DEF Sound, Prompting

LEMMA SoundReadPrompt ==
  ASSUME NEW a, NEW l, NEW q, NEW lo, NEW r, NEW p, NEW h, NEW v, NEW st,
         Typed(a, l, q, lo, r, p, h, v), Sound(a, l, q, lo, r, p, h, v, st),
         r # <<>>, r[1].code \in Prompts
  PROVE  q = <<>> /\ Sound(a, l, q, "whole", Tail(r), p, h, v, st)
<1>1. /\ a \in Seq(Command) /\ q \in Seq(Command) /\ h \in Seq(Command) /\ r \in Seq(Replies)
      /\ Len(a) \in Nat /\ Len(r) \in Nat /\ Len(q) \in Nat /\ 1 \in 1 .. Len(r)
  BY SMT DEF Typed
<1>2. Prompted(r)
  BY <1>1 DEF Prompted
<1>3. /\ Len(r) = 1 /\ Len(a) = 1 /\ Len(h) = 1 /\ Len(q) = 0
      /\ p = "perform" /\ lo = "none" /\ a[1] = h[1]
  BY <1>2 DEF Sound, Prompting
<1> DEFINE s == Tail(r)
<1>4. q = <<>> /\ Len(s) = 0
  BY <1>1, <1>3, EmptySeq, SMT
<1> HIDE DEF s
<1>5. (1 .. Len(s)) = {} /\ (1 .. Len(q)) = {}
  BY <1>3, <1>4, SMT
<1>6. ~ Prompted(s) /\ True(s, st)
  BY <1>5 DEF Prompted, True
<1>7. Paired(a, l, q, s, h)
  <2>1. Len(a) = Len(s) + Len(h) + Len(q)
    BY <1>3, <1>4, SMT
  <2>2. ASSUME NEW n \in 1 .. Len(h) PROVE a[Len(s) + n] = h[n]
    <3>1. n = 1 /\ Len(s) + n = 1
      BY <1>3, <1>4, SMT
    <3> QED
      BY <3>1, <1>3
  <2> QED
    BY <2>1, <2>2, <1>5 DEF Paired
<1>8. Closed(a, l, q, "whole", s, p)
  BY <1>1, <1>3, EmptySeq, SMT DEF Sound, Closed
<1> USE DEF s
<1> QED
  BY <1>3, <1>4, <1>6, <1>7, <1>8 DEF Sound, Handled, Prompting

\* The connection breaks, and the server notices.
LEMMA SoundBreak ==
  ASSUME NEW a, NEW q, NEW lo, NEW r, NEW p, NEW h, NEW v, NEW st, NEW s, NEW m,
         Sound(a, "open", q, lo, r, p, h, v, st),
         \A n \in 1 .. Len(s) : s[n].name # "TAKETHIS" => s[n].more = "none",
         lo = "none" => m = "none"
  PROVE  Sound(<<>>, "cut", s, m, <<>>, p, h, v, st)
<1> DEFINE none == <<>>
<1>1. Len(none) = 0 /\ \A n \in 1 .. Len(none) : FALSE
  BY SMT
<1>2. ~ Prompted(none) /\ True(none, st)
  BY <1>1 DEF Prompted, True
<1>3. Paired(none, "cut", s, none, h) /\ Orderly(none, s)
  BY <1>1 DEF Paired, Orderly
<1>4. Closed(none, "cut", s, m, none, p) /\ Handled(m, p, h, v, st)
  BY DEF Sound, Closed, Handled
<1> QED
  BY <1>2, <1>3, <1>4 DEF Sound, Prompting

LEMMA SoundEmpty ==
  ASSUME NEW l \in {"free", "open"}, NEW v, NEW st
  PROVE  Sound(<<>>, l, <<>>, "none", <<>>, "idle", <<>>, v, st)
<1> DEFINE none == <<>>
<1>1. Len(none) = 0 /\ \A n \in 1 .. Len(none) : FALSE
  BY SMT
<1>2. ~ Prompted(none) /\ True(none, st)
  BY <1>1 DEF Prompted, True
<1>3. Paired(none, l, none, none, none) /\ Orderly(none, none)
  BY <1>1 DEF Paired, Orderly
<1>4. Closed(none, l, none, "none", none, "idle") /\ Handled("none", "idle", none, v, st)
  BY DEF Closed, Handled
<1> QED
  BY <1>2, <1>3, <1>4 DEF Sound, Prompting

\* A step of one connection adds at most to the store of another.
LEMMA SoundMono ==
  ASSUME NEW a, NEW l, NEW q, NEW lo, NEW r, NEW p, NEW h, NEW v, NEW st, NEW su,
         Sound(a, l, q, lo, r, p, h, v, st), st \subseteq su
  PROVE  Sound(a, l, q, lo, r, p, h, v, su)
BY DEF Sound, Handled, True
-----------------------------------------------------------------------------
(* Initial states and types *)

LEMMA InitIInv == Init => IInv
<1> SUFFICES ASSUME Init PROVE IInv
  OBVIOUS
<1>1. TypeOK
  BY SMT DEF Init, TypeOK, NoVerdict, Verdict, Articles
<1>2. AcceptedIsStored
  BY DEF Init, AcceptedIsStored
<1>3. ASSUME NEW c \in Conns PROVE Safe(c)
  BY SoundEmpty DEF Init, Safe
<1> QED
  BY <1>1, <1>2, <1>3 DEF IInv

\* What the invariant says of one connection.
LEMMA TypedAt ==
  ASSUME TypeOK, NEW c \in Conns
  PROVE  Typed(asked[c], link[c], toServer[c], loose[c], toClient[c], pc[c], hand[c], verdict[c])
BY DEF TypeOK, Typed, Links, Spots

\* What a step of connection c leaves alone of the others.
Others(c) ==
  \A d \in Conns \ {c} :
    /\ asked'[d] = asked[d] /\ link'[d] = link[d] /\ toServer'[d] = toServer[d]
    /\ loose'[d] = loose[d] /\ toClient'[d] = toClient[d] /\ pc'[d] = pc[d]
    /\ hand'[d] = hand[d] /\ verdict'[d] = verdict[d]

LEMMA OthersSafe ==
  ASSUME IInv, NEW c \in Conns, Others(c), store \subseteq store'
  PROVE  \A d \in Conns \ {c} : Safe(d)'
BY SoundMono DEF IInv, Safe, Others

LEMMA StepIInv ==
  ASSUME IInv, NEW c \in Conns, TypeOK', AcceptedIsStored', Others(c), store \subseteq store', Safe(c)'
  PROVE  IInv'
BY OthersSafe DEF IInv

-----------------------------------------------------------------------------
(* The client *)

LEMMA ConnectIInv == ASSUME IInv, NEW c \in Conns, Connect(c) PROVE IInv'
<1>1. TypeOK'
  BY SMT DEF IInv, TypeOK, Connect, client, input, backend
<1>2. /\ Others(c) /\ store' = store /\ AcceptedIsStored'
      /\ link'[c] = "open" /\ asked'[c] = asked[c] /\ toServer'[c] = toServer[c]
      /\ loose'[c] = loose[c] /\ toClient'[c] = toClient[c] /\ pc'[c] = pc[c] /\ hand'[c] = hand[c]
      /\ verdict'[c] = verdict[c]
  BY DEF IInv, TypeOK, Connect, client, input, backend, Others, AcceptedIsStored
<1>3. Safe(c)
  BY DEF IInv
<1>4. /\ asked[c] = <<>> /\ toServer[c] = <<>> /\ loose[c] = "none" /\ toClient[c] = <<>>
      /\ pc[c] = "idle" /\ hand[c] = <<>>
  BY <1>3 DEF Connect, Safe, Sound, Closed, Handled
<1>5. Safe(c)'
  BY <1>2, <1>4, SoundEmpty DEF Safe
<1> QED
  BY <1>1, <1>2, <1>5, StepIInv

LEMMA SendIInv ==
  ASSUME IInv, NEW c \in Conns, NEW cmd \in Command, Send(c, cmd),
         cmd.name # "TAKETHIS" => cmd.more = "none",
         IF cmd.name \in Alone
         THEN asked[c] = <<>>
         ELSE \A n \in 1 .. Len(asked[c]) : asked[c][n].name \notin Alone
  PROVE  IInv'
<1>1. TypeOK
  BY DEF IInv
<1>2. asked[c] \in Seq(Command) /\ toServer[c] \in Seq(Command)
  BY <1>1 DEF TypeOK
<1>3. Append(asked[c], cmd) \in Seq(Command) /\ Append(toServer[c], cmd) \in Seq(Command)
  BY <1>2
<1>4. TypeOK'
  BY <1>1, <1>3 DEF TypeOK, Send, session, backend
<1>5. /\ Others(c) /\ store' = store
      /\ link'[c] = "open" /\ link[c] = "open"
      /\ asked'[c] = Append(asked[c], cmd) /\ toServer'[c] = Append(toServer[c], cmd)
      /\ loose'[c] = loose[c] /\ toClient'[c] = toClient[c] /\ pc'[c] = pc[c] /\ hand'[c] = hand[c]
      /\ verdict'[c] = verdict[c]
  BY <1>1 DEF TypeOK, Send, session, backend, Others
<1>6. AcceptedIsStored'
  BY <1>1 DEF IInv, AcceptedIsStored, TypeOK, Send, backend
<1>7. Safe(c)'
  BY <1>1, <1>5, TypedAt, SoundSend DEF IInv, Safe
<1> QED
  BY <1>4, <1>5, <1>6, <1>7, StepIInv

LEMMA SendAloneIInv == ASSUME IInv, NEW c \in Conns, NEW id \in Ids, SendAlone(c, id) PROVE IInv'
<1>1. PICK n \in Alone, named \in BOOLEAN :
        Send(c, [name |-> n, id |-> id, named |-> named, more |-> "none"])
  BY DEF SendAlone
<1> DEFINE cmd == [name |-> n, id |-> id, named |-> named, more |-> "none"]
<1>2. cmd \in Command /\ cmd.name \in Alone /\ cmd.more = "none"
  BY DEF Command, Articles, Alone
<1> QED
  BY <1>1, <1>2, SendIInv DEF SendAlone

LEMMA SendAheadIInv == ASSUME IInv, NEW c \in Conns, NEW id \in Ids, SendAhead(c, id) PROVE IInv'
<1>1. PICK named \in BOOLEAN :
        \/ Send(c, [name |-> "CHECK", id |-> id, named |-> named, more |-> "none"])
        \/ Send(c, [name |-> "TAKETHIS", id |-> id, named |-> named, more |-> "whole"])
  BY DEF SendAhead
<1> DEFINE check == [name |-> "CHECK", id |-> id, named |-> named, more |-> "none"]
           take  == [name |-> "TAKETHIS", id |-> id, named |-> named, more |-> "whole"]
<1>2. check \in Command /\ take \in Command /\ check.name \notin Alone /\ take.name \notin Alone
      /\ check.more = "none" /\ take.name = "TAKETHIS"
  BY DEF Command, Articles, Alone
<1>3. CASE Send(c, check)
  BY <1>2, <1>3, SendIInv DEF SendAhead
<1>4. CASE Send(c, take)
  BY <1>2, <1>4, SendIInv DEF SendAhead
<1> QED
  BY <1>1, <1>3, <1>4

LEMMA ReadPromptIInv == ASSUME IInv, NEW c \in Conns, ReadPrompt(c) PROVE IInv'
<1>1. TypeOK /\ Safe(c)
  BY DEF IInv
<1>2. toClient[c] \in Seq(Replies) /\ toClient[c] # <<>> /\ Head(toClient[c]) = toClient[c][1]
      /\ Tail(toClient[c]) \in Seq(Replies)
  BY <1>1, SMT DEF TypeOK, ReadPrompt
<1>3. /\ toServer[c] = <<>>
      /\ Sound(asked[c], link[c], toServer[c], "whole", Tail(toClient[c]), pc[c], hand[c], verdict[c], store)
  BY <1>1, <1>2, TypedAt, SoundReadPrompt DEF Safe, ReadPrompt
<1>4. loose' = [loose EXCEPT ![c] = "whole"] /\ UNCHANGED toServer
  BY <1>3 DEF ReadPrompt
<1>5. TypeOK'
  BY <1>1, <1>2, <1>4 DEF TypeOK, ReadPrompt, client, session, backend, Articles
<1>6. /\ Others(c) /\ store' = store /\ AcceptedIsStored' /\ Safe(c)'
  <2>1. /\ asked'[c] = asked[c] /\ link'[c] = link[c] /\ toServer'[c] = toServer[c]
        /\ loose'[c] = "whole" /\ toClient'[c] = Tail(toClient[c]) /\ pc'[c] = pc[c]
        /\ hand'[c] = hand[c] /\ verdict'[c] = verdict[c] /\ store' = store /\ Others(c)
    BY <1>1, <1>4 DEF TypeOK, ReadPrompt, client, session, backend, Others
  <2>2. AcceptedIsStored'
    BY DEF IInv, AcceptedIsStored, ReadPrompt, client, backend
  <2> QED
    BY <1>3, <2>1, <2>2 DEF Safe
<1> QED
  BY <1>5, <1>6, StepIInv

LEMMA ReadReplyIInv == ASSUME IInv, NEW c \in Conns, ReadReply(c) PROVE IInv'
<1>1. TypeOK /\ Safe(c)
  BY DEF IInv
<1>2. /\ toClient[c] \in Seq(Replies) /\ toClient[c] # <<>> /\ Head(toClient[c]) = toClient[c][1]
      /\ Tail(toClient[c]) \in Seq(Replies) /\ 1 \in 1 .. Len(toClient[c])
      /\ toClient[c][1] \in Replies
  BY <1>1, SMT DEF TypeOK, ReadReply
<1> DEFINE y == toClient[c][1]
<1>3. /\ asked[c] # <<>> /\ y.to = asked[c][1]
      /\ Sound(Tail(asked[c]), link[c], toServer[c], loose[c], Tail(toClient[c]), pc[c], hand[c], verdict[c], store)
  BY <1>1, <1>2, TypedAt, SoundReadReply DEF Safe, ReadReply
<1>4. /\ asked[c] \in Seq(Command) /\ Head(asked[c]) = asked[c][1] /\ asked[c][1] \in Command
      /\ Tail(asked[c]) \in Seq(Command)
  BY <1>1, <1>3, SMT DEF TypeOK
<1>5. Meaning(y.code) \in {"todo", "accepted", "unwanted", "rejected"}
  BY DEF Meaning
<1>6. TypeOK'
  BY <1>1, <1>2, <1>4, <1>5 DEF TypeOK, ReadReply, input, session, backend
<1>7. AcceptedIsStored'
  <2>1. /\ Meaning(y.code) = "accepted" => y.code \in {235, 239, 240}
        /\ Meaning(y.code) = "unwanted" => y.code \in {435, 438}
    BY SMT DEF Meaning
  <2>2. /\ Meaning(y.code) = "accepted" => asked[c][1].id \in store
        /\ Meaning(y.code) = "unwanted" => asked[c][1].id \in store \cup Junk
    BY <1>1, <1>2, <1>3, <2>1 DEF Safe, Sound, True
  <2>3. fate' = [fate EXCEPT ![asked[c][1].id] = Meaning(y.code)] /\ store' = store
    BY <1>2, <1>4 DEF ReadReply, backend
  <2> QED
    BY <1>1, <2>2, <2>3 DEF IInv, TypeOK, AcceptedIsStored
<1>8. /\ asked'[c] = Tail(asked[c]) /\ link'[c] = link[c] /\ toServer'[c] = toServer[c]
      /\ loose'[c] = loose[c] /\ toClient'[c] = Tail(toClient[c]) /\ pc'[c] = pc[c]
      /\ hand'[c] = hand[c] /\ verdict'[c] = verdict[c] /\ store' = store /\ Others(c)
  BY <1>1 DEF TypeOK, ReadReply, input, session, backend, Others
<1> QED
  BY <1>3, <1>6, <1>7, <1>8, StepIInv DEF Safe

\* The two ways in which the client takes its commands back.
LEMMA TakeBackStored ==
  ASSUME TypeOK, AcceptedIsStored, NEW c \in Conns, TakeBack(c), store' = store
  PROVE  /\ AcceptedIsStored' /\ asked'[c] = <<>> /\ \A d \in Conns \ {c} : asked'[d] = asked[d]
         /\ fate' \in [Ids -> {"todo", "offered", "accepted", "unwanted", "rejected"}]
         /\ asked' \in [Conns -> Seq(Command)]
<1>1. /\ asked'[c] = <<>> /\ \A d \in Conns \ {c} : asked'[d] = asked[d]
      /\ asked' \in [Conns -> Seq(Command)]
  BY DEF TypeOK, TakeBack
<1>2. \A id \in Ids : fate'[id] = "todo" \/ fate'[id] = fate[id]
  BY DEF TakeBack
<1>3. fate' \in [Ids -> {"todo", "offered", "accepted", "unwanted", "rejected"}]
  BY DEF TypeOK, TakeBack
<1> QED
  BY <1>1, <1>2, <1>3 DEF AcceptedIsStored

LEMMA SeeEndIInv == ASSUME IInv, NEW c \in Conns, SeeEnd(c) PROVE IInv'
<1>1. TypeOK /\ Safe(c) /\ AcceptedIsStored
  BY DEF IInv
<1>2. store' = store
  BY DEF SeeEnd, backend
<1>3. /\ AcceptedIsStored' /\ asked'[c] = <<>> /\ \A d \in Conns \ {c} : asked'[d] = asked[d]
      /\ fate' \in [Ids -> {"todo", "offered", "accepted", "unwanted", "rejected"}]
      /\ asked' \in [Conns -> Seq(Command)]
  BY <1>1, <1>2, TakeBackStored DEF SeeEnd
<1>4. TypeOK'
  BY <1>1, <1>3 DEF TypeOK, SeeEnd, input, session, backend
<1>5. Others(c)
  BY <1>1, <1>3 DEF TypeOK, SeeEnd, input, session, Others
<1>6. /\ toServer[c] = <<>> /\ loose[c] = "none" /\ pc[c] = "idle" /\ hand[c] = <<>>
      /\ toClient[c] = <<>>
  BY <1>1 DEF Safe, Sound, Closed, Handled, SeeEnd
<1>7. /\ link'[c] = "free" /\ toServer'[c] = <<>> /\ loose'[c] = "none" /\ pc'[c] = "idle"
      /\ hand'[c] = <<>> /\ toClient'[c] = <<>>
  BY <1>1, <1>6 DEF TypeOK, SeeEnd, input, session
<1>8. Safe(c)'
  BY <1>3, <1>7, SoundEmpty DEF Safe
<1> QED
  BY <1>2, <1>3, <1>4, <1>5, <1>8, StepIInv

\* What is left of the commands when the connection breaks.
LEMMA Cut ==
  ASSUME NEW q \in Seq(Command), NEW n \in 1 .. Len(q), NEW m \in Parts(q[n].more),
         \A k \in 1 .. Len(q) : q[k].name # "TAKETHIS" => q[k].more = "none"
  PROVE  LET s == [SubSeq(q, 1, n) EXCEPT ![n].more = m]
         IN  /\ s \in Seq(Command)
             /\ \A k \in 1 .. Len(s) : s[k].name # "TAKETHIS" => s[k].more = "none"
<1> DEFINE t == SubSeq(q, 1, n)
           x == [q[n] EXCEPT !.more = m]
           s == [t EXCEPT ![n] = x]
<1>1. t \in Seq(Command) /\ Len(t) = n /\ \A k \in 1 .. n : t[k] = q[k]
  BY SMT
<1> HIDE DEF t
<1>2. n \in 1 .. Len(t) /\ t[n] = q[n] /\ q[n] \in Command
  BY <1>1, SMT
<1>3. x \in Command /\ x.name = q[n].name /\ x.more = m
  BY <1>2, SMT DEF Parts, Command, Articles
<1>4. s \in Seq(Command) /\ Len(s) = n /\ \A k \in 1 .. n : s[k] = IF k = n THEN x ELSE t[k]
  BY <1>1, <1>2, <1>3, ExceptSeq
<1>5. q[n].name # "TAKETHIS" => m = "none"
  BY DEF Parts
<1>6. \A k \in 1 .. n : k \in 1 .. Len(q)
  BY SMT
<1>7. \A k \in 1 .. Len(s) : s[k].name # "TAKETHIS" => s[k].more = "none"
  BY <1>1, <1>3, <1>4, <1>5, <1>6
<1>8. [SubSeq(q, 1, n) EXCEPT ![n].more = m] = s
  BY <1>2 DEF t
<1> QED
  BY <1>4, <1>7, <1>8

LEMMA BreakIInv == ASSUME IInv, NEW c \in Conns, Break(c) PROVE IInv'
<1>1. TypeOK /\ Safe(c) /\ AcceptedIsStored /\ toServer[c] \in Seq(Command) /\ loose[c] \in Articles
  BY DEF IInv, TypeOK
<1>2. store' = store /\ link[c] = "open"
  BY DEF Break, backend
<1>3. /\ AcceptedIsStored' /\ asked'[c] = <<>> /\ \A d \in Conns \ {c} : asked'[d] = asked[d]
      /\ fate' \in [Ids -> {"todo", "offered", "accepted", "unwanted", "rejected"}]
      /\ asked' \in [Conns -> Seq(Command)]
  BY <1>1, <1>2, TakeBackStored DEF Break
<1>4. \A k \in 1 .. Len(toServer[c]) :
        toServer[c][k].name # "TAKETHIS" => toServer[c][k].more = "none"
  BY <1>1 DEF Safe, Sound, Orderly
<1>5. \E s \in Seq(Command), m \in Articles :
        /\ toServer' = [toServer EXCEPT ![c] = s] /\ loose' = [loose EXCEPT ![c] = m]
        /\ \A k \in 1 .. Len(s) : s[k].name # "TAKETHIS" => s[k].more = "none"
        /\ loose[c] = "none" => m = "none"
  <2>1. CASE /\ toServer' = [toServer EXCEPT ![c] = <<>>]
             /\ \E m \in Parts(loose[c]) : loose' = [loose EXCEPT ![c] = m]
    <3>1. PICK m \in Parts(loose[c]) : loose' = [loose EXCEPT ![c] = m]
      BY <2>1
    <3>2. m \in Articles /\ (loose[c] = "none" => m = "none")
      BY <1>1 DEF Parts, Articles
    <3>3. <<>> \in Seq(Command) /\ \A k \in 1 .. Len(<<>>) : FALSE
      BY SMT
    <3> QED
      BY <2>1, <3>1, <3>2, <3>3
  <2>2. CASE /\ \E n \in 1 .. Len(toServer[c]) : \E m \in Parts(toServer[c][n].more) :
                  toServer' = [toServer EXCEPT ![c] = [SubSeq(@, 1, n) EXCEPT ![n].more = m]]
             /\ UNCHANGED loose
    <3>5. PICK n \in 1 .. Len(toServer[c]) : \E m \in Parts(toServer[c][n].more) :
            toServer' = [toServer EXCEPT ![c] = [SubSeq(@, 1, n) EXCEPT ![n].more = m]]
      BY <2>2
    <3>1. PICK m \in Parts(toServer[c][n].more) :
            toServer' = [toServer EXCEPT ![c] = [SubSeq(@, 1, n) EXCEPT ![n].more = m]]
      BY <3>5
    <3> DEFINE s == [SubSeq(toServer[c], 1, n) EXCEPT ![n].more = m]
    <3>2. s \in Seq(Command) /\ \A k \in 1 .. Len(s) : s[k].name # "TAKETHIS" => s[k].more = "none"
      BY <1>1, <1>4, Cut
    <3>3. toServer' = [toServer EXCEPT ![c] = s]
      BY <3>1
    <3>4. loose' = [loose EXCEPT ![c] = loose[c]]
      BY <1>1, <2>2 DEF TypeOK
    <3> HIDE DEF s
    <3> QED
      BY <1>1, <3>2, <3>3, <3>4
  <2> QED
    BY <2>1, <2>2 DEF Break
<1>6. PICK s \in Seq(Command), m \in Articles :
        /\ toServer' = [toServer EXCEPT ![c] = s] /\ loose' = [loose EXCEPT ![c] = m]
        /\ \A k \in 1 .. Len(s) : s[k].name # "TAKETHIS" => s[k].more = "none"
        /\ loose[c] = "none" => m = "none"
  BY <1>5
<1>7. TypeOK'
  BY <1>1, <1>3, <1>6 DEF TypeOK, Break, session, backend
<1>8. Others(c)
  BY <1>1, <1>3, <1>6 DEF TypeOK, Break, session, Others
<1>9. /\ link'[c] = "cut" /\ toServer'[c] = s /\ loose'[c] = m /\ toClient'[c] = <<>>
      /\ pc'[c] = pc[c] /\ hand'[c] = hand[c] /\ verdict'[c] = verdict[c]
  BY <1>1, <1>6 DEF TypeOK, Break, session
<1>10. Safe(c)'
  BY <1>1, <1>2, <1>3, <1>6, <1>9, SoundBreak DEF Safe
<1> QED
  BY <1>2, <1>3, <1>7, <1>8, <1>10, StepIInv
-----------------------------------------------------------------------------
(* The server *)

\* The command that is about to be read.
LEMMA AskedFacts ==
  ASSUME IInv, NEW c \in Conns, NEW name, Asks(c, name)
  PROVE  /\ TypeOK /\ Safe(c) /\ AcceptedIsStored
         /\ link[c] \in {"open", "cut"} /\ pc[c] = "idle" /\ loose[c] = "none"
         /\ toServer[c] \in Seq(Command) /\ toServer[c] # <<>>
         /\ Asked(c) = toServer[c][1] /\ Asked(c) \in Command /\ Asked(c).name = name
         /\ Asked(c).more \in Articles /\ Tail(toServer[c]) \in Seq(Command)
         /\ <<Asked(c)>> \in Seq(Command)
<1>1. TypeOK /\ Safe(c) /\ AcceptedIsStored /\ toServer[c] \in Seq(Command) /\ toServer[c] # <<>>
  BY DEF IInv, TypeOK, Asks
<1>2. Head(toServer[c]) = toServer[c][1] /\ toServer[c][1] \in Command /\ Tail(toServer[c]) \in Seq(Command)
  BY <1>1, TailFacts
<1>3. \A x \in Command : x.more \in Articles
  BY DEF Command
<1>4. <<toServer[c][1]>> \in Seq(Command)
  BY <1>2
<1> QED
  BY <1>1, <1>2, <1>3, <1>4 DEF Asks, Asked

\* A reply is a reply, and nobody hears it after the connection has broken.
LEMMA ReplyFacts ==
  ASSUME TypeOK, NEW c \in Conns, NEW code \in 200 .. 599, NEW cmd \in Command, Reply(c, code, cmd)
  PROVE  /\ [code |-> code, to |-> cmd] \in Replies
         /\ toClient' \in [Conns -> Seq(Replies)]
         /\ toClient'[c] = IF link[c] = "open"
                           THEN Append(toClient[c], [code |-> code, to |-> cmd])
                           ELSE toClient[c]
         /\ \A d \in Conns \ {c} : toClient'[d] = toClient[d]
<1>1. [code |-> code, to |-> cmd] \in Replies
  BY SMT DEF Replies
<1>2. Append(toClient[c], [code |-> code, to |-> cmd]) \in Seq(Replies)
  BY <1>1 DEF TypeOK
<1> QED
  BY <1>1, <1>2 DEF TypeOK, Reply

Refusal(c, code) ==
  /\ code \in 200 .. 599 /\ code \notin Prompts /\ code \notin {235, 239, 240}
  /\ code \in {435, 438} => ~ Wanted(Asked(c).id)

LEMMA RefuseIInv ==
  ASSUME IInv, NEW c \in Conns, NEW name, name # "TAKETHIS", Asks(c, name),
         NEW code, Refusal(c, code), Refuse(c, code), Unmoved
  PROVE  IInv'
<1> DEFINE y == [code |-> code, to |-> Asked(c)]
<1>1. /\ TypeOK /\ Safe(c) /\ AcceptedIsStored
      /\ link[c] \in {"open", "cut"} /\ pc[c] = "idle" /\ loose[c] = "none"
      /\ toServer[c] \in Seq(Command) /\ toServer[c] # <<>>
      /\ Asked(c) = toServer[c][1] /\ Asked(c) \in Command /\ Asked(c).name = name
      /\ Asked(c).more \in Articles /\ Tail(toServer[c]) \in Seq(Command)
  BY AskedFacts
<1>2. /\ y \in Replies /\ toClient' \in [Conns -> Seq(Replies)]
      /\ toClient'[c] = IF link[c] = "open" THEN Append(toClient[c], y) ELSE toClient[c]
      /\ \A d \in Conns \ {c} : toClient'[d] = toClient[d]
  <2>1. Reply(c, code, Asked(c)) /\ TypeOK /\ Asked(c) \in Command /\ code \in 200 .. 599
    BY <1>1 DEF Refuse, Refusal
  <2>2. y \in Replies /\ toClient' \in [Conns -> Seq(Replies)]
    BY <2>1, ReplyFacts
  <2>3. toClient'[c] = IF link[c] = "open" THEN Append(toClient[c], y) ELSE toClient[c]
    BY <2>1, ReplyFacts
  <2>4. \A d \in Conns \ {c} : toClient'[d] = toClient[d]
    BY <2>1, ReplyFacts
  <2> QED
    BY <2>2, <2>3, <2>4
<1>3. y.to = Asked(c) /\ y.code = code
  OBVIOUS
<1> HIDE DEF y
<1>4. /\ Sound(asked[c], link[c], Tail(toServer[c]), "none",
               IF link[c] = "open" THEN Append(toClient[c], y) ELSE toClient[c],
               "idle", hand[c], verdict[c], store)
      /\ Asked(c).more = "none"
  <2>1. /\ Typed(asked[c], link[c], toServer[c], "none", toClient[c], "idle", hand[c], verdict[c])
        /\ Sound(asked[c], link[c], toServer[c], "none", toClient[c], "idle", hand[c], verdict[c], store)
    BY <1>1, TypedAt DEF Safe
  <2>2. /\ toServer[c][1].name # "TAKETHIS" /\ y.to = toServer[c][1]
        /\ y.code \in {435, 438} => toServer[c][1].id \in store \cup Junk
        /\ y \in Replies /\ link[c] \in {"open", "cut"} /\ toServer[c] # <<>>
    BY <1>1, <1>2, <1>3 DEF Refusal, Wanted
  <2>3. y.code \notin Prompts /\ y.code \notin {235, 239, 240}
    BY <1>3 DEF Refusal
  <2>4. /\ Sound(asked[c], link[c], Tail(toServer[c]), "none",
                 IF link[c] = "open" THEN Append(toClient[c], y) ELSE toClient[c],
                 "idle", hand[c], verdict[c], store)
        /\ toServer[c][1].more = "none"
    <3> DEFINE l == link[c]
               q == toServer[c]
               h == hand[c]
               r == toClient[c]
    <3>1. /\ Typed(asked[c], l, q, "none", r, "idle", h, verdict[c])
          /\ Sound(asked[c], l, q, "none", r, "idle", h, verdict[c], store)
          /\ l \in {"open", "cut"} /\ q # <<>> /\ q[1].name # "TAKETHIS" /\ y.to = q[1]
          /\ y \in Replies /\ y.code \notin Prompts /\ y.code \notin {235, 239, 240}
          /\ y.code \in {435, 438} => q[1].id \in store \cup Junk
      BY <2>1, <2>2, <2>3
    <3> HIDE DEF l, q, h, r
    <3>2. /\ Sound(asked[c], l, Tail(q), "none", IF l = "open" THEN Append(r, y) ELSE r,
                   "idle", h, verdict[c], store)
          /\ q[1].more = "none"
      BY <3>1, SoundRefuse
    <3> QED
      BY <3>2 DEF l, q, h, r
  <2> QED
    BY <2>4, <1>1
<1>5. TypeOK'
  BY <1>1, <1>2 DEF TypeOK, Refuse, Take, Unmoved, client, backend
<1>6. Others(c)
  BY <1>1, <1>2 DEF TypeOK, Refuse, Take, Unmoved, client, Others
<1>7. store' = store /\ AcceptedIsStored'
  BY <1>1 DEF AcceptedIsStored, Unmoved, client, backend
<1>8. /\ asked'[c] = asked[c] /\ link'[c] = link[c] /\ toServer'[c] = Tail(toServer[c])
      /\ loose'[c] = "none" /\ pc'[c] = "idle" /\ hand'[c] = hand[c] /\ verdict'[c] = verdict[c]
  BY <1>1, <1>4 DEF TypeOK, Refuse, Take, Unmoved, client
<1>9. Safe(c)'
  BY <1>2, <1>4, <1>7, <1>8 DEF Safe
<1> QED
  BY <1>5, <1>6, <1>7, <1>9, StepIInv

\* The parts of a step in which the server takes a command in hand.
LEMMA GoFacts ==
  ASSUME IInv, NEW c \in Conns, NEW name, Asks(c, name), NEW l \in {"perform", "eat"}, Go(c, l),
         Unmoved, toClient' \in [Conns -> Seq(Replies)],
         \A d \in Conns \ {c} : toClient'[d] = toClient[d]
  PROVE  /\ TypeOK' /\ Others(c) /\ store' = store /\ AcceptedIsStored'
         /\ asked'[c] = asked[c] /\ link'[c] = link[c] /\ toServer'[c] = Tail(toServer[c])
         /\ loose'[c] = toServer[c][1].more /\ pc'[c] = l /\ hand'[c] = <<toServer[c][1]>>
         /\ verdict'[c] = verdict[c]
<1>1. /\ TypeOK /\ AcceptedIsStored /\ Asked(c) = toServer[c][1] /\ Asked(c) \in Command
      /\ Asked(c).more \in Articles /\ Tail(toServer[c]) \in Seq(Command) /\ <<Asked(c)>> \in Seq(Command)
  BY AskedFacts
<1>2. TypeOK'
  BY <1>1 DEF TypeOK, Go, Take, Goto, Unmoved, client, backend
<1>3. Others(c)
  BY <1>1 DEF TypeOK, Go, Take, Goto, Unmoved, client, Others
<1>4. store' = store /\ AcceptedIsStored'
  BY <1>1 DEF AcceptedIsStored, Unmoved, client, backend
<1> QED
  BY <1>1, <1>2, <1>3, <1>4 DEF TypeOK, Go, Take, Goto, Unmoved, client

LEMMA PromptIInv ==
  ASSUME IInv, NEW c \in Conns, NEW name \in Alone, Asks(c, name),
         NEW code \in Prompts, Prompt(c, code), Unmoved
  PROVE  IInv'
<1> DEFINE y == [code |-> code, to |-> Asked(c)]
<1>1. /\ TypeOK /\ Safe(c) /\ AcceptedIsStored
      /\ link[c] \in {"open", "cut"} /\ pc[c] = "idle" /\ loose[c] = "none"
      /\ toServer[c] # <<>> /\ Asked(c) = toServer[c][1] /\ Asked(c) \in Command /\ Asked(c).name = name
  BY AskedFacts
<1>2. code \in 200 .. 599
  BY SMT DEF Prompts
<1>3. /\ y \in Replies /\ toClient' \in [Conns -> Seq(Replies)]
      /\ toClient'[c] = IF link[c] = "open" THEN Append(toClient[c], y) ELSE toClient[c]
      /\ \A d \in Conns \ {c} : toClient'[d] = toClient[d]
  BY <1>1, <1>2, ReplyFacts DEF Prompt
<1>4. y.to = Asked(c) /\ y.code = code
  OBVIOUS
<1> HIDE DEF y
<1>5. /\ Sound(asked[c], link[c], Tail(toServer[c]), "none",
               IF link[c] = "open" THEN Append(toClient[c], y) ELSE toClient[c],
               "perform", <<toServer[c][1]>>, verdict[c], store)
      /\ toServer[c][1].more = "none"
  <2>1. Typed(asked[c], link[c], toServer[c], "none", toClient[c], "idle", hand[c], verdict[c])
    <3>1. Typed(asked[c], link[c], toServer[c], loose[c], toClient[c], pc[c], hand[c], verdict[c])
      BY <1>1, TypedAt
    <3> QED BY <1>1, <3>1
  <2>2. Sound(asked[c], link[c], toServer[c], "none", toClient[c], "idle", hand[c], verdict[c], store)
    BY <1>1 DEF Safe
  <2>3. /\ toServer[c][1].name \in Alone /\ y.to = toServer[c][1] /\ y.code \in Prompts
        /\ y \in Replies /\ link[c] \in {"open", "cut"} /\ toServer[c] # <<>>
    BY <1>1, <1>3, <1>4
  <2> QED BY <2>1, <2>2, <2>3, SoundPrompt
<1>6. /\ TypeOK' /\ Others(c) /\ store' = store /\ AcceptedIsStored'
      /\ asked'[c] = asked[c] /\ link'[c] = link[c] /\ toServer'[c] = Tail(toServer[c])
      /\ loose'[c] = toServer[c][1].more /\ pc'[c] = "perform" /\ hand'[c] = <<toServer[c][1]>>
      /\ verdict'[c] = verdict[c]
  BY <1>3, GoFacts DEF Prompt
<1>7. Safe(c)'
  BY <1>3, <1>5, <1>6 DEF Safe
<1> QED
  BY <1>6, <1>7, StepIInv

LEMMA HandlePostIInv == ASSUME IInv, NEW c \in Conns, HandlePost(c) PROVE IInv'
<1>1. Asks(c, "POST") /\ Unmoved /\ (Refuse(c, 480) \/ Refuse(c, 440) \/ Prompt(c, 340))
  BY DEF HandlePost
<1>2. Refusal(c, 480) /\ Refusal(c, 440) /\ 340 \in Prompts /\ "POST" \in Alone
  BY SMT DEF Prompts, Alone, Refusal
<1> QED
  BY <1>1, <1>2, RefuseIInv, PromptIInv

LEMMA HandleIHaveIInv == ASSUME IInv, NEW c \in Conns, HandleIHave(c) PROVE IInv'
<1>1. /\ Asks(c, "IHAVE") /\ Unmoved
      /\ \/ Refuse(c, 480) \/ Refuse(c, 501) \/ Refuse(c, 436)
         \/ Refuse(c, 435) /\ ~ Wanted(Asked(c).id)
         \/ Prompt(c, 335)
  BY DEF HandleIHave
<1>2. /\ Refusal(c, 480) /\ Refusal(c, 501) /\ Refusal(c, 436)
      /\ ~ Wanted(Asked(c).id) => Refusal(c, 435)
      /\ 335 \in Prompts /\ "IHAVE" \in Alone
  BY SMT DEF Prompts, Alone, Refusal
<1> QED
  BY <1>1, <1>2, RefuseIInv, PromptIInv

LEMMA HandleCheckIInv == ASSUME IInv, NEW c \in Conns, HandleCheck(c) PROVE IInv'
<1>1. /\ Asks(c, "CHECK") /\ Unmoved
      /\ \/ Refuse(c, 480) \/ Refuse(c, 501) \/ Refuse(c, 238) \/ Refuse(c, 431)
         \/ Refuse(c, 438) /\ ~ Wanted(Asked(c).id)
  BY DEF HandleCheck
<1>2. /\ Refusal(c, 480) /\ Refusal(c, 501) /\ Refusal(c, 238) /\ Refusal(c, 431)
      /\ ~ Wanted(Asked(c).id) => Refusal(c, 438)
  BY SMT DEF Prompts, Refusal
<1> QED
  BY <1>1, <1>2, RefuseIInv

LEMMA HandleTakethisIInv == ASSUME IInv, NEW c \in Conns, HandleTakethis(c) PROVE IInv'
<1>1. PICK l \in {"perform", "eat"} : Go(c, l)
  BY DEF HandleTakethis
<1>2. Asks(c, "TAKETHIS") /\ Unmoved /\ toClient' = toClient
  BY DEF HandleTakethis
<1>3. /\ TypeOK /\ Safe(c) /\ link[c] \in {"open", "cut"} /\ pc[c] = "idle" /\ loose[c] = "none"
      /\ toServer[c] # <<>> /\ toServer[c][1].name # "CHECK"
  BY <1>2, AskedFacts
<1>4. Sound(asked[c], link[c], Tail(toServer[c]), toServer[c][1].more, toClient[c],
            l, <<toServer[c][1]>>, verdict[c], store)
  BY <1>3, TypedAt, SoundGo DEF Safe
<1>5. /\ TypeOK' /\ Others(c) /\ store' = store /\ AcceptedIsStored'
      /\ asked'[c] = asked[c] /\ link'[c] = link[c] /\ toServer'[c] = Tail(toServer[c])
      /\ loose'[c] = toServer[c][1].more /\ pc'[c] = l /\ hand'[c] = <<toServer[c][1]>>
      /\ verdict'[c] = verdict[c]
  BY <1>1, <1>2, <1>3, GoFacts DEF TypeOK
<1>6. Safe(c)'
  BY <1>2, <1>4, <1>5 DEF Safe
<1> QED
  BY <1>5, <1>6, StepIInv

LEMMA TakethisUnnamedIInv == ASSUME IInv, NEW c \in Conns, TakethisUnnamed(c) PROVE IInv'
<1> DEFINE y == [code |-> 501, to |-> Asked(c)]
           r == IF link[c] = "open" THEN Append(toClient[c], y) ELSE toClient[c]
<1>1. /\ TypeOK /\ Safe(c) /\ AcceptedIsStored
      /\ link[c] \in {"open", "cut"} /\ pc[c] = "idle" /\ loose[c] = "none"
      /\ toServer[c] # <<>> /\ Asked(c) = toServer[c][1] /\ Asked(c) \in Command /\ Asked(c).name = "TAKETHIS"
      /\ toServer[c] \in Seq(Command)
      /\ Tail(toServer[c]) \in Seq(Command) /\ <<toServer[c][1]>> \in Seq(Command)
  BY AskedFacts DEF TakethisUnnamed
<1>2. /\ y \in Replies /\ toClient' \in [Conns -> Seq(Replies)] /\ toClient'[c] = r
      /\ \A d \in Conns \ {c} : toClient'[d] = toClient[d]
  <2>1. 501 \in 200 .. 599
    BY SMT
  <2> QED
    BY <1>1, <2>1, ReplyFacts DEF TakethisUnnamed
<1>3. TypeOK'
  BY <1>1, <1>2 DEF TypeOK, TakethisUnnamed, client, session, backend
<1>4. Others(c)
  BY <1>1, <1>2 DEF TypeOK, TakethisUnnamed, client, session, Others
<1>5. store' = store /\ AcceptedIsStored'
  BY <1>1 DEF AcceptedIsStored, TakethisUnnamed, client, backend
<1>6. /\ asked'[c] = asked[c] /\ link'[c] = (IF link[c] = "open" THEN "ended" ELSE "free")
      /\ toServer'[c] = <<>> /\ loose'[c] = "none" /\ pc'[c] = "idle" /\ hand'[c] = hand[c]
      /\ verdict'[c] = verdict[c]
  BY <1>1 DEF TypeOK, TakethisUnnamed, client, session
<1>7. y.to = toServer[c][1] /\ y.code \notin Prompts /\ y.code \notin {235, 239, 240, 435, 438}
  BY <1>1, SMT DEF Prompts
<1>8. Sound(asked[c], link[c], Tail(toServer[c]), "none", r, "idle", <<>>, verdict[c], store)
  <2> DEFINE k == <<toServer[c][1]>>
  <2>1. Sound(asked[c], link[c], Tail(toServer[c]), toServer[c][1].more, toClient[c], "eat", k, verdict[c], store)
    BY <1>1, TypedAt, SoundGo DEF Safe
  <2>2. Typed(asked[c], link[c], Tail(toServer[c]), toServer[c][1].more, toClient[c], "eat", k, verdict[c])
    BY <1>1 DEF TypeOK, Typed, Links, Spots, Command
  <2>3. ~ Prompted(toClient[c]) /\ k[1] = toServer[c][1]
    BY <1>1 DEF Safe, Sound, Prompting
  <2>4. /\ y \in Replies /\ y.to = k[1] /\ y.code \notin Prompts
        /\ y.code \in {235, 239, 240} => k[1].id \in store
        /\ y.code \in {435, 438} => k[1].id \in store \cup Junk
        /\ link[c] \in {"open", "cut"} /\ "eat" # "idle"
    BY <1>1, <1>2, <1>7, <2>3
  <2> HIDE DEF y, k
  <2> QED
    BY <2>1, <2>2, <2>3, <2>4, SoundDone
<1>9. hand[c] = <<>>
  BY <1>1 DEF Safe, Sound, Handled
<1>10. Safe(c)'
  <2>1. CASE link[c] = "cut"
    <3>1. asked[c] = <<>> /\ toClient'[c] = <<>>
      BY <1>1, <1>2, <2>1 DEF Safe, Sound, Closed
    <3> QED
      BY <1>6, <1>9, <2>1, <3>1, SoundEmpty DEF Safe
  <2>2. CASE link[c] = "open"
    <3> DEFINE none == <<>>
    <3>1. link'[c] = "ended" /\ toClient'[c] = r
      BY <1>2, <1>6, <2>2
    <3> HIDE DEF r
    <3>2. ~ Prompted(r)
      BY <1>8 DEF Sound, Prompting
    <3>3. Closed(asked[c], "ended", none, "none", r, "idle") /\ Handled("none", "idle", none, verdict[c], store)
      BY DEF Closed, Handled
    <3>4. Orderly(asked[c], none)
      <4>1. \A n \in 1 .. Len(none) : FALSE
        BY SMT
      <4> QED
        BY <1>8, <4>1 DEF Sound, Orderly
    <3>5. Paired(asked[c], "ended", none, r, none) /\ True(r, store)
      BY <1>8 DEF Sound, Paired
    <3> QED
      BY <1>5, <1>6, <1>9, <3>1, <3>2, <3>3, <3>4, <3>5 DEF Safe, Sound, Prompting
  <2> QED
    BY <1>1, <2>1, <2>2
<1> QED
  BY <1>3, <1>4, <1>5, <1>10, StepIInv

\* A step that ends with the last reply of a handler.
Fits(c, code) ==
  /\ pc[c] # "idle" /\ ~ Prompted(toClient[c])
  /\ code \in 200 .. 599 /\ code \notin Prompts /\ code \notin {435, 438}
  /\ code \in {235, 239, 240} => hand[c][1].id \in store

EndsWith(c, code, v) ==
  /\ Discard(c) /\ Done(c, code, cur(c))
  /\ verdict' = [verdict EXCEPT ![c] = v]
  /\ UNCHANGED <<client, link, may, backend>>

LEMMA DoneIInv ==
  ASSUME IInv, NEW c \in Conns, NEW code, Fits(c, code), NEW v \in Verdict, EndsWith(c, code, v)
  PROVE  IInv'
<1> DEFINE y == [code |-> code, to |-> hand[c][1]]
           r == IF link[c] = "open" THEN Append(toClient[c], y) ELSE toClient[c]
<1>1. TypeOK /\ Safe(c) /\ AcceptedIsStored /\ pc[c] # "idle"
  BY DEF IInv, Fits
<1>2. /\ link[c] \in {"open", "cut"} /\ Len(hand[c]) = 1 /\ hand[c] \in Seq(Command)
  BY <1>1 DEF Safe, Sound, Closed, Handled, TypeOK
<1>3. cur(c) = hand[c][1] /\ hand[c][1] \in Command
  BY <1>2, SMT DEF cur
<1>4. /\ y \in Replies /\ toClient' \in [Conns -> Seq(Replies)] /\ toClient'[c] = r
      /\ \A d \in Conns \ {c} : toClient'[d] = toClient[d]
  <2>1. Reply(c, code, hand[c][1]) /\ code \in 200 .. 599
    BY <1>3 DEF EndsWith, Done, Fits
  <2> QED
    BY <1>1, <1>3, <2>1, ReplyFacts
<1>5. y.to = hand[c][1] /\ y.code = code
  OBVIOUS
<1> HIDE DEF y
<1>6. Sound(asked[c], link[c], toServer[c], "none", r, "idle", <<>>, v, store)
  <2>1. /\ Typed(asked[c], link[c], toServer[c], loose[c], toClient[c], pc[c], hand[c], verdict[c])
        /\ Sound(asked[c], link[c], toServer[c], loose[c], toClient[c], pc[c], hand[c], verdict[c], store)
    BY <1>1, TypedAt DEF Safe
  <2>2. /\ pc[c] # "idle" /\ ~ Prompted(toClient[c]) /\ y.to = hand[c][1] /\ y.code \notin Prompts
        /\ y.code \in {235, 239, 240} => hand[c][1].id \in store
        /\ y.code \in {435, 438} => hand[c][1].id \in store \cup Junk
        /\ y \in Replies /\ link[c] \in {"open", "cut"}
    BY <1>2, <1>4, <1>5 DEF Fits
  <2> QED
    BY <2>1, <2>2, SoundDone
<1>7. <<>> \in Seq(Command) /\ "none" \in Articles
  BY SMT DEF Articles
<1>8. TypeOK'
  BY <1>1, <1>4, <1>7 DEF EndsWith, TypeOK, Discard, Done, Goto, client, backend
<1>9. Others(c)
  BY <1>1, <1>4 DEF EndsWith, TypeOK, Discard, Done, Goto, client, Others
<1>10. store' = store /\ AcceptedIsStored'
  BY <1>1 DEF EndsWith, AcceptedIsStored, client, backend
<1>11. /\ asked'[c] = asked[c] /\ link'[c] = link[c] /\ toServer'[c] = toServer[c]
       /\ loose'[c] = "none" /\ pc'[c] = "idle" /\ hand'[c] = <<>> /\ verdict'[c] = v
  BY <1>1 DEF EndsWith, TypeOK, Discard, Done, Goto, client
<1>12. Safe(c)'
  BY <1>4, <1>6, <1>10, <1>11 DEF Safe
<1> QED
  BY <1>8, <1>9, <1>10, <1>12, StepIInv

LEMMA EatRefusedIInv == ASSUME IInv, NEW c \in Conns, EatRefused(c) PROVE IInv'
<1>1. TypeOK /\ Safe(c) /\ pc[c] = "eat"
  BY DEF IInv, EatRefused
<1>2. ~ Prompted(toClient[c])
  BY <1>1 DEF Safe, Sound, Prompting
<1>3. Fits(c, 480)
  BY <1>1, <1>2, SMT DEF Fits, Prompts
<1>4. verdict' = [verdict EXCEPT ![c] = verdict[c]] /\ verdict[c] \in Verdict
  BY <1>1 DEF TypeOK, EatRefused
<1>5. EndsWith(c, 480, verdict[c])
  BY <1>4 DEF EatRefused, EndsWith
<1> QED
  BY <1>3, <1>4, <1>5, DoneIInv

LEMMA AnswerIInv == ASSUME IInv, NEW c \in Conns, Answer(c) PROVE IInv'
<1> DEFINE code == Outcome(cur(c).name, verdict[c])
<1>1. TypeOK /\ Safe(c) /\ pc[c] = "answer"
  BY DEF IInv, Answer
<1>2. ~ Prompted(toClient[c])
  BY <1>1 DEF Safe, Sound, Prompting
<1>3. /\ Len(hand[c]) = 1 /\ hand[c] \in Seq(Command) /\ hand[c][1].name # "CHECK"
      /\ ~ verdict[c].rejected /\ ~ verdict[c].failed => hand[c][1].id \in store
  BY <1>1 DEF Safe, Sound, Handled, TypeOK
<1>4. cur(c) = hand[c][1] /\ hand[c][1] \in Command
  BY <1>3, SMT DEF cur
<1>5. cur(c).name \in {"POST", "IHAVE", "TAKETHIS"}
  BY <1>3, <1>4 DEF Command
<1>6. /\ code \in {235, 239, 240, 436, 437, 439, 441}
      /\ code \in {235, 239, 240} => ~ verdict[c].rejected /\ ~ verdict[c].failed
  BY <1>5, SMT DEF Outcome
<1> HIDE DEF code
<1>7. Fits(c, code)
  BY <1>1, <1>2, <1>3, <1>6, SMT DEF Fits, Prompts
<1>8. verdict' = [verdict EXCEPT ![c] = NoVerdict] /\ NoVerdict \in Verdict
  BY DEF Answer, Verdicts, NoVerdict, Verdict
<1>9. EndsWith(c, code, NoVerdict)
  BY <1>8 DEF Answer, EndsWith, code
<1> QED
  BY <1>7, <1>8, <1>9, DoneIInv

LEMMA PerformIInv == ASSUME IInv, NEW c \in Conns, Perform(c) PROVE IInv'
<1>1. TypeOK /\ Safe(c) /\ AcceptedIsStored /\ pc[c] = "perform"
  BY DEF IInv, Perform
<1>2. /\ Len(hand[c]) = 1 /\ hand[c] \in Seq(Command) /\ hand[c][1].name # "CHECK"
  BY <1>1 DEF Safe, Sound, Handled, TypeOK
<1>3. cur(c) = hand[c][1] /\ hand[c][1] \in Command /\ hand[c][1].id \in Ids
  <2>1. cur(c) = hand[c][1] /\ hand[c][1] \in Command
    BY <1>2, SMT DEF cur
  <2> QED
    BY <2>1 DEF Command
<1>4. ~ Prompted(toClient[c])
  <2>1. CASE ArticleThere(c)
    BY <1>1, <2>1 DEF Safe, Sound, Prompting, ArticleThere
  <2>2. CASE AtEnd(c)
    <3>1. toClient[c] = <<>>
      BY <1>1, <2>2 DEF Safe, Sound, Closed, AtEnd
    <3>2. \A n \in 1 .. Len(<<>>) : FALSE
      BY SMT
    <3> QED
      BY <3>1, <3>2 DEF Prompted
  <2> QED
    BY <2>1, <2>2 DEF Perform
<1>5. PICK v \in Verdict :
        /\ verdict' = [verdict EXCEPT ![c] = v]
        /\ \/ (v.rejected \/ v.failed) /\ store' = store /\ whole' = whole
           \/ /\ Wanted(cur(c).id) /\ store' = store \cup {cur(c).id}
              /\ whole' \in {whole, whole \cup {cur(c).id}}
  <2>1. \A x, f \in BOOLEAN : [rejected |-> x, failed |-> f] \in Verdict
    BY DEF Verdict
  <2>2. CASE \E f \in BOOLEAN : Verdicts(c, TRUE, f) /\ UNCHANGED backend
    <3>1. PICK f \in BOOLEAN : Verdicts(c, TRUE, f) /\ UNCHANGED backend
      BY <2>2
    <3> QED
      BY <2>1, <3>1 DEF Verdicts, backend
  <2>3. CASE Verdicts(c, FALSE, TRUE) /\ UNCHANGED backend
    BY <2>1, <2>3 DEF Verdicts, backend
  <2>4. CASE /\ Wanted(cur(c).id) /\ Verdicts(c, FALSE, FALSE) /\ store' = store \cup {cur(c).id}
             /\ whole' = IF loose[c] = "whole" THEN whole \cup {cur(c).id} ELSE whole
    BY <2>1, <2>4 DEF Verdicts
  <2> QED
    BY <2>2, <2>3, <2>4 DEF Perform
<1>6. /\ store' \subseteq Ids \ Junk /\ whole' \subseteq store' /\ store \subseteq store'
      /\ (~ v.rejected /\ ~ v.failed => hand[c][1].id \in store')
  BY <1>1, <1>3, <1>5 DEF TypeOK, Wanted
<1>7. TypeOK'
  BY <1>1, <1>5, <1>6 DEF TypeOK, Perform, Goto, client, network
<1>8. Others(c)
  BY <1>1, <1>5 DEF TypeOK, Perform, Goto, client, network, Others
<1>9. AcceptedIsStored'
  BY <1>1, <1>6 DEF AcceptedIsStored, Perform, client
<1>10. /\ asked'[c] = asked[c] /\ link'[c] = link[c] /\ toServer'[c] = toServer[c]
       /\ loose'[c] = loose[c] /\ toClient'[c] = toClient[c] /\ pc'[c] = "answer"
       /\ hand'[c] = hand[c] /\ verdict'[c] = v
  BY <1>1, <1>5 DEF TypeOK, Perform, Goto, client, network
<1>11. Sound(asked[c], link[c], toServer[c], loose[c], toClient[c], "answer", hand[c], v, store')
  <2>1. Sound(asked[c], link[c], toServer[c], loose[c], toClient[c], "perform", hand[c], verdict[c], store')
    BY <1>1, <1>6, SoundMono DEF Safe
  <2>2. Handled(loose[c], "answer", hand[c], v, store')
    BY <1>2, <1>6 DEF Handled
  <2>3. Closed(asked[c], link[c], toServer[c], loose[c], toClient[c], "answer")
    BY <2>1 DEF Sound, Closed
  <2> QED
    BY <1>4, <2>1, <2>2, <2>3 DEF Sound, Prompting
<1>12. Safe(c)'
  BY <1>10, <1>11 DEF Safe
<1> QED
  BY <1>6, <1>7, <1>8, <1>9, <1>12, StepIInv

LEMMA ServerNoticesIInv == ASSUME IInv, NEW c \in Conns, ServerNotices(c) PROVE IInv'
<1>1. TypeOK /\ Safe(c) /\ AcceptedIsStored /\ link[c] = "cut"
  BY DEF IInv, ServerNotices
<1>2. asked[c] = <<>> /\ toClient[c] = <<>>
  BY <1>1 DEF Safe, Sound, Closed
<1>3. /\ [rejected |-> FALSE, failed |-> FALSE] \in Verdict /\ <<>> \in Seq(Command)
      /\ "none" \in Articles
  BY SMT DEF Verdict, Articles
<1>4. TypeOK'
  BY <1>1, <1>3 DEF TypeOK, ServerNotices, Goto, Verdicts, client, backend
<1>5. Others(c)
  BY <1>1 DEF TypeOK, ServerNotices, Goto, Verdicts, client, Others
<1>6. store' = store /\ AcceptedIsStored'
  BY <1>1 DEF AcceptedIsStored, ServerNotices, client, backend
<1>7. /\ asked'[c] = <<>> /\ link'[c] = "free" /\ toServer'[c] = <<>> /\ loose'[c] = "none"
      /\ toClient'[c] = <<>> /\ pc'[c] = "idle" /\ hand'[c] = <<>>
  BY <1>1, <1>2 DEF TypeOK, ServerNotices, Goto, client
<1>8. Safe(c)'
  BY <1>7, SoundEmpty DEF Safe
<1> QED
  BY <1>4, <1>5, <1>6, <1>8, StepIInv

-----------------------------------------------------------------------------
LEMMA NextIInv == IInv /\ [Next]_vars => IInv'
<1> SUFFICES ASSUME IInv, [Next]_vars PROVE IInv'
  OBVIOUS
<1>1. ASSUME NEW c \in Conns, Client(c) PROVE IInv'
  BY <1>1, ConnectIInv, ReadPromptIInv, ReadReplyIInv, SeeEndIInv, SendAloneIInv, SendAheadIInv
     DEF Client
<1>2. ASSUME NEW c \in Conns, Break(c) PROVE IInv'
  BY <1>2, BreakIInv
<1>3. ASSUME NEW c \in Conns, Server(c) PROVE IInv'
  BY <1>3, HandlePostIInv, HandleIHaveIInv, HandleCheckIInv, TakethisUnnamedIInv, HandleTakethisIInv,
     EatRefusedIInv, PerformIInv, AnswerIInv, ServerNoticesIInv DEF Server
<1>4. ASSUME UNCHANGED vars PROVE IInv'
  BY <1>4 DEF vars, IInv, TypeOK, AcceptedIsStored, Safe
<1> QED
  BY <1>1, <1>2, <1>3, <1>4 DEF Next

LEMMA InductiveIInv == Spec => []IInv
BY InitIInv, NextIInv, PTL DEF Spec

\* The types of the model's variables; the store holds nothing the backend refuses.
THEOREM PostingTypeOK == Spec => []TypeOK
<1>1. IInv => TypeOK
  BY DEF IInv
<1> QED
  BY <1>1, InductiveIInv, PTL

\* The server never takes the lines of an article for commands, however many
\* connections there are, and wherever they break.
THEOREM ArticlesAreEaten == Spec => []InSync
<1>1. IInv => InSync
  BY DEF IInv, Safe, Sound, Handled, InSync
<1> QED
  BY <1>1, InductiveIInv, PTL

\* A sequence of at most one element is it.
LEMMA One ==
  ASSUME NEW S, NEW s \in Seq(S), Len(s) = 1
  PROVE  s = <<s[1]>>
<1>1. <<s[1]>> \in Seq(S) /\ Len(<<s[1]>>) = 1 /\ <<s[1]>>[1] = s[1]
  BY SMT
<1>2. \A i \in 1 .. Len(s) : i = 1
  BY SMT
<1> QED
  BY <1>1, <1>2, SeqEqual

\* Three parts of a sequence, laid end to end.
LEMMA Parts3 ==
  ASSUME NEW a \in Seq(Command), NEW f \in Seq(Command), NEW h \in Seq(Command), NEW q \in Seq(Command),
         Len(a) = Len(f) + Len(h) + Len(q),
         \A n \in 1 .. Len(f) : f[n] = a[n],
         \A n \in 1 .. Len(h) : a[Len(f) + n] = h[n],
         \A n \in 1 .. Len(q) : a[Len(f) + Len(h) + n] = q[n]
  PROVE  a = f \o h \o q
<1> DEFINE u == f \o h
           w == u \o q
<1>1. Len(f) \in Nat /\ Len(h) \in Nat /\ Len(q) \in Nat
  OBVIOUS
<1>2. /\ u \in Seq(Command) /\ Len(u) = Len(f) + Len(h)
      /\ \A i \in 1 .. Len(f) + Len(h) : u[i] = IF i <= Len(f) THEN f[i] ELSE h[i - Len(f)]
  BY ConcatProperties
<1> HIDE DEF u
<1>3. /\ w \in Seq(Command) /\ Len(w) = Len(u) + Len(q)
      /\ \A i \in 1 .. Len(u) + Len(q) : w[i] = IF i <= Len(u) THEN u[i] ELSE q[i - Len(u)]
  BY <1>2, ConcatProperties
<1> HIDE DEF w
<1>4. ASSUME NEW i \in 1 .. Len(a) PROVE a[i] = w[i]
  <2>1. CASE i <= Len(f)
    <3>1. i \in 1 .. Len(f) /\ i <= Len(u) /\ i \in 1 .. Len(u) + Len(q) /\ i \in 1 .. Len(f) + Len(h)
      BY <2>1, <1>1, <1>2, SMT
    <3> QED
      BY <3>1, <2>1, <1>2, <1>3
  <2>2. CASE i > Len(f) /\ i <= Len(u)
    <3>1. /\ i - Len(f) \in 1 .. Len(h) /\ Len(f) + (i - Len(f)) = i /\ ~ (i <= Len(f))
          /\ i \in 1 .. Len(u) + Len(q) /\ i \in 1 .. Len(f) + Len(h)
      BY <2>2, <1>1, <1>2, SMT
    <3> QED
      BY <3>1, <2>2, <1>2, <1>3
  <2>3. CASE i > Len(u)
    <3>1. /\ i - Len(u) \in 1 .. Len(q) /\ Len(f) + Len(h) + (i - Len(u)) = i /\ ~ (i <= Len(u))
          /\ i \in 1 .. Len(u) + Len(q)
      BY <2>3, <1>1, <1>2, SMT
    <3> QED
      BY <3>1, <2>3, <1>2, <1>3
  <2> QED
    BY <2>1, <2>2, <2>3, <1>1, <1>2, SMT
<1>5. Len(a) = Len(w)
  BY <1>2, <1>3
<1>6. a = w
  BY <1>3, <1>4, <1>5, SeqEqual
<1> QED
  BY <1>6 DEF u, w

\* Every command gets its one reply, in order, and a prompt comes alone.
THEOREM EveryCommandIsAnswered == Spec => []RepliesPaired
<1>1. ASSUME IInv, NEW c \in Conns, link[c] = "open"
      PROVE  PromptAlone(c) /\ asked[c] = Finals(c) \o hand[c] \o toServer[c]
  <2> DEFINE r == toClient[c]
             a == asked[c]
             h == hand[c]
             q == toServer[c]
  <2>1. /\ a \in Seq(Command) /\ h \in Seq(Command) /\ q \in Seq(Command) /\ r \in Seq(Replies)
        /\ DOMAIN r = 1 .. Len(r) /\ Len(r) \in Nat
    BY <1>1 DEF IInv, TypeOK
  <2>2. /\ Prompting(a, q, loose[c], r, pc[c], h) /\ Paired(a, "open", q, r, h)
        /\ Closed(a, "open", q, loose[c], r, pc[c])
    BY <1>1 DEF IInv, Safe, Sound
  <2> HIDE DEF r, a, h, q
  <2>3. CASE Prompted(r)
    <3>1. Len(r) = 1 /\ Len(a) = 1 /\ Len(h) = 1 /\ Len(q) = 0 /\ pc[c] = "perform" /\ a[1] = h[1]
      BY <2>2, <2>3 DEF Prompting
    <3>2. a = <<a[1]>> /\ h = <<h[1]>> /\ q = <<>>
      BY <2>1, <3>1, One, EmptySeq
    <3>3. ASSUME NEW n \in 1 .. Len(r) PROVE a = <<r[n].to>>
      <4>1. n = 1
        BY <3>1, SMT
      <4>2. r[n].to = a[n]
        BY <2>2 DEF Paired
      <4> QED
        BY <3>2, <4>1, <4>2
    <3>4. PromptAlone(c)
      BY <2>1, <3>1, <3>3 DEF PromptAlone, r, a
    <3>5. Finals(c) = <<>>
      BY <2>1, <2>3 DEF Finals, Prompted, r
    <3>6. a = h
      BY <3>1, <3>2
    <3>7. <<>> \o h = h /\ h \o <<>> = h
      BY <2>1, ConcatEmptySeq
    <3>8. a = <<>> \o h \o q
      BY <3>2, <3>6, <3>7
    <3> QED
      BY <3>4, <3>5, <3>8 DEF a, h, q
  <2>4. CASE ~ Prompted(r)
    <3>1. /\ \A n \in 1 .. Len(r) : n <= Len(a) /\ r[n].to = a[n]
          /\ Len(a) = Len(r) + Len(h) + Len(q)
          /\ \A n \in 1 .. Len(h) : a[Len(r) + n] = h[n]
          /\ \A n \in 1 .. Len(q) : a[Len(r) + Len(h) + n] = q[n]
      BY <2>2, <2>4 DEF Paired
    <3>2. PromptAlone(c)
      BY <2>1, <2>4 DEF PromptAlone, Prompted, r
    <3> DEFINE f == [n \in 1 .. Len(r) |-> r[n].to]
    <3>3. Finals(c) = f
      BY <2>1, <2>4 DEF Finals, Prompted, r
    <3>4. \A y \in Replies : y.to \in Command
      BY DEF Replies
    <3>5. \A n \in 1 .. Len(r) : r[n] \in Replies
      BY <2>1
    <3>6. f \in [1 .. Len(r) -> Command]
      BY <3>4, <3>5
    <3>7. f \in Seq(Command) /\ Len(f) = Len(r) /\ \A n \in 1 .. Len(r) : f[n] = r[n].to
      BY <2>1, <3>6, SMT
    <3> HIDE DEF f
    <3>8. /\ Len(a) = Len(f) + Len(h) + Len(q)
          /\ \A n \in 1 .. Len(f) : f[n] = a[n]
          /\ \A n \in 1 .. Len(h) : a[Len(f) + n] = h[n]
          /\ \A n \in 1 .. Len(q) : a[Len(f) + Len(h) + n] = q[n]
      BY <3>1, <3>7
    <3>9. a = f \o h \o q
      BY <2>1, <3>7, <3>8, Parts3
    <3> QED
      BY <3>2, <3>3, <3>9 DEF a, h, q
  <2> QED
    BY <2>3, <2>4
<1>2. IInv => RepliesPaired
  BY <1>1 DEF RepliesPaired
<1> QED
  BY <1>2, InductiveIInv, PTL

\* What the client was told of an article is so.
THEOREM AcceptedArticlesAreStored == Spec => []AcceptedIsStored
<1>1. IInv => AcceptedIsStored
  BY DEF IInv
<1> QED
  BY <1>1, InductiveIInv, PTL
=============================================================================
