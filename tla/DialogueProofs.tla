-------------------------- MODULE DialogueProofs --------------------------
(***************************************************************************)
(* Proofs about Dialogue, for every set of commands that the client sends  *)
(* and every window.                                                       *)
(***************************************************************************)
EXTENDS Dialogue, SequenceTheorems, TLAPS

\* The response is one that the comments list for the command it answers.
Fits(r) == <<r.code, r.block>> \in Listed(r.to) \cup Unparsed(r.to) \cup Deviating(r.to)

(***************************************************************************)
(* Paired, position by position.                                           *)
(***************************************************************************)
Behind(verb) == toClient # <<>> => toClient[Len(toClient)].to.verb = verb
InOrder ==
  /\ Len(toClient) <= Len(asked)
  /\ \A n \in 1 .. Len(toClient) : asked[n] = toClient[n].to
Aligned ==
  /\ link = "open" =>
       /\ InOrder
       /\ Len(asked) = Len(toClient) + Len(toServer)
       /\ \A n \in 1 .. Len(toServer) : asked[Len(toClient) + n] = toServer[n]
       /\ \A n \in 1 .. Len(toClient) : toClient[n].to.verb # "quit"
  /\ link = "ended" => InOrder /\ Behind("quit")
  /\ link = "crashed" => InOrder /\ Behind("hdr")

(***************************************************************************)
(* The invariant.  Nothing is left over for the next connection: at the    *)
(* end of a session the server has nothing more to read, and at the end of *)
(* a connection nothing is on the way.                                     *)
(***************************************************************************)
DialogueInv ==
  /\ TypeOK
  /\ \A n \in 1 .. Len(toClient) : Fits(toClient[n])
  /\ link # "open" => toServer = <<>>
  /\ link = "gone" => asked = <<>> /\ toClient = <<>>
  /\ ~ twice => Aligned

-----------------------------------------------------------------------------
(***************************************************************************)
(* The table: each handler's responses are among those that the comments   *)
(* list.                                                                   *)
(***************************************************************************)
LEMMA CmdForms ==
  ASSUME NEW c \in nntpCommands
  PROVE  /\ c.verb \in Simple \cup {"group", "listgroup"} \cup Articles
                       \cup {"stat", "over", "hdr", "mode", "list", "authinfo"}
         /\ c.verb \in {"group", "listgroup"} => c.arg \in {"none", "name"}
         /\ c.verb \in Articles \cup {"stat", "over", "hdr"} => c.arg \in Forms
         /\ c.verb \in {"hdr", "mode", "list"} => c.key \in {"none", "known", "unknown"}
         /\ c.verb = "authinfo" => c.key \in {"none", "user", "pass", "unknown"}
BY DEF nntpCommands, Cmd, Simple, Articles, Forms

Allowed(c) == Listed(c) \cup Unparsed(c) \cup Deviating(c)

LEMMA TableByVerb ==
  ASSUME NEW c \in nntpCommands
  PROVE  /\ c.verb = "unknown"      => One({500}) \subseteq Allowed(c)
         /\ c.verb = "capabilities" => Many({215}) \subseteq Allowed(c)
         /\ c.verb = "mode"         => One({200, 201, 502}) \subseteq Allowed(c)
         /\ c.verb = "quit"         => One({205}) \subseteq Allowed(c)
         /\ c.verb = "group"        => One({211, 411}) \subseteq Allowed(c)
         /\ c.verb = "last"         => One({223, 412, 420, 422}) \subseteq Allowed(c)
         /\ c.verb = "next"         => One({223, 412, 420, 421}) \subseteq Allowed(c)
         /\ c.verb = "date"         => One({111}) \subseteq Allowed(c)
         /\ c.verb = "help"         => Many({100}) \subseteq Allowed(c)
         /\ c.verb = "newgroups"    => Many({231}) \subseteq Allowed(c)
         /\ c.verb = "list"         => Many({215}) \subseteq Allowed(c)
         /\ c.verb = "authinfo"     => One({281, 381, 481, 482, 502}) \subseteq Allowed(c)
<1>1. c.verb = "capabilities" => Many({215}) \subseteq Allowed(c)
  BY DEF Allowed, Deviating
<1> QED BY <1>1 DEF Allowed, Listed, Articles

\* A keyword that is missing or not known, or help for that of AUTHINFO.
LEMMA TableByKey ==
  ASSUME NEW c \in nntpCommands
  PROVE  /\ c.verb \in {"mode", "list", "hdr"} /\ c.key # "known" => One({501}) \subseteq Allowed(c)
         /\ c.verb = "authinfo" /\ c.key = "none" => One({501}) \subseteq Allowed(c)
         /\ c.verb = "authinfo" /\ c.key = "unknown" => Many({100}) \subseteq Allowed(c)
<1>1. c.verb \in {"mode", "list", "hdr"} /\ c.key # "known" => One({501}) = Unparsed(c)
  BY CmdForms DEF Unparsed, Keyed
<1>2. c.verb = "authinfo" /\ c.key = "none" => One({501}) = Unparsed(c)
  BY DEF Unparsed, Keyed
<1>3. c.verb = "authinfo" /\ c.key = "unknown" => Many({100}) = Deviating(c)
  BY DEF Deviating
<1> QED BY <1>1, <1>2, <1>3 DEF Allowed

LEMMA TableOfListgroup ==
  ASSUME NEW c \in nntpCommands, c.verb = "listgroup"
  PROVE  /\ Many({211}) \subseteq Allowed(c)
         /\ c.arg = "name" => One({411}) \subseteq Allowed(c)
         /\ c.arg = "none" => One({412}) \subseteq Allowed(c)
<1>1. Listed(c) = Many({211}) \cup One({IF c.arg = "none" THEN 412 ELSE 411})
  BY DEF Listed, Articles
<1>2. CASE c.arg = "none"
  BY <1>1, <1>2 DEF Allowed
<1>3. CASE c.arg # "none"
  BY <1>1, <1>3 DEF Allowed
<1> QED BY <1>2, <1>3

\* The three forms of the commands about articles.
LEMMA TableByForm ==
  ASSUME NEW c \in nntpCommands, c.verb \in Articles \cup {"stat", "over", "hdr"}
  PROVE  /\ c.arg \in Forms
         /\ c.arg = "id"     => One({430}) \subseteq Allowed(c)
         /\ c.arg = "number" => One({412, 423}) \subseteq Allowed(c)
         /\ c.arg = "none"   => One({412, 420}) \subseteq Allowed(c)
<1>1. PICK found : Listed(c) = ByForm(found, c.arg)
  BY DEF Listed, Articles
<1>2. c.arg \in Forms
  BY CmdForms
<1>3. ByForm(found, c.arg) \subseteq Allowed(c)
  BY <1>1 DEF Allowed
<1>4. CASE c.arg = "id"
  BY <1>2, <1>3, <1>4 DEF ByForm
<1>5. CASE c.arg = "number"
  BY <1>2, <1>3, <1>5 DEF ByForm
<1>6. CASE c.arg = "none"
  BY <1>2, <1>3, <1>6 DEF ByForm
<1> QED BY <1>2, <1>4, <1>5, <1>6 DEF Forms

LEMMA TableOfFound ==
  ASSUME NEW c \in nntpCommands
  PROVE  /\ c.verb = "stat" => One({223}) \subseteq Allowed(c)
         /\ c.verb \in Articles => Many({ArticleCode[c.verb]}) \subseteq Allowed(c)
         /\ c.verb \in {"over", "hdr"} => Many({224}) \subseteq Allowed(c)
<1>1. c.verb \in Articles \cup {"stat", "over"} => c.arg \in Forms
  BY CmdForms
<1>2. \A found : c.arg \in Forms => found \subseteq ByForm(found, c.arg)
  BY DEF ByForm, Forms
<1>3. /\ c.verb = "stat" => Listed(c) = ByForm(One({223}), c.arg)
      /\ c.verb \in Articles => Listed(c) = ByForm(Many({ArticleCode[c.verb]}), c.arg)
      /\ c.verb = "over" => Listed(c) = ByForm(Many({224}), c.arg)
      /\ c.verb = "hdr" => Deviating(c) = Many({224})
  BY DEF Listed, Articles, Deviating
<1> QED BY <1>1, <1>2, <1>3 DEF Allowed

-----------------------------------------------------------------------------
(***************************************************************************)
(* The shapes of a handler: one response and the session goes on, one and  *)
(* it ends, or two.                                                        *)
(***************************************************************************)
Single(r) == r \in Response /\ r.to = cmd /\ Fits(r)

Others == (Simple \ {"quit"}) \cup {"group", "listgroup"} \cup Articles
          \cup {"stat", "over", "hdr", "mode", "list", "authinfo"}

AnswersOnce == \E r \in Response : Single(r) /\ Answer(r)
Shaped      == /\ group' \in BOOLEAN /\ current' \in BOOLEAN /\ named' \in BOOLEAN
               /\ current' => group'

Once     == Handles(Others) /\ AnswersOnce /\ Shaped
Ends(l)  == \E r \in Response : Single(r) /\ End(<<r>>, l)
Twofold  == /\ Handles({"hdr"})
            /\ \E q, r \in Response : Single(q) /\ Single(r) /\ Write(<<q, r>>)
            /\ twice' = TRUE
            /\ UNCHANGED <<link, asked, session>>

LEMMA HeadCommand ==
  ASSUME TypeOK, NEW vs, Handles(vs)
  PROVE  cmd \in Commands /\ cmd \in nntpCommands /\ cmd.verb \in vs
<1>1. cmd \in Commands
  BY HeadTailProperties DEF TypeOK, cmd, Handles
<1>2. cmd.verb \in vs
  BY DEF Handles, cmd
<1> QED BY <1>1, <1>2, DialogueAssumption

LEMMA LineSingle ==
  ASSUME cmd \in Commands, NEW ns, One(ns) \subseteq Allowed(cmd), NEW n \in ns, n \in 100 .. 599
  PROVE  Single(Line(n))
<1>1. Line(n) = [code |-> n, block |-> FALSE, to |-> cmd]
  BY DEF Line
<1>2. <<n, FALSE>> \in Allowed(cmd)
  BY DEF One
<1> QED BY <1>1, <1>2 DEF Single, Fits, Response, Allowed

LEMMA BlockSingle ==
  ASSUME cmd \in Commands, NEW ns, Many(ns) \subseteq Allowed(cmd), NEW n \in ns, n \in 100 .. 599
  PROVE  Single(Block(n))
<1>1. Block(n) = [code |-> n, block |-> TRUE, to |-> cmd]
  BY DEF Block
<1>2. <<n, TRUE>> \in Allowed(cmd)
  BY DEF Many
<1> QED BY <1>1, <1>2 DEF Single, Fits, Response, Allowed

LEMMA LineOnce ==
  ASSUME cmd \in Commands, NEW ns, One(ns) \subseteq Allowed(cmd), NEW n \in ns, n \in 100 .. 599,
         Answer(Line(n))
  PROVE  AnswersOnce
BY LineSingle DEF AnswersOnce, Single

LEMMA BlockOnce ==
  ASSUME cmd \in Commands, NEW ns, Many(ns) \subseteq Allowed(cmd), NEW n \in ns, n \in 100 .. 599,
         Answer(Block(n))
  PROVE  AnswersOnce
BY BlockSingle DEF AnswersOnce, Single

LEMMA SimpleOnce ==
  ASSUME TypeOK,
         \/ handleDefault \/ handleCapabilities \/ handleDate \/ handleHelp \/ handleNewgroups
         \/ handleMode \/ handleList
  PROVE  Once
<1>1. Handles(Others) /\ UNCHANGED session
  BY DEF handleDefault, handleCapabilities, handleDate, handleHelp, handleNewgroups,
     handleMode, handleList, Handles, Stays, Others, Simple
<1>2. cmd \in Commands /\ cmd \in nntpCommands
  BY <1>1, HeadCommand
<1>3. Err.UnknownCommand = 500 /\ Err.Syntax = 501
  BY DEF Err
<1>4. Shaped
  BY <1>1 DEF Shaped, session, TypeOK
<1>5. CASE handleDefault
  <2>1. cmd.verb = "unknown" /\ Answer(Line(500))
    BY <1>3, <1>5, HeadCommand DEF handleDefault
  <2> QED BY <1>1, <1>2, <1>4, <2>1, TableByVerb, LineOnce DEF Once
<1>6. CASE handleCapabilities
  <2>1. cmd.verb = "capabilities" /\ Answer(Block(215))
    BY <1>6, HeadCommand DEF handleCapabilities
  <2> QED BY <1>1, <1>2, <1>4, <2>1, TableByVerb, BlockOnce DEF Once
<1>7. CASE handleDate
  <2>1. cmd.verb = "date" /\ Answer(Line(111))
    BY <1>7, HeadCommand DEF handleDate
  <2> QED BY <1>1, <1>2, <1>4, <2>1, TableByVerb, LineOnce DEF Once
<1>8. CASE handleHelp
  <2>1. cmd.verb = "help" /\ Answer(Block(100))
    BY <1>8, HeadCommand DEF handleHelp
  <2> QED BY <1>1, <1>2, <1>4, <2>1, TableByVerb, BlockOnce DEF Once
<1>9. CASE handleNewgroups
  <2>1. cmd.verb = "newgroups" /\ Answer(Block(231))
    BY <1>9, HeadCommand DEF handleNewgroups
  <2> QED BY <1>1, <1>2, <1>4, <2>1, TableByVerb, BlockOnce DEF Once
<1>10. CASE handleMode
  <2>1. cmd.verb = "mode"
    BY <1>10, HeadCommand DEF handleMode
  <2>2. CASE Answer(Line(200))
    BY <1>1, <1>2, <1>4, <2>1, <2>2, TableByVerb, LineOnce DEF Once
  <2>3. CASE cmd.key # "known" /\ Answer(Line(501))
    BY <1>1, <1>2, <1>4, <2>1, <2>3, TableByKey, LineOnce DEF Once
  <2> QED BY <1>3, <1>10, <2>2, <2>3 DEF handleMode
<1>11. CASE handleList
  <2>1. cmd.verb = "list"
    BY <1>11, HeadCommand DEF handleList
  <2>2. CASE Answer(Block(215))
    BY <1>1, <1>2, <1>4, <2>1, <2>2, TableByVerb, BlockOnce DEF Once
  <2>3. CASE cmd.key # "known" /\ Answer(Line(501))
    BY <1>1, <1>2, <1>4, <2>1, <2>3, TableByKey, LineOnce DEF Once
  <2> QED BY <1>3, <1>11, <2>2, <2>3 DEF handleList
<1> QED BY <1>5, <1>6, <1>7, <1>8, <1>9, <1>10, <1>11

\* The numbers of the errors.
LEMMA ErrNumbers ==
  /\ Err.NoSuchGroup = 411 /\ Err.NoGroupSelected = 412 /\ Err.NoCurrentArticle = 420
  /\ Err.NoNextArticle = 421 /\ Err.NoPreviousArticle = 422
  /\ Err.InvalidArticleNumber = 423 /\ Err.InvalidArticleRange = 423
  /\ Err.InvalidMessageID = 430 /\ Err.UnknownCommand = 500 /\ Err.Syntax = 501
BY DEF Err

LEMMA StaysShaped ==
  ASSUME TypeOK, UNCHANGED session
  PROVE  Shaped
BY DEF TypeOK, session, Shaped

\* A handler that leaves the group alone finds a current article only with a group.
LEMMA MovesShaped ==
  ASSUME TypeOK, UNCHANGED <<group, named>>, current' = current \/ (group /\ current' \in BOOLEAN)
  PROVE  Shaped
<1>1. CASE current' = current
  BY <1>1 DEF TypeOK, Shaped
<1>2. CASE group /\ current' \in BOOLEAN
  BY <1>2, Zenon DEF TypeOK, Shaped
<1> QED BY <1>1, <1>2

LEMMA GroupsOnce ==
  ASSUME TypeOK, handleListgroup \/ handleGroup
  PROVE  Once
<1>1. Handles(Others)
  BY DEF handleListgroup, handleGroup, Handles, Others
<1>2. cmd \in Commands /\ cmd \in nntpCommands
  BY <1>1, HeadCommand
<1>3. CASE handleListgroup
  <2>1. cmd.verb = "listgroup" /\ arg = cmd.arg
    BY <1>3, HeadCommand DEF handleListgroup, arg
  <2>2. Shaped
    BY <1>3, StaysShaped DEF handleListgroup, Stays
  <2>3. CASE Answer(Block(211))
    BY <1>1, <1>2, <2>1, <2>2, <2>3, TableOfListgroup, BlockOnce DEF Once
  <2>4. CASE arg = "name" /\ Answer(Line(411))
    <3>1. One({411}) \subseteq Allowed(cmd)
      BY <1>2, <2>1, <2>4, TableOfListgroup
    <3> QED BY <1>1, <1>2, <2>2, <2>4, <3>1, LineOnce DEF Once
  <2>5. CASE arg = "none" /\ Answer(Line(412))
    <3>1. One({412}) \subseteq Allowed(cmd)
      BY <1>2, <2>1, <2>5, TableOfListgroup
    <3> QED BY <1>1, <1>2, <2>2, <2>5, <3>1, LineOnce DEF Once
  <2> QED BY <1>3, <2>3, <2>4, <2>5, ErrNumbers DEF handleListgroup
<1>4. CASE handleGroup
  <2>1. cmd.verb = "group"
    BY <1>4, HeadCommand DEF handleGroup
  <2>2. Shaped
    <3>1. CASE UNCHANGED <<group, current, named>>
      BY <3>1, StaysShaped DEF session
    <3>2. CASE group' = TRUE /\ current' \in BOOLEAN /\ named' = named
      BY <3>2, Zenon DEF Shaped, TypeOK
    <3> QED BY <1>4, <3>1, <3>2 DEF handleGroup
  <2>3. Answer(Line(411)) \/ Answer(Line(211))
    BY <1>4, ErrNumbers DEF handleGroup
  <2> QED BY <1>1, <1>2, <2>1, <2>2, <2>3, TableByVerb, LineOnce DEF Once
<1> QED BY <1>3, <1>4

LEMMA LastNextOnce ==
  ASSUME TypeOK, handleLastNext
  PROVE  Once
<1>1. Handles({"last", "next"})
  BY DEF handleLastNext, Moves, Handles
<1>2. Handles(Others)
  BY <1>1 DEF Handles, Others, Simple
<1>3. cmd \in Commands /\ cmd \in nntpCommands /\ cmd.verb \in {"last", "next"}
  BY <1>1, HeadCommand
<1>4. Moves["last"] = 422 /\ Moves["next"] = 421
  BY ErrNumbers DEF Moves
<1>5. Shaped
  BY MovesShaped DEF handleLastNext
<1>6. \E n \in {412, 223, Moves[cmd.verb]} : Answer(Line(n))
  BY ErrNumbers DEF handleLastNext
<1>7. CASE cmd.verb = "last"
  BY <1>2, <1>3, <1>4, <1>5, <1>6, <1>7, TableByVerb, LineOnce DEF Once
<1>8. CASE cmd.verb = "next"
  BY <1>2, <1>3, <1>4, <1>5, <1>6, <1>8, TableByVerb, LineOnce DEF Once
<1> QED BY <1>3, <1>7, <1>8

\* What the handlers of one article answer, STAT with a line and the others with a block.
LEMMA ArticlesOnce ==
  ASSUME TypeOK, handleStat \/ handleArticleInternal
  PROVE  Once
<1> DEFINE A == Allowed(cmd)
<1>1. Handles({"stat"} \cup Articles) /\ Handles(Others)
  BY DEF handleStat, handleArticleInternal, Handles, Others
<1>2. cmd \in Commands /\ cmd \in nntpCommands /\ cmd.verb \in {"stat"} \cup Articles /\ arg = cmd.arg
  BY <1>1, HeadCommand DEF arg
<1>3. /\ arg \in Forms
      /\ arg = "id" => One({430}) \subseteq A
      /\ arg = "number" => One({412, 423}) \subseteq A
      /\ arg = "none" => One({412, 420}) \subseteq A
  BY <1>2, TableByForm
<1>4. Shaped
  <2>1. current' = current \/ (group /\ (current' = current \/ current' = TRUE))
    BY DEF handleStat, handleArticleInternal
  <2> QED BY <2>1, MovesShaped DEF handleStat, handleArticleInternal
<1>5. CASE arg # "id" /\ Answer(Line(412))
  <2>1. CASE arg = "number"
    BY <1>1, <1>2, <1>3, <1>4, <1>5, <2>1, LineOnce DEF Once
  <2>2. CASE arg = "none"
    BY <1>1, <1>2, <1>3, <1>4, <1>5, <2>2, LineOnce DEF Once
  <2> QED BY <1>3, <1>5, <2>1, <2>2 DEF Forms
<1>6. CASE arg = "none" /\ Answer(Line(420))
  <2>1. One({412, 420}) \subseteq A
    BY <1>3, <1>6
  <2> QED BY <1>1, <1>2, <1>4, <1>6, <2>1, LineOnce DEF Once
<1>7. CASE arg = "number" /\ Answer(Line(423))
  BY <1>1, <1>2, <1>3, <1>4, <1>7, LineOnce DEF Once
<1>8. CASE arg = "id" /\ Answer(Line(430))
  BY <1>1, <1>2, <1>3, <1>4, <1>8, LineOnce DEF Once
<1>9. CASE cmd.verb = "stat" /\ Answer(Line(223))
  <2>1. One({223}) \subseteq A
    BY <1>2, <1>9, TableOfFound
  <2>2. AnswersOnce
    BY <1>2, <1>9, <2>1, LineOnce
  <2> QED BY <1>1, <1>4, <2>2 DEF Once
<1>10. CASE cmd.verb \in Articles /\ Answer(Block(ArticleCode[cmd.verb]))
  <2>1. ArticleCode[cmd.verb] \in 100 .. 599
    BY <1>10 DEF Articles, ArticleCode
  <2>2. Many({ArticleCode[cmd.verb]}) \subseteq A
    BY <1>2, <1>10, TableOfFound
  <2> QED BY <1>1, <1>2, <1>4, <1>10, <2>1, <2>2, BlockOnce DEF Once
<1>11. CASE handleStat
  <2>1. cmd.verb = "stat"
    BY <1>11, HeadCommand DEF handleStat
  <2> QED BY <1>5, <1>6, <1>7, <1>8, <1>9, <1>11, <2>1, ErrNumbers DEF handleStat
<1>12. CASE handleArticleInternal
  <2>1. cmd.verb \in Articles
    BY <1>12, HeadCommand DEF handleArticleInternal
  <2> QED BY <1>5, <1>6, <1>7, <1>8, <1>10, <1>12, <2>1, ErrNumbers DEF handleArticleInternal
<1> QED BY <1>11, <1>12

LEMMA HeadersSingle ==
  ASSUME TypeOK, Handles({"over", "hdr"}), NEW r \in handleHeaders
  PROVE  Single(r)
<1> DEFINE A == Allowed(cmd)
<1>1. cmd \in Commands /\ cmd \in nntpCommands /\ cmd.verb \in {"over", "hdr"} /\ arg = cmd.arg
  BY HeadCommand DEF arg
<1>2. /\ arg \in Forms
      /\ arg = "id" => One({430}) \subseteq A
      /\ arg = "number" => One({412, 423}) \subseteq A
      /\ arg = "none" => One({412, 420}) \subseteq A
      /\ Many({224}) \subseteq A
  <2>1. cmd.verb \in Articles \cup {"stat", "over", "hdr"}
    BY <1>1
  <2>2. Many({224}) \subseteq A
    BY <1>1, TableOfFound
  <2> QED BY <1>1, <2>1, <2>2, TableByForm
<1>3. Single(Block(224))
  BY <1>1, <1>2, BlockSingle
<1>4. arg = "id" => Single(Line(430))
  BY <1>1, <1>2, LineSingle
<1>5. arg = "number" => Single(Line(412)) /\ Single(Line(423))
  BY <1>1, <1>2, LineSingle
<1>6. arg = "none" => Single(Line(412)) /\ Single(Line(420))
  BY <1>1, <1>2, LineSingle
<1>7. CASE arg = "id"
  <2>1. r \in {Line(430), Block(224)}
    BY <1>7, ErrNumbers DEF handleHeaders
  <2> QED BY <1>3, <1>4, <1>7, <2>1
<1>8. CASE arg = "number"
  <2>1. r \in {Line(412), Line(423), Block(224)}
    BY <1>8, ErrNumbers DEF handleHeaders, TypeOK
  <2> QED BY <1>3, <1>5, <1>8, <2>1
<1>9. CASE arg = "none"
  <2>1. r \in {Line(412), Line(420), Block(224)}
    BY <1>9, ErrNumbers DEF handleHeaders, TypeOK
  <2> QED BY <1>3, <1>6, <1>9, <2>1
<1> QED BY <1>2, <1>7, <1>8, <1>9 DEF Forms


LEMMA OverOnce ==
  ASSUME TypeOK, handleXOver
  PROVE  Once
<1>1. Handles({"over", "hdr"}) /\ Handles(Others) /\ UNCHANGED session
  BY DEF handleXOver, Handles, Others, Stays
<1>2. PICK r \in handleHeaders : Answer(r)
  BY DEF handleXOver
<1>3. Single(r)
  BY <1>1, <1>2, HeadersSingle
<1>4. AnswersOnce
  BY <1>2, <1>3 DEF AnswersOnce, Single
<1> QED BY <1>1, <1>4, StaysShaped DEF Once

LEMMA HdrShapes ==
  ASSUME TypeOK, handleXHdr
  PROVE  \/ Once
         \/ Handles({"hdr"}) /\ Ends("crashed")
         \/ Twofold
<1>1. Handles({"hdr"}) /\ Handles({"over", "hdr"}) /\ Handles(Others)
  BY DEF handleXHdr, Handles, Others
<1>2. cmd \in Commands /\ cmd \in nntpCommands /\ cmd.verb = "hdr"
  BY <1>1, HeadCommand
<1>3. cmd.key # "known" => Single(Line(501))
  <2>1. HAVE cmd.key # "known"
  <2>2. One({501}) \subseteq Allowed(cmd)
    BY <1>2, <2>1, TableByKey
  <2> QED BY <1>2, <2>2, LineSingle
<1>4. CASE cmd.key = "known" /\ (\E r \in handleHeaders : Answer(r)) /\ Stays
  <2>1. AnswersOnce
    BY <1>1, <1>4, HeadersSingle DEF AnswersOnce, Single
  <2> QED BY <1>1, <1>4, <2>1, StaysShaped DEF Once, Stays
<1>5. CASE /\ cmd.key = "unknown"
           /\ \E r \in handleHeaders : Write(<<Line(501), r>>)
           /\ twice' = TRUE
           /\ UNCHANGED <<link, asked>> /\ Stays
  <2>1. Single(Line(501)) /\ Line(501) \in Response
    BY <1>3, <1>5 DEF Single
  <2>2. PICK r \in handleHeaders : Write(<<Line(501), r>>)
    BY <1>5
  <2>3. Single(r) /\ r \in Response
    BY <1>1, <2>2, HeadersSingle DEF Single
  <2>4. \E p, q \in Response : Single(p) /\ Single(q) /\ Write(<<p, q>>)
    BY <2>1, <2>2, <2>3
  <2> QED BY <1>1, <1>5, <2>4 DEF Twofold, Stays
<1>6. CASE cmd.key = "none" /\ End(<<Line(501)>>, "crashed")
  <2>1. Single(Line(501)) /\ Line(501) \in Response
    BY <1>3, <1>6 DEF Single
  <2> QED BY <1>1, <1>6, <2>1 DEF Ends
<1>7. Err.Syntax = 501
  BY ErrNumbers
<1> QED BY <1>4, <1>5, <1>6, <1>7 DEF handleXHdr

LEMMA QuitEnds ==
  ASSUME TypeOK, handleQuit
  PROVE  Handles({"quit"}) /\ Ends("ended")
<1>1. Handles({"quit"}) /\ End(<<Line(205)>>, "ended")
  BY DEF handleQuit
<1>2. cmd \in Commands /\ cmd \in nntpCommands /\ cmd.verb = "quit"
  BY <1>1, HeadCommand
<1>3. One({205}) \subseteq Allowed(cmd)
  BY <1>2, TableByVerb
<1>4. Single(Line(205)) /\ Line(205) \in Response
  BY <1>2, <1>3, LineSingle DEF Single
<1> QED BY <1>1, <1>4 DEF Ends

LEMMA AuthInfoOnce ==
  ASSUME TypeOK, handleAuthInfo
  PROVE  Once
<1>1. Handles({"authinfo"}) /\ Handles(Others)
  BY DEF handleAuthInfo, Handles, Others
<1>2. cmd \in Commands /\ cmd \in nntpCommands /\ cmd.verb = "authinfo"
  BY <1>1, HeadCommand
<1>3. Shaped
  <2>1. UNCHANGED <<group, current>> /\ (named' = named \/ named' = TRUE)
    BY DEF handleAuthInfo
  <2> QED BY <2>1, Zenon DEF TypeOK, Shaped
<1>4. CASE cmd.key = "none" /\ Answer(Line(501))
  <2>1. One({501}) \subseteq Allowed(cmd)
    BY <1>2, <1>4, TableByKey
  <2>2. AnswersOnce
    BY <1>2, <1>4, <2>1, LineOnce
  <2> QED BY <1>1, <1>3, <2>2 DEF Once
<1>5. CASE cmd.key = "unknown" /\ Answer(Block(100))
  <2>1. Many({100}) \subseteq Allowed(cmd)
    BY <1>2, <1>5, TableByKey
  <2>2. AnswersOnce
    BY <1>2, <1>5, <2>1, BlockOnce
  <2> QED BY <1>1, <1>3, <2>2 DEF Once
<1>6. CASE \E n \in {281, 381, 481, 482, 502} : Answer(Line(n))
  <2>1. One({281, 381, 481, 482, 502}) \subseteq Allowed(cmd)
    BY <1>2, TableByVerb
  <2>2. AnswersOnce
    BY <1>2, <1>6, <2>1, LineOnce
  <2> QED BY <1>1, <1>3, <2>2 DEF Once
<1> QED BY <1>4, <1>5, <1>6, ErrNumbers DEF handleAuthInfo

\* Every step of the server has one of the four shapes.
LEMMA ServerShapes ==
  ASSUME TypeOK, Server
  PROVE  \/ Once
         \/ Handles({"quit"}) /\ Ends("ended")
         \/ Handles({"hdr"}) /\ Ends("crashed")
         \/ Twofold
BY SimpleOnce, GroupsOnce, LastNextOnce, ArticlesOnce, OverOnce, HdrShapes, QuitEnds, AuthInfoOnce
   DEF Server

-----------------------------------------------------------------------------
(***************************************************************************)
(* The sequences, position by position.                                    *)
(***************************************************************************)
LEMMA OneMore ==
  ASSUME NEW S, NEW s \in Seq(S), NEW e \in S
  PROVE  LET t == s \o <<e>>
         IN  /\ t \in Seq(S)
             /\ Len(t) = Len(s) + 1
             /\ \A n \in 1 .. Len(s) : t[n] = s[n]
             /\ t[Len(s) + 1] = e
BY AppendIsConcat, AppendProperties

LEMMA OneAppended ==
  ASSUME NEW S, NEW s \in Seq(S), NEW e \in S
  PROVE  /\ Append(s, e) \in Seq(S)
         /\ Len(Append(s, e)) = Len(s) + 1
         /\ \A n \in 1 .. Len(s) : Append(s, e)[n] = s[n]
         /\ Append(s, e)[Len(s) + 1] = e
BY AppendProperties

LEMMA OneLess ==
  ASSUME NEW S, NEW s \in Seq(S), s # <<>>
  PROVE  /\ Tail(s) \in Seq(S)
         /\ Len(s) \in Nat \ {0}
         /\ Len(Tail(s)) = Len(s) - 1
         /\ \A n \in 1 .. Len(s) - 1 : Tail(s)[n] = s[n + 1]
         /\ Head(s) = s[1] /\ Head(s) \in S
BY HeadTailProperties, EmptySeq, LenProperties

LEMMA TwoParts ==
  ASSUME NEW S, NEW s \in Seq(S), NEW t \in Seq(S), NEW u \in Seq(S),
         Len(u) = Len(s) + Len(t),
         \A n \in 1 .. Len(s) : u[n] = s[n],
         \A n \in 1 .. Len(t) : u[Len(s) + n] = t[n]
  PROVE  u = s \o t
<1>1. Len(s) \in Nat /\ Len(t) \in Nat
  BY LenProperties
<1>2. /\ s \o t \in Seq(S) /\ Len(s \o t) = Len(s) + Len(t)
      /\ \A n \in 1 .. Len(s) + Len(t) : (s \o t)[n] = IF n <= Len(s) THEN s[n] ELSE t[n - Len(s)]
  BY ConcatProperties
<1>3. ASSUME NEW n \in 1 .. Len(u)
      PROVE  u[n] = (s \o t)[n]
  <2>1. CASE n <= Len(s)
    BY <1>1, <1>2, <2>1
  <2>2. CASE n > Len(s)
    <3>1. n - Len(s) \in 1 .. Len(t) /\ Len(s) + (n - Len(s)) = n
      BY <1>1, <2>2
    <3>2. u[n] = t[n - Len(s)]
      BY <3>1
    <3> QED BY <1>1, <1>2, <2>2, <3>2
  <2> QED BY <1>1, <2>1, <2>2
<1> QED BY <1>2, <1>3, SeqEqual

LEMMA Nothing ==
  ASSUME NEW S
  PROVE  <<>> \in Seq(S) /\ Len(<<>>) = 0
BY EmptySeq

-----------------------------------------------------------------------------
LEMMA ConnectionsKeep ==
  ASSUME DialogueInv, SeeEnd \/ Leave \/ Connect \/ UNCHANGED vars
  PROVE  DialogueInv'
<1> USE DEF DialogueInv
<1>1. CASE SeeEnd
  <2>1. TypeOK'
    BY <1>1, Nothing DEF SeeEnd, session, TypeOK
  <2> QED BY <1>1, <2>1 DEF SeeEnd, session, Aligned, TypeOK, Fits
<1>2. CASE Leave
  <2>1. TypeOK'
    BY <1>2, Nothing DEF Leave, session, TypeOK
  <2>2. Len(toClient') = 0
    BY <1>2, Nothing DEF Leave
  <2> QED BY <1>2, <2>1, <2>2 DEF Leave, Aligned
<1>3. CASE Connect
  <2>1. TypeOK'
    BY <1>3 DEF Connect, TypeOK
  <2>2. asked' = <<>> /\ toServer' = <<>> /\ toClient' = <<>> /\ link' = "open"
    BY <1>3 DEF Connect
  <2>3. Len(asked') = 0 /\ Len(toServer') = 0 /\ Len(toClient') = 0
    BY <2>2, Nothing
  <2>4. Aligned'
    BY <2>2, <2>3 DEF Aligned, InOrder
  <2> QED BY <2>1, <2>2, <2>3, <2>4
<1>4. CASE UNCHANGED vars
  BY <1>4 DEF vars, session, TypeOK, Aligned, InOrder, Behind, Fits
<1> QED BY <1>1, <1>2, <1>3, <1>4

LEMMA SendKeeps ==
  ASSUME DialogueInv, NEW c \in Commands, Send(c)
  PROVE  DialogueInv'
<1> USE DEF DialogueInv
<1>1. asked \in Seq(Commands) /\ toServer \in Seq(Commands) /\ toClient \in Seq(Response)
  BY DEF TypeOK
<1>2. /\ link = "open" /\ ~ twice
      /\ asked' = Append(asked, c) /\ toServer' = Append(toServer, c)
      /\ toClient' = toClient /\ link' = link /\ twice' = twice
  BY DEF Send
<1>3. /\ asked' \in Seq(Commands) /\ Len(asked') = Len(asked) + 1
      /\ \A n \in 1 .. Len(asked) : asked'[n] = asked[n]
      /\ asked'[Len(asked) + 1] = c
  BY <1>1, <1>2, OneAppended
<1>4. /\ toServer' \in Seq(Commands) /\ Len(toServer') = Len(toServer) + 1
      /\ \A n \in 1 .. Len(toServer) : toServer'[n] = toServer[n]
      /\ toServer'[Len(toServer) + 1] = c
  BY <1>1, <1>2, OneAppended
<1>5. Len(asked) \in Nat /\ Len(toServer) \in Nat /\ Len(toClient) \in Nat
  BY <1>1, LenProperties
<1>6. TypeOK'
  BY <1>2, <1>3, <1>4 DEF TypeOK, Send, session
<1>7. /\ InOrder
      /\ Len(asked) = Len(toClient) + Len(toServer)
      /\ \A n \in 1 .. Len(toServer) : asked[Len(toClient) + n] = toServer[n]
      /\ \A n \in 1 .. Len(toClient) : toClient[n].to.verb # "quit"
  BY <1>2 DEF Aligned
<1>8. InOrder'
  BY <1>2, <1>3, <1>5, <1>7 DEF InOrder
<1>9. \A n \in 1 .. Len(toServer') : asked'[Len(toClient') + n] = toServer'[n]
  <2> TAKE n \in 1 .. Len(toServer')
  <2>1. CASE n \in 1 .. Len(toServer)
    <3>1. Len(toClient) + n \in 1 .. Len(asked)
      BY <1>5, <1>7, <2>1
    <3> QED BY <1>2, <1>3, <1>4, <1>7, <2>1, <3>1
  <2>2. CASE n = Len(toServer) + 1
    <3>1. Len(toClient) + n = Len(asked) + 1
      BY <1>5, <1>7, <2>2
    <3> QED BY <1>2, <1>3, <1>4, <2>2, <3>1
  <2> QED BY <1>4, <1>5, <2>1, <2>2
<1>10. Aligned'
  BY <1>2, <1>3, <1>4, <1>5, <1>7, <1>8, <1>9 DEF Aligned
<1> QED BY <1>2, <1>6, <1>10 DEF Fits

LEMMA ReceiveKeeps ==
  ASSUME DialogueInv, Receive
  PROVE  DialogueInv'
<1> USE DEF DialogueInv
<1>1. asked \in Seq(Commands) /\ toServer \in Seq(Commands) /\ toClient \in Seq(Response)
  BY DEF TypeOK
<1>2. /\ toClient # <<>> /\ toClient' = Tail(toClient)
      /\ asked' = IF asked = <<>> THEN asked ELSE Tail(asked)
      /\ toServer' = toServer /\ link' = link /\ twice' = twice
  BY DEF Receive
<1>3. /\ toClient' \in Seq(Response) /\ Len(toClient') = Len(toClient) - 1
      /\ \A n \in 1 .. Len(toClient) - 1 : toClient'[n] = toClient[n + 1]
      /\ Len(toClient) \in Nat \ {0}
  BY <1>1, <1>2, OneLess
<1>4. Len(asked) \in Nat /\ Len(toServer) \in Nat
  BY <1>1, LenProperties
<1>5. asked' \in Seq(Commands)
  BY <1>1, <1>2, OneLess
<1>6. TypeOK'
  BY <1>2, <1>3, <1>5 DEF TypeOK, Receive, session
<1>7. \A n \in 1 .. Len(toClient') : toClient'[n] = toClient[n + 1] /\ n + 1 \in 1 .. Len(toClient)
  BY <1>3
<1>8. \A n \in 1 .. Len(toClient') : Fits(toClient[n + 1])
  BY <1>7
<1>9. ASSUME Aligned, link # "gone"
      PROVE  Aligned'
  <2>1. InOrder
    BY <1>9 DEF Aligned, TypeOK
  <2>2. asked # <<>>
    BY <1>3, <2>1, Nothing DEF InOrder
  <2>3. /\ Len(asked') = Len(asked) - 1
        /\ \A n \in 1 .. Len(asked) - 1 : asked'[n] = asked[n + 1]
    BY <1>1, <1>2, <2>2, OneLess
  <2>4. InOrder'
    <3>1. Len(toClient') <= Len(asked')
      BY <1>3, <1>4, <2>1, <2>3 DEF InOrder
    <3>2. ASSUME NEW n \in 1 .. Len(toClient')
          PROVE  asked'[n] = (toClient'[n]).to
      <4>1. n \in 1 .. Len(asked) - 1
        BY <1>3, <1>4, <2>3, <3>1
      <4> QED BY <1>7, <2>1, <2>3, <4>1 DEF InOrder
    <3> QED BY <3>1, <3>2 DEF InOrder
  <2>5. \A verb : Behind(verb) => Behind(verb)'
    <3> TAKE verb
    <3> HAVE Behind(verb)
    <3>1. CASE toClient' = <<>>
      BY <3>1 DEF Behind
    <3>2. CASE toClient' # <<>>
      <4>1. Len(toClient') \in 1 .. Len(toClient')
        BY <1>3, <3>2, EmptySeq, LenProperties
      <4>2. toClient'[Len(toClient')] = toClient[Len(toClient)]
        BY <1>3, <1>7, <4>1
      <4> QED BY <1>2, <4>2 DEF Behind
    <3> QED BY <3>1, <3>2
  <2>6. CASE link = "open"
    <3>1. Len(asked') = Len(toClient') + Len(toServer')
      BY <1>2, <1>3, <1>4, <1>9, <2>3, <2>6 DEF Aligned
    <3>2. ASSUME NEW n \in 1 .. Len(toServer')
          PROVE  asked'[Len(toClient') + n] = toServer'[n]
      <4>1. /\ Len(toClient') + n \in 1 .. Len(asked) - 1
            /\ (Len(toClient') + n) + 1 = Len(toClient) + n
        BY <1>2, <1>3, <1>4, <1>9, <2>3, <2>6 DEF Aligned
      <4> QED BY <1>2, <1>9, <2>3, <2>6, <4>1 DEF Aligned
    <3>3. ASSUME NEW n \in 1 .. Len(toClient')
          PROVE  (toClient'[n]).to.verb # "quit"
      BY <1>7, <1>9, <2>6 DEF Aligned
    <3> QED BY <1>2, <2>4, <2>6, <3>1, <3>2, <3>3 DEF Aligned
  <2>7. CASE link = "ended"
    BY <1>2, <1>9, <2>4, <2>5, <2>7 DEF Aligned
  <2>8. CASE link = "crashed"
    BY <1>2, <1>9, <2>4, <2>5, <2>8 DEF Aligned
  <2> QED BY <1>9, <2>6, <2>7, <2>8 DEF TypeOK
<1>10. link # "gone"
  BY <1>2
<1> QED BY <1>2, <1>6, <1>7, <1>8, <1>9, <1>10 DEF Fits

\* What every handler finds: a command at the head of what it reads.
LEMMA AtHead ==
  ASSUME DialogueInv, NEW vs, Handles(vs)
  PROVE  /\ link = "open" /\ cmd = toServer[1] /\ cmd \in Commands /\ cmd.verb \in vs
         /\ Tail(toServer) \in Seq(Commands)
         /\ Len(toServer) \in Nat \ {0} /\ Len(toClient) \in Nat /\ Len(asked) \in Nat
         /\ Len(Tail(toServer)) = Len(toServer) - 1
         /\ \A n \in 1 .. Len(toServer) - 1 : Tail(toServer)[n] = toServer[n + 1]
<1>1. toServer \in Seq(Commands) /\ toServer # <<>> /\ toClient \in Seq(Response) /\ asked \in Seq(Commands)
  BY DEF DialogueInv, TypeOK, Handles
<1>2. link = "open" /\ cmd = Head(toServer) /\ cmd.verb \in vs
  BY DEF Handles, cmd
<1> QED BY <1>1, <1>2, OneLess, LenProperties

\* A response behind the others keeps the order, when it is for the command at the head.
LEMMA NextInOrder ==
  ASSUME DialogueInv, ~ twice, NEW vs, Handles(vs), NEW r \in Response, Single(r),
         toClient' = toClient \o <<r>>, asked' = asked
  PROVE  /\ InOrder'
         /\ Len(toClient') = Len(toClient) + 1
         /\ toClient'[Len(toClient')] = r
         /\ toClient' \in Seq(Response)
<1>1. /\ link = "open" /\ cmd = toServer[1] /\ Len(toServer) \in Nat \ {0}
      /\ Len(toClient) \in Nat /\ Len(asked) \in Nat
  BY AtHead
<1>2. /\ InOrder
      /\ Len(asked) = Len(toClient) + Len(toServer)
      /\ \A n \in 1 .. Len(toServer) : asked[Len(toClient) + n] = toServer[n]
  BY <1>1 DEF DialogueInv, Aligned
<1>3. toClient \in Seq(Response)
  BY DEF DialogueInv, TypeOK
<1>4. /\ toClient' \in Seq(Response) /\ Len(toClient') = Len(toClient) + 1
      /\ \A n \in 1 .. Len(toClient) : toClient'[n] = toClient[n]
      /\ toClient'[Len(toClient) + 1] = r
  BY <1>3, OneMore
<1>5. asked[Len(toClient) + 1] = r.to
  BY <1>1, <1>2 DEF Single
<1>6. \A n \in 1 .. Len(toClient) + 1 : n \in 1 .. Len(toClient) \/ n = Len(toClient) + 1
  BY <1>1
<1>7. Len(toClient') <= Len(asked')
  BY <1>1, <1>2, <1>4
<1>8. \A n \in 1 .. Len(toClient') : asked'[n] = (toClient'[n]).to
  BY <1>2, <1>4, <1>5, <1>6 DEF InOrder
<1> QED BY <1>4, <1>7, <1>8 DEF InOrder

LEMMA OnceKeeps ==
  ASSUME DialogueInv, Once
  PROVE  DialogueInv'
<1>1. Handles(Others) /\ Shaped
  BY DEF Once
<1>2. PICK r \in Response : Single(r) /\ Answer(r)
  BY DEF Once, AnswersOnce
<1>3. /\ toServer' = Tail(toServer) /\ toClient' = toClient \o <<r>>
      /\ link' = link /\ asked' = asked /\ twice' = twice
  BY <1>2 DEF Answer, Write
<1>4. /\ link = "open" /\ cmd = toServer[1] /\ cmd \in Commands /\ cmd.verb \in Others
      /\ toServer' \in Seq(Commands)
      /\ Len(toServer) \in Nat \ {0} /\ Len(toClient) \in Nat /\ Len(asked) \in Nat
      /\ Len(toServer') = Len(toServer) - 1
      /\ \A n \in 1 .. Len(toServer) - 1 : toServer'[n] = toServer[n + 1]
  BY <1>1, <1>3, AtHead
<1>5. toClient \in Seq(Response) /\ \A n \in 1 .. Len(toClient) : Fits(toClient[n])
  BY DEF DialogueInv, TypeOK
<1>6. /\ toClient' \in Seq(Response) /\ Len(toClient') = Len(toClient) + 1
      /\ \A n \in 1 .. Len(toClient) : toClient'[n] = toClient[n]
      /\ toClient'[Len(toClient) + 1] = r
  BY <1>3, <1>5, OneMore
<1>7. \A n \in 1 .. Len(toClient) + 1 : n \in 1 .. Len(toClient) \/ n = Len(toClient) + 1
  BY <1>4
<1>8. TypeOK'
  BY <1>1, <1>3, <1>4, <1>6 DEF DialogueInv, TypeOK, Shaped
<1>9. \A n \in 1 .. Len(toClient') : Fits(toClient'[n])
  BY <1>2, <1>5, <1>6, <1>7 DEF Single
<1>10. ASSUME ~ twice
       PROVE  Aligned'
  <2>1. /\ Len(asked) = Len(toClient) + Len(toServer)
        /\ \A n \in 1 .. Len(toServer) : asked[Len(toClient) + n] = toServer[n]
        /\ \A n \in 1 .. Len(toClient) : toClient[n].to.verb # "quit"
    BY <1>4, <1>10 DEF DialogueInv, Aligned
  <2>2. InOrder'
    BY <1>1, <1>2, <1>3, <1>10, NextInOrder
  <2>3. Len(asked') = Len(toClient') + Len(toServer')
    BY <1>3, <1>4, <1>6, <2>1
  <2>4. ASSUME NEW n \in 1 .. Len(toServer')
        PROVE  asked'[Len(toClient') + n] = toServer'[n]
    <3>1. n + 1 \in 1 .. Len(toServer) /\ Len(toClient') + n = Len(toClient) + (n + 1)
      BY <1>4, <1>6
    <3> QED BY <1>3, <1>4, <2>1, <3>1
  <2>5. r.to.verb # "quit"
    BY <1>2, <1>4 DEF Single, Others, Articles, Simple
  <2>6. \A n \in 1 .. Len(toClient') : (toClient'[n]).to.verb # "quit"
    BY <1>6, <1>7, <2>1, <2>5
  <2> QED BY <1>3, <1>4, <2>2, <2>3, <2>4, <2>6 DEF Aligned
<1> QED BY <1>3, <1>4, <1>8, <1>9, <1>10 DEF DialogueInv, Fits

LEMMA EndsKeeps ==
  ASSUME DialogueInv, NEW v, NEW l, <<v, l>> \in {<<"quit", "ended">>, <<"hdr", "crashed">>},
         Handles({v}), Ends(l)
  PROVE  DialogueInv'
<1>1. PICK r \in Response : Single(r) /\ End(<<r>>, l)
  BY DEF Ends
<1>2. /\ toServer' = <<>> /\ toClient' = toClient \o <<r>> /\ link' = l
      /\ asked' = asked /\ UNCHANGED session /\ twice' = twice
  BY <1>1 DEF End
<1>3. (v = "quit" /\ l = "ended") \/ (v = "hdr" /\ l = "crashed")
  OBVIOUS
<1>4. Len(toClient) \in Nat /\ cmd.verb = v
  BY AtHead
<1>5. toClient \in Seq(Response) /\ \A n \in 1 .. Len(toClient) : Fits(toClient[n])
  BY DEF DialogueInv, TypeOK
<1>6. /\ toClient' \in Seq(Response) /\ Len(toClient') = Len(toClient) + 1
      /\ \A n \in 1 .. Len(toClient) : toClient'[n] = toClient[n]
      /\ toClient'[Len(toClient) + 1] = r
  BY <1>2, <1>5, OneMore
<1>7. \A n \in 1 .. Len(toClient) + 1 : n \in 1 .. Len(toClient) \/ n = Len(toClient) + 1
  BY <1>4
<1>8. TypeOK'
  BY <1>2, <1>3, <1>6, Nothing DEF DialogueInv, TypeOK, session
<1>9. \A n \in 1 .. Len(toClient') : Fits(toClient'[n])
  BY <1>1, <1>5, <1>6, <1>7 DEF Single
<1>10. ASSUME ~ twice
       PROVE  Aligned'
  <2>1. InOrder'
    BY <1>1, <1>2, <1>10, NextInOrder
  <2>2. Behind(v)'
    BY <1>1, <1>4, <1>6 DEF Behind, Single
  <2>3. CASE v = "quit" /\ l = "ended"
    BY <1>2, <2>1, <2>2, <2>3 DEF Aligned
  <2>4. CASE v = "hdr" /\ l = "crashed"
    BY <1>2, <2>1, <2>2, <2>4 DEF Aligned
  <2> QED BY <1>3, <2>3, <2>4
<1> QED BY <1>2, <1>3, <1>8, <1>9, <1>10 DEF DialogueInv, Fits

LEMMA TwofoldKeeps ==
  ASSUME DialogueInv, Twofold
  PROVE  DialogueInv'
<1>1. PICK q \in Response, r \in Response : Single(q) /\ Single(r) /\ Write(<<q, r>>)
  BY DEF Twofold
<1>2. /\ toServer' = Tail(toServer) /\ toClient' = toClient \o <<q, r>>
      /\ link' = link /\ asked' = asked /\ UNCHANGED session /\ twice' = TRUE
  BY <1>1 DEF Twofold, Write
<1>3. link = "open" /\ toServer' \in Seq(Commands) /\ Len(toClient) \in Nat
  BY <1>2, AtHead DEF Twofold
<1>4. toClient \in Seq(Response) /\ \A n \in 1 .. Len(toClient) : Fits(toClient[n])
  BY DEF DialogueInv, TypeOK
<1>5. /\ toClient' \in Seq(Response)
      /\ \A n \in 1 .. Len(toClient') : \/ n \in 1 .. Len(toClient) /\ toClient'[n] = toClient[n]
                                        \/ toClient'[n] \in {q, r}
  <2>1. /\ <<q, r>> \in Seq(Response) /\ Len(<<q, r>>) = 2
        /\ <<q, r>>[1] = q /\ <<q, r>>[2] = r
    OBVIOUS
  <2> HIDE <1>1
  <2>2. /\ toClient' \in Seq(Response) /\ Len(toClient') = Len(toClient) + 2
        /\ \A n \in 1 .. Len(toClient') :
             toClient'[n] = IF n <= Len(toClient) THEN toClient[n] ELSE <<q, r>>[n - Len(toClient)]
    BY <1>2, <1>4, <2>1, ConcatProperties
  <2>3. \A n \in 1 .. Len(toClient) + 2 : ~ (n <= Len(toClient)) => n - Len(toClient) \in {1, 2}
    BY <1>3
  <2> QED BY <1>3, <2>1, <2>2, <2>3
<1>6. TypeOK'
  BY <1>2, <1>3, <1>5 DEF DialogueInv, TypeOK, session
<1>7. \A n \in 1 .. Len(toClient') : Fits(toClient'[n])
  BY <1>1, <1>4, <1>5 DEF Single
<1> QED BY <1>2, <1>3, <1>6, <1>7 DEF DialogueInv, Fits

-----------------------------------------------------------------------------
LEMMA DialogueStarts == Init => DialogueInv
<1> SUFFICES ASSUME Init
             PROVE  DialogueInv
  OBVIOUS
<1>1. TypeOK
  BY Nothing DEF Init, TypeOK
<1>2. Len(asked) = 0 /\ Len(toServer) = 0 /\ Len(toClient) = 0
  BY Nothing DEF Init
<1>3. Aligned
  BY <1>2 DEF Init, Aligned, InOrder
<1> QED BY <1>1, <1>2, <1>3 DEF DialogueInv, Init

LEMMA DialogueSteps == DialogueInv /\ [Next]_vars => DialogueInv'
<1> SUFFICES ASSUME DialogueInv, [Next]_vars
             PROVE  DialogueInv'
  OBVIOUS
<1>1. CASE \E c \in Commands : Send(c)
  BY <1>1, SendKeeps
<1>2. CASE Receive
  BY <1>2, ReceiveKeeps
<1>3. CASE SeeEnd \/ Leave \/ Connect \/ UNCHANGED vars
  BY <1>3, ConnectionsKeep
<1>4. CASE Server
  <2>1. TypeOK
    BY DEF DialogueInv
  <2>2. <<"quit", "ended">> \in {<<"quit", "ended">>, <<"hdr", "crashed">>}
    OBVIOUS
  <2>3. <<"hdr", "crashed">> \in {<<"quit", "ended">>, <<"hdr", "crashed">>}
    OBVIOUS
  <2>4. CASE Once
    BY <2>4, OnceKeeps
  <2>5. CASE Handles({"quit"}) /\ Ends("ended")
    BY <2>2, <2>5, EndsKeeps
  <2>6. CASE Handles({"hdr"}) /\ Ends("crashed")
    BY <2>3, <2>6, EndsKeeps
  <2>7. CASE Twofold
    BY <2>7, TwofoldKeeps
  <2> QED BY <1>4, <2>1, <2>4, <2>5, <2>6, <2>7, ServerShapes
<1> QED BY <1>1, <1>2, <1>3, <1>4 DEF Next

\* The prefix of what the client waits for is what the responses are for.
LEMMA PrefixAnswered ==
  ASSUME TypeOK, InOrder
  PROVE  Answered = SubSeq(asked, 1, Len(toClient))
<1>1. toClient \in Seq(Response) /\ asked \in Seq(Commands) /\ Len(toClient) \in Nat /\ Len(asked) \in Nat
  BY LenProperties DEF TypeOK
<1>2. DOMAIN toClient = 1 .. Len(toClient)
  BY <1>1, LenProperties
<1>3. Answered = [n \in 1 .. Len(toClient) |-> asked[n]]
  BY <1>2 DEF Answered, InOrder
<1>4. \A n \in 1 .. Len(toClient) : asked[n] \in Commands
  BY <1>1, ElementOfSeq DEF InOrder
<1>5. /\ SubSeq(asked, 1, Len(toClient)) \in Seq(Commands)
      /\ Len(SubSeq(asked, 1, Len(toClient))) = Len(toClient)
      /\ \A n \in 1 .. Len(toClient) : SubSeq(asked, 1, Len(toClient))[n] = asked[n]
  BY <1>1, SubSeqProperties DEF InOrder
<1> DEFINE p == SubSeq(asked, 1, Len(toClient))
           a == [n \in 1 .. Len(toClient) |-> asked[n]]
<1>6. a \in Seq(Commands) /\ Len(a) = Len(toClient) /\ \A n \in 1 .. Len(toClient) : a[n] = asked[n]
  BY <1>1, <1>4
<1>7. a = p
  <2> HIDE DEF a, p
  <2> QED BY <1>5, <1>6, SeqEqual DEF p
<1> QED BY <1>3, <1>7

LEMMA AnsweredShape ==
  ASSUME TypeOK, InOrder
  PROVE  /\ Answered \in Seq(Commands) /\ Len(Answered) = Len(toClient)
         /\ DOMAIN Answered = 1 .. Len(toClient)
         /\ \A n \in 1 .. Len(toClient) : Answered[n] = toClient[n].to /\ Answered[n] = asked[n]
<1>1. toClient \in Seq(Response) /\ asked \in Seq(Commands) /\ Len(toClient) \in Nat /\ Len(asked) \in Nat
  BY LenProperties DEF TypeOK
<1>2. DOMAIN toClient = 1 .. Len(toClient)
  BY <1>1, LenProperties
<1>3. Answered = [n \in 1 .. Len(toClient) |-> toClient[n].to]
  BY <1>2 DEF Answered
<1>4. \A n \in 1 .. Len(toClient) : toClient[n].to \in Commands
  <2>1. \A n \in 1 .. Len(toClient) : toClient[n] \in Response
    BY <1>1, ElementOfSeq
  <2> QED BY <2>1 DEF Response
<1> QED BY <1>1, <1>3, <1>4 DEF InOrder

LEMMA AlignedPairs ==
  ASSUME TypeOK, ~ twice => Aligned
  PROVE  Paired
<1> SUFFICES ASSUME ~ twice
             PROVE  /\ link = "open" => /\ asked = Answered \o toServer
                                        /\ \A n \in DOMAIN Answered : Answered[n].verb # "quit"
                    /\ link = "ended" => EndedBy("quit")
                    /\ link = "crashed" => EndedBy("hdr")
  BY DEF Paired
<1>1. /\ asked \in Seq(Commands) /\ toServer \in Seq(Commands) /\ toClient \in Seq(Response)
      /\ Len(asked) \in Nat /\ Len(toServer) \in Nat /\ Len(toClient) \in Nat
  BY LenProperties DEF TypeOK
<1>2. ASSUME link = "open"
      PROVE  /\ asked = Answered \o toServer
             /\ \A n \in DOMAIN Answered : Answered[n].verb # "quit"
  <2>1. /\ InOrder
        /\ Len(asked) = Len(toClient) + Len(toServer)
        /\ \A n \in 1 .. Len(toServer) : asked[Len(toClient) + n] = toServer[n]
        /\ \A n \in 1 .. Len(toClient) : toClient[n].to.verb # "quit"
    BY <1>2 DEF Aligned
  <2>2. /\ Answered \in Seq(Commands) /\ Len(Answered) = Len(toClient)
        /\ DOMAIN Answered = 1 .. Len(toClient)
        /\ \A n \in 1 .. Len(toClient) : Answered[n] = toClient[n].to /\ Answered[n] = asked[n]
    BY <2>1, AnsweredShape
  <2>3. asked = Answered \o toServer
    <3>1. /\ Len(asked) = Len(Answered) + Len(toServer)
          /\ \A n \in 1 .. Len(Answered) : asked[n] = Answered[n]
          /\ \A n \in 1 .. Len(toServer) : asked[Len(Answered) + n] = toServer[n]
      BY <2>1, <2>2
    <3> QED BY <1>1, <2>2, <3>1, TwoParts
  <2> QED BY <2>1, <2>2, <2>3
<1>3. ASSUME NEW v, InOrder, Behind(v)
      PROVE  EndedBy(v)
  <2>1. Answered = SubSeq(asked, 1, Len(toClient))
    BY <1>3, PrefixAnswered
  <2>2. toClient # <<>> => Answered[Len(toClient)].verb = v
    <3>1. HAVE toClient # <<>>
    <3>2. Len(toClient) \in 1 .. Len(toClient)
      BY <1>1, <3>1, EmptySeq, LenProperties
    <3>3. Answered[Len(toClient)] = toClient[Len(toClient)].to
      BY <1>3, <3>2, AnsweredShape
    <3> QED BY <1>3, <3>1, <3>3 DEF Behind
  <2> QED BY <1>3, <2>1, <2>2 DEF EndedBy, InOrder
<1>4. link = "ended" => EndedBy("quit")
  BY <1>3 DEF Aligned
<1>5. link = "crashed" => EndedBy("hdr")
  BY <1>3 DEF Aligned
<1> QED BY <1>2, <1>4, <1>5

LEMMA FittingCodes ==
  ASSUME DialogueInv
  PROVE  CodesFit
<1> SUFFICES ASSUME ~ twice, NEW n \in DOMAIN toClient
             PROVE  /\ n <= Len(asked)
                    /\ <<toClient[n].code, toClient[n].block>> \in
                         Listed(asked[n]) \cup Unparsed(asked[n]) \cup Deviating(asked[n])
  BY DEF CodesFit
<1>1. toClient \in Seq(Response) /\ Len(toClient) \in Nat /\ Len(asked) \in Nat
  BY LenProperties DEF DialogueInv, TypeOK
<1>2. n \in 1 .. Len(toClient)
  BY <1>1, LenProperties
<1>3. link # "gone"
  BY <1>1, <1>2, Nothing DEF DialogueInv
<1>4. InOrder
  BY <1>3 DEF DialogueInv, Aligned, TypeOK
<1>5. n <= Len(asked) /\ asked[n] = toClient[n].to
  BY <1>1, <1>2, <1>4 DEF InOrder
<1>6. Fits(toClient[n])
  BY <1>2 DEF DialogueInv
<1> QED BY <1>5, <1>6 DEF Fits

-----------------------------------------------------------------------------
(* Theorems *)

\* The session keeps the types of its state, and never has a current article
\* without a group.
THEOREM TypeCorrect == Spec => []TypeOK
<1>1. DialogueInv => TypeOK
  BY DEF DialogueInv
<1> QED BY <1>1, DialogueStarts, DialogueSteps, PTL DEF Spec

\* While no command has been answered twice, the responses on the way are those to
\* the first commands that the client waits for, in their order, and the commands
\* not read are the others; nothing is answered behind QUIT, and behind HDR without
\* a field there is only the end of the server.
THEOREM ResponsesPair == Spec => []Paired
<1>1. DialogueInv => Paired
  BY AlignedPairs DEF DialogueInv
<1> QED BY <1>1, DialogueStarts, DialogueSteps, PTL DEF Spec

\* While no command has been answered twice, each response on the way has a code
\* that the comments list for the command the client takes it for, or one of the
\* three deviations, and a block just when that says so.
THEOREM CodesAreListed == Spec => []CodesFit
<1>1. DialogueInv => CodesFit
  BY FittingCodes
<1> QED BY <1>1, DialogueStarts, DialogueSteps, PTL DEF Spec
=============================================================================
