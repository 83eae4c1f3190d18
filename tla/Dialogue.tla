------------------------------ MODULE Dialogue ------------------------------
(***************************************************************************)
(* Commands and responses of one session, for every command but the        *)
(* posting ones (see Posting): a client that sends commands ahead of their *)
(* responses, servceConn with its table of handlers, and what each handler *)
(* answers.  The doc comment of a handler lists the responses a client may *)
(* count on; with them it decides which response belongs to which command  *)
(* and whether a block follows.                                            *)
(*                                                                         *)
(* Of the session only what decides between responses is kept: whether a   *)
(* group is selected, whether there is a current article, and whether a    *)
(* user name has been given.  What the backend finds is its own choice.    *)
(***************************************************************************)
EXTENDS Naturals, Sequences

CONSTANTS
  Commands,       \* the commands this client sends
  Window          \* bound: commands sent ahead of their responses; a client that
                  \* sends has no more than that on the way, in either direction

(***************************************************************************)
(* A command is its verb, its keyword and the kind of its argument.        *)
(***************************************************************************)
Cmd(vs, ks, as) == [verb : vs, key : ks, arg : as]

Articles  == {"article", "head", "body"}
Simple    == {"unknown", "capabilities", "quit", "last", "next", "date", "help", "newgroups"}
Forms     == {"none", "number", "id"}
nntpCommands ==
  Cmd(Simple, {"none"}, {"none"})
  \cup Cmd({"group", "listgroup"}, {"none"}, {"none", "name"})
  \cup Cmd(Articles \cup {"stat", "over"}, {"none"}, Forms)
  \cup Cmd({"hdr"}, {"known", "unknown"}, Forms) \cup Cmd({"hdr"}, {"none"}, {"none"})
  \cup Cmd({"mode", "list"}, {"none", "known", "unknown"}, {"none"})
  \cup Cmd({"authinfo"}, {"user", "pass", "unknown"}, {"word"})
  \cup Cmd({"authinfo"}, {"none"}, {"none"})

ASSUME DialogueAssumption == Commands \subseteq nntpCommands /\ Window \in Nat \ {0}

VARIABLES
  link,           \* "open", "ended" by the server, "crashed" with the whole server, "gone"
  asked,          \* the commands the client waits for
  toServer,       \* those the server has not read yet
  toClient,       \* the responses on the way, each with the command it answers
  group,          \* h.group # nil
  current,        \* len(h.groupCurId) # 0
  named,          \* len(h.userName) # 0
  twice           \* history: some command of this session was answered twice

session == <<group, current, named>>
vars == <<link, asked, toServer, toClient, group, current, named, twice>>

Response == [code : 100 .. 599, block : BOOLEAN, to : Commands]

TypeOK ==
  /\ link \in {"open", "ended", "crashed", "gone"}
  /\ asked \in Seq(Commands)
  /\ toServer \in Seq(Commands)
  /\ toClient \in Seq(Response)
  /\ group \in BOOLEAN /\ current \in BOOLEAN /\ named \in BOOLEAN /\ twice \in BOOLEAN
  /\ current => group

Init ==
  /\ link = "open"
  /\ asked = <<>> /\ toServer = <<>> /\ toClient = <<>>
  /\ group = FALSE /\ current = FALSE /\ named = FALSE /\ twice = FALSE

-----------------------------------------------------------------------------
(* The client *)

\* Bound: what a client sends in a session that has misled it is not followed.
Send(cmd) ==
  /\ link = "open" /\ ~ twice
  /\ Len(asked) < Window /\ Len(toServer) < Window /\ Len(toClient) < Window
  /\ asked' = Append(asked, cmd)
  /\ toServer' = Append(toServer, cmd)
  /\ UNCHANGED <<link, toClient, session, twice>>

\* It takes a response for the one to the first command it waits for.
Receive ==
  /\ toClient # <<>>
  /\ toClient' = Tail(toClient)
  /\ asked' = IF asked = <<>> THEN asked ELSE Tail(asked)
  /\ UNCHANGED <<link, toServer, session, twice>>

SeeEnd ==
  /\ link \in {"ended", "crashed"} /\ toClient = <<>>
  /\ asked' = <<>>
  /\ link' = "gone"
  /\ UNCHANGED <<toServer, toClient, session, twice>>

\* The client closes the connection, or it breaks; the server finds out later.
Leave ==
  /\ link = "open"
  /\ link' = "gone"
  /\ asked' = <<>> /\ toServer' = <<>> /\ toClient' = <<>>
  /\ UNCHANGED <<session, twice>>

\* A new connection; the pooled nntpHandler has been released in between.
Connect ==
  /\ link = "gone"
  /\ link' = "open"
  /\ group' = FALSE /\ current' = FALSE /\ named' = FALSE /\ twice' = FALSE
  /\ UNCHANGED <<asked, toServer, toClient>>

-----------------------------------------------------------------------------
(***************************************************************************)
(* The server.  A handler reads its command and writes its responses.      *)
(***************************************************************************)
Handles(vs) == link = "open" /\ toServer # <<>> /\ Head(toServer).verb \in vs
cmd == Head(toServer)
arg == cmd.arg

Line(n)  == [code |-> n, block |-> FALSE, to |-> cmd]
Block(n) == [code |-> n, block |-> TRUE, to |-> cmd]

Write(rs) ==
  /\ toServer' = Tail(toServer)
  /\ toClient' = toClient \o rs

\* The usual case: one response, and the loop goes on.
Answer(r) == Write(<<r>>) /\ UNCHANGED <<link, asked, twice>>
Stays     == UNCHANGED session

\* The end of the session: what is still on the way to the server is lost.
End(rs, l) ==
  /\ toServer' = <<>>
  /\ toClient' = toClient \o rs
  /\ link' = l
  /\ UNCHANGED <<asked, session, twice>>

\* The errors of errorcode.go that these handlers write.
Err ==
  [ NoSuchGroup |-> 411, NoGroupSelected |-> 412, NoCurrentArticle |-> 420, NoNextArticle |-> 421,
    NoPreviousArticle |-> 422, InvalidArticleNumber |-> 423, InvalidArticleRange |-> 423,
    InvalidMessageID |-> 430, UnknownCommand |-> 500, Syntax |-> 501 ]

handleDefault == Handles({"unknown"}) /\ Answer(Line(Err.UnknownCommand)) /\ Stays

\* A fault for the mutants: the session goes on after QUIT.
handleQuit_GoesOn == Handles({"quit"}) /\ Answer(Line(205)) /\ Stays

handleQuit == Handles({"quit"}) /\ End(<<Line(205)>>, "ended")

handleCapabilities == Handles({"capabilities"}) /\ Answer(Block(215)) /\ Stays
handleDate         == Handles({"date"})         /\ Answer(Line(111))  /\ Stays
handleHelp         == Handles({"help"})         /\ Answer(Block(100)) /\ Stays
handleNewgroups    == Handles({"newgroups"})    /\ Answer(Block(231)) /\ Stays

\* A fault for the mutants: an unknown keyword is read and not answered.
handleMode_Silent ==
  /\ Handles({"mode"})
  /\ \/ cmd.key = "known" /\ Answer(Line(200))
     \/ cmd.key # "known" /\ Write(<<>>) /\ UNCHANGED <<link, asked, twice>>
  /\ Stays

handleMode ==
  /\ Handles({"mode"})
  /\ \/ cmd.key = "known" /\ Answer(Line(200))
     \/ cmd.key # "known" /\ Answer(Line(Err.Syntax))
  /\ Stays

\* Without a keyword LIST is LIST ACTIVE.  What the backend's ListGroups returns
\* is not looked at, and a wildmat that does not compile is no wildmat.
handleList ==
  /\ Handles({"list"})
  /\ \/ cmd.key # "unknown" /\ Answer(Block(215))
     \/ cmd.key = "unknown" /\ Answer(Line(Err.Syntax))
  /\ Stays

handleListgroup ==
  /\ Handles({"listgroup"})
  /\ \/ (arg = "name" \/ group) /\ Answer(Block(211))
     \/ arg = "name" /\ Answer(Line(Err.NoSuchGroup))
     \/ arg = "none" /\ ~ group /\ Answer(Line(Err.NoGroupSelected))
  /\ Stays

handleGroup ==
  /\ Handles({"group"})
  /\ \/ Answer(Line(Err.NoSuchGroup)) /\ UNCHANGED <<group, current>>
     \/ arg = "name" /\ Answer(Line(211)) /\ group' = TRUE /\ current' \in BOOLEAN
  /\ UNCHANGED named

\* A fault for the mutants: the two codes are confused.
Moves_Swapped == [last |-> Err.NoNextArticle, next |-> Err.NoPreviousArticle]

\* LAST and NEXT.
Moves == [last |-> Err.NoPreviousArticle, next |-> Err.NoNextArticle]

handleLastNext ==
  /\ Handles(DOMAIN Moves)
  /\ \/ ~ group /\ Answer(Line(Err.NoGroupSelected)) /\ UNCHANGED current
     \/ group /\ Answer(Line(Moves[cmd.verb])) /\ UNCHANGED current
     \/ group /\ Answer(Line(223)) /\ current' = TRUE
  /\ UNCHANGED <<group, named>>

handleStat ==
  /\ Handles({"stat"})
  /\ \/ arg # "id" /\ ~ group /\ Answer(Line(Err.NoGroupSelected)) /\ UNCHANGED current
     \/ arg = "none" /\ group /\ ~ current /\ Answer(Line(Err.NoCurrentArticle)) /\ UNCHANGED current
     \/ arg = "none" /\ group /\ current /\ Answer(Line(223)) /\ UNCHANGED current
     \/ arg = "number" /\ group /\ Answer(Line(Err.InvalidArticleNumber)) /\ UNCHANGED current
     \/ arg = "number" /\ group /\ Answer(Line(223)) /\ current' \in {current, TRUE}
     \/ arg = "id" /\ (Answer(Line(Err.InvalidMessageID)) \/ Answer(Line(223))) /\ UNCHANGED current
  /\ UNCHANGED <<group, named>>

ArticleCode == [article |-> 220, head |-> 221, body |-> 222]
handleArticleInternal ==
  /\ Handles(Articles)
  /\ \/ arg # "id" /\ ~ group /\ Answer(Line(Err.NoGroupSelected)) /\ UNCHANGED current
     \/ arg = "none" /\ group /\ Answer(Line(Err.NoCurrentArticle)) /\ UNCHANGED current
     \/ arg = "none" /\ group /\ current /\ Answer(Block(ArticleCode[cmd.verb])) /\ UNCHANGED current
     \/ arg = "number" /\ group /\ Answer(Line(Err.InvalidArticleNumber)) /\ UNCHANGED current
     \/ arg = "number" /\ group /\ Answer(Block(ArticleCode[cmd.verb])) /\ current' \in {current, TRUE}
     \/ arg = "id" /\ (Answer(Line(Err.InvalidMessageID)) \/ Answer(Block(ArticleCode[cmd.verb]))) /\ UNCHANGED current
  /\ UNCHANGED <<group, named>>

\* What handleHeaders answers, for OVER and HDR alike.
handleHeaders ==
  CASE arg # "id" /\ ~ group             -> {Line(Err.NoGroupSelected)}
    [] arg = "none" /\ group /\ ~ current -> {Line(Err.NoCurrentArticle)}
    [] arg = "none" /\ group /\ current   -> {Line(Err.NoCurrentArticle), Block(224)}
    [] arg = "number" /\ group            -> {Line(Err.InvalidArticleRange), Block(224)}
    [] arg = "id"                         -> {Line(Err.InvalidMessageID), Block(224)}

handleXOver == Handles({"over"}) /\ (\E r \in handleHeaders : Answer(r)) /\ Stays

\* The error of a missing or unknown field is written, and the handler goes on:
\* without a field it indexes an empty slice, and the whole server ends.
handleXHdr ==
  /\ Handles({"hdr"})
  /\ \/ cmd.key = "known" /\ (\E r \in handleHeaders : Answer(r)) /\ Stays
     \/ /\ cmd.key = "unknown"
        /\ \E r \in handleHeaders : Write(<<Line(Err.Syntax), r>>)
        /\ twice' = TRUE
        /\ UNCHANGED <<link, asked>> /\ Stays
     \/ cmd.key = "none" /\ End(<<Line(Err.Syntax)>>, "crashed")

\* AuthinfoDone, AuthinfoUserOny and AuthinfoUserPass decide.
handleAuthInfo ==
  /\ Handles({"authinfo"})
  /\ \/ cmd.key = "none" /\ Answer(Line(Err.Syntax)) /\ UNCHANGED named
     \/ cmd.key # "none" /\ Answer(Line(502)) /\ UNCHANGED named
     \/ cmd.key = "user" /\ Answer(Line(281)) /\ UNCHANGED named
     \/ cmd.key = "user" /\ Answer(Line(381)) /\ named' = TRUE
     \/ cmd.key = "pass" /\ ~ named /\ Answer(Line(482)) /\ UNCHANGED named
     \/ cmd.key = "pass" /\ named /\ (Answer(Line(281)) \/ Answer(Line(481))) /\ UNCHANGED named
     \/ cmd.key = "unknown" /\ Answer(Block(100)) /\ UNCHANGED named
  /\ UNCHANGED <<group, current>>

-----------------------------------------------------------------------------
Server ==
  \/ handleDefault \/ handleQuit \/ handleCapabilities \/ handleDate \/ handleHelp \/ handleNewgroups
  \/ handleMode \/ handleList \/ handleListgroup \/ handleGroup \/ handleLastNext \/ handleStat
  \/ handleArticleInternal \/ handleXOver \/ handleXHdr \/ handleAuthInfo

Next == (\E c \in Commands : Send(c)) \/ Receive \/ SeeEnd \/ Leave \/ Connect \/ Server

Spec == Init /\ [][Next]_vars

\* The goroutine of the connection runs, and the client reads.
FairSpec == Spec /\ WF_vars(Server) /\ WF_vars(Receive \/ SeeEnd)

-----------------------------------------------------------------------------
(***************************************************************************)
(* The responses that the doc comments of the handlers and of the errors   *)
(* list, each with whether a block follows.                                *)
(***************************************************************************)
One(ns)  == ns \X {FALSE}
Many(ns) == ns \X {TRUE}

\* The three forms of the commands that take an article.
ByForm(found, a) == found \cup CASE a = "id"     -> One({430})
                                 [] a = "number" -> One({412, 423})
                                 [] a = "none"   -> One({412, 420})

Listed(c) ==
  CASE c.verb = "unknown"      -> One({500})
    [] c.verb = "capabilities" -> Many({101})
    [] c.verb = "mode"         -> One({200, 201, 502})
    [] c.verb = "quit"         -> One({205})
    [] c.verb = "group"        -> One({211, 411})
    [] c.verb = "listgroup"    -> Many({211}) \cup One({IF c.arg = "none" THEN 412 ELSE 411})
    [] c.verb = "last"         -> One({223, 412, 420, 422})
    [] c.verb = "next"         -> One({223, 412, 420, 421})
    [] c.verb = "stat"         -> ByForm(One({223}), c.arg)
    [] c.verb \in Articles     -> ByForm(Many({ArticleCode[c.verb]}), c.arg)
    [] c.verb = "over"         -> ByForm(Many({224}), c.arg)
    [] c.verb = "hdr"          -> ByForm(Many({225}), c.arg)
    [] c.verb = "date"         -> One({111})
    [] c.verb = "help"         -> Many({100})
    [] c.verb = "newgroups"    -> Many({231})
    [] c.verb = "list"         -> Many({215})
    [] c.verb = "authinfo"     -> One({281, 381, 481, 482, 502})

\* "ErrSyntax is returned when a command can't be parsed." (errorcode.go:65)
Keyed == {"mode", "list", "hdr", "authinfo"}
Unparsed(c) == IF c.verb \in Keyed /\ c.key \in {"none", "unknown"} THEN One({501}) ELSE {}

\* Where the code answers otherwise than its comments say: CAPABILITIES with the
\* code of LIST, HDR with that of OVER, and an unknown AUTHINFO keyword with the
\* help text.
Deviating(c) ==
  CASE c.verb = "capabilities" -> Many({215})
    [] c.verb = "hdr"          -> Many({224})
    [] c.verb = "authinfo"     -> IF c.key = "unknown" THEN Many({100}) ELSE {}
    [] OTHER                   -> {}

-----------------------------------------------------------------------------
(* Safety *)

\* Every command gets one response, in the order of the commands: while the
\* session lasts, those the client waits for are the ones with a response on the
\* way and then the ones the server has not read; behind QUIT nothing is answered.
\* HDR breaks this: of an unknown field it makes two responses, and without a
\* field it ends the server behind the first (handleXHdr, nntpdecoder.go:1093-1101).
Answered == [n \in DOMAIN toClient |-> toClient[n].to]
EndedBy(verb) ==
  /\ Len(toClient) <= Len(asked)
  /\ Answered = SubSeq(asked, 1, Len(toClient))
  /\ toClient # <<>> => Answered[Len(toClient)].verb = verb
Paired ==
  ~ twice =>
    /\ link = "open" => /\ asked = Answered \o toServer
                        /\ \A n \in DOMAIN Answered : Answered[n].verb # "quit"
    /\ link = "ended" => EndedBy("quit")
    /\ link = "crashed" => EndedBy("hdr")

\* The response that the client takes for the one to a command is among those
\* the comments list for that command, but for three commands, and has a block just
\* when it expects one; as long as it knows which response belongs to which.
CodesFit ==
  ~ twice => \A n \in DOMAIN toClient :
    /\ n <= Len(asked)
    /\ <<toClient[n].code, toClient[n].block>> \in
         Listed(asked[n]) \cup Unparsed(asked[n]) \cup Deviating(asked[n])

(* Liveness *)

\* A client with a full window gets to send again, or sees the end.
WindowMoves == Len(asked) = Window ~> Len(asked) < Window
=============================================================================
