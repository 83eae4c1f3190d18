------------------------------ MODULE Posting ------------------------------
(***************************************************************************)
(* The posting commands of nntpdecoder.go (POST, IHAVE, CHECK, TAKETHIS):  *)
(* a client that feeds articles to the server over several connections, of *)
(* which each may break at any time, with the commands it has sent still   *)
(* on the way.  The input of a connection is what Framing promises: lines  *)
(* that are commands, with articles between them; its output is a queue of *)
(* replies.                                                                *)
(*                                                                         *)
(* The backend (PostingCaps, LoginCaps) is outside the library: it wants   *)
(* an article it does not have, it may be unable to take it for a while,   *)
(* and it never wants an article that is Junk.                             *)
(***************************************************************************)
EXTENDS Naturals, Sequences

CONSTANTS
  Conns,          \* the connections there may be at a time
  Ids,            \* the articles the client has, by their message-id
  Junk,           \* those the backend does not take
  Window          \* bound: commands sent ahead of their replies

ASSUME PostingAssumption == Junk \subseteq Ids /\ Window \in Nat \ {0}

VARIABLES
  fate,           \* what the client knows of each article
  asked,          \* the commands the client waits for, by connection
  link,           \* "free", "open", "cut" by the client's side, "ended" by the server
  toServer,       \* the commands on the way to the server, each with the article behind it
  loose,          \* the article before the first of them, if any
  toClient,       \* the replies on the way to the client
  may,            \* what AuthinfoCheckPrivilege answers in this session
  pc,             \* where the handler stands: "idle", "perform", "eat", "answer"
  hand,           \* the command it handles, if any
  verdict,        \* what PerformPost has returned: rejected, failed
  store,          \* the articles the backend has
  whole           \* history: those whose terminator the server has seen

client  == <<fate, asked>>
input   == <<toServer, loose>>
network == <<link, toServer, loose, toClient>>
session == <<may, pc, hand, verdict>>
backend == <<store, whole>>
vars    == <<fate, asked, link, toServer, loose, toClient, may, pc, hand, verdict, store, whole>>

\* An article is there with its terminator, without it, or not at all.
Articles == {"none", "part", "whole"}
Command  == [name : {"POST", "IHAVE", "CHECK", "TAKETHIS"}, id : Ids, named : BOOLEAN, more : Articles]
Replies  == [code : 200 .. 599, to : Command]
Verdict  == [rejected : BOOLEAN, failed : BOOLEAN]

NoVerdict == [rejected |-> FALSE, failed |-> FALSE]

TypeOK ==
  /\ fate \in [Ids -> {"todo", "offered", "accepted", "unwanted", "rejected"}]
  /\ asked \in [Conns -> Seq(Command)]
  /\ link \in [Conns -> {"free", "open", "cut", "ended"}]
  /\ toServer \in [Conns -> Seq(Command)]
  /\ loose \in [Conns -> Articles]
  /\ toClient \in [Conns -> Seq(Replies)]
  /\ may \in [Conns -> BOOLEAN]
  /\ pc \in [Conns -> {"idle", "perform", "eat", "answer"}]
  /\ hand \in [Conns -> Seq(Command)]
  /\ verdict \in [Conns -> Verdict]
  /\ store \subseteq Ids \ Junk
  /\ whole \subseteq store

Init ==
  /\ fate = [id \in Ids |-> "todo"]
  /\ asked = [c \in Conns |-> <<>>]
  /\ link = [c \in Conns |-> "free"]
  /\ toServer = [c \in Conns |-> <<>>]
  /\ loose = [c \in Conns |-> "none"]
  /\ toClient = [c \in Conns |-> <<>>]
  /\ may = [c \in Conns |-> FALSE]
  /\ pc = [c \in Conns |-> "idle"]
  /\ hand = [c \in Conns |-> <<>>]
  /\ verdict = [c \in Conns |-> NoVerdict]
  /\ store = {} /\ whole = {}

-----------------------------------------------------------------------------
(***************************************************************************)
(* The client.  POST and IHAVE are not pipelined: their article follows    *)
(* when the server has asked for it.  The article of TAKETHIS follows at   *)
(* once, also when the command lacks its message-id.                       *)
(***************************************************************************)
Connect(c) ==
  /\ link[c] = "free"
  /\ link' = [link EXCEPT ![c] = "open"]
  /\ \E m \in BOOLEAN : may' = [may EXCEPT ![c] = m]
  /\ UNCHANGED <<client, input, toClient, pc, hand, verdict, backend>>

Alone == {"POST", "IHAVE"}

Send(c, cmd) ==
  /\ link[c] = "open"
  /\ fate[cmd.id] = "todo"
  /\ fate' = [fate EXCEPT ![cmd.id] = "offered"]
  /\ asked' = [asked EXCEPT ![c] = Append(@, cmd)]
  /\ toServer' = [toServer EXCEPT ![c] = Append(@, cmd)]
  /\ UNCHANGED <<link, loose, toClient, session, backend>>

SendAlone(c, id) ==
  /\ asked[c] = <<>>
  /\ \E n \in Alone, named \in BOOLEAN :
       Send(c, [name |-> n, id |-> id, named |-> named, more |-> "none"])

SendAhead(c, id) ==
  /\ \A n \in 1 .. Len(asked[c]) : asked[c][n].name \notin Alone
  /\ Len(asked[c]) < Window
  /\ \E named \in BOOLEAN :
       \/ Send(c, [name |-> "CHECK", id |-> id, named |-> named, more |-> "none"])
       \/ Send(c, [name |-> "TAKETHIS", id |-> id, named |-> named, more |-> "whole"])

\* What a final reply says of the article: it has arrived, it is not wanted, it
\* must not be sent again, or it may be.
Meaning(code) ==
  CASE code \in {235, 239, 240} -> "accepted"
    [] code \in {435, 438}      -> "unwanted"
    [] code \in {437, 439}      -> "rejected"
    [] OTHER                    -> "todo"

Prompts == {335, 340}

\* The article goes behind whatever the client has sent before.
ReadPrompt(c) ==
  /\ toClient[c] # <<>> /\ Head(toClient[c]).code \in Prompts
  /\ toClient' = [toClient EXCEPT ![c] = Tail(@)]
  /\ IF toServer[c] = <<>>
     THEN loose' = [loose EXCEPT ![c] = "whole"] /\ UNCHANGED toServer
     ELSE toServer' = [toServer EXCEPT ![c][Len(toServer[c])].more = "whole"] /\ UNCHANGED loose
  /\ UNCHANGED <<client, link, session, backend>>

ReadReply(c) ==
  /\ toClient[c] # <<>> /\ Head(toClient[c]).code \notin Prompts
  /\ fate' = [fate EXCEPT ![Head(asked[c]).id] = Meaning(Head(toClient[c]).code)]
  /\ asked' = [asked EXCEPT ![c] = Tail(@)]
  /\ toClient' = [toClient EXCEPT ![c] = Tail(@)]
  /\ UNCHANGED <<link, input, session, backend>>

\* The commands without a reply will be repeated, on this connection or another.
TakeBack(c) ==
  /\ fate' = [id \in Ids |-> IF \E n \in 1 .. Len(asked[c]) : asked[c][n].id = id
                             THEN "todo" ELSE fate[id]]
  /\ asked' = [asked EXCEPT ![c] = <<>>]

SeeEnd(c) ==
  /\ link[c] = "ended" /\ toClient[c] = <<>>
  /\ TakeBack(c)
  /\ link' = [link EXCEPT ![c] = "free"]
  /\ UNCHANGED <<input, toClient, session, backend>>

-----------------------------------------------------------------------------
(***************************************************************************)
(* The connection breaks: the first n commands still reach the server, and *)
(* of the article behind the last of them all, a part or nothing.  The     *)
(* server finds out when it has read them.                                 *)
(***************************************************************************)
Parts(m) == IF m = "none" THEN {"none"} ELSE {"none", "part", m}

Break(c) ==
  /\ link[c] = "open"
  /\ link' = [link EXCEPT ![c] = "cut"]
  /\ TakeBack(c)
  /\ toClient' = [toClient EXCEPT ![c] = <<>>]
  /\ \/ /\ toServer' = [toServer EXCEPT ![c] = <<>>]
        /\ \E m \in Parts(loose[c]) : loose' = [loose EXCEPT ![c] = m]
     \/ /\ \E n \in 1 .. Len(toServer[c]) : \E m \in Parts(toServer[c][n].more) :
             toServer' = [toServer EXCEPT ![c] = [SubSeq(@, 1, n) EXCEPT ![n].more = m]]
        /\ UNCHANGED loose
  /\ UNCHANGED <<session, backend>>

-----------------------------------------------------------------------------
(***************************************************************************)
(* The server: servceConn and the handlers.  A reply to a client that is   *)
(* gone is lost.                                                           *)
(***************************************************************************)
Reply(c, code, cmd) ==
  toClient' = IF link[c] = "open"
              THEN [toClient EXCEPT ![c] = Append(@, [code |-> code, to |-> cmd])]
              ELSE toClient

Goto(c, l) == pc' = [pc EXCEPT ![c] = l]
Unmoved    == UNCHANGED <<client, link, may, verdict, backend>>

\* The command that the loop is about to read, and the one in hand.
Asks(c, name) ==
  /\ pc[c] = "idle" /\ link[c] \in {"open", "cut"}
  /\ loose[c] = "none" /\ toServer[c] # <<>> /\ Head(toServer[c]).name = name
Asked(c) == Head(toServer[c])
cur(c)   == Head(hand[c])

\* The loop hands it to its handler, which answers it at once, or goes on.
Take(c) ==
  /\ toServer' = [toServer EXCEPT ![c] = Tail(@)]
  /\ loose' = [loose EXCEPT ![c] = Asked(c).more]

Refuse(c, code) ==
  /\ Take(c)
  /\ Reply(c, code, Asked(c))
  /\ UNCHANGED <<pc, hand>>

Go(c, l) ==
  /\ Take(c)
  /\ hand' = [hand EXCEPT ![c] = <<Asked(c)>>]
  /\ Goto(c, l)

Prompt(c, code) == Go(c, "perform") /\ Reply(c, code, Asked(c))

\* The last reply of a handler that went on.
Done(c, code, cmd) ==
  /\ Reply(c, code, cmd)
  /\ hand' = [hand EXCEPT ![c] = <<>>]
  /\ Goto(c, "idle")

\* A fault for the mutants: the refusal is written and the article asked for.
HandlePost_NoReturn(c) ==
  /\ Asks(c, "POST")
  /\ \/ ~ may[c] /\ Refuse(c, 480)
     \/ may[c] /\ Prompt(c, 340)
     \/ /\ may[c] /\ Go(c, "perform")
        /\ toClient' = [toClient EXCEPT ![c] = @ \o <<[code |-> 440, to |-> Asked(c)],
                                                      [code |-> 340, to |-> Asked(c)]>>]
  /\ Unmoved

HandlePost(c) ==
  /\ Asks(c, "POST")
  /\ \/ ~ may[c] /\ Refuse(c, 480)
     \/ may[c] /\ Refuse(c, 440)
     \/ may[c] /\ Prompt(c, 340)
  /\ Unmoved

\* PostingCaps.CheckPostId, the first of its results.
Wanted(id) == id \notin store \cup Junk

\* A fault for the mutants: the prompt stays in a buffer.
HandleIHave_Silent(c) ==
  /\ Asks(c, "IHAVE")
  /\ \/ ~ may[c] /\ Refuse(c, 480)
     \/ may[c] /\ Go(c, "perform") /\ UNCHANGED toClient
  /\ Unmoved

HandleIHave(c) ==
  /\ Asks(c, "IHAVE")
  /\ \/ ~ may[c] /\ Refuse(c, 480)
     \/ may[c] /\ ~ Asked(c).named /\ Refuse(c, 501)
     \/ may[c] /\ Asked(c).named /\ ~ Wanted(Asked(c).id) /\ Refuse(c, 435)
     \/ may[c] /\ Asked(c).named /\ Wanted(Asked(c).id) /\ Refuse(c, 436)
     \/ may[c] /\ Asked(c).named /\ Wanted(Asked(c).id) /\ Prompt(c, 335)
  /\ Unmoved

\* A fault for the mutants: the code is set for the refusals only.
HandleCheck_CodeUnset(c) ==
  /\ Asks(c, "CHECK")
  /\ \/ ~ may[c] /\ Refuse(c, 480)
     \/ may[c] /\ ~ Asked(c).named /\ Refuse(c, 501)
     \/ may[c] /\ Asked(c).named /\ ~ Wanted(Asked(c).id) /\ Refuse(c, 438)
     \/ may[c] /\ Asked(c).named /\ Wanted(Asked(c).id) /\ \E code \in {0, 431} : Refuse(c, code)
  /\ Unmoved

HandleCheck(c) ==
  /\ Asks(c, "CHECK")
  /\ \/ ~ may[c] /\ Refuse(c, 480)
     \/ may[c] /\ ~ Asked(c).named /\ Refuse(c, 501)
     \/ may[c] /\ Asked(c).named /\ ~ Wanted(Asked(c).id) /\ Refuse(c, 438)
     \/ may[c] /\ Asked(c).named /\ Wanted(Asked(c).id) /\ \E code \in {238, 431} : Refuse(c, code)
  /\ Unmoved

\* TAKETHIS without its argument leaves the article in the input and therefore
\* ends the session.
TakethisUnnamed(c) ==
  /\ Asks(c, "TAKETHIS") /\ ~ Asked(c).named
  /\ Reply(c, 501, Asked(c))
  /\ toServer' = [toServer EXCEPT ![c] = <<>>] /\ UNCHANGED loose
  /\ link' = [link EXCEPT ![c] = IF @ = "open" THEN "ended" ELSE "free"]
  /\ UNCHANGED <<client, session, backend>>

\* A fault for the mutants: nobody eats the article of a TAKETHIS that is refused.
HandleTakethis_NotEaten(c) ==
  /\ Asks(c, "TAKETHIS") /\ Asked(c).named
  /\ \/ may[c]   /\ Refuse(c, 480)
     \/ ~ may[c] /\ Go(c, "perform") /\ UNCHANGED toClient
  /\ Unmoved

\* The privilege is tested the other way round than for the other commands.
HandleTakethis(c) ==
  /\ Asks(c, "TAKETHIS") /\ Asked(c).named
  /\ Go(c, IF may[c] THEN "eat" ELSE "perform")
  /\ Unmoved /\ UNCHANGED toClient

\* What the DotReader of the handler finds: an article, or the end.
ArticleThere(c) == loose[c] # "none"
AtEnd(c)        == loose[c] = "none" /\ toServer[c] = <<>> /\ link[c] = "cut"

\* io.Copy(ioutil.Discard, dotr): what is left of the article goes.
Discard(c) == loose' = [loose EXCEPT ![c] = "none"] /\ UNCHANGED toServer

EatRefused(c) ==
  /\ pc[c] = "eat" /\ (ArticleThere(c) \/ AtEnd(c))
  /\ Discard(c)
  /\ Done(c, 480, cur(c))
  /\ UNCHANGED <<client, link, may, verdict, backend>>

(***************************************************************************)
(* PerformPost reads the article, or as much of it as it likes.  It cannot *)
(* tell an article without its end from a whole one: the DotReader reports *)
(* io.EOF for both.                                                        *)
(***************************************************************************)
Verdicts(c, r, f) == verdict' = [verdict EXCEPT ![c] = [rejected |-> r, failed |-> f]]

Perform(c) ==
  /\ pc[c] = "perform"
  /\ \/ /\ ArticleThere(c) /\ ~ Wanted(cur(c).id)
        /\ \E f \in BOOLEAN : Verdicts(c, TRUE, f)
        /\ UNCHANGED backend
     \/ /\ ArticleThere(c) \/ AtEnd(c)
        /\ Verdicts(c, FALSE, TRUE)
        /\ UNCHANGED backend
     \/ /\ ArticleThere(c) /\ Wanted(cur(c).id)
        /\ Verdicts(c, FALSE, FALSE)
        /\ store' = store \cup {cur(c).id}
        /\ whole' = IF loose[c] = "whole" THEN whole \cup {cur(c).id} ELSE whole
  /\ Goto(c, "answer")
  /\ UNCHANGED <<client, network, may, hand>>

\* A fault for the mutants: IHAVE answers a failure like a success.
Outcome_FailedIsOK(name, v) ==
  CASE name = "POST"     -> IF v.rejected \/ v.failed THEN 441 ELSE 240
    [] name = "IHAVE"    -> IF v.rejected THEN 437 ELSE 235
    [] name = "TAKETHIS" -> IF v.rejected \/ v.failed THEN 439 ELSE 239

Outcome(name, v) ==
  CASE name = "POST"     -> IF v.rejected \/ v.failed THEN 441 ELSE 240
    [] name = "IHAVE"    -> IF v.rejected THEN 437 ELSE IF v.failed THEN 436 ELSE 235
    [] name = "TAKETHIS" -> IF v.rejected \/ v.failed THEN 439 ELSE 239

Answer(c) ==
  /\ pc[c] = "answer"
  /\ Discard(c)
  /\ Done(c, Outcome(cur(c).name, verdict[c]), cur(c))
  /\ Verdicts(c, FALSE, FALSE)
  /\ UNCHANGED <<client, link, may, backend>>

\* ReadLineB or a write fails on the broken connection, and the session is over.
ServerNotices(c) ==
  /\ link[c] = "cut" /\ (pc[c] # "idle" \/ toServer[c] = <<>>)
  /\ link' = [link EXCEPT ![c] = "free"]
  /\ toServer' = [toServer EXCEPT ![c] = <<>>]
  /\ loose' = [loose EXCEPT ![c] = "none"]
  /\ hand' = [hand EXCEPT ![c] = <<>>]
  /\ Goto(c, "idle")
  /\ Verdicts(c, FALSE, FALSE)
  /\ UNCHANGED <<client, toClient, may, backend>>

-----------------------------------------------------------------------------
Client(c) ==
  \/ Connect(c) \/ ReadPrompt(c) \/ ReadReply(c) \/ SeeEnd(c)
  \/ \E id \in Ids : SendAlone(c, id) \/ SendAhead(c, id)

Server(c) ==
  \/ HandlePost(c) \/ HandleIHave(c) \/ HandleCheck(c) \/ TakethisUnnamed(c) \/ HandleTakethis(c)
  \/ EatRefused(c) \/ Perform(c) \/ Answer(c) \/ ServerNotices(c)

Next == \E c \in Conns : Client(c) \/ Break(c) \/ Server(c)

Spec == Init /\ [][Next]_vars

(***************************************************************************)
(* Fairness: the goroutine of each connection runs, and the client reads   *)
(* what it is sent.  Nothing is said of how often connections break, nor   *)
(* of what the backend answers.                                            *)
(***************************************************************************)
FairSpec ==
  /\ Spec
  /\ \A c \in Conns : WF_vars(Server(c))
  /\ \A c \in Conns : WF_vars(ReadPrompt(c) \/ ReadReply(c) \/ SeeEnd(c))

-----------------------------------------------------------------------------
(* Safety *)

\* The server never takes the lines of an article for commands: when it is
\* about to read a command, the next thing in its input is one, whatever was
\* refused, broken off or pipelined before (handleTakethis, nntpdecoder.go:888-896).
InSync == \A c \in Conns : pc[c] = "idle" => loose[c] = "none"

\* Every command gets one final reply, in the order of the commands: those the
\* client waits for are the ones with a reply on the way, then the one in
\* hand, then the ones the server has not read.  A prompt is alone on the way,
\* for the one command the client waits for.
Finals(c) == IF \E n \in DOMAIN toClient[c] : toClient[c][n].code \in Prompts
             THEN <<>>
             ELSE [n \in DOMAIN toClient[c] |-> toClient[c][n].to]
PromptAlone(c) ==
  \A n \in DOMAIN toClient[c] :
    toClient[c][n].code \in Prompts =>
      Len(toClient[c]) = 1 /\ pc[c] = "perform" /\ asked[c] = <<toClient[c][n].to>>
RepliesPaired ==
  \A c \in Conns :
    link[c] = "open" => PromptAlone(c) /\ asked[c] = Finals(c) \o hand[c] \o toServer[c]

\* An article the client was told has arrived is in the store, and one it was
\* told is not wanted is there or is one the backend does not take.
AcceptedIsStored ==
  \A id \in Ids : /\ fate[id] = "accepted" => id \in store
                  /\ fate[id] = "unwanted" => id \in store \cup Junk

(* Liveness *)

\* A client that has offered an article is not left waiting: neither side waits
\* for the other, and refused and broken transfers end too.
OffersEnd == \A id \in Ids : fate[id] = "offered" ~> fate[id] # "offered"

-----------------------------------------------------------------------------
(* What the comments say and the code does not do *)

\* "239 message-id  Article transferred OK" (nntpdecoder.go:877), and 235 and 240
\* for the other commands: what the client is told has arrived has arrived whole.
AcceptedIsWhole ==
  \A id \in Ids : fate[id] \in {"accepted", "unwanted"} => id \in whole \cup Junk

\* "439 message-id  Transfer rejected; do not retry" (nntpdecoder.go:878) and 437:
\* an article the client must not send again was rejected by PerformPost.
RejectedIsUnwanted == \A id \in Ids : fate[id] = "rejected" => id \in store \cup Junk

\* "Checks a privilege. Returns true if it is allowed." (structures.go:105): an
\* article goes to PerformPost only in a session that may post.
PostingIsAllowed == \A c \in Conns : pc[c] = "perform" => may[c]
=============================================================================
