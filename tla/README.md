# A TLA+ development for fastnntp

fastnntp is the protocol engine of an NNTP server in Go. A program that uses it
supplies a news store, a posting service and an authentication service (the
interfaces of `structures.go`), accepts connections, and calls `ServeConn` in a
goroutine of its own for each of them. This directory states what the engine
promises, models it from the source, checks the models with TLC on small
instances and proves the main results with TLAPS for every instance.

## The system

| component | state | operations | in the code | module |
|---|---|---|---|---|
| article-end and head-end automata | a state of four, of two | one byte | `matcher.go` | Wire, PostedArticle |
| connection reader | buffer with `pos` and `limit`; `DotReader.state`, `data`, `end`, `err` | `ReadLineB`, `innerRead`, `Read`, `Consume` | `reader.go` | ConnReader |
| reader session | `group`, `groupCursor`, `groupCurId`, `groupBuffer`, `idBuffer`, `tmpIdBuffer` | GROUP, LISTGROUP, LAST, NEXT, STAT, ARTICLE/HEAD/BODY, OVER/HDR | `nntpdecoder.go` | Session |
| posting commands | none of their own | POST, IHAVE, CHECK, TAKETHIS | `nntpdecoder.go:752-909` | Posting |
| authentication | `userName`, the session's `Handler` | AUTHINFO USER, PASS | `cmds2.go:217-262` | Service, Dialogue |
| dispatch and responses | none | the command loop, every handler's response | `nntpdecoder.go:124-238`, `cmds2.go`, `errorcode.go` | Dialogue |
| life cycle and pools | nine `sync.Pool`s, the shared `Handler` | `ServeConn`, `fill`, `release`, Acquire/Release | `nntpdecoder.go:67-122`, `structures.go` | Service |
| dot writer | `DotWriter.state`, `end`; a `bufio.Writer` | `Reset`, `Write`, `Close`, Flush | `writer.go:39-92`, `bufio.go` | DotWriting |
| lists | `ArticleRange`, `Overview`, `ListActive` from pools | OVER, HDR, LISTGROUP, LIST; `WriteEntry`, `WriteActive`, ... | `writer.go:96-211`, `nntpdecoder.go:944-1134` | Listings |
| numbers, wildmat | none | pure functions | `bconv.go`, `wildmat.go` | Numbers, WildMat |
| posted articles | `HeadBodyWriter.state`, `end`; the loop over the header lines | `ConsumePostedArticle`, `ParseAndProcessHeader` | `writer2.go`, `posting/postingpull.go` | PostedArticle, PostedHeader |

How they interact. `ServeConn` takes an `nntpHandler` and a `Reader` from their
pools. The command loop (`servceConn`) reads a line with `ReadLineB`, splits it and
calls a handler; the handler calls the backend through the interfaces, updates the
session and writes one response. POST, IHAVE and TAKETHIS make a `DotReader`, which
takes the article from the same buffer the lines come from, hand it to the backend's
`PerformPost`, and discard what that left unread. When the loop ends the handler and
the Reader go back to their pools with their buffers as they are.

What is hard here:

- **Chunks.** A connection delivers its bytes in pieces that respect neither lines
  nor articles, and one fixed buffer serves lines and articles alike. The
  terminator of an article may be cut at each of its bytes.
- **Aliasing.** `DotReader.data` points into the buffer after `reset`; `groupCurId`
  points into `idBuffer`, which the next lookup is given to fill; `group.Group` points
  into `groupBuffer`, also while another group is looked up.
- **Time.** The store changes between any two calls of one handler and between two
  commands, while the session keeps marks and a current article it read earlier.
- **Foreign code in the middle.** `PerformPost` reads as much of the article as it
  likes; a lookup may write to the slice it is given and fail.
- **Reuse.** Everything comes from pools and keeps its memory.
- **Ends.** A connection may end anywhere, with or without its last bytes, and a
  Read may return nothing; on the other side a write may take a part of what it is
  given. A client that is cut off offers its articles again.
- **Goroutines.** Every `ServeConn` fills the same Handler without a lock and shares
  the pools; the deferred calls put objects back one after the other.
- **Sending ahead.** A client may have commands and articles on the way that it sent
  before it read the responses to earlier ones.

## The modules

    Wire --+-- Framing ---------------+
           |                          | (refinement)
           +-- ConnReader ------------+-- MCConnReader
           +-- DotWriting --------------- MCDotWriting
           +-- PostedArticle -- PostedHeader -- MCPostedArticle
           |                       +-- PostedArticleProofs
           +-- WireProofs -- ConnReaderProofs, DotWritingProofs, PostedArticleProofs
    CurrentArticle -------------------+
                                      | (refinement)
    Session --------------------------+-- MCSession
           +-- SessionProofs
    Posting ----------------------------- MCPosting
           +-- PostingProofs
    Dialogue ---------------------------- MCDialogue
           +-- DialogueProofs
    Service ----------------------------- MCService
           +-- PoolProofs ------------+
    Numbers, WildMat -- Listings -----+-- MCListings

The modules meet where the code hands something over: Posting takes from Framing that
the input is commands with articles between them, which ConnReader is shown to implement;
Dialogue takes from Session whether there is a group and a current article; Listings
takes from DotWriting that a lone dot ends a block; PostedArticle begins with what the
`DotReader` of ConnReader delivers.

**Wire** has the automaton of `matcher.go`, with the values of its states, and says
without it what ends a line (`IsLineEnd`) and an article (`IsArticleEnd`: the first
line with a lone dot in it, carriage returns around it not counting).

**Framing** is the abstract specification of the input side: the stream of a client
is cut into lines and articles. It has no buffer, no chunks and no partial reads.

**ConnReader** is `reader.go` with its callers. A stored byte is the *index* of that
byte in the client's stream, so a lost, repeated, reordered or stale byte is visible;
its value is `stream[index]`. `pc` says where the goroutine stands:

| `pc` | in the code |
|---|---|
| `line` | top of the loop of `ReadLineB` |
| `lscan` | in its loop over the buffered bytes |
| `handler` | `servceConn` has a line, a handler runs |
| `dot` | the caller of the `DotReader` runs (`PerformPost`, or the handler before `io.Copy`) |
| `inner`, `scan` | in `innerRead`, before and in its loop |
| `ret` | `innerRead` is back in `Read` or `Consume` |
| `copied` | the article is consumed, the handler writes its response |
| `closed` | the session is over; `Accept` begins the next one with the same Reader |

The loops over bytes are one step for each byte; `Feed` is `reset` and `feedFrom`,
and yields any number of the bytes the connection has. `caller` tells `PerformPost`'s
own reads (of any size), its call of `Consume`, and the `io.Copy` after it apart; they
share the actions of `innerRead`. `LineFound`, `LineRefill` and `LineEOF` are the three
exits of the scan in `ReadLineB`. `out` and `start` are history: the bytes handed to
the session, and where the current line or article began. Index 0 marks bytes an
earlier connection has left in the buffer.

**CurrentArticle** is the abstract specification of a reader session: a group or none,
an article of it or none, the article being a number with *its* message-id.

**Session** is the reader commands over a store that changes at any time (`Arrive`,
`Expire`). A handler is one action for each call of the store it makes: GROUP is
`GroupFound` (GetGroup), then `FirstHit`/`FirstMiss` (StatArticle), then
`FirstMoves`/`FirstFails` (CursorMoveGroup), with the store free to change in between;
the other commands make one call and are one action. A slice of a buffer is the
buffer it points into (`Slices`, `Deref`), so that a later write changes what it reads;
a message-id that did not fit is in memory of its own (`Stored` has both outcomes).
A lookup that fails and is named by `Scribblers` may have written to its slice
(`Missed`). HEAD and BODY are ARTICLE with another code; OVER, XOVER, HDR and XHDR are
`handleHeaders`. `Ends` is QUIT, a lost connection and a failed write alike: all three
lead to `release`. A number in a command is any value of `Parsed`: -1 stands for what
`ParseUint` yields when it wraps around to the cursor's "no article" value, 0 and
MaxNum+1 for the other numbers no article has.

The store is outside the library. What the model asks of it: articles arrive under
increasing numbers; GetGroup reports as low mark a number no article lies below, and as
high mark the highest number given; a lookup answers for the articles there are;
CursorMoveGroup finds the next or previous article there is; a success sets the
message-id of the article if it was not given (`structures.go:75`).

**Posting** is the posting commands between a client and a server, over connections that
break. What is on the way is part of the state: `toServer` has the commands with the
articles behind them, `loose` the article in front of the first of them, `toClient` the
replies. `Break` delivers any beginning of what the client has sent, the last article
perhaps in part, and takes back what it waits for; it may connect and offer again. `pc` is
`idle` at the top of `servceConn`, `perform` in `PerformPost`, `eat` in the `io.Copy` of a
refused TAKETHIS, and `answer` behind `PerformPost`. POST and IHAVE wait for the prompt;
CHECK and TAKETHIS are sent ahead. The backend decides what it wants (`Wanted`) and what it
does (`Perform`); it cannot tell a cut article from a whole one.

**Dialogue** is everything else a session answers: the command table with the form of the
argument (`nntpCommands`), one action for each handler with its early returns, and a client
that pairs responses with commands by their order. `Listed` has the responses of the
handlers' doc comments. `twice` is history: HDR has answered twice, and the client is lost.

**Service** is several goroutines in `ServeConn`: `FillLook` and `FillWrite` are the loop of
`fill` with each field's two words written one at a time, `Begin` takes an nntpHandler and
a Reader, `End` and `release` are the deferred calls, `TakeGroup` and the three actions behind
it are GROUP and LISTGROUP with the backend in between. `pooled` counts how often a pool
holds an object, so that one put back twice is seen. AUTHINFO is here for what it keeps:
`userName` and the Handler. `given` and `shown` are history.

**DotWriting** is one multi-line response after the other: `Respond` is the status line with
the writers acquired and reset, `Write` a call of the backend, `ScanByte`, `ScanEnd` and
`ScanDone` the loop and the two exits of `DotWriter.Write`, `Close` and `Flush` the deferred
calls. The bufio.Writer is modelled by its contract (`BufWrite`), the connection by the bytes
it has taken (`wire`); it may break at any time.

**PostedArticle** moves an article through DotWriter and HeadBodyWriter in pieces of any
size and trims the two buffers. **PostedHeader** goes on with the head:
`ParseAndProcessHeader` numbers its nonempty lines by the places where they begin
(`HeadLines`, `NumberOf`) and chooses what kind of header each of them is; one action is one
turn of the loop, and RAW is the sequence of the lines that are written.

**Numbers** and **WildMat** are `bconv.go` and `wildmat.go` as operators, numbers in
arithmetic of `Width` bits and patterns as the sets of names they match. `Decimal` has the digits
of a number; `Reading` and `Parsed` are the loops of `ParseUint` and `ParseWildMatBinary`, as
functions from the bytes or elements that have been seen to what has come of them.
`ParseRange` is two readings, of the bytes before and behind the first dash, which is what the
code's one loop computes: it collects digits for the first number until a dash. **Listings** uses
them: OVER and HDR fill a pooled ArticleRange (`AskCurrent`, `AskRange`, `AskId`), the backend
finds nothing or writes entries; LISTGROUP asks for a span; LIST filters by a wildmat.

The **MC** modules give the constants their small values. Every module states the types of
its variables (`TypeOK`, in Listings `ListTypeOK`); the runs check this where a theorem states it, and spend
their time on the other properties elsewhere.

Definitions whose names have a suffix after `_` and whose comment begins with "A
fault for the mutants" are variants of the code with one plausible mistake in it; no
behaviour uses them. `PROJECT.json` names for each property the fault it detects.

## What is checked

| run | configuration | properties |
|---|---|---|
| `reader_chunks` | a buffer of 2 bytes; every stream of at most 4 bytes and three of 8 to 10 with a command, an article and a command; all chunkings; ends with and without data | `TypeOK`, `InOrder`, `LineExact`, `ArticleExact`, `DataIntact` |
| `reader_tcp` | the end comes apart from the last bytes; fairness | `NoLineLost`, `ArticleHandled`, `ImplementsFraming` |
| `session_position` | 2 groups, 2 numbers, 3 message-ids of which one is in both groups | `TypeOK`, `PositionCoherent`, `ReplyCoherent`, `GroupIsChosen`, `RefusedKeepsPosition`, `ImplementsCurrentArticle` |
| `session_moves` | 1 group, 3 numbers | `NothingBeforeInvalid`, `GroupSelectsFirst`, `MoveSkipsNothing` |
| `session_scribble` | every lookup may write before it fails | `PositionCoherent` is violated |
| `posting` | 1 connection that breaks and returns, 3 articles of which one is not taken, 3 commands ahead; fairness | `TypeOK`, `InSync`, `RepliesPaired`, `AcceptedIsStored`, `OffersEnd` |
| `posting_privilege` | 2 articles | `PostingIsAllowed` is violated |
| `dotwriting_blocks` | a bufio.Writer of 2 bytes, status lines that fit and that do not, at most 5 bytes in pieces of 24 kinds | `OneArticle`, `ContentKept`, `Delivered`, `NoFalseEnd` |
| `dialogue` | every command, 2 ahead; fairness | `Paired`, `CodesFit`, `WindowMoves` |
| `service_sessions` | 2 goroutines, 2 fields, 2 users, 2 objects of two pools and 4 Groups | `Exclusive`, `CapsReady`, `LoginIsOwn` |
| `article_posted` | every input of at most 5 bytes and every body of at most 4; heads of up to 4 lines | `SplitExact`, `CutKept`, `RawKept`, `FieldsPicked`, `EndsEarly` |
| `listings` | 8-bit numbers, 16 ranges, wildmats of up to 4 elements, lists of 2 entries | `AskedOfBackend`, `EntriesShown`, `GroupsListed` |

**Why the bounds are enough.** A buffer of two bytes makes every line and terminator
of three bytes or more span fillings, and lets a chunk end at each byte of a
terminator; a larger buffer adds no new case (what is proved is proved for every
size). Four bytes of four kinds hold every transition of the automaton and every pair
of terminator and next line; the longer streams add a dot-stuffed line, carriage
returns around the dot, and commands on both sides of the article. Two groups are
needed for a position to be mixed from two; two numbers give an article before and
after the current one, and the third in `session_moves` gives one to be skipped. A
crossposted message-id has one number for each group. `MaxNum` bounds how many
articles a group ever gets, `Parsed` the numbers a client names.

In `posting` three commands ahead hold a CHECK between two TAKETHIS and a break behind each of
them; connections meet only in the store, which may have any content when one of them
begins, and what is proved is proved for any number of them. `Longest` and `Room` in
`dotwriting_blocks` give blocks that are shorter and longer than the buffer, and terminators
that are cut by a Write and by the buffer. In `dialogue`, a window of two has a command
behind every other one; its second bound is that a client to which HDR has answered twice
sends nothing more in that session. In `service_sessions` two of five fields show a half-filled
Handler, and four Groups are all that two sessions can hold at a time. In `listings`,
eight bits let 255 wrap around to -1, the cursor's value for no article, and make 127 the
largest number.

**Fairness.** `ConnReader`'s `FairSpec` has weak fairness of the goroutine as a whole, that is,
the scheduler runs it and Read of the connection returns because data comes or the
connection ends; and strong fairness of `PerformReturns`: the backend stops reading at some
time, whatever it did before. The second is needed because `PerformPost` may call `Read` for
ever after the end. Neither says anything about the order or the size of chunks.
`Posting` and `Dialogue` have weak fairness of the goroutine and of a client that reads what it
is sent. Nothing is assumed about breaks, about when a client sends, or about what a backend
answers.

**What the violations show.** The comment on `tmpIdBuffer` states a danger from which
ARTICLE is protected and STAT, NEXT and LAST are not (`session_scribble`): it needs a
backend that appends to the slice and then reports failure. TAKETHIS tests the privilege
the other way round than the other commands and than the comment on it says
(`posting_privilege`).

## Where the code does not do what its comments say

Apart from the two violation runs, the modules define, after their properties, what the
comments promise and the code does not keep. Each can be seen by naming the definition
as an INVARIANT (or PROPERTY) of a configuration of its module:

| definition | module | what happens |
|---|---|---|
| `ExcessEaten` | ConnReader, with `EmptyReads = TRUE` | a Read of the connection that returns (0, nil) ends an article early, although `Consume` says "Consumes until end."; TCP connections do not do that |
| `NoLineLost` | ConnReader, with `EofWithData = TRUE` | a last command that comes together with `io.EOF` is dropped |
| `StatTellsTruth` | Session | STAT without an argument asks nobody and reports "Article exists" for an expired article |
| `InvalidMeans420` | Session | the 420 documented for LAST and NEXT is never sent: without a current article they start from the marks |
| `AcceptedIsWhole` | Posting | an article cut off by the end of its connection is stored, and is not wanted when it is offered again |
| `RejectedIsUnwanted` | Posting | TAKETHIS answers 439, "do not retry", also for a transfer that has failed |
| `FinalDotAdded` | DotWriting | content that ends with a lone dot without a line end gets no final dot: the CRLF written first makes that dot the terminator |
| `DiscardsAfterDotCRLF` | DotWriting | content is dropped behind a dot line that ends with a bare LF, or has carriage returns before it, too |
| `CapsReady` | Service, with `BackendFills = FALSE` | a Handler that a login puts in the place of the old one is not filled |
| `HeadHasNoDot` | PostedArticle | of an article without a body, the dot that ends it stays at the end of the head |

`Deviating` and the two cases named in the comment on `Paired` (Dialogue) state what the
handlers answer otherwise than documented: CAPABILITIES with 215 and not 101, HDR with 224
and not 225, AUTHINFO with an unknown keyword with the help text; HDR for an unknown field
with two responses, and without a field with one and a panic that ends the server.

Where no comment says anything, the properties state what the code does, the odd cases
included: a head that begins with a fold gives a RAW with an empty first line
(`RawKept`); a header whose colon is its last byte panics, and an article that carries the
very message-id that was given yields nil (`EndsEarly`); in HDR, a value that is a lone dot,
as `AppendUint(-2)` is, ends the list (`EntriesShown`); a negation in a wildmat does not
reach behind the next pattern that follows it (`GroupsListed`); a range without an end is
taken for its first number by OVER and HDR (`AskedOfBackend`) and has the end 0 in
LISTGROUP (`SpanAsked`).

## What is proved

All proofs are checked by TLAPS without assumptions other than the named ones.

*Wire* (`WireProofs`). `AutomatonTracks`: if the automaton's state describes the
current line (`Tracks`: in `nlDotNl_start` iff the line is empty so far, in `DotSeen`
iff it is a lone dot, and no terminator yet), then after one more byte it still does,
or it is in `nlDotNl_end` and that byte ends the article. The argument is one lemma for
each of the three predicates on what one byte does to it.

*ConnReader* (`ConnReaderProofs`), for every `Size` and every set of streams
(`ConnReaderAssumption`). The invariant is built in four layers:

1. `Shape`, `Flags`: types and index ranges (`TypeCorrect`).
2. `Conserved`: the bytes handed on, those in `DotReader.data` and those in the buffer
   are, in this order and without gap, the first `fed` bytes of the stream, and `data`
   is empty wherever the buffer may be refilled. `InOrder` is not inductive without it:
   it says nothing of the bytes still to come. `DeliveredInOrder` and `RefillConserves`
   carry the two kinds of step that move bytes. From it: `DeliveryInOrder` and
   `DataStaysIntact`.
3. `LineFrame` (no line feed has passed since `start` while a line is collected) and
   `ArticleFrame` (the automaton `Tracks` the bytes it has seen, or the article has
   ended). `NextByte` turns the byte a loop looks at into a position of the stream;
   `AutomatonTracks` does the rest. From them: `LinesExact` and `NoLineIsLost`, the
   latter assuming `EofWithData = FALSE`.
4. `Ended`: without (0, nil) reads, an empty read means the end of the stream. From it:
   `ArticlesExact`, assuming `EmptyReads = FALSE`, which `ExcessEaten` shows to be
   necessary.

`ReaderImplementsFraming` follows from `LineExact'` and `ArticleExact'`: the step into
`handler` is `TakeLine`, the step into `copied` is `TakeArticle`, and everything between
stutters.

*Session* (`SessionProofs`), for every set of groups and names, every `MaxNum` and every
naming of articles (`SessionAssumption`): the nine properties of the two passing
session runs. Those about the position, and the refinement, assume
`Scribblers \subseteq {"GetArticle"}`, which `session_scribble` shows to be necessary.
`PositionCoherent` is strengthened by what holds while GROUP is half done and by the
fact that `groupCurId` never points into `tmpIdBuffer`: an ARTICLE that fails may write
there. `RefusedKeepsPosition` and `ImplementsCurrentArticle` follow from the same
invariant, one case for each action.

*Posting* (`PostingProofs`), for every set of connections and articles and every `Window`
(`PostingAssumption`): `PostingTypeOK`, `ArticlesAreEaten`, `EveryCommandIsAnswered` and
`AcceptedArticlesAreStored`. The invariant is, beside types, `AcceptedIsStored` and for each
connection `Safe(c)`: what `InSync` and `RepliesPaired` say of it, that a command is in hand just
when the handler has gone on, and what the code of a final reply on the way or a verdict
not yet told says of the store. The last is what makes `AcceptedIsStored` inductive: the
store only grows, so that a reply is still true when it is read. Connections meet only in
the store, and the cases of a step are its own connection and every other one.

*DotWriting* (`DotWritingProofs`), for every `Room`, every set of status lines and every
set of pieces (`DotWritingAssumption`). Two invariants that do not need one another, beside
types: `Conserved`, that until a write fails the connection and the bufio.Writer together hold
`line \o passed`, and that they hold a beginning of it afterwards, from which
`ResponsesAreDelivered` and `NoEndIsFalse` follow; and `Follows`, that the automaton `Tracks`
what has been passed on and, in a Write, as much of the new piece as the loop has seen.
`AutomatonTracks` is its step; `ClosingWrite` follows the two sequences of `Close` byte by byte, so
that `Close` never leaves an article open, nor a block without content empty (`BlockClosed`
says from when on the block of a response must be complete). From it: `BlocksAreArticles`, and
with `Kept`, which compares `passed` and `content`, `ContentIsKept`.

*Dialogue* (`DialogueProofs`), for every set of commands and every `Window`
(`DialogueAssumption`): `TypeCorrect`, `ResponsesPair` and `CodesAreListed`. `Paired` speaks of
sequences as wholes; `Aligned` says the same position by position: while the link is open,
`asked` is the commands of the responses on the way followed by `toServer`, and a session's
end is behind the response to its QUIT (or HDR). The invariant adds that nothing is left over
for the next connection, and `Fits`: each response is listed for its *own* command; that the
client takes it for one to this command is `Aligned`. Every handler has one of four shapes,
one response and the session goes on, one and it ends, two, or one and a panic, so that each
shape is proved once; the table of codes is checked verb by verb.

*Service* (`PoolProofs`), for every number of goroutines, objects, fields and users
(`ServiceAssumption`): `TypeCorrect`, `OneOwner`, `SharedFilled`, `NoNilCapability` and
`LoginsAreOwn`. `Exclusive` needs `Owned` (an object is in its pool once or in the use of one
goroutine, and never both), and `Released`: an nntpHandler that nobody has holds no group and
no name, for the deferred call that clears it runs before it is put back. `TradeKeepsOwned`
is the one lemma about taking and putting; the actions are its instances. `SharedFilled`
says that a field which a goroutine has passed, in `fill` or with a session behind it, is not
nil, and that its data word is missing only as long as a goroutine in `fill` is about to write
it. The first needs that a type word is never unset (`WordsStay`), whoever writes it; the second
has an invariant of its own (`DataInHand`). More does not hold: a session may begin while
another goroutine still has a data word to write, as `fill` looks at the type word alone. It
would then call the method of a nil `*defCaps`, which does no harm, as `defCaps` is an empty
struct and its methods read nothing of it. `NoNilCapability` assumes `BackendFills`, which the row
`CapsReady` above shows to be necessary.

*PostedArticle and PostedHeader* (`PostedArticleProofs`), for every set of articles over the
alphabet (`PostedArticleAssumption`), every way of cutting them into pieces and every choice
of headers and stamper: `HeadTracksStep`, `TypeCorrect`, `SplitIsExact`, `CutIsKept`,
`RawIsKept`, `FieldsArePicked` and `EndIsEarly`.

- A Write is one step that runs an automaton over a whole piece. `RunStates` shows that the
  recursive function `Run` exists and follows its equation, and `ArticleScanned` and
  `HeadScanned` that what holds after each byte (`AutomatonTracks`, `HeadTracksStep`) holds after
  the piece. Both go by induction over the places in it (`UpTo`), which is drawn from the
  least element of a set of numbers (`Least`): the library's induction theorems take an
  operator and cannot be used, but that `<` on `Nat` is well-founded can.
- The invariant of the copying (`CopyInv`) is that the DotWriter tracks the article and that
  the two buffers hold what has come, divided at the head's end if that has come (`Divided`).
  `Closes` follows the bytes that Close adds; `SplitAtEnd` and `CutAtEnd` relate the trimmed
  buffers to the article.
- The invariant of the header loop (`HeadInv`) has a header in hand that begins at line `a`,
  and says of the lines before `a` what RAW, `found` and the fields hold of them (`RawUpTo`,
  `FoundUpTo`, `FieldsUpTo`), and that none of them has ended the function (`PassedUpTo`).
  `RawKept` and `FieldsPicked` speak only of the end of the function and say nothing of the
  loop, so they are not inductive. `Complete` shows that what is in hand is a whole header
  with its folds when the next line is not one.

*Numbers, WildMat and Listings* (`PoolProofs`, which has the proofs about the modules whose
objects are pooled), for every width, every set of ranges, wildmats, entries and names, and
lists of any length: `NumbersRead`, `RangesRead`, `WildMatMatches`, `ListTypeCorrect`,
`BackendIsAsked`, `EntriesAreShown` and `GroupsAreListed`.

- What `ParseUint`, `AppendUint` and `ParseWildMat` compute is shown by induction, as in
  PostedArticle: `ReadingStates`, `DecimalDigits` and `ParsedStates` show that the recursive
  functions exist and follow their equations, and `UpTo` or `AllNumbers` goes over the bytes, the
  numbers or the elements. `DigitAdds` is the step from n / 10 to n, which does not overflow if n
  does not. `DashBetween` finds the two numbers on both sides of the dash.
- `WildMatMatches` compares a loop that builds rule sets with a sentence about the elements
  (`LetIn`). The invariant of the loop (`ParsedAt`) divides the patterns that let a name in by
  whether a pattern behind a negation follows (`Over`): if so an earlier rule set has the name,
  otherwise the last one. `LetIn` alone is not inductive, as the next negation throws the name
  out of the last rule set and of no other.
- `ListInv` adds to the three properties that a selected article has its own message-id
  (`CurrentNamed`), that what is asked fits the stage (`CommandOfStage`), that objects which no
  command uses are clean (`PoolClean`: without it, a message-id or a wildmat of an earlier
  command could be asked), and that each line is the line of its entry (`LinesOfEntries`,
  `LinesOfGroups`). TLC finds all of these to hold on the instance of `listings`.
- `NumbersAssumption` has that `Top`, a power of two, is a positive number, and
  `ListingsAssumption` that a group's article numbers and an entry's numbers fit `Width` bits, as
  they do in an `int64`.

**Only model-checked.** `ArticleHandled`, `OffersEnd` and `WindowMoves`, as liveness under
fairness is outside the prover. Every safety property and every refinement that a passing run
checks is proved.

## Not modelled, and what is left

Left out: the wording of responses and the texts of LIST, DATE, HELP (constant output without
state); byte classes and the splitting of a command line into words (the models begin with
a verb and its arguments); the translation of a wildmat to a regular expression; `singleLineB`,
`CountLines` and `SplitNewsgroups` (pure functions on one string); the stamper
(`posting/stamper.go`: a time stamp); and `Reader.Read` (no caller in the library).

What could come next: the splitting of a command line into words in front of Dialogue, and
the regular expression that `compileToRegexp` makes of a pattern, which would make the set of names
of an element a result of the model and not a constant of it.
