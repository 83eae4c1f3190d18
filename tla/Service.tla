------------------------------- MODULE Service -------------------------------
(***************************************************************************)
(* Several connections served at a time, each by a goroutine that runs     *)
(* ServeConn: the Handler they share and fill, the nntpHandlers, Readers   *)
(* and Groups that they take from pools and put back, and the login of     *)
(* each session (AUTHINFO), which may put another Handler in the place of  *)
(* the shared one.                                                         *)
(*                                                                         *)
(* A pool (sync.Pool) hands out an object it holds or makes a new one, and *)
(* may let go of what it holds.  An object put into it twice is there      *)
(* twice.  The backend behind LoginCaps answers a login with a Handler for *)
(* that user; whether all fields of this Handler are set is its affair.    *)
(***************************************************************************)
EXTENDS Naturals, FiniteSets

CONSTANTS
  Conns,          \* the connections served at a time
  Nntp, Readers, Groups,  \* bound: the objects there can be of each pool
  Users,          \* the user names
  Open,           \* those accepted without a password
  knows,          \* whose passwords the client of a connection has
  Fields,         \* how many interfaces are embedded in a Handler (five)
  Given,          \* those the program has set in the Handler it serves with
  BackendFills    \* FALSE: a Handler for a user may lack some

None == "none"    \* a nil pointer, or the empty name
Base == "base"    \* the Handler that ServeConn is called on

ASSUME ServiceAssumption ==
  /\ Open \subseteq Users
  /\ knows \in [Conns -> SUBSET Users]
  /\ Users \cap {None, Base} = {}
  /\ Fields \in Nat \ {0} /\ Given \subseteq 1 .. Fields
  /\ BackendFills \in BOOLEAN
  /\ None \notin Nntp \cup Readers \cup Groups
  /\ Nntp \cap Readers = {} /\ Nntp \cap Groups = {} /\ Readers \cap Groups = {}

VARIABLES
  pc,             \* where the goroutine of a connection stands
  at,             \* fill: the field it has come to
  todo,           \* fill: the words of that field it has still to write
  word,           \* the two words of each field of the shared Handler: set or not
  lacking,        \* the users whose Handler lacks a field
  made,           \* the objects there are
  pooled,         \* how often the pools hold each
  nh,             \* the nntpHandler of a goroutine
  grp,            \* handleGroup and handleListgroup: the Group just taken
  r, h, group, userName,  \* the fields of an nntpHandler
  src,            \* Reader.r: the connection it reads from
  given,          \* history: the user the client has named last, of those refused
  shown           \* history: the users it has logged in as in this session

filling == <<at, todo, word>>
pools   == <<made, pooled>>
fields  == <<r, h, group, userName>>
client  == <<given, shown>>
vars == <<pc, at, todo, word, lacking, made, pooled, nh, grp, r, h, group, userName, src, given, shown>>

Objects == Nntp \cup Readers \cup Groups
Words   == {"type", "data"}

TypeOK ==
  /\ pc \in [Conns -> {"free", "fill", "serve", "group", "list", "release"}]
  /\ at \in [Conns -> 1 .. Fields+1]
  /\ todo \in [Conns -> SUBSET Words]
  /\ word \in [1 .. Fields -> SUBSET Words]
  /\ lacking \subseteq Users
  /\ made \subseteq Objects
  /\ pooled \in [Objects -> Nat]
  /\ nh \in [Conns -> Nntp \cup {None}]
  /\ grp \in [Conns -> Groups \cup {None}]
  /\ r \in [Nntp -> Readers \cup {None}]
  /\ h \in [Nntp -> Users \cup {Base, None}]
  /\ group \in [Nntp -> Groups \cup {None}]
  /\ userName \in [Nntp -> Users \cup {None}]
  /\ src \in [Readers -> Conns \cup {None}]
  /\ given \in [Conns -> Users \cup {None}]
  /\ shown \in [Conns -> SUBSET Users]
  /\ \A c \in Conns :
       /\ nh[c] # None <=> pc[c] \in {"serve", "group", "list", "release"}
       /\ grp[c] # None <=> pc[c] \in {"group", "list"}
       /\ nh[c] # None => r[nh[c]] # None /\ h[nh[c]] # None

Init ==
  /\ pc = [c \in Conns |-> "free"]
  /\ at = [c \in Conns |-> 1] /\ todo = [c \in Conns |-> {}]
  /\ word = [f \in 1 .. Fields |-> IF f \in Given THEN Words ELSE {}]
  /\ lacking \in IF BackendFills THEN {{}} ELSE SUBSET Users
  /\ made = {} /\ pooled = [o \in Objects |-> 0]
  /\ nh = [c \in Conns |-> None] /\ grp = [c \in Conns |-> None]
  /\ r = [n \in Nntp |-> None] /\ h = [n \in Nntp |-> None]
  /\ group = [n \in Nntp |-> None] /\ userName = [n \in Nntp |-> None]
  /\ src = [d \in Readers |-> None]
  /\ given = [c \in Conns |-> None] /\ shown = [c \in Conns |-> {}]

-----------------------------------------------------------------------------
(***************************************************************************)
(* The pools.  gets and puts are sets of objects; the caller knows of      *)
(* which pool each is.                                                     *)
(***************************************************************************)
Obtainable(o) == pooled[o] > 0 \/ o \notin made

Pool(gets, puts) ==
  /\ \A o \in gets : Obtainable(o)
  /\ made' = made \cup gets
  /\ pooled' = [o \in Objects |-> LET held == IF o \in gets /\ o \in made THEN pooled[o] - 1 ELSE pooled[o]
                                  IN  IF o \in puts THEN held + 1 ELSE held]

\* The garbage collector empties a pool; a new object will have empty fields.
Forget(o) ==
  /\ pooled[o] > 0
  /\ pooled' = [pooled EXCEPT ![o] = 0]
  /\ made' = made \ {o}
  /\ r' = [n \in Nntp |-> IF n = o THEN None ELSE r[n]]
  /\ h' = [n \in Nntp |-> IF n = o THEN None ELSE h[n]]
  /\ group' = [n \in Nntp |-> IF n = o THEN None ELSE group[n]]
  /\ userName' = [n \in Nntp |-> IF n = o THEN None ELSE userName[n]]
  /\ src' = [d \in Readers |-> IF d = o THEN None ELSE src[d]]
  /\ UNCHANGED <<pc, filling, lacking, nh, grp, client>>

-----------------------------------------------------------------------------
(***************************************************************************)
(* Handler.fill, by every goroutine on the same Handler and without a      *)
(* lock.  A field is nil as long as its type word is not set; the two      *)
(* words are written one after the other, in either order.                 *)
(***************************************************************************)
Accept(c) ==
  /\ pc[c] = "free"
  /\ pc' = [pc EXCEPT ![c] = "fill"]
  /\ at' = [at EXCEPT ![c] = 1]
  /\ UNCHANGED <<todo, word, lacking, pools, nh, grp, fields, src, client>>

Filling(c) == pc[c] = "fill" /\ at[c] <= Fields
IsNil(f)   == "type" \notin word[f]

\* A fault for the mutants: a field that is set is taken to mean that all are.
FillLook_Early(c) ==
  /\ Filling(c) /\ todo[c] = {}
  /\ \/ IsNil(at[c]) /\ todo' = [todo EXCEPT ![c] = Words] /\ UNCHANGED at
     \/ ~ IsNil(at[c]) /\ at' = [at EXCEPT ![c] = Fields + 1] /\ UNCHANGED todo
  /\ UNCHANGED <<pc, word, lacking, pools, nh, grp, fields, src, client>>

FillLook(c) ==
  /\ Filling(c) /\ todo[c] = {}
  /\ \/ IsNil(at[c]) /\ todo' = [todo EXCEPT ![c] = Words] /\ UNCHANGED at
     \/ ~ IsNil(at[c]) /\ at' = [at EXCEPT ![c] = @ + 1] /\ UNCHANGED todo
  /\ UNCHANGED <<pc, word, lacking, pools, nh, grp, fields, src, client>>

FillWrite(c) ==
  /\ Filling(c)
  /\ \E w \in todo[c] :
       /\ word' = [word EXCEPT ![at[c]] = @ \cup {w}]
       /\ todo' = [todo EXCEPT ![c] = @ \ {w}]
       /\ at' = IF todo[c] = {w} THEN [at EXCEPT ![c] = @ + 1] ELSE at
  /\ UNCHANGED <<pc, lacking, pools, nh, grp, fields, src, client>>

-----------------------------------------------------------------------------
(***************************************************************************)
(* ServeConn: an nntpHandler and a Reader are taken and set up.            *)
(***************************************************************************)
\* A fault for the mutants: the Handler is not set.
Begin_NoHandler(c) ==
  /\ pc[c] = "fill" /\ at[c] = Fields + 1
  /\ \E n \in Nntp, d \in Readers :
       /\ Pool({n, d}, {})
       /\ nh' = [nh EXCEPT ![c] = n]
       /\ r' = [r EXCEPT ![n] = d]
       /\ UNCHANGED h
       /\ src' = [src EXCEPT ![d] = c]
  /\ pc' = [pc EXCEPT ![c] = "serve"]
  /\ given' = [given EXCEPT ![c] = None] /\ shown' = [shown EXCEPT ![c] = {}]
  /\ UNCHANGED <<filling, lacking, grp, group, userName>>

Begin(c) ==
  /\ pc[c] = "fill" /\ at[c] = Fields + 1
  /\ \E n \in Nntp, d \in Readers :
       /\ Pool({n, d}, {})
       /\ nh' = [nh EXCEPT ![c] = n]
       /\ r' = [r EXCEPT ![n] = d]
       /\ h' = [h EXCEPT ![n] = Base]
       /\ src' = [src EXCEPT ![d] = c]
  /\ pc' = [pc EXCEPT ![c] = "serve"]
  /\ given' = [given EXCEPT ![c] = None] /\ shown' = [shown EXCEPT ![c] = {}]
  /\ UNCHANGED <<filling, lacking, grp, group, userName>>

\* servceConn has returned.  The deferred calls: rdr.Release, then conn.Close
\* and nh.release, which still holds the Reader.
End(c) ==
  /\ pc[c] = "serve"
  /\ Pool({}, {r[nh[c]]})
  /\ pc' = [pc EXCEPT ![c] = "release"]
  /\ UNCHANGED <<filling, lacking, nh, grp, fields, src, client>>

SomeGroup(n) == {group[n]} \ {None}

release(c) ==
  /\ pc[c] = "release"
  /\ Pool({}, {nh[c]} \cup SomeGroup(nh[c]))
  /\ r' = [r EXCEPT ![nh[c]] = None]
  /\ h' = [h EXCEPT ![nh[c]] = None]
  /\ group' = [group EXCEPT ![nh[c]] = None]
  /\ userName' = [userName EXCEPT ![nh[c]] = None]
  /\ nh' = [nh EXCEPT ![c] = None]
  /\ pc' = [pc EXCEPT ![c] = "free"]
  /\ UNCHANGED <<filling, lacking, grp, src, client>>

-----------------------------------------------------------------------------
(***************************************************************************)
(* GROUP, and LISTGROUP of a group that is not the selected one, take a    *)
(* Group and ask the backend about it.                                     *)
(***************************************************************************)
TakeGroup(c, l) ==
  /\ pc[c] = "serve"
  /\ \E g \in Groups : Pool({g}, {}) /\ grp' = [grp EXCEPT ![c] = g]
  /\ pc' = [pc EXCEPT ![c] = l]
  /\ UNCHANGED <<filling, lacking, nh, fields, src, client>>

GroupDone(c) == grp' = [grp EXCEPT ![c] = None] /\ pc' = [pc EXCEPT ![c] = "serve"]

GroupFound(c) ==
  /\ pc[c] = "group"
  /\ Pool({}, SomeGroup(nh[c]))
  /\ group' = [group EXCEPT ![nh[c]] = grp[c]]
  /\ GroupDone(c)
  /\ UNCHANGED <<filling, lacking, nh, r, h, userName, src, client>>

\* A fault for the mutants: the Group of the selection that stays is put back.
GroupMissing_PutsOld(c) ==
  /\ pc[c] = "group"
  /\ Pool({}, {grp[c]} \cup SomeGroup(nh[c]))
  /\ GroupDone(c)
  /\ UNCHANGED <<filling, lacking, nh, fields, src, client>>

GroupMissing(c) ==
  /\ pc[c] = "group"
  /\ Pool({}, {grp[c]})
  /\ GroupDone(c)
  /\ UNCHANGED <<filling, lacking, nh, fields, src, client>>

\* The deferred pool_Group_put, whether the group was found or not.
ListDone(c) ==
  /\ pc[c] = "list"
  /\ Pool({}, {grp[c]})
  /\ GroupDone(c)
  /\ UNCHANGED <<filling, lacking, nh, fields, src, client>>

-----------------------------------------------------------------------------
(***************************************************************************)
(* AUTHINFO, as long as AuthinfoDone says no: in a session whose Handler   *)
(* is that of a user it says yes, and nothing changes.                     *)
(***************************************************************************)
MayLogin(c) == pc[c] = "serve" /\ h[nh[c]] = Base

\* A fault for the mutants: the old Handler is overwritten, not exchanged.
LoggedIn_InPlace(c, u) ==
  /\ h' = [n \in Nntp |-> IF h[n] = Base THEN u ELSE h[n]]
  /\ shown' = [shown EXCEPT ![c] = @ \cup {u}]

LoggedIn(c, u) ==
  /\ h' = [h EXCEPT ![nh[c]] = u]
  /\ shown' = [shown EXCEPT ![c] = @ \cup {u}]

AuthUserOnly(c, u) ==
  /\ MayLogin(c) /\ u \in Open
  /\ LoggedIn(c, u)
  /\ UNCHANGED <<pc, filling, lacking, pools, nh, grp, r, group, userName, src, given>>

AuthUser(c, u) ==
  /\ MayLogin(c) /\ u \notin Open
  /\ userName' = [userName EXCEPT ![nh[c]] = u]
  /\ given' = [given EXCEPT ![c] = u]
  /\ UNCHANGED <<pc, filling, lacking, pools, nh, grp, r, h, group, src, shown>>

\* AUTHINFO PASS with the password of p succeeds for the name p; for another
\* name, or without one, nothing changes.
AuthPass(c, p) ==
  /\ MayLogin(c) /\ p \in knows[c]
  /\ userName[nh[c]] = p
  /\ LoggedIn(c, p)
  /\ UNCHANGED <<pc, filling, lacking, pools, nh, grp, r, group, userName, src, given>>

-----------------------------------------------------------------------------
Serve(c) ==
  \/ Accept(c) \/ FillLook(c) \/ FillWrite(c) \/ Begin(c) \/ End(c) \/ release(c)
  \/ TakeGroup(c, "group") \/ TakeGroup(c, "list")
  \/ GroupFound(c) \/ GroupMissing(c) \/ ListDone(c)
  \/ \E u \in Users : AuthUserOnly(c, u) \/ AuthUser(c, u) \/ AuthPass(c, u)

Next == (\E c \in Conns : Serve(c)) \/ (\E o \in Objects : Forget(o))

Spec == Init /\ [][Next]_vars

-----------------------------------------------------------------------------
(* Safety *)

Serving(c) == pc[c] \in {"serve", "group", "list"}

\* The objects a goroutine may still touch.
Uses(c) == ( CASE Serving(c)        -> {nh[c], r[nh[c]], group[nh[c]], grp[c]}
               [] pc[c] = "release" -> {nh[c], group[nh[c]]}
               [] OTHER             -> {} ) \ {None}

\* Nothing that one session uses is used by another or lies in a pool, also
\* while the deferred calls of ServeConn run (nntpdecoder.go:83-86), and a
\* Reader reads from the connection of the session that uses it.  Whatever was
\* taken out of a pool is put back, on every path through handleGroup,
\* handleListgroup and release.
Exclusive ==
  /\ \A c, d \in Conns : c # d => Uses(c) \cap Uses(d) = {}
  /\ \A c \in Conns : \A o \in Uses(c) : pooled[o] = 0
  /\ \A o \in Objects : pooled[o] <= 1
  /\ \A o \in made : pooled[o] > 0 \/ \E c \in Conns : o \in Uses(c)
  /\ \A c \in Conns : Serving(c) => src[r[nh[c]]] = c /\ (grp[c] # None => grp[c] # group[nh[c]])

\* A session calls no capability that is nil: the shared Handler has been filled
\* before the session begins, also when several goroutines fill it at once.
CapsReady ==
  \A c \in Conns : Serving(c) =>
    IF h[nh[c]] = Base THEN \A f \in 1 .. Fields : ~ IsNil(f) ELSE h[nh[c]] \notin lacking

\* A session acts for a user only if its own client has logged in as that user,
\* with the password or as one who needs none: no login outlives its session or
\* reaches the Handler that others share, and AUTHINFO PASS never tries a password
\* with a name left over from an earlier session.
LoginIsOwn ==
  \A c \in Conns : Serving(c) =>
    /\ h[nh[c]] # Base => h[nh[c]] \in shown[c] \cap (Open \cup knows[c])
    /\ userName[nh[c]] = given[c]
=============================================================================
