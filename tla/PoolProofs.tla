------------------------------ MODULE PoolProofs ------------------------------
(***************************************************************************)
(* Proofs about the two modules in which handlers work with objects of the *)
(* pools: Service, whose readers and nntpHandlers change hands, and        *)
(* Listings, whose ArticleRange, Overview and ListActive carry a command   *)
(* to the backend.  For every number of connections, of interfaces in a    *)
(* Handler and of objects in the pools, for every set of users; and for    *)
(* every width of numbers, group, range, wildmat and list.                 *)
(***************************************************************************)
EXTENDS Service, Listings, SequenceTheorems, WellFoundedInduction, TLAPS

(***************************************************************************)
(* Exclusive, made inductive.  Who uses an object took it from the pool    *)
(* and has not put it back, so no pool can give it to another; and an      *)
(* nntpHandler outside a session holds no group, which the next session    *)
(* would share, and no name, which it would log in with.                   *)
(***************************************************************************)
Owned ==
  /\ \A c, d \in Conns : c # d => Uses(c) \cap Uses(d) = {}
  /\ \A c \in Conns : \A o \in Uses(c) : o \in made /\ pooled[o] = 0
  /\ \A o \in Objects : pooled[o] <= 1
  /\ \A o \in made : pooled[o] > 0 \/ \E c \in Conns : o \in Uses(c)
  /\ \A o \in Objects : o \notin made => pooled[o] = 0

InUse(n) == \E c \in Conns : nh[c] = n

Released == \A n \in Nntp : ~ InUse(n) => group[n] = None /\ userName[n] = None

OwnReader == \A c \in Conns : Serving(c) => src[r[nh[c]]] = c
NewGroup  == \A c \in Conns : Serving(c) /\ grp[c] # None => grp[c] # group[nh[c]]

OwnInv == TypeOK /\ Owned /\ Released /\ OwnReader /\ NewGroup

-----------------------------------------------------------------------------
\* What a goroutine uses, by where it stands.
LEMMA UsesByPlace ==
  ASSUME NEW c \in Conns
  PROVE  /\ Serving(c) => Uses(c) = {nh[c], r[nh[c]], group[nh[c]], grp[c]} \ {None}
         /\ pc[c] = "release" => Uses(c) = {nh[c], group[nh[c]]} \ {None}
         /\ pc[c] \in {"free", "fill"} => Uses(c) = {}
BY DEF Uses, Serving

\* Who has an nntpHandler uses it.
LEMMA HandlerIsUsed ==
  ASSUME TypeOK, NEW c \in Conns, nh[c] # None
  PROVE  nh[c] \in Uses(c)
<1>1. Serving(c) \/ pc[c] = "release"
  BY DEF TypeOK, Serving
<1> QED BY <1>1, UsesByPlace

\* Two goroutines never have the same nntpHandler.
LEMMA OwnHandler ==
  ASSUME TypeOK, Owned, NEW c \in Conns, NEW d \in Conns, c # d, nh[c] # None
  PROVE  nh[c] # nh[d]
<1>1. \A e \in Conns : nh[e] # None => nh[e] \in Uses(e)
  BY HandlerIsUsed
<1> QED BY <1>1 DEF Owned

\* An object that a pool can give is used by nobody.
LEMMA ObtainableIsUnused ==
  ASSUME TypeOK, Owned, NEW o \in Objects, Obtainable(o)
  PROVE  \A c \in Conns : o \notin Uses(c)
BY DEF TypeOK, Owned, Obtainable

\* A goroutine that takes objects from the pools and puts back some of its own,
\* and only those, leaves every object with one owner.
LEMMA TradeKeepsOwned ==
  ASSUME TypeOK, Owned, NEW c \in Conns, NEW gets \in SUBSET Objects, NEW puts,
         puts \subseteq Uses(c), Pool(gets, puts),
         Uses(c)' = (Uses(c) \ puts) \cup gets,
         \A d \in Conns : d # c => Uses(d)' = Uses(d)
  PROVE  Owned' /\ pooled' \in [Objects -> Nat] /\ made' \subseteq Objects
<1>1. \A o \in gets : \A d \in Conns : o \notin Uses(d)
  BY ObtainableIsUnused DEF Pool
<1>2. made' = made \cup gets
  BY DEF Pool
<1>3. \A o \in Objects : o \in gets => pooled'[o] = 0
  <2> SUFFICES ASSUME NEW o \in gets
               PROVE  pooled'[o] = 0
    OBVIOUS
  <2>1. o \notin puts
    BY <1>1
  <2>2. o \in made => pooled[o] = 1
    BY DEF Pool, Obtainable, TypeOK, Owned
  <2>3. o \notin made => pooled[o] = 0
    BY DEF Owned
  <2> QED BY <2>1, <2>2, <2>3 DEF Pool
<1>4. \A o \in Objects : o \in puts => o \in made /\ pooled'[o] = 1
  BY <1>1 DEF Pool, Owned
<1>5. \A o \in Objects : o \notin gets \cup puts => pooled'[o] = pooled[o]
  BY DEF Pool, TypeOK
<1>6. pooled' \in [Objects -> Nat]
  <2>1. \A o \in Objects : pooled'[o] \in Nat
    BY <1>3, <1>4, <1>5 DEF TypeOK
  <2>2. pooled' = [o \in Objects |-> pooled'[o]]
    BY DEF Pool
  <2> QED BY <2>1, <2>2
<1>7. \A d, e \in Conns : d # e => (Uses(d) \cap Uses(e) = {})'
  BY <1>1 DEF Owned
<1>8. \A d \in Conns : \A o \in Uses(d)' : o \in made' /\ pooled'[o] = 0
  <2> SUFFICES ASSUME NEW d \in Conns, NEW o \in Uses(d)'
               PROVE  o \in made' /\ pooled'[o] = 0
    OBVIOUS
  <2>1. CASE o \in gets
    BY <1>2, <1>3, <2>1
  <2>2. CASE o \notin gets
    <3>1. o \in Uses(d) /\ o \notin puts
      BY <2>2 DEF Owned
    <3>2. o \in Objects /\ o \in made /\ pooled[o] = 0
      BY <3>1 DEF Owned, TypeOK
    <3> QED BY <1>2, <1>5, <2>2, <3>1, <3>2
  <2> QED BY <2>1, <2>2
<1>9. \A o \in Objects : pooled'[o] <= 1
  BY <1>3, <1>4, <1>5 DEF Owned
<1>10. \A o \in made' : pooled'[o] > 0 \/ \E d \in Conns : o \in Uses(d)'
  <2> SUFFICES ASSUME NEW o \in made'
               PROVE  pooled'[o] > 0 \/ \E d \in Conns : o \in Uses(d)'
    OBVIOUS
  <2>1. o \in Objects
    BY <1>2 DEF TypeOK
  <2>2. CASE o \in puts
    BY <1>4, <2>1, <2>2
  <2>3. CASE o \in gets
    BY <2>3
  <2>4. CASE o \notin gets \cup puts
    <3>1. o \in made /\ pooled'[o] = pooled[o]
      BY <1>2, <1>5, <2>1, <2>4
    <3>2. ASSUME NEW d \in Conns, o \in Uses(d)
          PROVE  o \in Uses(d)'
      BY <2>4, <3>2
    <3> QED BY <3>1, <3>2 DEF Owned
  <2> QED BY <2>2, <2>3, <2>4
<1>11. \A o \in Objects : o \notin made' => pooled'[o] = 0
  BY <1>2, <1>4, <1>5 DEF Owned
<1> QED BY <1>2, <1>6, <1>7, <1>8, <1>9, <1>10, <1>11 DEF Owned, TypeOK

\* A goroutine whose place and handler stay uses what it used.
LEMMA OthersKeepUses ==
  ASSUME TypeOK, NEW d \in Conns,
         pc'[d] = pc[d], nh'[d] = nh[d], grp'[d] = grp[d],
         nh[d] # None => r'[nh[d]] = r[nh[d]] /\ group'[nh[d]] = group[nh[d]]
  PROVE  Uses(d)' = Uses(d)
<1>1. CASE Serving(d)
  <2>1. nh[d] # None /\ Serving(d)'
    BY <1>1 DEF TypeOK, Serving
  <2> QED BY <1>1, <2>1 DEF Uses, Serving
<1>2. CASE pc[d] = "release"
  <2>1. nh[d] # None
    BY <1>2 DEF TypeOK
  <2> QED BY <1>2, <2>1 DEF Uses, Serving
<1>3. CASE pc[d] \in {"free", "fill"}
  BY <1>3 DEF Uses, Serving
<1> QED BY <1>1, <1>2, <1>3 DEF TypeOK, Serving

\* The nntpHandler of a goroutine lies in no pool and is no other's.
LEMMA HandlerFacts ==
  ASSUME TypeOK, Owned, NEW c \in Conns, nh[c] # None
  PROVE  /\ nh[c] \in Nntp
         /\ nh[c] \in made /\ pooled[nh[c]] = 0
         /\ r[nh[c]] \in Readers /\ group[nh[c]] \in Groups \cup {None}
         /\ \A d \in Conns : d # c => nh[d] # nh[c]
<1>1. nh[c] \in Nntp /\ r[nh[c]] \in Readers /\ group[nh[c]] \in Groups \cup {None}
  BY DEF TypeOK
<1>2. nh[c] \in made /\ pooled[nh[c]] = 0
  BY HandlerIsUsed DEF Owned
<1>3. \A d \in Conns : d # c => nh[d] # nh[c]
  BY OwnHandler
<1> QED BY <1>1, <1>2, <1>3

\* Filling the Handler, and AUTHINFO, touch nothing of this.
LEMMA PoolsUntouched ==
  ASSUME OwnInv, TypeOK', UNCHANGED <<made, pooled, nh, grp, r, group, src>>,
         \A n \in Nntp : userName'[n] # userName[n] => InUse(n),
         \A d \in Conns : \/ pc'[d] = pc[d]
                          \/ pc[d] \in {"free", "fill"} /\ pc'[d] \in {"free", "fill"}
  PROVE  OwnInv'
<1> USE DEF OwnInv
<1>1. \A d \in Conns : Uses(d)' = Uses(d)
  BY OthersKeepUses, UsesByPlace DEF Uses, Serving
<1>2. Owned'
  BY <1>1 DEF Owned
<1>3. Released'
  BY DEF Released, InUse
<1>4. \A d \in Conns : Serving(d)' => Serving(d)
  BY DEF Serving
<1>5. OwnReader' /\ NewGroup'
  BY <1>4 DEF OwnReader, NewGroup
<1> QED BY <1>2, <1>3, <1>5

\* Begin: what the pools give is nobody's, and has no group and no name.
LEMMA BeginKeeps ==
  ASSUME OwnInv, NEW c \in Conns, Begin(c)
  PROVE  OwnInv'
<1> USE ServiceAssumption DEF OwnInv
<1>1. PICK n \in Nntp, d \in Readers :
        /\ Pool({n, d}, {})
        /\ nh' = [nh EXCEPT ![c] = n]
        /\ r' = [r EXCEPT ![n] = d]
        /\ h' = [h EXCEPT ![n] = Base]
        /\ src' = [src EXCEPT ![d] = c]
  BY DEF Begin
<1> USE <1>1
<1>2. /\ pc[c] = "fill" /\ pc' = [pc EXCEPT ![c] = "serve"]
      /\ nh[c] = None /\ grp[c] = None
      /\ UNCHANGED <<grp, group, userName>>
  BY DEF Begin, TypeOK
<1>3. \A e \in Conns : n \notin Uses(e) /\ d \notin Uses(e)
  BY ObtainableIsUnused DEF Pool, Objects
<1>4. \A e \in Conns : nh[e] # n
  BY <1>3, HandlerIsUsed
<1>5. group[n] = None /\ userName[n] = None
  BY <1>4 DEF Released, InUse
<1>6. Uses(c) = {} /\ Uses(c)' = {n, d}
  <2>1. Uses(c) = {}
    BY <1>2, UsesByPlace
  <2>2. nh'[c] = n /\ r'[n] = d /\ group'[n] = None /\ grp'[c] = None /\ pc'[c] = "serve"
    BY <1>2, <1>5 DEF TypeOK
  <2>3. Uses(c)' = {n, d, None} \ {None}
    BY <2>2 DEF Uses, Serving
  <2> QED BY <2>1, <2>3
<1>7. \A e \in Conns : e # c => Uses(e)' = Uses(e)
  <2> SUFFICES ASSUME NEW e \in Conns, e # c
               PROVE  Uses(e)' = Uses(e)
    OBVIOUS
  <2>1. /\ pc'[e] = pc[e] /\ nh'[e] = nh[e] /\ grp'[e] = grp[e]
        /\ nh[e] # None => r'[nh[e]] = r[nh[e]] /\ group'[nh[e]] = group[nh[e]]
    BY <1>2, <1>4 DEF TypeOK
  <2> QED BY <2>1, OthersKeepUses
<1>8. Owned' /\ pooled' \in [Objects -> Nat] /\ made' \subseteq Objects
  <2>1. {n, d} \in SUBSET Objects
    BY DEF Objects
  <2>2. Uses(c)' = (Uses(c) \ {}) \cup {n, d}
    BY <1>6
  <2> QED BY <1>7, <2>1, <2>2, TradeKeepsOwned
<1>9. TypeOK'
  <2>1. \A e \in Conns :
          /\ nh'[e] # None <=> pc'[e] \in {"serve", "group", "list", "release"}
          /\ grp'[e] # None <=> pc'[e] \in {"group", "list"}
          /\ nh'[e] # None => r'[nh'[e]] # None /\ h'[nh'[e]] # None
    <3> SUFFICES ASSUME NEW e \in Conns
                 PROVE  /\ nh'[e] # None <=> pc'[e] \in {"serve", "group", "list", "release"}
                        /\ grp'[e] # None <=> pc'[e] \in {"group", "list"}
                        /\ nh'[e] # None => r'[nh'[e]] # None /\ h'[nh'[e]] # None
      OBVIOUS
    <3>1. CASE e = c
      <4>1. nh'[e] = n /\ r'[n] = d /\ h'[n] = Base /\ pc'[e] = "serve" /\ grp'[e] = None
        BY <1>2, <3>1 DEF TypeOK
      <4> QED BY <4>1 DEF None, Base
    <3>2. CASE e # c
      <4>1. nh'[e] = nh[e] /\ pc'[e] = pc[e] /\ grp'[e] = grp[e] /\ nh[e] # n
        BY <1>2, <1>4, <3>2 DEF TypeOK
      <4>2. nh[e] # None => r'[nh[e]] = r[nh[e]] /\ h'[nh[e]] = h[nh[e]]
        BY <4>1 DEF TypeOK
      <4> QED BY <4>1, <4>2 DEF TypeOK
    <3> QED BY <3>1, <3>2
  <2> QED BY <1>8, <2>1 DEF TypeOK, Begin, filling
<1>10. Released'
  BY <1>2, <1>5 DEF Released, InUse, TypeOK
<1>11. OwnReader' /\ NewGroup'
  <2> SUFFICES ASSUME NEW e \in Conns, Serving(e)'
               PROVE  src'[r'[nh'[e]]] = e /\ (grp'[e] # None => grp'[e] # group'[nh'[e]])
    BY DEF OwnReader, NewGroup
  <2>1. CASE e = c
    BY <1>2, <2>1 DEF TypeOK
  <2>2. CASE e # c
    <3>1. Serving(e) /\ nh'[e] = nh[e] /\ nh[e] # n /\ r'[nh[e]] = r[nh[e]]
      BY <1>2, <1>4, <2>2 DEF Serving, TypeOK
    <3>2. r[nh[e]] # d
      BY <1>3, <3>1, UsesByPlace
    <3>3. src'[r[nh[e]]] = src[r[nh[e]]]
      BY <3>1, <3>2 DEF TypeOK
    <3> QED BY <1>2, <3>1, <3>3 DEF OwnReader, NewGroup
  <2> QED BY <2>1, <2>2
<1> QED BY <1>8, <1>9, <1>10, <1>11

\* End: the Reader is put back while the nntpHandler still points to it.
LEMMA EndKeeps ==
  ASSUME OwnInv, NEW c \in Conns, End(c)
  PROVE  OwnInv'
<1> USE ServiceAssumption DEF OwnInv
<1>1. /\ pc[c] = "serve" /\ pc' = [pc EXCEPT ![c] = "release"]
      /\ Pool({}, {r[nh[c]]})
      /\ UNCHANGED <<at, todo, word, lacking, nh, grp, r, h, group, userName, src, given, shown>>
  BY DEF End, filling, fields, client
<1>2. nh[c] # None /\ grp[c] = None /\ Serving(c)
  BY <1>1 DEF TypeOK, Serving
<1>3. nh[c] \in Nntp /\ r[nh[c]] \in Readers /\ group[nh[c]] \in Groups \cup {None}
  BY <1>2, HandlerFacts
<1>4. \A e \in Conns : e # c => Uses(e)' = Uses(e)
  <2> SUFFICES ASSUME NEW e \in Conns, e # c
               PROVE  Uses(e)' = Uses(e)
    OBVIOUS
  <2>1. pc'[e] = pc[e]
    BY <1>1 DEF TypeOK
  <2> QED BY <1>1, <2>1, OthersKeepUses
<1>5. Uses(c) = {nh[c], r[nh[c]], group[nh[c]]} \ {None}
  BY <1>2, UsesByPlace
<1>6. Uses(c)' = {nh[c], group[nh[c]]} \ {None}
  <2>1. pc'[c] = "release"
    BY <1>1 DEF TypeOK
  <2> QED BY <1>1, <2>1 DEF Uses, Serving
<1>7. Owned' /\ pooled' \in [Objects -> Nat] /\ made' \subseteq Objects
  <2> DEFINE puts == {r[nh[c]]}
  <2>1. puts \subseteq Uses(c) /\ Uses(c)' = (Uses(c) \ puts) \cup {}
    BY <1>3, <1>5, <1>6
  <2>2. Pool({}, puts)
    BY <1>1
  <2> QED BY <1>4, <2>1, <2>2, TradeKeepsOwned
<1>8. TypeOK'
  BY <1>1, <1>2, <1>7 DEF TypeOK
<1>9. Released'
  BY <1>1 DEF Released, InUse
<1>10. \A e \in Conns : Serving(e)' => Serving(e)
  BY <1>1 DEF Serving, TypeOK
<1> QED BY <1>1, <1>7, <1>8, <1>9, <1>10 DEF OwnReader, NewGroup

\* release: the nntpHandler and its group are put back, the handler emptied.
LEMMA releaseKeeps ==
  ASSUME OwnInv, NEW c \in Conns, release(c)
  PROVE  OwnInv'
<1> USE ServiceAssumption DEF OwnInv
<1> DEFINE n == nh[c]
<1>1. /\ pc[c] = "release" /\ pc' = [pc EXCEPT ![c] = "free"]
      /\ Pool({}, {n} \cup SomeGroup(n))
      /\ nh' = [nh EXCEPT ![c] = None]
      /\ r' = [r EXCEPT ![n] = None] /\ h' = [h EXCEPT ![n] = None]
      /\ group' = [group EXCEPT ![n] = None] /\ userName' = [userName EXCEPT ![n] = None]
      /\ UNCHANGED <<at, todo, word, lacking, grp, src, given, shown>>
  BY DEF release, filling, client
<1>2. nh[c] # None /\ grp[c] = None
  BY <1>1 DEF TypeOK
<1>3. n \in Nntp /\ \A e \in Conns : e # c => nh[e] # n
  BY <1>2, HandlerFacts
<1> HIDE DEF n
<1>4. \A e \in Conns : e # c => /\ pc'[e] = pc[e] /\ nh'[e] = nh[e] /\ nh[e] # n
                                /\ nh[e] # None => /\ r'[nh[e]] = r[nh[e]] /\ h'[nh[e]] = h[nh[e]]
                                                   /\ group'[nh[e]] = group[nh[e]]
  BY <1>1, <1>3 DEF TypeOK
<1>5. \A e \in Conns : e # c => Uses(e)' = Uses(e)
  BY <1>1, <1>4, OthersKeepUses
<1>6. pc'[c] = "free" /\ nh'[c] = None
  BY <1>1 DEF TypeOK
<1>7. Owned' /\ pooled' \in [Objects -> Nat] /\ made' \subseteq Objects
  <2> DEFINE puts == {n} \cup SomeGroup(n)
  <2>1. Uses(c) = {n, group[n]} \ {None}
    BY <1>1, UsesByPlace DEF n
  <2>2. Uses(c)' = {}
    BY <1>6 DEF Uses, Serving
  <2>3. puts \subseteq Uses(c) /\ Uses(c)' = (Uses(c) \ puts) \cup {}
    BY <1>3, <2>1, <2>2 DEF SomeGroup
  <2>4. Pool({}, puts)
    BY <1>1
  <2> QED BY <1>5, <2>3, <2>4, TradeKeepsOwned
<1>8. TypeOK'
  <2>1. \A e \in Conns :
          /\ nh'[e] # None <=> pc'[e] \in {"serve", "group", "list", "release"}
          /\ grp'[e] # None <=> pc'[e] \in {"group", "list"}
          /\ nh'[e] # None => r'[nh'[e]] # None /\ h'[nh'[e]] # None
    BY <1>1, <1>2, <1>4, <1>6 DEF TypeOK
  <2> QED BY <1>1, <1>3, <1>7, <2>1 DEF TypeOK
<1>9. Released'
  <2> SUFFICES ASSUME NEW m \in Nntp, ~ InUse(m)'
               PROVE  group'[m] = None /\ userName'[m] = None
    BY DEF Released
  <2>1. CASE m = n
    BY <1>1, <2>1 DEF TypeOK
  <2>2. CASE m # n
    <3>1. ~ InUse(m)
      BY <1>4, <1>6, <2>2 DEF InUse, n
    <3> QED BY <1>1, <2>2, <3>1 DEF Released, TypeOK
  <2> QED BY <2>1, <2>2
<1>10. OwnReader' /\ NewGroup'
  <2>1. \A e \in Conns : Serving(e)' => e # c /\ Serving(e)
    BY <1>4, <1>6 DEF Serving
  <2>2. \A e \in Conns : Serving(e) => nh[e] # None
    BY DEF Serving, TypeOK
  <2> QED BY <1>1, <1>4, <2>1, <2>2 DEF OwnReader, NewGroup
<1> QED BY <1>7, <1>8, <1>9, <1>10

\* Steps about a Group leave the handlers' names, the Readers and where they
\* read from; what is left to show is about the goroutine itself.
LEMMA GroupStepKeeps ==
  ASSUME OwnInv, NEW c \in Conns, Serving(c), NEW gets \in SUBSET Objects, NEW puts,
         puts \subseteq Uses(c), Pool(gets, puts),
         Uses(c)' = (Uses(c) \ puts) \cup gets,
         NEW l \in {"serve", "group", "list"}, pc' = [pc EXCEPT ![c] = l],
         NEW g \in Groups \cup {None}, grp' = [grp EXCEPT ![c] = g],
         NEW s \in Groups \cup {None}, group' = [group EXCEPT ![nh[c]] = s],
         g # None <=> l # "serve",
         g # None => g # s,
         UNCHANGED <<at, todo, word, lacking, nh, r, h, userName, src, given, shown>>
  PROVE  OwnInv'
<1> USE ServiceAssumption DEF OwnInv
<1> DEFINE n == nh[c]
<1>1. nh[c] # None
  BY DEF TypeOK, Serving
<1>2. n \in Nntp /\ \A e \in Conns : e # c => nh[e] # n
  BY <1>1, HandlerFacts
<1> HIDE DEF n
<1>3. \A e \in Conns : e # c => /\ pc'[e] = pc[e] /\ grp'[e] = grp[e]
                                /\ nh[e] # None => group'[nh[e]] = group[nh[e]]
  BY <1>2 DEF TypeOK, n
<1>4. \A e \in Conns : e # c => Uses(e)' = Uses(e)
  BY <1>3, OthersKeepUses
<1>5. pc'[c] = l /\ grp'[c] = g /\ group'[n] = s
  BY <1>2 DEF TypeOK, n
<1>6. Owned' /\ pooled' \in [Objects -> Nat] /\ made' \subseteq Objects
  BY <1>4, TradeKeepsOwned
<1>7. TypeOK'
  <2>1. \A e \in Conns :
          /\ nh'[e] # None <=> pc'[e] \in {"serve", "group", "list", "release"}
          /\ grp'[e] # None <=> pc'[e] \in {"group", "list"}
          /\ nh'[e] # None => r'[nh'[e]] # None /\ h'[nh'[e]] # None
    BY <1>1, <1>3, <1>5 DEF TypeOK
  <2> QED BY <1>6, <2>1 DEF TypeOK
<1>8. Released'
  <2>1. \A m \in Nntp : ~ InUse(m)' => ~ InUse(m) /\ m # n
    BY DEF InUse, n
  <2> QED BY <2>1 DEF Released, TypeOK, n
<1>9. \A e \in Conns : Serving(e)' => Serving(e) /\ nh[e] # None
  BY <1>3 DEF Serving, TypeOK
<1>10. OwnReader'
  BY <1>9 DEF OwnReader
<1>11. NewGroup'
  BY <1>3, <1>5, <1>9 DEF NewGroup, n
<1> QED BY <1>6, <1>7, <1>8, <1>10, <1>11

\* What a goroutine uses, before and after such a step.
LEMMA UsesAround ==
  ASSUME OwnInv, NEW c \in Conns, Serving(c)
  PROVE  /\ Uses(c) = {nh[c], r[nh[c]], group[nh[c]], grp[c]} \ {None}
         /\ nh[c] \in Nntp /\ r[nh[c]] \in Readers
         /\ group[nh[c]] \in Groups \cup {None}
         /\ grp[c] \in Groups \cup {None}
         /\ Serving(c)' => Uses(c)' = ({nh[c], r[nh[c]], group[nh[c]], grp[c]} \ {None})'
<1>1. nh[c] # None
  BY DEF OwnInv, TypeOK, Serving
<1>2. grp[c] \in Groups \cup {None}
  BY DEF OwnInv, TypeOK
<1>3. Serving(c)' => Uses(c)' = ({nh[c], r[nh[c]], group[nh[c]], grp[c]} \ {None})'
  BY DEF Uses, Serving
<1> QED BY <1>1, <1>2, <1>3, HandlerFacts, UsesByPlace DEF OwnInv

LEMMA TakeGroupKeeps ==
  ASSUME OwnInv, NEW c \in Conns, NEW l \in {"group", "list"}, TakeGroup(c, l)
  PROVE  OwnInv'
<1> USE ServiceAssumption
<1>1. PICK g \in Groups : Pool({g}, {}) /\ grp' = [grp EXCEPT ![c] = g]
  BY DEF TakeGroup
<1>2. /\ pc[c] = "serve" /\ pc' = [pc EXCEPT ![c] = l]
      /\ UNCHANGED <<at, todo, word, lacking, nh, r, h, group, userName, src, given, shown>>
  BY DEF TakeGroup, filling, fields, client
<1>3. Serving(c) /\ grp[c] = None
  BY <1>2 DEF Serving, OwnInv, TypeOK
<1>4. g \notin Uses(c) /\ g # None
  BY <1>1, ObtainableIsUnused DEF OwnInv, Pool, Objects
<1>5. g # group[nh[c]]
  BY <1>3, <1>4, UsesAround
<1>6. pc'[c] = l /\ grp'[c] = g /\ Serving(c)'
  BY <1>1, <1>2 DEF OwnInv, TypeOK, Serving
<1>7. Uses(c)' = (Uses(c) \ {}) \cup {g}
  BY <1>2, <1>3, <1>4, <1>6, UsesAround
<1>8. group' = [group EXCEPT ![nh[c]] = group[nh[c]]]
  BY <1>2 DEF OwnInv, TypeOK
<1>9. group[nh[c]] \in Groups \cup {None}
  BY <1>3, UsesAround
<1>10. {g} \in SUBSET Objects
  BY DEF Objects
<1> QED BY <1>1, <1>2, <1>3, <1>4, <1>5, <1>7, <1>8, <1>9, <1>10, GroupStepKeeps

\* GROUP found: the Group of the old selection goes back, the new one stays.
LEMMA GroupFoundKeeps ==
  ASSUME OwnInv, NEW c \in Conns, GroupFound(c)
  PROVE  OwnInv'
<1> USE ServiceAssumption
<1> DEFINE puts == SomeGroup(nh[c])
<1>1. /\ pc[c] = "group" /\ pc' = [pc EXCEPT ![c] = "serve"]
      /\ Pool({}, puts)
      /\ grp' = [grp EXCEPT ![c] = None]
      /\ group' = [group EXCEPT ![nh[c]] = grp[c]]
      /\ UNCHANGED <<at, todo, word, lacking, nh, r, h, userName, src, given, shown>>
  BY DEF GroupFound, GroupDone, filling, client
<1>2. Serving(c) /\ grp[c] # None /\ grp[c] # group[nh[c]]
  BY <1>1 DEF Serving, OwnInv, TypeOK, NewGroup
<1>3. pc'[c] = "serve" /\ grp'[c] = None /\ Serving(c)'
  BY <1>1 DEF OwnInv, TypeOK, Serving
<1>4. group'[nh[c]] = grp[c]
  BY <1>1, <1>2, UsesAround DEF OwnInv, TypeOK
<1>5. Uses(c)' = {nh[c], r[nh[c]], grp[c]} \ {None}
  BY <1>1, <1>2, <1>3, <1>4, UsesAround
<1>6. puts \subseteq Uses(c) /\ Uses(c)' = (Uses(c) \ puts) \cup {}
  BY <1>2, <1>5, UsesAround DEF SomeGroup
<1>7. grp[c] \in Groups \cup {None} /\ None \in Groups \cup {None}
  BY <1>2, UsesAround
<1> HIDE DEF puts
<1> QED BY <1>1, <1>2, <1>6, <1>7, GroupStepKeeps

\* GROUP and LISTGROUP when the new Group is not kept.
LEMMA GroupDroppedKeeps ==
  ASSUME OwnInv, NEW c \in Conns, GroupMissing(c) \/ ListDone(c)
  PROVE  OwnInv'
<1> USE ServiceAssumption
<1> DEFINE puts == {grp[c]}
<1>1. /\ pc[c] \in {"group", "list"} /\ pc' = [pc EXCEPT ![c] = "serve"]
      /\ Pool({}, puts)
      /\ grp' = [grp EXCEPT ![c] = None]
      /\ UNCHANGED <<at, todo, word, lacking, nh, r, h, group, userName, src, given, shown>>
  BY DEF GroupMissing, ListDone, GroupDone, filling, fields, client
<1>2. Serving(c) /\ grp[c] # None /\ grp[c] # group[nh[c]]
  BY <1>1 DEF Serving, OwnInv, TypeOK, NewGroup
<1>3. pc'[c] = "serve" /\ grp'[c] = None /\ Serving(c)'
  BY <1>1 DEF OwnInv, TypeOK, Serving
<1>4. Uses(c)' = {nh[c], r[nh[c]], group[nh[c]]} \ {None}
  BY <1>1, <1>2, <1>3, UsesAround
<1>5. puts \subseteq Uses(c) /\ Uses(c)' = (Uses(c) \ puts) \cup {}
  BY <1>2, <1>4, UsesAround
<1>6. group' = [group EXCEPT ![nh[c]] = group[nh[c]]]
  BY <1>1 DEF OwnInv, TypeOK
<1>7. group[nh[c]] \in Groups \cup {None} /\ None \in Groups \cup {None}
  BY <1>2, UsesAround
<1> HIDE DEF puts
<1> QED BY <1>1, <1>2, <1>5, <1>6, <1>7, GroupStepKeeps

\* What the garbage collector takes out of a pool nobody uses.
LEMMA ForgetKeeps ==
  ASSUME OwnInv, NEW o \in Objects, Forget(o)
  PROVE  OwnInv'
<1> USE ServiceAssumption DEF OwnInv
<1>1. /\ pooled[o] > 0
      /\ pooled' = [pooled EXCEPT ![o] = 0] /\ made' = made \ {o}
      /\ r' = [n \in Nntp |-> IF n = o THEN None ELSE r[n]]
      /\ h' = [n \in Nntp |-> IF n = o THEN None ELSE h[n]]
      /\ group' = [n \in Nntp |-> IF n = o THEN None ELSE group[n]]
      /\ userName' = [n \in Nntp |-> IF n = o THEN None ELSE userName[n]]
      /\ src' = [d \in Readers |-> IF d = o THEN None ELSE src[d]]
      /\ UNCHANGED <<pc, at, todo, word, lacking, nh, grp, given, shown>>
  BY DEF Forget, filling, client
<1>2. \A c \in Conns : o \notin Uses(c)
  BY <1>1 DEF Owned, TypeOK
<1>3. \A c \in Conns : nh[c] # None =>
        /\ nh[c] # o /\ nh[c] \in Nntp
        /\ r'[nh[c]] = r[nh[c]] /\ h'[nh[c]] = h[nh[c]] /\ group'[nh[c]] = group[nh[c]]
  BY <1>1, <1>2, HandlerIsUsed DEF TypeOK
<1>4. \A c \in Conns : Uses(c)' = Uses(c)
  BY <1>1, <1>3, OthersKeepUses
<1>5. Owned'
  <2>1. \A p \in Objects : p # o => pooled'[p] = pooled[p]
    BY <1>1 DEF TypeOK
  <2>2. pooled'[o] = 0
    BY <1>1 DEF TypeOK
  <2>3. \A c \in Conns : Uses(c) \subseteq Objects
    BY DEF Owned, TypeOK
  <2>4. \A c \in Conns : \A p \in Uses(c)' : p \in made' /\ pooled'[p] = 0
    BY <1>1, <1>2, <1>4, <2>1, <2>3 DEF Owned
  <2>5. \A p \in made' : pooled'[p] > 0 \/ \E c \in Conns : p \in Uses(c)'
    BY <1>1, <1>4, <2>1 DEF Owned, TypeOK
  <2> QED BY <1>1, <1>4, <2>1, <2>2, <2>4, <2>5 DEF Owned
<1>6. TypeOK'
  <2>1. \A e \in Conns :
          /\ nh'[e] # None <=> pc'[e] \in {"serve", "group", "list", "release"}
          /\ grp'[e] # None <=> pc'[e] \in {"group", "list"}
          /\ nh'[e] # None => r'[nh'[e]] # None /\ h'[nh'[e]] # None
    BY <1>1, <1>3 DEF TypeOK
  <2> QED BY <1>1, <2>1 DEF TypeOK
<1>7. Released'
  BY <1>1 DEF Released, InUse
<1>8. \A c \in Conns : Serving(c) => nh[c] # None /\ r[nh[c]] # o /\ r[nh[c]] \in Readers
  <2> SUFFICES ASSUME NEW c \in Conns, Serving(c)
               PROVE  nh[c] # None /\ r[nh[c]] # o /\ r[nh[c]] \in Readers
    OBVIOUS
  <2>1. nh[c] # None
    BY DEF Serving, TypeOK
  <2> QED BY <1>2, <2>1, UsesAround
<1>9. OwnReader' /\ NewGroup'
  <2>1. \A c \in Conns : Serving(c)' => Serving(c)
    BY <1>1 DEF Serving
  <2> QED BY <1>1, <1>3, <1>8, <2>1 DEF OwnReader, NewGroup
<1> QED BY <1>5, <1>6, <1>7, <1>9

\* Filling the Handler and AUTHINFO.
LEMMA OtherStepsKeep ==
  ASSUME OwnInv, NEW c \in Conns,
         \/ Accept(c) \/ FillLook(c) \/ FillWrite(c)
         \/ \E u \in Users : AuthUserOnly(c, u) \/ AuthUser(c, u) \/ AuthPass(c, u)
  PROVE  OwnInv'
<1> USE ServiceAssumption DEF filling, pools, fields, client
<1>1. CASE Accept(c)
  <2>1. TypeOK'
    BY <1>1 DEF Accept, OwnInv, TypeOK
  <2> QED BY <1>1, <2>1, PoolsUntouched DEF Accept, OwnInv, TypeOK
<1>2. CASE FillLook(c)
  <2>1. at' \in [Conns -> 1 .. Fields+1] /\ todo' \in [Conns -> SUBSET Words]
    <3>1. /\ at \in [Conns -> 1 .. Fields+1] /\ todo \in [Conns -> SUBSET Words]
          /\ at[c] + 1 \in 1 .. Fields+1
      BY <1>2 DEF FillLook, Filling, OwnInv, TypeOK
    <3>2. CASE at' = at /\ todo' = [todo EXCEPT ![c] = Words]
      BY <3>1, <3>2
    <3>3. CASE at' = [at EXCEPT ![c] = @ + 1] /\ todo' = todo
      BY <3>1, <3>3
    <3> QED BY <1>2, <3>2, <3>3 DEF FillLook
  <2>2. TypeOK'
    BY <1>2, <2>1 DEF FillLook, OwnInv, TypeOK
  <2> QED BY <1>2, <2>2, PoolsUntouched DEF FillLook
<1>3. CASE FillWrite(c)
  <2>1. PICK w \in todo[c] :
          /\ word' = [word EXCEPT ![at[c]] = @ \cup {w}]
          /\ todo' = [todo EXCEPT ![c] = @ \ {w}]
          /\ at' = IF todo[c] = {w} THEN [at EXCEPT ![c] = @ + 1] ELSE at
    BY <1>3 DEF FillWrite
  <2>2. w \in Words /\ at[c] \in 1 .. Fields
    BY <1>3 DEF FillWrite, Filling, OwnInv, TypeOK
  <2>3. TypeOK'
    BY <1>3, <2>1, <2>2 DEF FillWrite, OwnInv, TypeOK
  <2> QED BY <1>3, <2>3, PoolsUntouched DEF FillWrite
<1>4. ASSUME NEW u \in Users, AuthUserOnly(c, u) \/ AuthUser(c, u) \/ AuthPass(c, u)
      PROVE  OwnInv'
  <2>1. nh[c] \in Nntp /\ InUse(nh[c])
    BY <1>4 DEF AuthUserOnly, AuthUser, AuthPass, MayLogin, OwnInv, TypeOK, InUse
  <2>2. u # None
    OBVIOUS
  <2>3. TypeOK'
    <3>1. UNCHANGED <<pc, at, todo, word, lacking, made, pooled, nh, grp, r, group, src>>
      BY <1>4 DEF AuthUserOnly, AuthUser, AuthPass
    <3>2. /\ h \in [Nntp -> Users \cup {Base, None}]
          /\ userName \in [Nntp -> Users \cup {None}]
          /\ given \in [Conns -> Users \cup {None}] /\ shown \in [Conns -> SUBSET Users]
      BY DEF OwnInv, TypeOK
    <3>3. h' \in [Nntp -> Users \cup {Base, None}] /\ \A n \in Nntp : h[n] # None => h'[n] # None
      <4>1. h' = h \/ h' = [h EXCEPT ![nh[c]] = u]
        BY <1>4 DEF AuthUserOnly, AuthUser, AuthPass, LoggedIn
      <4>2. CASE h' = h
        BY <3>2, <4>2
      <4>3. CASE h' = [h EXCEPT ![nh[c]] = u]
        BY <2>1, <2>2, <3>2, <4>3
      <4> QED BY <4>1, <4>2, <4>3
    <3>4. userName' \in [Nntp -> Users \cup {None}]
      <4>1. userName' = userName \/ userName' = [userName EXCEPT ![nh[c]] = u]
        BY <1>4 DEF AuthUserOnly, AuthUser, AuthPass
      <4> QED BY <2>1, <3>2, <4>1
    <3>5. given' \in [Conns -> Users \cup {None}]
      <4>1. given' = given \/ given' = [given EXCEPT ![c] = u]
        BY <1>4 DEF AuthUserOnly, AuthUser, AuthPass
      <4> QED BY <3>2, <4>1
    <3>6. shown' \in [Conns -> SUBSET Users]
      <4>1. shown' = shown \/ shown' = [shown EXCEPT ![c] = @ \cup {u}]
        BY <1>4 DEF AuthUserOnly, AuthUser, AuthPass, LoggedIn
      <4> QED BY <3>2, <4>1
    <3> QED BY <3>1, <3>3, <3>4, <3>5, <3>6 DEF OwnInv, TypeOK
  <2>4. /\ UNCHANGED <<pc, made, pooled, nh, grp, r, group, src>>
        /\ userName' = userName \/ userName' = [userName EXCEPT ![nh[c]] = u]
    BY <1>4 DEF AuthUserOnly, AuthUser, AuthPass
  <2>5. \A n \in Nntp : userName'[n] # userName[n] => InUse(n)
    BY <2>1, <2>4 DEF OwnInv, TypeOK
  <2> QED BY <2>3, <2>4, <2>5, PoolsUntouched
<1> QED BY <1>1, <1>2, <1>3, <1>4

LEMMA OwnStep == OwnInv /\ [Next]_vars => OwnInv'
<1> SUFFICES ASSUME OwnInv, [Next]_vars
             PROVE  OwnInv'
  OBVIOUS
<1>1. CASE UNCHANGED vars
  <2> USE <1>1 DEF vars
  <2>1. TypeOK'
    BY DEF OwnInv, TypeOK
  <2> QED BY <2>1, PoolsUntouched
<1>2. ASSUME NEW c \in Conns, Serve(c)
      PROVE  OwnInv'
  BY <1>2, BeginKeeps, EndKeeps, releaseKeeps, TakeGroupKeeps, GroupFoundKeeps,
     GroupDroppedKeeps, OtherStepsKeep DEF Serve
<1>3. ASSUME NEW o \in Objects, Forget(o)
      PROVE  OwnInv'
  BY <1>3, ForgetKeeps
<1> QED BY <1>1, <1>2, <1>3 DEF Next

LEMMA OwnInit == Init => OwnInv
<1> SUFFICES ASSUME Init
             PROVE  OwnInv
  OBVIOUS
<1> USE ServiceAssumption DEF Init
<1>1. TypeOK
  BY DEF TypeOK
<1>2. \A c \in Conns : Uses(c) = {} /\ ~ Serving(c)
  BY DEF Uses, Serving
<1> QED BY <1>1, <1>2 DEF OwnInv, Owned, Released, OwnReader, NewGroup

LEMMA OwnAlways == Spec => []OwnInv
BY OwnInit, OwnStep, PTL DEF Spec

-----------------------------------------------------------------------------
\* Every variable keeps to its values, and the place of a goroutine says what
\* it has: an nntpHandler with Reader and Handler while it serves, a Group that
\* is not selected only inside GROUP and LISTGROUP (nntpdecoder.go:70-124).
THEOREM TypeCorrect == Spec => []TypeOK
<1>1. OwnInv => TypeOK
  BY DEF OwnInv
<1> QED BY <1>1, OwnAlways, PTL

\* However many sessions run and in whatever order they take from the pools and
\* put back, no object is used by two sessions or used while it lies in a pool,
\* none is lost, and each Reader reads from its session's connection.
THEOREM OneOwner == Spec => []Exclusive
<1>1. OwnInv => Exclusive
  <2> SUFFICES ASSUME OwnInv
               PROVE  Exclusive
    OBVIOUS
  <2>1. \A c \in Conns : \A o \in Uses(c) : pooled[o] = 0
    BY DEF OwnInv, Owned
  <2> QED BY <2>1 DEF OwnInv, Owned, OwnReader, NewGroup, Exclusive
<1> QED BY <1>1, OwnAlways, PTL

-----------------------------------------------------------------------------
(***************************************************************************)
(* CapsReady, made inductive.  A type word once written stays, so a        *)
(* goroutine that has come past a field has seen it set or has set it      *)
(* itself; it writes the type word of a field before it goes on, in        *)
(* whichever order it writes the two words.                                *)
(***************************************************************************)
FillInv ==
  /\ \A c \in Conns : todo[c] # {} => /\ pc[c] = "fill" /\ at[c] <= Fields
                                      /\ Words \ todo[c] \subseteq word[at[c]]
  /\ \A c \in Conns : pc[c] = "fill" => \A f \in 1 .. at[c] - 1 : ~ IsNil(f)
  /\ \A c \in Conns : Serving(c) => \A f \in 1 .. Fields : ~ IsNil(f)

\* A word of the shared Handler is never taken back.
LEMMA WordsStay ==
  ASSUME TypeOK, [Next]_vars, NEW f \in 1 .. Fields
  PROVE  word[f] \subseteq word'[f]
<1>1. CASE UNCHANGED word
  BY <1>1
<1>2. ASSUME NEW c \in Conns, FillWrite(c)
      PROVE  word[f] \subseteq word'[f]
  BY <1>2 DEF FillWrite, TypeOK
<1>3. ASSUME NEW o \in Objects, Forget(o)
      PROVE  UNCHANGED word
  BY <1>3 DEF Forget, filling
<1>4. ASSUME NEW c \in Conns, Serve(c), ~ FillWrite(c)
      PROVE  UNCHANGED word
  BY <1>4 DEF Serve, Accept, FillLook, Begin, End, release, TakeGroup, GroupFound,
     GroupMissing, ListDone, AuthUserOnly, AuthUser, AuthPass, filling
<1> QED BY <1>1, <1>2, <1>3, <1>4 DEF Next, vars

LEMMA FillStep == TypeOK /\ FillInv /\ [Next]_vars => FillInv'
<1> SUFFICES ASSUME TypeOK, FillInv, [Next]_vars
             PROVE  FillInv'
  OBVIOUS
<1> USE ServiceAssumption
<1>1. \A f \in 1 .. Fields : word[f] \subseteq word'[f]
  BY WordsStay
<1>2. \A f \in 1 .. Fields : ~ IsNil(f) => ~ IsNil(f)'
  BY <1>1 DEF IsNil
\* What a goroutine that stays where it is knows of the Handler stays true.
<1>3. ASSUME NEW d \in Conns, at'[d] = at[d], todo'[d] = todo[d],
             \/ pc'[d] = pc[d]
             \/ Serving(d)' /\ Serving(d)
             \/ todo[d] = {} /\ pc'[d] \in {"free", "release"}
      PROVE  /\ todo'[d] # {} => /\ pc'[d] = "fill" /\ at'[d] <= Fields
                                 /\ Words \ todo'[d] \subseteq word'[at'[d]]
             /\ pc'[d] = "fill" => \A f \in 1 .. at'[d] - 1 : ~ IsNil(f)'
             /\ Serving(d)' => \A f \in 1 .. Fields : ~ IsNil(f)'
  <2>1. at[d] \in 1 .. Fields + 1
    BY DEF TypeOK
  <2>2. todo'[d] # {} => /\ pc'[d] = "fill" /\ at'[d] <= Fields
                         /\ Words \ todo'[d] \subseteq word'[at'[d]]
    BY <1>1, <1>3, <2>1 DEF FillInv, Serving
  <2>3. pc'[d] = "fill" => \A f \in 1 .. at'[d] - 1 : ~ IsNil(f)'
    BY <1>2, <1>3, <2>1 DEF FillInv, Serving
  <2>4. Serving(d)' => \A f \in 1 .. Fields : ~ IsNil(f)'
    BY <1>2, <1>3 DEF FillInv, Serving
  <2> QED BY <2>2, <2>3, <2>4
<1>4. CASE UNCHANGED vars
  BY <1>3, <1>4 DEF vars, FillInv
<1>5. ASSUME NEW o \in Objects, Forget(o)
      PROVE  FillInv'
  BY <1>3, <1>5 DEF Forget, filling, FillInv
<1>6. ASSUME NEW c \in Conns, Serve(c)
      PROVE  FillInv'
  <2>1. \A d \in Conns : d # c => pc'[d] = pc[d] /\ at'[d] = at[d] /\ todo'[d] = todo[d]
    BY <1>6 DEF Serve, Accept, FillLook, FillWrite, Begin, End, release, TakeGroup, GroupDone,
       GroupFound, GroupMissing, ListDone, AuthUserOnly, AuthUser, AuthPass, filling, TypeOK
  <2>2. SUFFICES /\ todo'[c] # {} => /\ pc'[c] = "fill" /\ at'[c] <= Fields
                                     /\ Words \ todo'[c] \subseteq word'[at'[c]]
                 /\ pc'[c] = "fill" => \A f \in 1 .. at'[c] - 1 : ~ IsNil(f)'
                 /\ Serving(c)' => \A f \in 1 .. Fields : ~ IsNil(f)'
    BY <1>3, <2>1 DEF FillInv
  <2>3. at[c] \in 1 .. Fields + 1 /\ todo[c] \subseteq Words
    BY DEF TypeOK
  <2>4. CASE Accept(c)
    <3>1. pc[c] = "free" /\ pc'[c] = "fill" /\ at'[c] = 1 /\ todo' = todo
      BY <2>4 DEF Accept, TypeOK
    <3>2. todo[c] = {}
      BY <3>1 DEF FillInv
    <3> QED BY <3>1, <3>2 DEF Serving
  <2>5. CASE FillLook(c)
    <3>1. pc' = pc /\ word' = word /\ pc[c] = "fill" /\ at[c] <= Fields /\ todo[c] = {}
      BY <2>5 DEF FillLook, Filling
    <3>2. CASE IsNil(at[c]) /\ todo'[c] = Words /\ at' = at
      BY <1>2, <2>3, <3>1, <3>2 DEF FillInv, Serving
    <3>3. CASE ~ IsNil(at[c]) /\ at'[c] = at[c] + 1 /\ todo' = todo
      <4>1. \A f \in 1 .. at'[c] - 1 : f \in 1 .. at[c] - 1 \/ f = at[c]
        BY <2>3, <3>3
      <4> QED BY <1>2, <2>3, <3>1, <3>3, <4>1 DEF FillInv, Serving, IsNil
    <3> QED BY <2>5, <3>2, <3>3 DEF FillLook, TypeOK
  <2>6. CASE FillWrite(c)
    <3>1. PICK w \in todo[c] :
            /\ word' = [word EXCEPT ![at[c]] = @ \cup {w}]
            /\ todo' = [todo EXCEPT ![c] = @ \ {w}]
            /\ at' = IF todo[c] = {w} THEN [at EXCEPT ![c] = @ + 1] ELSE at
      BY <2>6 DEF FillWrite
    <3>2. pc' = pc /\ pc[c] = "fill" /\ at[c] \in 1 .. Fields
      BY <2>3, <2>6 DEF FillWrite, Filling
    <3>3. /\ todo'[c] = todo[c] \ {w}
          /\ word'[at[c]] = word[at[c]] \cup {w}
          /\ Words \ todo[c] \subseteq word[at[c]]
      BY <3>1, <3>2 DEF TypeOK, FillInv
    <3>4. CASE todo[c] = {w}
      <4>1. at'[c] = at[c] + 1 /\ todo'[c] = {}
        BY <3>1, <3>3, <3>4 DEF TypeOK
      <4>2. "type" \in word'[at[c]]
        BY <3>2, <3>3, <3>4 DEF IsNil, Words
      <4>3. \A f \in 1 .. at'[c] - 1 : f \in 1 .. at[c] - 1 \/ f = at[c]
        BY <2>3, <4>1
      <4>4. \A f \in 1 .. at[c] - 1 : ~ IsNil(f) /\ f \in 1 .. Fields
        BY <3>2 DEF FillInv
      <4>5. \A f \in 1 .. at'[c] - 1 : ~ IsNil(f)'
        <5> SUFFICES ASSUME NEW f \in 1 .. at'[c] - 1
                     PROVE  ~ IsNil(f)'
          OBVIOUS
        <5> QED BY <1>2, <4>2, <4>3, <4>4 DEF IsNil
      <4> QED BY <3>2, <4>1, <4>5 DEF Serving
    <3>5. CASE todo[c] # {w}
      <4>1. at'[c] = at[c]
        BY <3>1, <3>5
      <4> QED BY <1>2, <3>2, <3>3, <4>1 DEF FillInv, Serving
    <3> QED BY <3>4, <3>5
  <2>7. CASE Begin(c)
    <3>1. pc[c] = "fill" /\ at[c] = Fields + 1 /\ UNCHANGED <<at, todo, word>> /\ pc'[c] = "serve"
      BY <2>7 DEF Begin, filling, TypeOK
    <3>2. todo[c] = {}
      BY <3>1 DEF FillInv
    <3> QED BY <1>2, <3>1, <3>2 DEF FillInv, Serving
  <2>8. CASE End(c) \/ release(c)
    <3>1. /\ pc[c] \in {"serve", "release"} /\ pc'[c] \in {"free", "release"}
          /\ UNCHANGED <<at, todo, word>>
      BY <2>8 DEF End, release, filling, TypeOK
    <3> QED BY <1>3, <3>1 DEF FillInv
  <2>9. CASE \/ TakeGroup(c, "group") \/ TakeGroup(c, "list")
             \/ GroupFound(c) \/ GroupMissing(c) \/ ListDone(c)
             \/ \E u \in Users : AuthUserOnly(c, u) \/ AuthUser(c, u) \/ AuthPass(c, u)
    <3>1. Serving(c) /\ Serving(c)' /\ UNCHANGED <<at, todo, word>>
      BY <2>9 DEF TakeGroup, GroupFound, GroupMissing, ListDone, GroupDone, AuthUserOnly,
         AuthUser, AuthPass, MayLogin, Serving, filling, TypeOK
    <3> QED BY <1>3, <3>1
  <2> QED BY <1>6, <2>4, <2>5, <2>6, <2>7, <2>8, <2>9 DEF Serve
<1> QED BY <1>4, <1>5, <1>6 DEF Next

LEMMA FillInit == Init => FillInv
BY DEF Init, FillInv, Serving

LEMMA FillAlways == Spec => []FillInv
<1>1. OwnInv => TypeOK
  BY DEF OwnInv
<1> QED BY <1>1, FillInit, FillStep, OwnAlways, PTL DEF Spec

\* A goroutine in fill has passed the fields before the one it has come to; one
\* that has begun a session has passed all of them.
HasPassed(c, f) == Serving(c) \/ (pc[c] = "fill" /\ f < at[c])

\* A goroutine in fill is at this field and has its data word still to write.
WritesData(c, f) == pc[c] = "fill" /\ at[c] = f /\ "data" \in todo[c]

\* What is left of CapsReady when a backend may answer a login with a Handler that
\* lacks something: no field of the shared Handler that a goroutine has passed is
\* nil, and it is whole, but for the data word if a goroutine is about to write it.
SharedReady ==
  \A f \in 1 .. Fields :
    /\ \A c \in Conns : HasPassed(c, f) => ~ IsNil(f)
    /\ ~ IsNil(f) => word[f] = Words \/ \E d \in Conns : WritesData(d, f)

\* A data word that is missing behind a type word is in somebody's hands.
DataInHand ==
  \A f \in 1 .. Fields : ~ IsNil(f) => "data" \in word[f] \/ \E d \in Conns : WritesData(d, f)

LEMMA DataInHandInit == Init => DataInHand
BY DEF Init, DataInHand, IsNil, Words

\* A goroutine that is about to write a data word keeps it in hand or writes it.
LEMMA DataWritten ==
  ASSUME TypeOK, FillInv, [Next]_vars, NEW f \in 1 .. Fields, NEW d \in Conns, WritesData(d, f)
  PROVE  "data" \in word'[f] \/ WritesData(d, f)'
<1>0. at[d] = f /\ pc[d] = "fill" /\ "data" \in todo[d]
  BY DEF WritesData
<1>1. CASE UNCHANGED vars
  BY <1>0, <1>1 DEF vars, WritesData
<1>2. ASSUME NEW o \in Objects, Forget(o) PROVE WritesData(d, f)'
  BY <1>0, <1>2 DEF Forget, filling, WritesData
<1>3. ASSUME NEW c \in Conns, Serve(c), c # d PROVE WritesData(d, f)'
  <2>1. pc'[d] = pc[d] /\ at'[d] = at[d] /\ todo'[d] = todo[d]
    BY <1>3 DEF Serve, Accept, FillLook, FillWrite, Begin, End, release, TakeGroup, GroupDone,
       GroupFound, GroupMissing, ListDone, AuthUserOnly, AuthUser, AuthPass, filling, TypeOK
  <2> QED BY <1>0, <2>1 DEF WritesData
<1>4. CASE Serve(d)
  <2>1. CASE FillWrite(d)
    <3>1. PICK w \in todo[d] :
            /\ word' = [word EXCEPT ![at[d]] = @ \cup {w}]
            /\ todo' = [todo EXCEPT ![d] = @ \ {w}]
            /\ at' = IF todo[d] = {w} THEN [at EXCEPT ![d] = @ + 1] ELSE at
      BY <2>1 DEF FillWrite
    <3>2. word'[f] = word[f] \cup {w}
      BY <1>0, <3>1 DEF TypeOK
    <3>3. CASE w # "data"
      <4>1. pc' = pc /\ at' = at /\ "data" \in todo'[d]
        BY <1>0, <2>1, <3>1, <3>3 DEF FillWrite, TypeOK
      <4> QED BY <1>0, <4>1 DEF WritesData
    <3> QED BY <3>2, <3>3
  <2>2. CASE ~ FillWrite(d)
    <3>1. todo[d] # {} /\ at[d] <= Fields /\ Fields \in Nat
      BY <1>0, ServiceAssumption DEF FillInv
    <3>2. ~ Accept(d) /\ ~ FillLook(d)
      BY <1>0, <3>1 DEF Accept, FillLook
    <3>3. ~ Begin(d)
      <4>1. at[d] # Fields + 1
        BY <3>1
      <4> QED BY <4>1 DEF Begin
    <3>4. ~ End(d) /\ ~ release(d) /\ ~ GroupFound(d) /\ ~ GroupMissing(d) /\ ~ ListDone(d)
      BY <1>0 DEF End, release, GroupFound, GroupMissing, ListDone
    <3>5. \A l : ~ TakeGroup(d, l)
      BY <1>0 DEF TakeGroup
    <3>6. \A u : ~ AuthUserOnly(d, u) /\ ~ AuthUser(d, u) /\ ~ AuthPass(d, u)
      BY <1>0 DEF AuthUserOnly, AuthUser, AuthPass, MayLogin
    <3> QED BY <1>4, <2>2, <3>2, <3>3, <3>4, <3>5, <3>6 DEF Serve
  <2> QED BY <2>1, <2>2
<1> QED BY <1>1, <1>2, <1>3, <1>4 DEF Next

\* A type word is written by a goroutine that has the data word in hand or has
\* written it before.
LEMMA TypeWritten ==
  ASSUME TypeOK, FillInv, [Next]_vars, NEW f \in 1 .. Fields, IsNil(f), ~ IsNil(f)'
  PROVE  "data" \in word'[f] \/ \E d \in Conns : WritesData(d, f)'
<1>1. CASE UNCHANGED word
  BY <1>1 DEF IsNil
<1>2. ASSUME NEW o \in Objects, Forget(o) PROVE UNCHANGED word
  BY <1>2 DEF Forget, filling
<1>3. ASSUME NEW c \in Conns, Serve(c), ~ FillWrite(c) PROVE UNCHANGED word
  BY <1>3 DEF Serve, Accept, FillLook, Begin, End, release, TakeGroup, GroupFound,
     GroupMissing, ListDone, AuthUserOnly, AuthUser, AuthPass, filling
<1>4. ASSUME NEW c \in Conns, FillWrite(c)
      PROVE  "data" \in word'[f] \/ WritesData(c, f)'
  <2>1. PICK w \in todo[c] :
          /\ word' = [word EXCEPT ![at[c]] = @ \cup {w}]
          /\ todo' = [todo EXCEPT ![c] = @ \ {w}]
          /\ at' = IF todo[c] = {w} THEN [at EXCEPT ![c] = @ + 1] ELSE at
    BY <1>4 DEF FillWrite
  <2>2. pc' = pc /\ pc[c] = "fill" /\ at[c] \in 1 .. Fields /\ todo[c] \subseteq Words
    BY <1>4 DEF FillWrite, Filling, TypeOK
  <2>3. at[c] = f /\ w = "type" /\ word'[f] = word[f] \cup {w}
    BY <2>1, <2>2 DEF IsNil, TypeOK
  <2>4. Words \ todo[c] \subseteq word[f]
    BY <2>1, <2>3 DEF FillInv
  <2>5. CASE "data" \in todo[c]
    <3>1. at' = at /\ "data" \in todo'[c]
      BY <2>1, <2>3, <2>5 DEF TypeOK
    <3> QED BY <2>2, <2>3, <3>1 DEF WritesData
  <2>6. CASE "data" \notin todo[c]
    BY <2>3, <2>4, <2>6 DEF Words
  <2> QED BY <2>5, <2>6
<1> QED BY <1>1, <1>2, <1>3, <1>4 DEF Next, vars

LEMMA DataInHandStep == TypeOK /\ FillInv /\ DataInHand /\ [Next]_vars => DataInHand'
<1> SUFFICES ASSUME TypeOK, FillInv, DataInHand, [Next]_vars,
                    NEW f \in 1 .. Fields, ~ IsNil(f)'
             PROVE  "data" \in word'[f] \/ \E d \in Conns : WritesData(d, f)'
  BY DEF DataInHand
<1>1. CASE IsNil(f)
  BY <1>1, TypeWritten
<1>2. CASE ~ IsNil(f) /\ "data" \in word[f]
  BY <1>2, WordsStay
<1>3. CASE \E d \in Conns : WritesData(d, f)
  BY <1>3, DataWritten
<1> QED BY <1>1, <1>2, <1>3 DEF DataInHand

\* However many goroutines fill the shared Handler at once, without a lock and
\* in whatever order the two words of a field are written: a field that one of
\* them has passed in fill, or has a session behind, is not nil; its data word may
\* still be missing, and then a goroutine is in fill at this field and about to
\* write it (Handler.fill, structures.go:124-130; ServeConn, nntpdecoder.go:80).
THEOREM SharedFilled == Spec => []SharedReady
<1>1. OwnInv => TypeOK
  BY DEF OwnInv
<1>2. TypeOK /\ FillInv /\ DataInHand => SharedReady
  <2> SUFFICES ASSUME TypeOK, FillInv, DataInHand, NEW f \in 1 .. Fields
               PROVE  /\ \A c \in Conns : HasPassed(c, f) => ~ IsNil(f)
                      /\ ~ IsNil(f) => word[f] = Words \/ \E d \in Conns : WritesData(d, f)
    BY DEF SharedReady
  <2>1. ASSUME NEW c \in Conns, HasPassed(c, f) PROVE ~ IsNil(f)
    <3>1. at[c] \in 1 .. Fields + 1 /\ Fields \in Nat
      BY ServiceAssumption DEF TypeOK
    <3> QED BY <2>1, <3>1 DEF HasPassed, FillInv
  <2>2. word[f] \subseteq Words
    BY DEF TypeOK
  <2>3. ~ IsNil(f) => word[f] = Words \/ \E d \in Conns : WritesData(d, f)
    BY <2>2 DEF DataInHand, IsNil, Words
  <2> QED BY <2>1, <2>3
<1> QED BY <1>1, <1>2, DataInHandInit, DataInHandStep, FillAlways, OwnAlways, PTL DEF Spec

\* The set of users whose Handler lacks something never changes.
LEMMA LackingStep == [Next]_vars => UNCHANGED lacking
<1>1. ASSUME NEW c \in Conns, Serve(c)
      PROVE  UNCHANGED lacking
  BY <1>1 DEF Serve, Accept, FillLook, FillWrite, Begin, End, release, TakeGroup,
     GroupFound, GroupMissing, ListDone, AuthUserOnly, AuthUser, AuthPass
<1>2. ASSUME NEW o \in Objects, Forget(o)
      PROVE  UNCHANGED lacking
  BY <1>2 DEF Forget
<1> QED BY <1>1, <1>2 DEF Next, vars

\* With a backend whose Handlers are complete no session ever calls a nil
\* capability, before its login or after.
THEOREM NoNilCapability ==
  ASSUME BackendFills
  PROVE  Spec => []CapsReady
<1>1. Init => lacking = {}
  BY DEF Init
<1>2. lacking = {} /\ [Next]_vars => (lacking = {})'
  BY LackingStep
<1>3. FillInv /\ lacking = {} => CapsReady
  BY DEF FillInv, CapsReady
<1> QED BY <1>1, <1>2, <1>3, FillAlways, PTL DEF Spec

-----------------------------------------------------------------------------
(***************************************************************************)
(* LoginIsOwn is inductive once handlers have one owner.                   *)
(***************************************************************************)
LoginOf(c) ==
  /\ h[nh[c]] # Base => h[nh[c]] \in shown[c] \cap (Open \cup knows[c])
  /\ userName[nh[c]] = given[c]

\* A session whose handler's login and own history stay is as it was.
LEMMA LoginStays ==
  ASSUME LoginIsOwn, NEW d \in Conns, Serving(d)' => Serving(d),
         nh'[d] = nh[d], h'[nh[d]] = h[nh[d]], userName'[nh[d]] = userName[nh[d]],
         shown'[d] = shown[d], given'[d] = given[d]
  PROVE  Serving(d)' => LoginOf(d)'
BY DEF LoginIsOwn, LoginOf

LEMMA LoginStep == OwnInv /\ LoginIsOwn /\ [Next]_vars => LoginIsOwn'
<1> SUFFICES ASSUME OwnInv, LoginIsOwn, [Next]_vars, NEW d \in Conns, Serving(d)'
             PROVE  LoginOf(d)'
  BY DEF LoginIsOwn, LoginOf
<1> USE ServiceAssumption DEF OwnInv
<1>1. CASE UNCHANGED vars
  BY <1>1, LoginStays DEF vars, Serving
<1>2. ASSUME NEW o \in Objects, Forget(o)
      PROVE  LoginOf(d)'
  <2>1. UNCHANGED <<pc, nh, given, shown>> /\ pooled[o] > 0
    BY <1>2 DEF Forget, client
  <2>2. Serving(d) /\ nh[d] # None
    BY <2>1 DEF Serving, TypeOK
  <2>3. nh[d] \in Nntp /\ nh[d] # o
    BY <2>1, <2>2, HandlerFacts
  <2>4. h'[nh[d]] = h[nh[d]] /\ userName'[nh[d]] = userName[nh[d]]
    BY <1>2, <2>3 DEF Forget
  <2> QED BY <2>1, <2>2, <2>4, LoginStays
<1>3. ASSUME NEW c \in Conns, Serve(c)
      PROVE  LoginOf(d)'
  <2>1. CASE \/ Accept(c) \/ FillLook(c) \/ FillWrite(c) \/ End(c)
             \/ TakeGroup(c, "group") \/ TakeGroup(c, "list")
             \/ GroupFound(c) \/ GroupMissing(c) \/ ListDone(c)
    <3>1. UNCHANGED <<nh, h, userName, given, shown>> /\ (Serving(d)' => Serving(d))
      BY <2>1 DEF Accept, FillLook, FillWrite, End, TakeGroup, GroupFound, GroupMissing,
         ListDone, GroupDone, fields, client, Serving, TypeOK
    <3> QED BY <3>1, LoginStays
  <2>2. CASE Begin(c)
    <3>1. PICK n \in Nntp :
            /\ Obtainable(n)
            /\ nh' = [nh EXCEPT ![c] = n]
            /\ h' = [h EXCEPT ![n] = Base]
      BY <2>2 DEF Begin, Pool
    <3>2. /\ pc' = [pc EXCEPT ![c] = "serve"] /\ userName' = userName
          /\ given' = [given EXCEPT ![c] = None] /\ shown' = [shown EXCEPT ![c] = {}]
      BY <2>2 DEF Begin
    <3>3. \A e \in Conns : nh[e] # n
      <4>1. \A e \in Conns : n \notin Uses(e)
        BY <3>1, ObtainableIsUnused DEF Objects
      <4> QED BY <4>1, HandlerIsUsed
    <3>4. CASE d = c
      <4>1. nh'[d] = n /\ h'[n] = Base /\ given'[d] = None
        BY <3>1, <3>2, <3>4 DEF TypeOK
      <4>2. userName'[n] = None
        BY <3>2, <3>3 DEF Released, InUse
      <4> QED BY <4>1, <4>2 DEF LoginOf
    <3>5. CASE d # c
      <4>1. /\ nh'[d] = nh[d] /\ pc'[d] = pc[d] /\ h'[nh[d]] = h[nh[d]]
            /\ shown'[d] = shown[d] /\ given'[d] = given[d]
        BY <3>1, <3>2, <3>3, <3>5 DEF TypeOK
      <4> QED BY <3>2, <4>1, LoginStays DEF Serving
    <3> QED BY <3>4, <3>5
  <2>3. CASE release(c)
    <3>1. /\ pc[c] = "release" /\ pc' = [pc EXCEPT ![c] = "free"] /\ nh' = [nh EXCEPT ![c] = None]
          /\ h' = [h EXCEPT ![nh[c]] = None] /\ userName' = [userName EXCEPT ![nh[c]] = None]
          /\ UNCHANGED <<given, shown>>
      BY <2>3 DEF release, client
    <3>2. d # c /\ nh[c] # None /\ Serving(d)
      BY <3>1 DEF Serving, TypeOK
    <3>3. nh[d] # nh[c] /\ nh'[d] = nh[d]
      BY <3>1, <3>2, HandlerFacts DEF TypeOK
    <3>4. h'[nh[d]] = h[nh[d]] /\ userName'[nh[d]] = userName[nh[d]]
      BY <3>1, <3>3 DEF TypeOK
    <3> QED BY <3>1, <3>2, <3>3, <3>4, LoginStays
  <2>4. ASSUME NEW u \in Users, AuthUserOnly(c, u) \/ AuthUser(c, u) \/ AuthPass(c, u)
        PROVE  LoginOf(d)'
    <3>1. pc[c] = "serve" /\ h[nh[c]] = Base /\ UNCHANGED <<pc, nh>>
      BY <2>4 DEF AuthUserOnly, AuthUser, AuthPass, MayLogin
    <3>2. nh[c] \in Nntp /\ \A e \in Conns : e # c => nh[e] # nh[c]
      <4>1. nh[c] # None
        BY <3>1 DEF TypeOK
      <4> QED BY <4>1, HandlerFacts
    <3>3. Serving(d) /\ Serving(c)
      BY <3>1 DEF Serving
    <3>4. CASE d # c
      <4> nh[d] \in Nntp /\ nh[d] # nh[c]
        BY <3>2, <3>3, <3>4, HandlerFacts DEF Serving, TypeOK
      <4>1. h'[nh[d]] = h[nh[d]]
        <5>1. h' = h \/ h' = [h EXCEPT ![nh[c]] = u]
          BY <2>4 DEF AuthUserOnly, AuthUser, AuthPass, LoggedIn
        <5>2. h \in [Nntp -> Users \cup {Base, None}]
          BY DEF TypeOK
        <5> QED BY <5>1, <5>2
      <4>2. userName'[nh[d]] = userName[nh[d]]
        <5>1. userName' = userName \/ userName' = [userName EXCEPT ![nh[c]] = u]
          BY <2>4 DEF AuthUserOnly, AuthUser, AuthPass
        <5>2. userName \in [Nntp -> Users \cup {None}]
          BY DEF TypeOK
        <5> QED BY <5>1, <5>2
      <4>3. shown'[d] = shown[d] /\ given'[d] = given[d]
        BY <2>4, <3>4 DEF AuthUserOnly, AuthUser, AuthPass, LoggedIn, TypeOK
      <4> QED BY <3>1, <3>3, <4>1, <4>2, <4>3, LoginStays
    <3>5. CASE d = c
      <4>1. userName[nh[c]] = given[c]
        BY <3>3 DEF LoginIsOwn
      <4>2. CASE AuthUser(c, u)
        <5>1. /\ h' = h /\ userName' = [userName EXCEPT ![nh[c]] = u]
              /\ given' = [given EXCEPT ![c] = u]
          BY <4>2 DEF AuthUser
        <5> QED BY <3>1, <3>2, <3>5, <5>1 DEF LoginOf, TypeOK
      <4>3. CASE AuthUserOnly(c, u) \/ AuthPass(c, u)
        <5>1. /\ h' = [h EXCEPT ![nh[c]] = u] /\ shown' = [shown EXCEPT ![c] = @ \cup {u}]
              /\ u \in Open \cup knows[c] /\ UNCHANGED <<userName, given>>
          BY <4>3 DEF AuthUserOnly, AuthPass, LoggedIn
        <5>2. h'[nh[c]] = u /\ u \in shown'[c]
          BY <3>2, <5>1 DEF TypeOK
        <5> QED BY <3>1, <3>5, <4>1, <5>1, <5>2 DEF LoginOf
      <4> QED BY <2>4, <4>2, <4>3
    <3> QED BY <3>4, <3>5
  <2> QED BY <1>3, <2>1, <2>2, <2>3, <2>4 DEF Serve
<1> QED BY <1>1, <1>2, <1>3 DEF Next

\* No login outlives its session or reaches another: whoever a session acts for,
\* its own client has named, with the password unless none is needed, and the
\* name that AUTHINFO PASS tries is the one this client gave (handleAuthInfo in
\* cmds2.go, nntpHandler.release in nntpdecoder.go).
THEOREM LoginsAreOwn == Spec => []LoginIsOwn
<1>1. Init => LoginIsOwn
  BY DEF Init, LoginIsOwn, Serving
<1> QED BY <1>1, LoginStep, OwnAlways, PTL DEF Spec

-----------------------------------------------------------------------------
(***************************************************************************)
(* Induction over numbers.                                                 *)
(***************************************************************************)
\* A set of numbers that is not empty has a least one.
LEMMA Least ==
  ASSUME NEW T \in SUBSET Nat, T # {}
  PROVE  \E n \in T : \A m \in T : n <= m
<1>1. IsWellFoundedOn(OpToRel(<, Nat), Nat)
  BY NatLessThanWellFounded
<1>2. PICK n \in T : \A m \in T : ~ (<<m, n>> \in OpToRel(<, Nat))
  BY <1>1, WFMin
<1>3. \A m \in T : ~ (m < n)
  BY <1>2 DEF OpToRel
<1> QED BY <1>3

\* A set that holds each number of which it holds all smaller ones holds them all.
LEMMA AllNumbers ==
  ASSUME NEW S, \A n \in Nat : (\A m \in 0 .. n-1 : m \in S) => n \in S
  PROVE  \A n \in Nat : n \in S
<1> DEFINE T == {n \in Nat : n \notin S}
<1>1. ASSUME T # {}
      PROVE  FALSE
  <2>1. T \in SUBSET Nat
    OBVIOUS
  <2> HIDE DEF T
  <2>2. PICK n \in T : \A m \in T : n <= m
    BY <1>1, <2>1, Least
  <2>3. n \in Nat /\ n \notin S
    BY <2>2 DEF T
  <2>4. \A m \in 0 .. n-1 : m \in S
    <3> SUFFICES ASSUME NEW m \in 0 .. n-1, m \notin S
                 PROVE  FALSE
      OBVIOUS
    <3>1. m \in T /\ m < n
      BY <2>3 DEF T
    <3> QED BY <2>2, <2>3, <3>1
  <2> QED BY <2>3, <2>4
<1> QED BY <1>1

\* A set that holds 0, and with n the number behind it up to N, holds all up to N.
LEMMA UpTo ==
  ASSUME NEW N \in Nat, NEW S, 0 \in S, \A n \in 0 .. N : n < N /\ n \in S => n+1 \in S
  PROVE  \A n \in 0 .. N : n \in S
<1> DEFINE S2 == {n \in Nat : n \in 0 .. N => n \in S}
<1>1. ASSUME NEW n \in Nat, \A m \in 0 .. n-1 : m \in S2
      PROVE  n \in S2
  <2>1. CASE n = 0
    BY <2>1
  <2>2. CASE n > 0 /\ n <= N
    <3>1. n-1 \in 0 .. n-1 /\ n-1 \in 0 .. N /\ n-1 < N /\ (n-1)+1 = n
      BY <2>2
    <3>2. n-1 \in S
      BY <1>1, <3>1
    <3> QED BY <3>1, <3>2
  <2>3. CASE n > N
    BY <2>3
  <2> QED BY <2>1, <2>2, <2>3
<1> HIDE DEF S2
<1>2. \A n \in Nat : n \in S2
  BY <1>1, AllNumbers
<1> QED BY <1>2 DEF S2

-----------------------------------------------------------------------------
(***************************************************************************)
(* Numbers (bconv.go).  ParseUint goes over the bytes of a text, and       *)
(* AppendUint over the digits of a number; both are followed by induction, *)
(* which is over a set of numbers here, the library's being over an        *)
(* operator.                                                               *)
(***************************************************************************)

\* Numbers of Width bits stay what they are, and all others become one of them.
LEMMA WrapKeeps ==
  ASSUME NEW n \in Int64
  PROVE  Wrap(n) = n
<1>1. \A x, m \in Nat : x < m => x % m = x
  OBVIOUS
<1> QED BY <1>1, NumbersAssumption DEF Wrap, Int64, MaxInt

LEMMA WrapType ==
  ASSUME NEW n \in Int
  PROVE  Wrap(n) \in Int64
<1>1. \A x \in Int : \A m \in Nat \ {0} : x % m \in 0 .. m-1
  OBVIOUS
<1>2. (n+Top) % (2*Top) \in 0 .. 2*Top - 1
  BY <1>1, NumbersAssumption
<1> QED BY <1>2, NumbersAssumption DEF Wrap, Int64, MaxInt

\* One more byte leaves a number of Width bits one.
LEMMA DigitType ==
  ASSUME NEW n \in Int64, NEW b \in Nat
  PROVE  Digit(n, b) \in Int64
<1>1. n \in Int /\ \A k \in Int64 : k \in Int
  BY NumbersAssumption DEF Int64, MaxInt
<1>2. Wrap(n * 10) \in Int64
  BY <1>1, WrapType
<1>3. Wrap(n * 10) + b - zero \in Int
  <2> DEFINE m == Wrap(n * 10)
  <2>1. m \in Int
    BY <1>1, <1>2
  <2> HIDE DEF m
  <2>2. m + b - zero \in Int
    BY <2>1 DEF zero
  <2> QED BY <2>2 DEF m
<1>4. Wrap(Wrap(n * 10) + b - zero) \in Int64
  BY <1>3, WrapType
<1> QED BY <1>4 DEF Digit

\* One more digit, of a number that does not overflow.
LEMMA DigitAdds ==
  ASSUME NEW n \in 0 .. MaxInt, n >= 10
  PROVE  /\ n \div 10 \in 0 .. MaxInt /\ n \div 10 < n
         /\ Digit(n \div 10, zero + (n % 10)) = n
<1>1. /\ n \div 10 \in 0 .. n-1 /\ n % 10 \in 0 .. 9
      /\ (n \div 10) * 10 \in 0 .. n /\ (n \div 10) * 10 + (n % 10) = n
  BY NumbersAssumption DEF MaxInt
<1> DEFINE q == n \div 10
           d == n % 10
<1> HIDE DEF q, d
<1>2. q \in 0 .. n-1 /\ d \in 0 .. 9 /\ q * 10 \in 0 .. n /\ q * 10 + d = n
  BY <1>1 DEF q, d
<1>3. q * 10 \in Int64 /\ n \in Int64
  BY <1>2, NumbersAssumption DEF Int64, MaxInt
<1>4. Wrap(q * 10) = q * 10 /\ Wrap(n) = n
  BY <1>3, WrapKeeps
<1>5. q * 10 + (zero + d) - zero = n
  BY <1>2 DEF zero
<1>6. isDigit(zero + d)
  BY <1>2 DEF isDigit, zero
<1>7. Digit(q, zero + d) = n
  BY <1>4, <1>5, <1>6 DEF Digit
<1> QED BY <1>2, <1>7, NumbersAssumption DEF q, d, MaxInt

\* Reading follows its equation: such a function exists, one byte at a time.
LEMMA ReadingStates ==
  ASSUME NEW s, Len(s) \in Nat
  PROVE  Reading(s) = [k \in 0 .. Len(s) |-> IF k = 0 THEN 0 ELSE Digit(Reading(s)[k-1], s[k])]
<1> DEFINE Fitting(g, N) == g = [k \in 0 .. N |-> IF k = 0 THEN 0 ELSE Digit(g[k-1], s[k])]
           S == {N \in Nat : \E g : Fitting(g, N)}
<1>1. 0 \in S
  <2> DEFINE g == [k \in 0 .. 0 |-> 0]
  <2>1. Fitting(g, 0)
    OBVIOUS
  <2> QED BY <2>1
<1>2. ASSUME NEW N \in 0 .. Len(s), N < Len(s), N \in S
      PROVE  N+1 \in S
  <2>1. PICK g : Fitting(g, N)
    BY <1>2
  <2> DEFINE f == [k \in 0 .. N+1 |-> IF k = N+1 THEN Digit(g[N], s[N+1]) ELSE g[k]]
  <2>2. ASSUME NEW k \in 0 .. N+1
        PROVE  f[k] = IF k = 0 THEN 0 ELSE Digit(f[k-1], s[k])
    <3>1. CASE k = N+1
      <4>1. f[k-1] = g[N] /\ k - 1 = N
        BY <3>1
      <4> QED BY <3>1, <4>1
    <3>2. CASE k \in 0 .. N
      <4>1. f[k] = g[k] /\ (k > 0 => f[k-1] = g[k-1])
        BY <3>2
      <4>2. g[k] = IF k = 0 THEN 0 ELSE Digit(g[k-1], s[k])
        BY <2>1, <3>2
      <4> QED BY <3>2, <4>1, <4>2
    <3> QED BY <3>1, <3>2
  <2>3. f = [k \in 0 .. N+1 |-> f[k]]
    OBVIOUS
  <2> HIDE DEF f
  <2>4. Fitting(f, N+1)
    BY <2>2, <2>3
  <2> QED BY <2>4
<1>3. Len(s) \in S
  <2> HIDE DEF S
  <2>1. \A N \in 0 .. Len(s) : N < Len(s) /\ N \in S => N+1 \in S
    BY <1>2
  <2>2. \A N \in 0 .. Len(s) : N \in S
    BY <1>1, <2>1, UpTo
  <2> QED BY <2>2
<1>4. \E g : Fitting(g, Len(s))
  BY <1>3
<1>5. Reading(s) = CHOOSE g : Fitting(g, Len(s))
  BY DEF Reading
<1>6. Fitting(Reading(s), Len(s))
  <2> HIDE DEF Fitting
  <2> QED BY <1>4, <1>5
<1> QED BY <1>6

\* It begins with zero and goes on digit by digit.
LEMMA ReadingStep ==
  ASSUME NEW s, Len(s) \in Nat
  PROVE  /\ Reading(s)[0] = 0
         /\ \A k \in 1 .. Len(s) : Reading(s)[k] = Digit(Reading(s)[k-1], s[k])
<1>1. \A k \in 0 .. Len(s) : Reading(s)[k] = IF k = 0 THEN 0 ELSE Digit(Reading(s)[k-1], s[k])
  BY ReadingStates
<1> QED BY <1>1

\* What is read is a number of Width bits.
LEMMA ReadingType ==
  ASSUME NEW s \in Seq(Nat)
  PROVE  ParseUint(s) \in Int64
<1> DEFINE S == {k \in Nat : Reading(s)[k] \in Int64}
<1>1. Len(s) \in Nat
  OBVIOUS
<1>2. 0 \in S
  BY <1>1, ReadingStep, NumbersAssumption DEF Int64, MaxInt
<1>3. ASSUME NEW k \in 0 .. Len(s), k < Len(s), k \in S
      PROVE  k+1 \in S
  <2>1. k+1 \in 1 .. Len(s) /\ (k+1)-1 = k
    BY <1>1, <1>3
  <2>2. Reading(s)[k+1] = Digit(Reading(s)[k], s[k+1])
    BY <1>1, <2>1, ReadingStep
  <2>3. s[k+1] \in Nat
    BY <2>1
  <2>4. Digit(Reading(s)[k], s[k+1]) \in Int64
    BY <1>3, <2>3, DigitType
  <2> QED BY <2>1, <2>2, <2>4
<1>4. \A k \in 0 .. Len(s) : k \in S
  <2> HIDE DEF S
  <2> QED BY <1>1, <1>2, <1>3, UpTo
<1> QED BY <1>1, <1>4 DEF ParseUint

\* One more byte.
LEMMA ParseUintAppend ==
  ASSUME NEW s \in Seq(Nat), NEW b \in Nat
  PROVE  ParseUint(Append(s, b)) = Digit(ParseUint(s), b)
<1> DEFINE t == Append(s, b)
           S == {k \in Nat : Reading(t)[k] = Reading(s)[k]}
<1>1. Len(s) \in Nat /\ Len(t) = Len(s) + 1 /\ t[Len(s)+1] = b /\ \A k \in 1 .. Len(s) : t[k] = s[k]
  BY AppendProperties
<1> HIDE DEF t
<1>5. Len(t) \in Nat
  BY <1>1
<1>6. /\ Reading(t)[0] = 0
      /\ \A k \in 1 .. Len(t) : Reading(t)[k] = Digit(Reading(t)[k-1], t[k])
  BY <1>5, ReadingStep
<1>2. 0 \in S
  BY <1>1, <1>6, ReadingStep
<1>3. ASSUME NEW k \in 0 .. Len(s), k < Len(s), k \in S
      PROVE  k+1 \in S
  <2>1. k+1 \in 1 .. Len(s) /\ k+1 \in 1 .. Len(t) /\ (k+1)-1 = k
    BY <1>1, <1>3
  <2>2. Reading(s)[k+1] = Digit(Reading(s)[k], s[k+1])
    BY <1>1, <2>1, ReadingStep
  <2>3. Reading(t)[k+1] = Digit(Reading(t)[(k+1)-1], t[k+1])
    BY <1>6, <2>1
  <2> QED BY <1>1, <1>3, <2>1, <2>2, <2>3
<1>4. \A k \in 0 .. Len(s) : k \in S
  <2> HIDE DEF S
  <2> QED BY <1>1, <1>2, <1>3, UpTo
<1>7. Reading(t)[Len(s)+1] = Digit(Reading(t)[Len(s)], t[Len(s)+1])
  <2>1. Len(s)+1 \in 1 .. Len(t) /\ (Len(s)+1)-1 = Len(s)
    BY <1>1
  <2>2. Reading(t)[Len(s)+1] = Digit(Reading(t)[(Len(s)+1)-1], t[Len(s)+1])
    BY <1>6, <2>1
  <2> QED BY <2>1, <2>2
<1> QED BY <1>1, <1>4, <1>7 DEF ParseUint, t

\* Decimal follows its equation: such a function exists up to each number, and
\* all of these agree.
LEMMA DecimalDigits ==
  Decimal = [n \in Nat |-> IF n < 10 THEN <<zero + n>> ELSE Append(Decimal[n \div 10], zero + (n % 10))]
<1> DEFINE Is(g, n) == g[n] = IF n < 10 THEN <<zero + n>> ELSE Append(g[n \div 10], zero + (n % 10))
           Fitting(g, N) == \A n \in 0 .. N : Is(g, n)
           S == {N \in Nat : \E g : Fitting(g, N)}
<1>1. ASSUME NEW n \in Nat, n >= 10
      PROVE  n \div 10 \in 0 .. n-1
  BY <1>1
<1>2. ASSUME NEW g, NEW f, NEW N \in Nat, NEW M \in Nat, Fitting(g, N), Fitting(f, M)
      PROVE  \A n \in Nat : n <= N /\ n <= M => g[n] = f[n]
  <2> DEFINE E == {n \in Nat : n <= N /\ n <= M => g[n] = f[n]}
  <2>1. ASSUME NEW n \in Nat, \A m \in 0 .. n-1 : m \in E
        PROVE  n \in E
    <3>1. CASE n <= N /\ n <= M
      <4>1. Is(g, n) /\ Is(f, n)
        BY <1>2, <3>1
      <4>2. CASE n < 10
        BY <4>1, <4>2
      <4>3. CASE n >= 10
        <5>1. n \div 10 \in 0 .. n-1
          BY <1>1, <4>3
        <5>2. g[n \div 10] = f[n \div 10]
          BY <2>1, <3>1, <5>1
        <5> QED BY <4>1, <4>3, <5>2
      <4> QED BY <4>2, <4>3
    <3> QED BY <3>1
  <2> HIDE DEF E
  <2>2. \A n \in Nat : n \in E
    BY <2>1, AllNumbers
  <2> QED BY <2>2 DEF E
<1>3. ASSUME NEW n \in Nat, \A m \in 0 .. n-1 : m \in S
      PROVE  n \in S
  <2>1. CASE n = 0
    <3> DEFINE g == [k \in 0 .. 0 |-> <<zero + k>>]
    <3>1. Fitting(g, 0)
      OBVIOUS
    <3> QED BY <2>1, <3>1
  <2>2. CASE n > 0
    <3>5. n-1 \in 0 .. n-1
      BY <2>2
    <3>6. n-1 \in S
      BY <1>3, <3>5
    <3>1. PICK g : Fitting(g, n-1)
      BY <3>6
    <3> DEFINE f == [k \in 0 .. n |-> IF k < n THEN g[k]
                                      ELSE IF k < 10 THEN <<zero + k>>
                                      ELSE Append(g[k \div 10], zero + (k % 10))]
    <3>2. ASSUME NEW k \in 0 .. n
          PROVE  Is(f, k)
      <4>1. k >= 10 => k \div 10 \in 0 .. k-1
        BY <1>1
      <4>2. k >= 10 => f[k \div 10] = g[k \div 10]
        BY <4>1
      <4>3. CASE k < n
        <5>1. f[k] = g[k] /\ Is(g, k)
          BY <2>2, <3>1, <4>3
        <5> QED BY <4>2, <5>1
      <4>4. CASE k = n
        <5>1. f[k] = IF k < 10 THEN <<zero + k>> ELSE Append(g[k \div 10], zero + (k % 10))
          BY <4>4
        <5> QED BY <4>2, <5>1
      <4> QED BY <4>3, <4>4
    <3> HIDE DEF f
    <3>3. Fitting(f, n)
      BY <3>2
    <3> QED BY <3>3
  <2> QED BY <2>1, <2>2
<1>4. \A n \in Nat : n \in S
  <2> HIDE DEF S
  <2> QED BY <1>3, AllNumbers
<1> DEFINE G(n) == CHOOSE g : Fitting(g, n)
           F == [n \in Nat |-> G(n)[n]]
<1>5. ASSUME NEW n \in Nat
      PROVE  Fitting(G(n), n)
  <2>1. \E g : Fitting(g, n)
    BY <1>4
  <2> HIDE DEF Fitting
  <2> QED BY <2>1
<1> HIDE DEF Fitting, G
<1>6. ASSUME NEW n \in Nat
      PROVE  Is(F, n)
  <2>1. Is(G(n), n)
    BY <1>5 DEF Fitting
  <2>2. n >= 10 => F[n \div 10] = G(n)[n \div 10]
    <3> SUFFICES ASSUME n >= 10
                 PROVE  F[n \div 10] = G(n)[n \div 10]
      OBVIOUS
    <3>1. n \div 10 \in 0 .. n-1
      BY <1>1
    <3> DEFINE m == n \div 10
    <3> HIDE DEF m
    <3>2. m \in 0 .. n-1
      BY <3>1 DEF m
    <3>3. G(m)[m] = G(n)[m]
      <4>1. Fitting(G(m), m) /\ Fitting(G(n), n) /\ m \in Nat /\ m <= n
        BY <1>5, <3>2
      <4> QED BY <1>2, <4>1
    <3> QED BY <3>2, <3>3 DEF m
  <2>3. F[n] = G(n)[n]
    OBVIOUS
  <2> HIDE DEF F
  <2> QED BY <2>1, <2>2, <2>3
<1>7. F = [n \in Nat |-> F[n]]
  OBVIOUS
<1> DEFINE Fixed(g) == g = [n \in Nat |-> IF n < 10 THEN <<zero + n>> ELSE Append(g[n \div 10], zero + (n % 10))]
<1> HIDE DEF F
<1>8. Fixed(F)
  BY <1>6, <1>7
<1>9. Decimal = CHOOSE g : Fixed(g)
  BY DEF Decimal
<1>10. Fixed(Decimal)
  <2> HIDE DEF Fixed
  <2> QED BY <1>8, <1>9
<1> QED BY <1>10

Digits == zero .. zero + 9

\* A sequence over a set is one over a larger set.
LEMMA SeqOfMore ==
  ASSUME NEW A, NEW B, A \subseteq B, NEW s \in Seq(A)
  PROVE  s \in Seq(B)
<1>1. Len(s) \in Nat /\ s = [k \in 1 .. Len(s) |-> s[k]] /\ \A k \in 1 .. Len(s) : s[k] \in B
  OBVIOUS
<1> QED BY <1>1

\* No byte, and one digit.
LEMMA ReadNothing == ParseUint(<<>>) = 0
<1>1. Len(<<>>) = 0 /\ Len(<<>>) \in Nat
  OBVIOUS
<1>2. Reading(<<>>)[0] = 0
  BY <1>1, ReadingStep
<1> QED BY <1>1, <1>2 DEF ParseUint

LEMMA ReadDigit ==
  ASSUME NEW n \in 0 .. 9, n <= MaxInt
  PROVE  ParseUint(<<zero + n>>) = n
<1>1. zero + n \in Nat /\ <<>> \in Seq(Nat) /\ <<zero + n>> = Append(<<>>, zero + n)
  BY DEF zero
<1>2. ParseUint(<<zero + n>>) = Digit(0, zero + n)
  BY <1>1, ReadNothing, ParseUintAppend
<1>3. 0 \in Int64 /\ n \in Int64
  BY NumbersAssumption DEF Int64, MaxInt
<1>4. Wrap(0) = 0 /\ Wrap(n) = n
  BY <1>3, WrapKeeps
<1>5. isDigit(zero + n)
  BY DEF isDigit, zero
<1>6. 0 * 10 = 0 /\ 0 + (zero + n) - zero = n
  BY DEF zero
<1>7. Digit(0, zero + n) = n
  BY <1>4, <1>5, <1>6 DEF Digit
<1> QED BY <1>2, <1>7

\* The decimal digits of a number are digits, and are read as this number.
LEMMA DecimalRead ==
  ASSUME NEW n \in Nat
  PROVE  /\ Decimal[n] \in Seq(Digits)
         /\ Decimal[n] # <<>>
         /\ n <= MaxInt => ParseUint(Decimal[n]) = n
<1> DEFINE S == {k \in Nat : /\ Decimal[k] \in Seq(Digits)
                             /\ Decimal[k] # <<>>
                             /\ k <= MaxInt => ParseUint(Decimal[k]) = k}
<1>1. ASSUME NEW k \in Nat, \A m \in 0 .. k-1 : m \in S
      PROVE  k \in S
  <2>1. CASE k < 10
    <3>1. Decimal[k] = <<zero + k>>
      BY <2>1, DecimalDigits
    <3>2. zero + k \in Digits
      BY <2>1 DEF Digits, zero
    <3>3. k <= MaxInt => ParseUint(<<zero + k>>) = k
      BY <2>1, ReadDigit
    <3>4. <<zero + k>> \in Seq(Digits) /\ <<zero + k>> # <<>>
      BY <3>2
    <3>5. Decimal[k] \in Seq(Digits) /\ Decimal[k] # <<>> /\ (k <= MaxInt => ParseUint(Decimal[k]) = k)
      BY <3>1, <3>3, <3>4
    <3> QED BY <3>5
  <2>2. CASE k >= 10
    <3> DEFINE q == k \div 10
               d == k % 10
    <3>1. q \in 0 .. k-1 /\ d \in 0 .. 9
      BY <2>2
    <3>2. Decimal[k] = Append(Decimal[q], zero + d)
      BY <2>2, DecimalDigits
    <3>3. q \in S
      BY <1>1, <3>1
    <3>4. k <= MaxInt => k \in 0 .. MaxInt
      BY NumbersAssumption DEF MaxInt
    <3>5. k <= MaxInt => Digit(q, zero + d) = k /\ q <= MaxInt
      <4> SUFFICES ASSUME k <= MaxInt
                   PROVE  Digit(q, zero + d) = k /\ q <= MaxInt
        OBVIOUS
      <4>1. k \in 0 .. MaxInt
        BY <3>4
      <4>2. Digit(q, zero + d) = k /\ q \in 0 .. MaxInt
        BY <2>2, <4>1, DigitAdds
      <4> QED BY <4>2
    <3> HIDE DEF q, d
    <3>6. zero + d \in Digits
      BY <3>1 DEF Digits, zero
    <3>7. Decimal[q] \in Seq(Digits) /\ (q <= MaxInt => ParseUint(Decimal[q]) = q)
      BY <3>3
    <3>8. Decimal[q] \in Seq(Nat) /\ zero + d \in Nat
      <4>1. Digits \subseteq Nat
        BY DEF Digits, zero
      <4> QED BY <3>6, <3>7, <4>1, SeqOfMore
    <3>9. ParseUint(Decimal[k]) = Digit(ParseUint(Decimal[q]), zero + d)
      BY <3>2, <3>8, ParseUintAppend
    <3>10. Decimal[k] \in Seq(Digits) /\ Decimal[k] # <<>>
      <4> DEFINE D == Decimal[q]
                 E == Decimal[k]
      <4>1. D \in Seq(Digits) /\ E = Append(D, zero + d)
        BY <3>2, <3>7
      <4> HIDE DEF D, E
      <4>2. E \in Seq(Digits) /\ Len(E) = Len(D) + 1 /\ Len(D) \in Nat
        BY <3>6, <4>1, AppendProperties
      <4>3. E # <<>>
        BY <4>2
      <4> QED BY <4>2, <4>3 DEF E
    <3>11. k <= MaxInt => ParseUint(Decimal[k]) = k
      BY <3>5, <3>7, <3>9
    <3> QED BY <3>10, <3>11
  <2> QED BY <1>1, <2>1, <2>2
<1>2. \A k \in Nat : k \in S
  <2> HIDE DEF S
  <2> QED BY <1>1, AllNumbers
<1> QED BY <1>2

\* What AppendUint writes, ParseUint reads: any number from zero to the largest
\* int64 (bconv.go:30-53).  Below zero this is wrong, and EntriesShown says so.
THEOREM NumbersRead ==
  ASSUME NEW n \in 0 .. MaxInt
  PROVE  /\ AppendUint(n) \in Seq(Digits)
         /\ ParseUint(AppendUint(n)) = n
<1>1. n \in Nat /\ n <= MaxInt
  BY NumbersAssumption DEF MaxInt
<1>2. Decimal[n] \in Seq(Digits) /\ ParseUint(Decimal[n]) = n
  BY <1>1, DecimalRead
<1>3. AppendUint(n) = Decimal[n]
  <2>1. CASE n < 10
    <3>1. (zero + n) % 256 = zero + n
      BY <1>1, <2>1 DEF zero
    <3>2. Decimal[n] = <<zero + n>>
      BY <1>1, <2>1, DecimalDigits
    <3> QED BY <2>1, <3>1, <3>2 DEF AppendUint
  <2>2. CASE n >= 10
    BY <1>1, <2>2 DEF AppendUint
  <2> QED BY <1>1, <2>1, <2>2
<1> QED BY <1>2, <1>3

\* The first dash parts the two numbers.
LEMMA FirstDash ==
  ASSUME NEW s \in Seq(Nat), NEW i \in DOMAIN s, s[i] = dash, \A k \in 1 .. i-1 : s[k] # dash
  PROVE  ParseRange(s) = <<ParseUint(SubSeq(s, 1, i-1)), ParseUint(SubSeq(s, i+1, Len(s)))>>
<1> DEFINE dashes == {k \in DOMAIN s : s[k] = dash}
           d      == CHOOSE k \in dashes : \A j \in dashes : k <= j
<1>1. i \in Nat /\ DOMAIN s = 1 .. Len(s) /\ Len(s) \in Nat
  OBVIOUS
<1>2. i \in dashes /\ \A j \in dashes : i <= j
  BY <1>1
<1>3. d \in dashes /\ \A j \in dashes : d <= j
  BY <1>2
<1>4. d = i
  BY <1>1, <1>2, <1>3
<1>5. ParseRange(s) = IF dashes = {} THEN <<ParseUint(s), MaxInt>>
      ELSE <<ParseUint(SubSeq(s, 1, d-1)), ParseUint(SubSeq(s, d+1, Len(s)))>>
  BY DEF ParseRange
<1> HIDE DEF d, dashes
<1> QED BY <1>2, <1>4, <1>5

\* Without a dash the range has no end.
LEMMA NoDash ==
  ASSUME NEW s, \A k \in DOMAIN s : s[k] # dash
  PROVE  ParseRange(s) = <<ParseUint(s), MaxInt>>
BY DEF ParseRange

\* Whatever the client writes, the range is one of numbers of Width bits.
LEMMA RangeType ==
  ASSUME NEW s \in Seq(Nat)
  PROVE  ParseRange(s) \in Int64 \X Int64
<1>1. CASE \A k \in DOMAIN s : s[k] # dash
  <2>1. ParseUint(s) \in Int64 /\ MaxInt \in Int64
    BY ReadingType, NumbersAssumption DEF Int64, MaxInt
  <2> QED BY <1>1, <2>1, NoDash
<1>2. CASE \E k \in DOMAIN s : s[k] = dash
  <2> DEFINE T == {k \in Nat : k \in DOMAIN s /\ s[k] = dash}
  <2>0. Len(s) \in Nat /\ DOMAIN s = 1 .. Len(s)
    OBVIOUS
  <2>1. T \in SUBSET Nat /\ T # {}
    BY <1>2, <2>0
  <2> HIDE DEF T
  <2>2. PICK i \in T : \A m \in T : i <= m
    BY <2>1, Least
  <2>3. i \in DOMAIN s /\ s[i] = dash /\ \A k \in 1 .. i-1 : s[k] # dash
    BY <2>0, <2>2 DEF T
  <2>4. ParseRange(s) = <<ParseUint(SubSeq(s, 1, i-1)), ParseUint(SubSeq(s, i+1, Len(s)))>>
    BY <2>3, FirstDash
  <2>5. SubSeq(s, 1, i-1) \in Seq(Nat) /\ SubSeq(s, i+1, Len(s)) \in Seq(Nat)
    BY <2>0, <2>3, SubSeqProperties
  <2>6. ParseUint(SubSeq(s, 1, i-1)) \in Int64 /\ ParseUint(SubSeq(s, i+1, Len(s))) \in Int64
    BY <2>5, ReadingType
  <2> QED BY <2>4, <2>6
<1> QED BY <1>1, <1>2

RangesOf == [kind : {"one", "open", "both"}, from : Nat, to : Nat]

\* No digit is a dash.
LEMMA NoDigitIsDash ==
  ASSUME NEW s \in Seq(Digits)
  PROVE  s \in Seq(Nat) /\ \A k \in 1 .. Len(s) : s[k] # dash
<1>1. Digits \subseteq Nat /\ dash \notin Digits
  BY DEF Digits, zero, dash
<1>2. s \in Seq(Nat)
  BY <1>1, SeqOfMore
<1>3. \A k \in 1 .. Len(s) : s[k] \in Digits
  OBVIOUS
<1> QED BY <1>1, <1>2, <1>3

\* Two numbers with a dash between them.
LEMMA DashBetween ==
  ASSUME NEW a \in Seq(Digits), NEW b \in Seq(Digits)
  PROVE  /\ a \o <<dash>> \o b \in Seq(Nat)
         /\ ParseRange(a \o <<dash>> \o b) = <<ParseUint(a), ParseUint(b)>>
<1> DEFINE s == a \o <<dash>> \o b
           i == Len(a) + 1
<1>1. a \in Seq(Nat) /\ b \in Seq(Nat) /\ \A k \in 1 .. Len(a) : a[k] # dash
  BY NoDigitIsDash
<1>2. /\ s \in Seq(Nat) /\ Len(s) = Len(a) + 1 + Len(b)
      /\ \A k \in 1 .. Len(a) : s[k] = a[k]
      /\ s[i] = dash
      /\ \A k \in 1 .. Len(b) : s[i+k] = b[k]
  <2>1. Len(a) \in Nat /\ Len(b) \in Nat
    BY <1>1
  <2>2. <<dash>> \in Seq(Nat) /\ Len(<<dash>>) = 1
    BY DEF dash
  <2> DEFINE t == a \o <<dash>>
  <2>3. t \in Seq(Nat) /\ Len(t) = Len(a) + 1 /\ \A k \in 1 .. Len(t) : t[k] = IF k <= Len(a) THEN a[k] ELSE <<dash>>[k - Len(a)]
    BY <1>1, <2>2, ConcatProperties
  <2> HIDE DEF t
  <2>4. /\ t \o b \in Seq(Nat) /\ Len(t \o b) = Len(t) + Len(b)
        /\ \A k \in 1 .. Len(t) + Len(b) : (t \o b)[k] = IF k <= Len(t) THEN t[k] ELSE b[k - Len(t)]
    <3>1. t \in Seq(Nat) /\ b \in Seq(Nat)
      BY <1>1, <2>3
    <3> QED BY <3>1, ConcatProperties
  <2> DEFINE u == t \o b
  <2>5. u = s
    BY DEF t
  <2> HIDE DEF u, s
  <2>6. \A k \in 1 .. Len(a) : u[k] = a[k]
    BY <2>1, <2>3, <2>4 DEF u
  <2>7. u[i] = dash
    BY <2>1, <2>3, <2>4 DEF u
  <2>8. ASSUME NEW k \in 1 .. Len(b)
        PROVE  u[i+k] = b[k]
    <3>1. i+k \in 1 .. Len(t) + Len(b) /\ ~ (i+k <= Len(t)) /\ i+k - Len(t) = k
      BY <2>1, <2>3
    <3> QED BY <2>4, <3>1 DEF u
  <2> QED BY <2>3, <2>4, <2>5, <2>6, <2>7, <2>8 DEF u
<1> HIDE DEF s
<1>3. Len(a) \in Nat /\ Len(b) \in Nat /\ i \in DOMAIN s /\ i - 1 = Len(a)
  BY <1>1, <1>2
<1>4. ParseRange(s) = <<ParseUint(SubSeq(s, 1, i-1)), ParseUint(SubSeq(s, i+1, Len(s)))>>
  <2>1. \A k \in 1 .. i-1 : s[k] # dash
    BY <1>1, <1>2, <1>3
  <2> HIDE DEF i
  <2> QED BY <1>2, <1>3, <2>1, FirstDash
<1>5. SubSeq(s, 1, i-1) = a
  <2> DEFINE u == SubSeq(s, 1, i-1)
  <2>1. u \in Seq(Nat) /\ Len(u) = Len(a) /\ \A k \in 1 .. Len(a) : u[k] = s[k]
    BY <1>2, <1>3, SubSeqProperties
  <2> HIDE DEF u
  <2>2. \A k \in 1 .. Len(a) : u[k] = a[k]
    BY <1>2, <2>1
  <2>3. u = a
    BY <1>1, <2>1, <2>2, SeqEqual
  <2> QED BY <2>3 DEF u
<1>6. SubSeq(s, i+1, Len(s)) = b
  <2> DEFINE u == SubSeq(s, i+1, Len(s))
  <2>1. u \in Seq(Nat) /\ Len(u) = Len(b) /\ \A k \in 1 .. Len(b) : u[k] = s[i+k]
    <3>1. i+1 \in 1 .. Len(s)+1 /\ Len(s) \in i .. Len(s) /\ Len(s) - i = Len(b)
      BY <1>2, <1>3
    <3>2. u = [k \in 1 .. Len(b) |-> s[i+k]]
      <4>1. u = [k \in 1 .. Len(s) - (i+1) + 1 |-> s[(i+1)+k-1]]
        BY <1>2, <1>3
      <4>2. Len(s) - (i+1) + 1 = Len(b) /\ \A k \in 1 .. Len(b) : (i+1)+k-1 = i+k
        BY <1>2, <1>3
      <4> HIDE DEF u
      <4> QED BY <4>1, <4>2
    <3>3. \A k \in 1 .. Len(b) : s[i+k] \in Nat
      BY <1>1, <1>2
    <3> HIDE DEF u
    <3> QED BY <1>3, <3>2, <3>3
  <2> HIDE DEF u
  <2>2. \A k \in 1 .. Len(b) : u[k] = b[k]
    BY <1>2, <2>1
  <2>3. u = b
    BY <1>1, <2>1, <2>2, SeqEqual
  <2> QED BY <2>3 DEF u
<1>7. ParseRange(s) = <<ParseUint(a), ParseUint(b)>>
  BY <1>4, <1>5, <1>6
<1> QED BY <1>2, <1>7 DEF s

\* ParseRange reads the range that the client writes, as far as its numbers fit
\* (bconv.go:54-65): "5" has the largest number as its end, and "5-" has zero.
THEOREM RangesRead ==
  ASSUME NEW range \in RangesOf
  PROVE  /\ TextOf(range) \in Seq(Nat)
         /\ range.from <= MaxInt =>
              /\ range.kind = "one"  => ParseRange(TextOf(range)) = <<range.from, MaxInt>>
              /\ range.kind = "open" => ParseRange(TextOf(range)) = <<range.from, 0>>
              /\ range.kind = "both" /\ range.to <= MaxInt =>
                   ParseRange(TextOf(range)) = <<range.from, range.to>>
<1> DEFINE a == Decimal[range.from]
           b == Decimal[range.to]
<1>1. range.from \in Nat /\ range.to \in Nat /\ range.kind \in {"one", "open", "both"}
  BY DEF RangesOf
<1>2. /\ a \in Seq(Digits) /\ b \in Seq(Digits)
      /\ range.from <= MaxInt => ParseUint(a) = range.from
      /\ range.to <= MaxInt => ParseUint(b) = range.to
  BY <1>1, DecimalRead
<1>3. CASE range.kind = "one"
  <2>1. TextOf(range) = a
    BY <1>3 DEF TextOf
  <2> HIDE DEF a, b
  <2>2. a \in Seq(Nat) /\ \A k \in 1 .. Len(a) : a[k] # dash
    BY <1>2, NoDigitIsDash
  <2>3. DOMAIN a = 1 .. Len(a)
    BY <1>2
  <2>4. ParseRange(a) = <<ParseUint(a), MaxInt>>
    BY <2>2, <2>3, NoDash
  <2> QED BY <1>2, <1>3, <2>1, <2>2, <2>4
<1>4. CASE range.kind = "open"
  <2>1. TextOf(range) = Append(a, dash)
    BY <1>4 DEF TextOf
  <2> HIDE DEF a, b
  <2>2. Append(a, dash) = a \o <<dash>> \o <<>>
    <3>1. dash \in Nat /\ a \in Seq(Nat)
      BY <1>2, NoDigitIsDash DEF dash
    <3>2. Append(a, dash) = a \o <<dash>> /\ a \o <<dash>> \in Seq(Nat)
      BY <3>1
    <3>3. \A s \in Seq(Nat) : s \o <<>> = s
      OBVIOUS
    <3> QED BY <3>2, <3>3
  <2>3. <<>> \in Seq(Digits)
    OBVIOUS
  <2>4. /\ a \o <<dash>> \o <<>> \in Seq(Nat)
        /\ ParseRange(a \o <<dash>> \o <<>>) = <<ParseUint(a), 0>>
    BY <1>2, <2>3, DashBetween, ReadNothing
  <2> QED BY <1>2, <1>4, <2>1, <2>2, <2>4
<1>5. CASE range.kind = "both"
  <2>1. TextOf(range) = a \o <<dash>> \o b
    BY <1>5 DEF TextOf
  <2> HIDE DEF a, b
  <2>2. /\ a \o <<dash>> \o b \in Seq(Nat)
        /\ ParseRange(a \o <<dash>> \o b) = <<ParseUint(a), ParseUint(b)>>
    BY <1>2, DashBetween
  <2> QED BY <1>2, <1>5, <2>1, <2>2
<1> HIDE DEF a, b
<1> QED BY <1>1, <1>3, <1>4, <1>5

-----------------------------------------------------------------------------
(***************************************************************************)
(* Wildmats (wildmat.go), of any length and over any names.                *)
(***************************************************************************)
\* Parsed follows its equation: such a function exists, one element at a time.
LEMMA ParsedStates ==
  ASSUME NEW w, Len(w) \in Nat
  PROVE  Parsed(w) = [k \in 0 .. Len(w) |->
           IF k = 0 THEN <<EmptySet>> ELSE AddElement(Parsed(w)[k-1], k > 1 /\ w[k-1].neg, w[k])]
<1> DEFINE Fitting(g, N) ==
             g = [k \in 0 .. N |-> IF k = 0 THEN <<EmptySet>> ELSE AddElement(g[k-1], k > 1 /\ w[k-1].neg, w[k])]
           S == {N \in Nat : \E g : Fitting(g, N)}
<1>1. 0 \in S
  <2> DEFINE g == [k \in 0 .. 0 |-> <<EmptySet>>]
  <2>1. Fitting(g, 0)
    OBVIOUS
  <2> QED BY <2>1
<1>2. ASSUME NEW N \in 0 .. Len(w), N < Len(w), N \in S
      PROVE  N+1 \in S
  <2>1. PICK g : Fitting(g, N)
    BY <1>2
  <2> DEFINE new == AddElement(g[N], N+1 > 1 /\ w[(N+1)-1].neg, w[N+1])
             f == [k \in 0 .. N+1 |-> IF k = N+1 THEN new ELSE g[k]]
  <2>2. ASSUME NEW k \in 0 .. N+1
        PROVE  f[k] = IF k = 0 THEN <<EmptySet>> ELSE AddElement(f[k-1], k > 1 /\ w[k-1].neg, w[k])
    <3>1. CASE k = N+1
      <4>1. f[k-1] = g[N] /\ k # 0 /\ f[k] = new
        BY <3>1
      <4> QED BY <3>1, <4>1
    <3>2. CASE k \in 0 .. N
      <4>1. f[k] = g[k] /\ (k > 0 => f[k-1] = g[k-1])
        BY <3>2
      <4>2. g[k] = IF k = 0 THEN <<EmptySet>> ELSE AddElement(g[k-1], k > 1 /\ w[k-1].neg, w[k])
        BY <2>1, <3>2
      <4> QED BY <3>2, <4>1, <4>2
    <3> QED BY <3>1, <3>2
  <2>3. f = [k \in 0 .. N+1 |-> f[k]]
    OBVIOUS
  <2> HIDE DEF f
  <2>4. Fitting(f, N+1)
    BY <2>2, <2>3
  <2>5. \E longer : Fitting(longer, N+1)
    <3> HIDE DEF Fitting
    <3> QED BY <2>4
  <2>6. N+1 \in Nat
    OBVIOUS
  <2> HIDE DEF Fitting
  <2> QED BY <2>5, <2>6
<1>3. Len(w) \in S
  <2> HIDE DEF S
  <2>1. \A N \in 0 .. Len(w) : N < Len(w) /\ N \in S => N+1 \in S
    BY <1>2
  <2>2. \A N \in 0 .. Len(w) : N \in S
    BY <1>1, <2>1, UpTo
  <2> QED BY <2>2
<1>4. \E g : Fitting(g, Len(w))
  BY <1>3
<1>5. Parsed(w) = CHOOSE g : Fitting(g, Len(w))
  BY DEF Parsed
<1>6. Fitting(Parsed(w), Len(w))
  <2> HIDE DEF Fitting
  <2> QED BY <1>4, <1>5
<1> QED BY <1>6

\* It begins with an empty rule set and goes on element by element.
LEMMA ParsedStep ==
  ASSUME NEW w, Len(w) \in Nat
  PROVE  /\ Parsed(w)[0] = <<EmptySet>>
         /\ \A k \in 1 .. Len(w) : Parsed(w)[k] = AddElement(Parsed(w)[k-1], k > 1 /\ w[k-1].neg, w[k])
<1>1. \A k \in 0 .. Len(w) :
        Parsed(w)[k] = IF k = 0 THEN <<EmptySet>> ELSE AddElement(Parsed(w)[k-1], k > 1 /\ w[k-1].neg, w[k])
  BY ParsedStates
<1> QED BY <1>1

\* What a negation, a pattern and a pattern behind a negation do to the rule sets.
LEMMA AddNegation ==
  ASSUME NEW sets \in Seq(RuleSet), Len(sets) > 0, NEW negated, NEW e \in Elements, e.neg
  PROVE  LET after == AddElement(sets, negated, e)
             L == Len(sets)
         IN  /\ after \in Seq(RuleSet) /\ Len(after) = L
             /\ \A n \in 1 .. L-1 : after[n] = sets[n]
             /\ after[L].pos = sets[L].pos /\ after[L].neg = sets[L].neg \cup e.names
<1> DEFINE L == Len(sets)
           new == [sets[L] EXCEPT !.neg = sets[L].neg \cup e.names]
<1>1. L \in Nat /\ L >= 1 /\ sets[L] \in RuleSet /\ e.names \in SUBSET Names
  BY DEF Elements
<1>2. new \in RuleSet /\ new.pos = sets[L].pos /\ new.neg = sets[L].neg \cup e.names
  BY <1>1 DEF RuleSet
<1>3. AddElement(sets, negated, e) = [sets EXCEPT ![L] = new]
  BY DEF AddElement
<1> HIDE DEF new
<1>4. [sets EXCEPT ![L] = new] \in Seq(RuleSet) /\ Len([sets EXCEPT ![L] = new]) = L
  BY <1>1, <1>2
<1>5. [sets EXCEPT ![L] = new][L] = new /\ \A n \in 1 .. L-1 : [sets EXCEPT ![L] = new][n] = sets[n]
  BY <1>1
<1> QED BY <1>2, <1>3, <1>4, <1>5

LEMMA AddToSet ==
  ASSUME NEW sets \in Seq(RuleSet), Len(sets) > 0, NEW negated, NEW e \in Elements, ~ e.neg, ~ negated
  PROVE  LET after == AddElement(sets, negated, e)
             L == Len(sets)
         IN  /\ after \in Seq(RuleSet) /\ Len(after) = L
             /\ \A n \in 1 .. L-1 : after[n] = sets[n]
             /\ after[L].pos = sets[L].pos \cup e.names /\ after[L].neg = sets[L].neg
<1> DEFINE L == Len(sets)
           new == [sets[L] EXCEPT !.pos = sets[L].pos \cup e.names]
<1>1. L \in Nat /\ L >= 1 /\ sets[L] \in RuleSet /\ e.names \in SUBSET Names
  BY DEF Elements
<1>2. new \in RuleSet /\ new.pos = sets[L].pos \cup e.names /\ new.neg = sets[L].neg
  BY <1>1 DEF RuleSet
<1>3. AddElement(sets, negated, e) = [sets EXCEPT ![L] = new]
  BY DEF AddElement
<1> HIDE DEF new
<1>4. [sets EXCEPT ![L] = new] \in Seq(RuleSet) /\ Len([sets EXCEPT ![L] = new]) = L
  BY <1>1, <1>2
<1>5. [sets EXCEPT ![L] = new][L] = new /\ \A n \in 1 .. L-1 : [sets EXCEPT ![L] = new][n] = sets[n]
  BY <1>1
<1> QED BY <1>2, <1>3, <1>4, <1>5

LEMMA BeginSet ==
  ASSUME NEW sets \in Seq(RuleSet), Len(sets) > 0, NEW negated, NEW e \in Elements, ~ e.neg, negated
  PROVE  LET after == AddElement(sets, negated, e)
             L == Len(sets)
         IN  /\ after \in Seq(RuleSet) /\ Len(after) = L+1
             /\ \A n \in 1 .. L : after[n] = sets[n]
             /\ after[L+1].pos = e.names /\ after[L+1].neg = {}
<1> DEFINE new == [EmptySet EXCEPT !.pos = e.names]
<1>1. e.names \in SUBSET Names
  BY DEF Elements
<1>2. new \in RuleSet /\ new.pos = e.names /\ new.neg = {}
  BY <1>1 DEF RuleSet, EmptySet
<1>3. AddElement(sets, negated, e) = Append(sets, new)
  BY DEF AddElement
<1> HIDE DEF new
<1>4. /\ Append(sets, new) \in Seq(RuleSet) /\ Len(Append(sets, new)) = Len(sets) + 1
      /\ Append(sets, new)[Len(sets)+1] = new /\ \A n \in 1 .. Len(sets) : Append(sets, new)[n] = sets[n]
  BY <1>2, AppendProperties
<1> QED BY <1>2, <1>3, <1>4

\* Among the first k elements, the i-th is a pattern that lets the name in; and
\* a pattern behind a negation follows it.
Lets(w, name, i, k) ==
  /\ ~ w[i].neg /\ name \in w[i].names
  /\ \A j \in i+1 .. k : w[j].neg /\ name \in w[j].names => \E m \in NextRun(w, i) : m < j
Over(w, i, k) == \E m \in NextRun(w, i) : m <= k

\* How Lets and Over go from k to k+1 elements.
LEMMA PatternLets ==
  ASSUME NEW w \in Seq(Elements), NEW name, NEW k \in Nat, k < Len(w), ~ w[k+1].neg
  PROVE  /\ \A i \in 1 .. k : Lets(w, name, i, k+1) <=> Lets(w, name, i, k)
         /\ Lets(w, name, k+1, k+1) <=> name \in w[k+1].names
         /\ ~ Over(w, k+1, k+1)
<1>1. ASSUME NEW i \in 1 .. k
      PROVE  Lets(w, name, i, k+1) <=> Lets(w, name, i, k)
  <2>1. \A j \in i+1 .. k+1 : j \in i+1 .. k \/ j = k+1
    OBVIOUS
  <2>2. \A j \in i+1 .. k : j \in i+1 .. k+1
    OBVIOUS
  <2> QED BY <2>1, <2>2 DEF Lets
<1>2. Lets(w, name, k+1, k+1) <=> name \in w[k+1].names
  BY DEF Lets
<1>3. ~ Over(w, k+1, k+1)
  BY DEF Over, NextRun
<1> QED BY <1>1, <1>2, <1>3

LEMMA NegationLets ==
  ASSUME NEW w \in Seq(Elements), NEW name, NEW k \in Nat, k < Len(w), w[k+1].neg
  PROVE  /\ \A i \in 1 .. k : /\ Over(w, i, k+1) <=> Over(w, i, k)
                              /\ Lets(w, name, i, k+1) <=>
                                   Lets(w, name, i, k) /\ (name \in w[k+1].names => Over(w, i, k))
         /\ ~ Lets(w, name, k+1, k+1)
<1>1. ASSUME NEW i \in 1 .. k
      PROVE  Over(w, i, k+1) <=> Over(w, i, k)
  <2>1. \A m \in NextRun(w, i) : m \in Nat /\ ~ w[m].neg
    BY DEF NextRun
  <2>2. \A m \in NextRun(w, i) : m <= k+1 => m <= k
    BY <2>1
  <2>3. \A m \in NextRun(w, i) : m <= k => m <= k+1
    BY <2>1
  <2> QED BY <2>2, <2>3 DEF Over
<1>2. ASSUME NEW i \in 1 .. k
      PROVE  Lets(w, name, i, k+1) <=> Lets(w, name, i, k) /\ (name \in w[k+1].names => Over(w, i, k))
  <2>1. \A j \in i+1 .. k+1 : j \in i+1 .. k \/ j = k+1
    OBVIOUS
  <2>2. \A j \in i+1 .. k : j \in i+1 .. k+1
    OBVIOUS
  <2>3. k+1 \in i+1 .. k+1
    OBVIOUS
  <2>4. (\E m \in NextRun(w, i) : m < k+1) <=> Over(w, i, k)
    <3>1. \A m \in NextRun(w, i) : m \in Nat
      BY DEF NextRun
    <3>2. \A m \in NextRun(w, i) : m < k+1 <=> m <= k
      BY <3>1
    <3> QED BY <3>2 DEF Over
  <2> QED BY <2>1, <2>2, <2>3, <2>4 DEF Lets
<1>3. ~ Lets(w, name, k+1, k+1)
  BY DEF Lets
<1> QED BY <1>1, <1>2, <1>3

\* Behind a negation, a pattern follows all earlier ones; behind a pattern it
\* follows those that this pattern follows.
LEMMA PatternOver ==
  ASSUME NEW w \in Seq(Elements), NEW k \in Nat, k < Len(w), ~ w[k+1].neg, NEW i \in 1 .. k, ~ w[i].neg
  PROVE  /\ w[k].neg => Over(w, i, k+1)
         /\ ~ w[k].neg => (Over(w, i, k+1) <=> Over(w, i, k))
<1>1. Len(w) \in Nat
  OBVIOUS
<1>2. CASE w[k].neg
  <2>1. i # k /\ k \in i+1 .. k
    BY <1>2
  <2>2. k+1 \in i+1 .. Len(w) /\ k \in i+1 .. (k+1)-1
    BY <1>1, <2>1
  <2>3. k+1 \in NextRun(w, i)
    BY <1>2, <2>2 DEF NextRun
  <2> QED BY <1>2, <2>3 DEF Over
<1>3. CASE ~ w[k].neg
  <2>1. ASSUME Over(w, i, k)
        PROVE  Over(w, i, k+1)
    <3>1. PICK m \in NextRun(w, i) : m <= k
      BY <2>1 DEF Over
    <3>2. m \in Nat
      BY DEF NextRun
    <3>3. m <= k+1
      BY <3>1, <3>2
    <3> QED BY <3>3 DEF Over
  <2>2. ASSUME Over(w, i, k+1)
        PROVE  Over(w, i, k)
    <3>1. PICK m \in NextRun(w, i) : m <= k+1
      BY <2>2 DEF Over
    <3>2. m \in i+1 .. Len(w) /\ ~ w[m].neg /\ \E n \in i+1 .. m-1 : w[n].neg
      BY DEF NextRun
    <3>3. PICK n \in i+1 .. m-1 : w[n].neg
      BY <3>2
    <3>4. CASE m <= k
      BY <3>4 DEF Over
    <3>5. CASE m = k+1
      <4>1. n \in i+1 .. k /\ n # k
        BY <1>3, <3>3, <3>5
      <4>2. k \in i+1 .. Len(w) /\ n \in i+1 .. k-1
        BY <1>1, <4>1
      <4>3. k \in NextRun(w, i)
        BY <1>3, <3>3, <4>2 DEF NextRun
      <4> QED BY <4>3 DEF Over
    <3> QED BY <3>1, <3>2, <3>4, <3>5
  <2> QED BY <1>3, <2>1, <2>2
<1> QED BY <1>2, <1>3

\* The rule sets before the last one, and the last one.
EarlierMatch(sets, name) == \E n \in 1 .. Len(sets)-1 : RuleSetMatch(sets[n], name)
LastMatch(sets, name)    == RuleSetMatch(sets[Len(sets)], name)

\* After k elements the last rule set matches the name if one of the patterns lets
\* it in behind which no other stands after a negation, and one of the earlier
\* sets matches it if one of the other patterns lets it in.
ParsedAt(w, name, k) ==
  LET sets == Parsed(w)[k] IN
    /\ sets \in Seq(RuleSet) /\ Len(sets) > 0
    /\ k = 0 \/ ~ w[k].neg => sets[Len(sets)].neg = {}
    /\ EarlierMatch(sets, name) <=> \E i \in 1 .. k : Lets(w, name, i, k) /\ Over(w, i, k)
    /\ LastMatch(sets, name) <=> \E i \in 1 .. k : Lets(w, name, i, k) /\ ~ Over(w, i, k)

\* So it is before the first element, with each one more, and at the end.
LEMMA ParsedBegins ==
  ASSUME NEW w \in Seq(Elements), NEW name
  PROVE  ParsedAt(w, name, 0)
<1> DEFINE sets == Parsed(w)[0]
<1>1. sets = <<EmptySet>>
  BY ParsedStep
<1> HIDE DEF sets
<1>2. EmptySet \in RuleSet /\ EmptySet.pos = {} /\ EmptySet.neg = {}
  BY DEF EmptySet, RuleSet
<1>3. sets \in Seq(RuleSet) /\ Len(sets) = 1 /\ sets[1] = EmptySet
  BY <1>1, <1>2
<1>4. ~ EarlierMatch(sets, name) /\ ~ LastMatch(sets, name)
  BY <1>2, <1>3 DEF EarlierMatch, LastMatch, RuleSetMatch
<1> QED BY <1>2, <1>3, <1>4 DEF ParsedAt, sets

LEMMA ParsedGoesOn ==
  ASSUME NEW w \in Seq(Elements), NEW name, NEW k \in Nat, k < Len(w), ParsedAt(w, name, k)
  PROVE  ParsedAt(w, name, k+1)
<1> DEFINE sets  == Parsed(w)[k]
           after == Parsed(w)[k+1]
           L     == Len(sets)
           e     == w[k+1]
           negated == k+1 > 1 /\ w[k].neg
<1>1. Len(w) \in Nat /\ k+1 \in 1 .. Len(w) /\ e \in Elements /\ (k+1)-1 = k /\ (k+1 > 1 <=> k > 0)
  OBVIOUS
<1>2. after = AddElement(sets, negated, e)
  <2>1. after = AddElement(Parsed(w)[(k+1)-1], k+1 > 1 /\ w[(k+1)-1].neg, w[k+1])
    BY <1>1, ParsedStep
  <2> QED BY <1>1, <2>1
<1>3. /\ sets \in Seq(RuleSet) /\ L > 0
      /\ k = 0 \/ ~ w[k].neg => sets[L].neg = {}
      /\ EarlierMatch(sets, name) <=> \E i \in 1 .. k : Lets(w, name, i, k) /\ Over(w, i, k)
      /\ LastMatch(sets, name) <=> \E i \in 1 .. k : Lets(w, name, i, k) /\ ~ Over(w, i, k)
  BY DEF ParsedAt
<1>4. \A i \in 1 .. k+1 : i \in 1 .. k \/ i = k+1
  OBVIOUS
<1>5. \A i \in 1 .. k : i \in 1 .. k+1
  OBVIOUS
<1>6. k+1 \in 1 .. k+1 /\ L \in Nat /\ k+1 # 0
  BY <1>3
<1>11. negated \in BOOLEAN /\ (negated => w[k].neg) /\ (~ negated => k = 0 \/ ~ w[k].neg)
  BY <1>1
<1> HIDE DEF sets, after, e, negated
<1>7. \A i, n \in Nat : Lets(w, name, i, n) => ~ w[i].neg
  BY DEF Lets
<1>8. \A i \in 1 .. k : i \in Nat
  OBVIOUS
<1>9. CASE e.neg
  <2>1. /\ after \in Seq(RuleSet) /\ Len(after) = L
        /\ \A n \in 1 .. L-1 : after[n] = sets[n]
        /\ after[L].pos = sets[L].pos /\ after[L].neg = sets[L].neg \cup e.names
    BY <1>1, <1>2, <1>3, <1>9, AddNegation
  <2>2. /\ \A i \in 1 .. k : /\ Over(w, i, k+1) <=> Over(w, i, k)
                             /\ Lets(w, name, i, k+1) <=>
                                  Lets(w, name, i, k) /\ (name \in e.names => Over(w, i, k))
        /\ ~ Lets(w, name, k+1, k+1)
    BY <1>9, NegationLets DEF e
  <2>3. EarlierMatch(after, name) <=> EarlierMatch(sets, name)
    BY <2>1 DEF EarlierMatch
  <2>4. LastMatch(after, name) <=> LastMatch(sets, name) /\ name \notin e.names
    BY <2>1 DEF LastMatch, RuleSetMatch
  <2>5. (\E i \in 1 .. k+1 : Lets(w, name, i, k+1) /\ Over(w, i, k+1))
          <=> \E i \in 1 .. k : Lets(w, name, i, k) /\ Over(w, i, k)
    BY <1>4, <1>5, <2>2
  <2>6. (\E i \in 1 .. k+1 : Lets(w, name, i, k+1) /\ ~ Over(w, i, k+1))
          <=> (\E i \in 1 .. k : Lets(w, name, i, k) /\ ~ Over(w, i, k)) /\ name \notin e.names
    BY <1>4, <1>5, <2>2
  <2>7. ~ (k+1 = 0 \/ ~ w[k+1].neg)
    BY <1>6, <1>9 DEF e
  <2> QED BY <1>3, <2>1, <2>3, <2>4, <2>5, <2>6, <2>7 DEF ParsedAt, after
<1>10. CASE ~ e.neg
  <2>1. /\ \A i \in 1 .. k : Lets(w, name, i, k+1) <=> Lets(w, name, i, k)
        /\ Lets(w, name, k+1, k+1) <=> name \in e.names
        /\ ~ Over(w, k+1, k+1)
    BY <1>10, PatternLets DEF e
  <2>2. CASE negated
    <3>1. /\ after \in Seq(RuleSet) /\ Len(after) = L+1
          /\ \A n \in 1 .. L : after[n] = sets[n]
          /\ after[L+1].pos = e.names /\ after[L+1].neg = {}
      <4>1. sets \in Seq(RuleSet) /\ Len(sets) > 0 /\ e \in Elements /\ ~ e.neg
        BY <1>1, <1>3, <1>10
      <4>2. after = AddElement(sets, TRUE, e)
        BY <1>2, <1>11, <2>2
      <4>3. LET now == AddElement(sets, TRUE, e)
            IN  /\ now \in Seq(RuleSet) /\ Len(now) = Len(sets)+1
                /\ \A n \in 1 .. Len(sets) : now[n] = sets[n]
                /\ now[Len(sets)+1].pos = e.names /\ now[Len(sets)+1].neg = {}
        BY <4>1, BeginSet
      <4> QED BY <4>2, <4>3
    <3>2. \A i \in 1 .. k : Lets(w, name, i, k) => Over(w, i, k+1)
      <4> SUFFICES ASSUME NEW i \in 1 .. k, Lets(w, name, i, k)
                   PROVE  Over(w, i, k+1)
        OBVIOUS
      <4>1. ~ w[i].neg
        BY <1>7, <1>8
      <4> QED BY <1>10, <1>11, <2>2, <4>1, PatternOver DEF e
    <3>3. EarlierMatch(after, name) <=> EarlierMatch(sets, name) \/ LastMatch(sets, name)
      <4>1. \A n \in 1 .. L : n \in 1 .. L-1 \/ n = L
        BY <1>6
      <4>2. \A n \in 1 .. L-1 : n \in 1 .. L
        BY <1>6
      <4>3. L \in 1 .. L /\ (L+1)-1 = L
        BY <1>3, <1>6
      <4> QED BY <3>1, <4>1, <4>2, <4>3 DEF EarlierMatch, LastMatch
    <3>4. LastMatch(after, name) <=> name \in e.names
      BY <3>1 DEF LastMatch, RuleSetMatch
    <3>5. (\E i \in 1 .. k+1 : Lets(w, name, i, k+1) /\ Over(w, i, k+1))
            <=> \E i \in 1 .. k : Lets(w, name, i, k)
      BY <1>4, <1>5, <2>1, <3>2
    <3>6. (\E i \in 1 .. k+1 : Lets(w, name, i, k+1) /\ ~ Over(w, i, k+1)) <=> name \in e.names
      BY <1>4, <1>6, <2>1, <3>2
    <3>7. Len(after) > 0 /\ after[Len(after)].neg = {}
      BY <1>6, <3>1
    <3>8. EarlierMatch(after, name) <=> \E i \in 1 .. k : Lets(w, name, i, k)
      BY <1>3, <3>3
    <3> QED BY <3>1, <3>4, <3>5, <3>6, <3>7, <3>8 DEF ParsedAt, after
  <2>3. CASE ~ negated
    <3>1. /\ after \in Seq(RuleSet) /\ Len(after) = L
          /\ \A n \in 1 .. L-1 : after[n] = sets[n]
          /\ after[L].pos = sets[L].pos \cup e.names /\ after[L].neg = sets[L].neg
      BY <1>1, <1>2, <1>3, <1>10, <2>3, AddToSet
    <3>2. \A i \in 1 .. k : Lets(w, name, i, k) => (Over(w, i, k+1) <=> Over(w, i, k))
      <4> SUFFICES ASSUME NEW i \in 1 .. k, Lets(w, name, i, k)
                   PROVE  Over(w, i, k+1) <=> Over(w, i, k)
        OBVIOUS
      <4>1. ~ w[i].neg /\ ~ w[k].neg
        BY <1>7, <1>8, <1>11, <2>3
      <4> QED BY <1>10, <4>1, PatternOver DEF e
    <3>3. EarlierMatch(after, name) <=> EarlierMatch(sets, name)
      BY <3>1 DEF EarlierMatch
    <3>4. sets[L].neg = {}
      BY <1>3, <1>11, <2>3
    <3>5. LastMatch(after, name) <=> LastMatch(sets, name) \/ name \in e.names
      BY <3>1, <3>4 DEF LastMatch, RuleSetMatch
    <3>6. (\E i \in 1 .. k+1 : Lets(w, name, i, k+1) /\ Over(w, i, k+1))
            <=> \E i \in 1 .. k : Lets(w, name, i, k) /\ Over(w, i, k)
      BY <1>4, <1>5, <2>1, <3>2
    <3>7. (\E i \in 1 .. k+1 : Lets(w, name, i, k+1) /\ ~ Over(w, i, k+1))
            <=> (\E i \in 1 .. k : Lets(w, name, i, k) /\ ~ Over(w, i, k)) \/ name \in e.names
      BY <1>4, <1>5, <1>6, <2>1, <3>2
    <3> QED BY <1>3, <3>1, <3>3, <3>4, <3>5, <3>6, <3>7 DEF ParsedAt, after
  <2> QED BY <2>2, <2>3
<1> QED BY <1>9, <1>10

LEMMA ParsedIsSets ==
  ASSUME NEW w \in Seq(Elements), NEW name
  PROVE  ParsedAt(w, name, Len(w))
<1> DEFINE S == {k \in Nat : ParsedAt(w, name, k)}
<1>1. Len(w) \in Nat
  OBVIOUS
<1>2. 0 \in S
  BY ParsedBegins
<1>3. \A k \in 0 .. Len(w) : k < Len(w) /\ k \in S => k+1 \in S
  <2> SUFFICES ASSUME NEW k \in 0 .. Len(w), k < Len(w), k \in S
               PROVE  k+1 \in S
    OBVIOUS
  <2>1. k \in Nat /\ k+1 \in Nat
    OBVIOUS
  <2>2. ParsedAt(w, name, k+1)
    BY <2>1, ParsedGoesOn
  <2> QED BY <2>1, <2>2
<1>4. \A k \in 0 .. Len(w) : k \in S
  <2> HIDE DEF S
  <2> QED BY <1>1, <1>2, <1>3, UpTo
<1> QED BY <1>1, <1>4

\* WildMat.Match finds a rule set for exactly the names that the wildmat lets in:
\* those that a pattern matches and no negation between it and the next pattern
\* behind a negation (ParseWildMatBinary, wildmat.go:145-165; Match, 42-47).
THEOREM WildMatMatches ==
  ASSUME NEW w \in Seq(Elements), NEW name
  PROVE  /\ ParseWildMat(w) \in Seq(RuleSet) /\ ParseWildMat(w) # <<>>
         /\ Match(ParseWildMat(w), name) <=> LetIn(w, name)
<1> DEFINE sets == Parsed(w)[Len(w)]
           L == Len(sets)
<1>1. ParseWildMat(w) = sets
  BY DEF ParseWildMat
<1>2. ParsedAt(w, name, Len(w))
  BY ParsedIsSets
<1>3. /\ sets \in Seq(RuleSet) /\ L > 0
      /\ EarlierMatch(sets, name) <=> \E i \in 1 .. Len(w) : Lets(w, name, i, Len(w)) /\ Over(w, i, Len(w))
      /\ LastMatch(sets, name) <=> \E i \in 1 .. Len(w) : Lets(w, name, i, Len(w)) /\ ~ Over(w, i, Len(w))
  BY <1>2 DEF ParsedAt
<1> HIDE DEF sets
<1>4. Match(sets, name) <=> EarlierMatch(sets, name) \/ LastMatch(sets, name)
  <2>1. DOMAIN sets = 1 .. L /\ L \in Nat
    BY <1>3
  <2> HIDE DEF L
  <2>2. \A n \in 1 .. L : n \in 1 .. L-1 \/ n = L
    BY <2>1
  <2>3. \A n \in 1 .. L-1 : n \in 1 .. L
    BY <2>1
  <2>4. L \in 1 .. L
    BY <1>3, <2>1
  <2> QED BY <2>1, <2>2, <2>3, <2>4 DEF Match, EarlierMatch, LastMatch, L
<1>5. LetIn(w, name) <=> \E i \in 1 .. Len(w) : Lets(w, name, i, Len(w))
  BY DEF LetIn, Lets
<1>6. sets # <<>>
  BY <1>3
<1> QED BY <1>1, <1>3, <1>4, <1>5, <1>6

\* The names that RFC 3977 lets in are let in.
LEMMA RightmostIn ==
  ASSUME NEW w \in Seq(Elements), NEW name, Rightmost(w, name)
  PROVE  LetIn(w, name)
BY DEF Rightmost, LetIn

\* And just those, if no pattern stands behind a negation.
LEMMA OnlyRightmostIn ==
  ASSUME NEW w \in Seq(Elements), NEW name, LetIn(w, name), \A m \in DOMAIN w : NextRun(w, m) = {}
  PROVE  Rightmost(w, name)
<1>1. Len(w) \in Nat /\ DOMAIN w = 1 .. Len(w)
  OBVIOUS
<1> DEFINE N == Len(w)
           Good(k) == /\ k \in 1 .. N /\ ~ w[k].neg /\ name \in w[k].names
                      /\ \A j \in k+1 .. N : ~ (w[j].neg /\ name \in w[j].names)
           T == {n \in Nat : Good(N - n)}
<1>2. PICK k0 \in DOMAIN w :
        /\ ~ w[k0].neg /\ name \in w[k0].names
        /\ \A j \in k0+1 .. Len(w) : w[j].neg /\ name \in w[j].names => \E m \in NextRun(w, k0) : m < j
  BY DEF LetIn
<1>3. Good(k0)
  BY <1>1, <1>2
<1>4. N - k0 \in T
  <2>1. N - k0 \in Nat /\ N - (N - k0) = k0
    BY <1>1
  <2> HIDE DEF Good
  <2> QED BY <1>3, <2>1
<1>5. T \in SUBSET Nat /\ T # {}
  BY <1>4
<1> HIDE DEF T
<1>6. PICK n \in T : \A m \in T : n <= m
  BY <1>5, Least
<1> DEFINE k == N - n
<1>7. n \in Nat /\ Good(k)
  BY <1>6 DEF T
<1>8. ASSUME NEW j \in k+1 .. N, name \in w[j].names
      PROVE  FALSE
  <2>1. ~ w[j].neg
    BY <1>7, <1>8
  <2>2. j \in 1 .. N /\ N - j \in Nat /\ N - j < n /\ N - (N - j) = j
    BY <1>1, <1>7
  <2>3. Good(j)
    <3>1. \A i \in j+1 .. N : i \in k+1 .. N
      BY <1>1, <1>7, <2>2
    <3> QED BY <1>7, <1>8, <2>1, <2>2, <3>1
  <2>4. N - j \in T
    <3> HIDE DEF Good
    <3> QED BY <2>2, <2>3 DEF T
  <2>5. n <= N - j
    BY <1>6, <2>4
  <2> QED BY <1>7, <2>2, <2>5
<1> QED BY <1>1, <1>7, <1>8 DEF Rightmost

-----------------------------------------------------------------------------
(***************************************************************************)
(* Listings, made inductive.  An nntpHandler that has selected a group     *)
(* knows the message-id of its current article; what is asked fits the     *)
(* stage that the command has reached; a pooled object that no command     *)
(* uses is clean; and the lines follow the entries one by one.             *)
(***************************************************************************)
Sequence(s) == \E S : s \in Seq(S)

\* Whether a group is selected, and then no article, or one with its message-id.
CurrentNamed ==
  cur.group => \/ cur.num = -1 /\ cur.id = NoId
               \/ cur.num \in DOMAIN IdOf /\ cur.id = IdOf[cur.num]

ListShape ==
  /\ stage \in {"command", "asked", "entries", "numbers", "groups"}
  /\ cur \in [group : BOOLEAN, num : -1 .. Len(IdOf), id : Ids \cup {NoId}]
  /\ ar \in [hasId : BOOLEAN, hasNum : BOOLEAN, group : BOOLEAN, id : Ids \cup {NoId}, num : Int64, last : Int64]
  /\ span \in Int64 \X Int64
  /\ ov \in 0 .. 7
  /\ ila.mode \in Modes /\ ila.wm \in Seq(RuleSet)
  /\ entries \in Seq(Overviews \cup Names) /\ Sequence(block)
  /\ Len(entries) <= MaxEntries /\ Len(block) <= Len(entries)

\* What is asked, by the stage that the command has reached.
CommandOfStage ==
  /\ stage = "command" => asked = NoCommand
  /\ stage \in {"asked", "entries"} =>
       /\ asked.verb = "over" \/ (asked.verb = "hdr" /\ asked.what \in Headers)
       /\ asked.form \in {"none", "range", "id"}
       /\ asked.form = "range" => asked.arg \in Ranges
       /\ asked.form = "id" => asked.arg \in Ids
  /\ stage = "numbers" =>
       /\ asked.verb = "listgroup" /\ asked.form \in {"none", "range"}
       /\ asked.form = "range" => asked.arg \in Ranges
  /\ stage = "groups" =>
       /\ asked.verb = "list" /\ asked.form \in {"none", "wildmat"}
       /\ asked.form = "wildmat" => asked.arg \in Wildmats

\* The pooled objects are clean, and the history is empty, where they are not used.
PoolClean ==
  /\ stage \notin {"asked", "entries"} => ar.id = NoId /\ ~ ar.group
  /\ stage # "groups" => ila.wm = NoWild
  /\ stage \notin {"entries", "groups"} => entries = <<>> /\ block = <<>>

\* The lines of OVER and HDR are those of the entries, in their order.
LinesOfEntries ==
  stage = "entries" =>
    /\ entries \in Seq(Overviews)
    /\ ov = IF asked.verb = "over" THEN 0 ELSE handleXHdr_hdrs[asked.what]
    /\ \A n \in 1 .. Len(block) : block[n] = LineOf(entries[n])
    /\ Len(block) = Len(entries) \/ Ended

\* The lines of LIST are those of the groups that the pooled ListActive lets in.
WildOf(w) == IF Compiles(w) THEN ParseWildMat(w) ELSE NoWild
LinesOfGroups ==
  stage = "groups" =>
    /\ entries \in Seq(Names)
    /\ ila.mode = asked.what
    /\ ila.wm = IF asked.form = "wildmat" THEN WildOf(asked.arg) ELSE NoWild
    /\ \A n \in 1 .. Len(block) : \E k \in 1 .. Len(entries) : block[n] = <<entries[k], asked.what>>
    /\ \A k \in 1 .. Len(entries) : Listed(entries[k]) <=> match(entries[k])

ListInv ==
  ListShape /\ CurrentNamed /\ CommandOfStage /\ PoolClean /\ AskedOfBackend /\ LinesOfEntries /\ LinesOfGroups

\* A sequence of anything, and one more.
LEMMA AppendAny ==
  ASSUME NEW s, Sequence(s), NEW x
  PROVE  /\ Len(s) \in Nat /\ DOMAIN s = 1 .. Len(s)
         /\ Sequence(Append(s, x)) /\ Len(Append(s, x)) = Len(s) + 1
         /\ Append(s, x)[Len(s) + 1] = x /\ \A n \in 1 .. Len(s) : Append(s, x)[n] = s[n]
<1>1. PICK S : s \in Seq(S)
  BY DEF Sequence
<1>2. S \subseteq S \cup {x}
  OBVIOUS
<1>3. s \in Seq(S \cup {x}) /\ x \in S \cup {x}
  BY <1>1, <1>2, SeqOfMore
<1>4. /\ Append(s, x) \in Seq(S \cup {x}) /\ Len(Append(s, x)) = Len(s) + 1
      /\ Append(s, x)[Len(s) + 1] = x /\ \A n \in 1 .. Len(s) : Append(s, x)[n] = s[n]
  BY <1>3, AppendProperties
<1>5. Len(s) \in Nat /\ DOMAIN s = 1 .. Len(s)
  BY <1>1
<1> QED BY <1>4, <1>5 DEF Sequence

\* And nothing.
LEMMA EmptySequence == Sequence(<<>>) /\ Len(<<>>) = 0
<1>1. <<>> \in Seq({})
  OBVIOUS
<1> QED BY <1>1 DEF Sequence

\* Numbers of Width bits.
LEMMA SmallNumbers ==
  /\ 0 \in Int64 /\ MaxInt \in Int64
  /\ \A n \in -1 .. Len(IdOf) : n \in Int64
<1>1. Top \in Nat /\ Top >= 1 /\ MaxInt = Top - 1
  BY NumbersAssumption DEF MaxInt
<1>2. Len(IdOf) <= MaxInt /\ Len(IdOf) \in Nat
  BY ListingsAssumption
<1> QED BY <1>1, <1>2 DEF Int64

\* What is asked for, of a range that the client writes.
LEMMA RangeAsked ==
  ASSUME NEW range \in Ranges
  PROVE  LET ran == ParseRange(TextOf(range)) IN
         /\ ran \in Int64 \X Int64 /\ LastOf(ran) \in Int64 /\ ran[1] <= LastOf(ran)
         /\ range.from <= MaxInt /\ range.to < MaxInt =>
              /\ ran[1] = range.from
              /\ range.kind = "both" => ran[2] = range.to
              /\ range.kind = "one"  => ran[2] = MaxInt
              /\ range.kind = "open" => ran[2] = 0
              /\ LastOf(ran) = IF range.kind = "both" /\ range.to > range.from THEN range.to ELSE range.from
<1> DEFINE ran == ParseRange(TextOf(range))
<1>1. range \in RangesOf
  BY ListingsAssumption DEF RangesOf
<1>2. /\ TextOf(range) \in Seq(Nat)
      /\ range.from <= MaxInt =>
           /\ range.kind = "one"  => ran = <<range.from, MaxInt>>
           /\ range.kind = "open" => ran = <<range.from, 0>>
           /\ range.kind = "both" /\ range.to <= MaxInt => ran = <<range.from, range.to>>
  BY <1>1, RangesRead
<1>3. ran \in Int64 \X Int64
  BY <1>2, RangeType
<1> HIDE DEF ran
<1>4. range.from \in Nat /\ range.to \in Nat /\ range.kind \in {"one", "open", "both"} /\ MaxInt \in Int
  BY <1>1, NumbersAssumption DEF RangesOf, MaxInt
<1>5. ran[1] \in Int64 /\ ran[2] \in Int64
  BY <1>3
<1>6. ran[1] \in Int /\ ran[2] \in Int
  BY <1>5, NumbersAssumption DEF Int64, MaxInt
<1>7. LastOf(ran) \in Int64 /\ ran[1] <= LastOf(ran)
  BY <1>5, <1>6 DEF LastOf
<1>8. ASSUME range.from <= MaxInt, range.to < MaxInt
      PROVE  /\ ran[1] = range.from
             /\ range.kind = "both" => ran[2] = range.to
             /\ range.kind = "one"  => ran[2] = MaxInt
             /\ range.kind = "open" => ran[2] = 0
             /\ LastOf(ran) = IF range.kind = "both" /\ range.to > range.from THEN range.to ELSE range.from
  <2>1. CASE range.kind = "one"
    BY <1>2, <1>4, <1>8, <2>1 DEF LastOf
  <2>2. CASE range.kind = "open"
    BY <1>2, <1>4, <1>8, <2>2 DEF LastOf
  <2>3. CASE range.kind = "both"
    BY <1>2, <1>4, <1>8, <2>3 DEF LastOf
  <2> QED BY <1>4, <2>1, <2>2, <2>3
<1> QED BY <1>3, <1>7, <1>8 DEF ran

\* LISTGROUP without a range.
LEMMA AllAsked == ParseRange(<<>>) = <<0, MaxInt>>
<1>1. \A k \in DOMAIN <<>> : <<>>[k] # dash
  OBVIOUS
<1> QED BY <1>1, NoDash, ReadNothing

\* What the pooled ListActive gets of a wildmat.
LEMMA WildType ==
  ASSUME NEW w \in Wildmats
  PROVE  w \in Seq(Elements) /\ WildOf(w) \in Seq(RuleSet) /\ (WildOf(w) = NoWild <=> ~ Compiles(w))
<1>1. w \in Seq(Elements)
  BY ListingsAssumption
<1>2. ParseWildMat(w) \in Seq(RuleSet) /\ ParseWildMat(w) # <<>>
  BY <1>1, WildMatMatches
<1> QED BY <1>1, <1>2 DEF WildOf, NoWild

\* OVER or HDR.
HeadersAsked ==
  \E verb \in {"over", "hdr"} : \E what : (verb = "hdr" => what \in Headers) /\ handleHeaders(verb, what)

\* The steps, one by one.
LEMMA ListSteps ==
  [ListNext]_listVars =>
    \/ Move \/ HeadersAsked \/ NotFound \/ Found \/ HeadersDone
    \/ \E e \in Overviews : WriteEntry(e)
    \/ handleListgroup \/ NumbersDone
    \/ \E mode \in {"LAM_Active", "LAM_Newsgroups"} : handleListGenericGroups(mode)
    \/ GroupsDone
    \/ \E name \in Names : WriteGroup(name)
    \/ UNCHANGED listVars
<1>1. handleXOver => handleHeaders("over", NoArg)
  BY DEF handleXOver
<1>2. handleXHdr => \E field \in Headers : handleHeaders("hdr", field)
  BY DEF handleXHdr
<1>3. handleXOver \/ handleXHdr => HeadersAsked
  BY <1>1, <1>2 DEF HeadersAsked
<1> QED BY <1>3 DEF ListNext

\* What OVER and HDR put into the ArticleRange.
LEMMA ArAsked ==
  ASSUME ListShape, CurrentNamed, PoolClean, NEW verb \in {"over", "hdr"}, NEW what, handleHeaders(verb, what)
  PROVE  /\ ar' \in [hasId : BOOLEAN, hasNum : BOOLEAN, group : BOOLEAN, id : Ids \cup {NoId},
                     num : Int64, last : Int64]
         /\ AskedOfBackend'
         /\ asked'.verb = verb /\ asked'.what = what /\ asked'.form \in {"none", "range", "id"}
         /\ asked'.form = "range" => asked'.arg \in Ranges
         /\ asked'.form = "id" => asked'.arg \in Ids
<1>1. /\ stage = "command" /\ stage' = "asked" /\ cur' = cur /\ span' = span
      /\ \/ AskCurrent /\ asked' = Ask(verb, "none", NoArg, what)
         \/ \E range \in Ranges : AskRange(range) /\ asked' = Ask(verb, "range", range, what)
         \/ \E id \in Ids : AskId(id) /\ asked' = Ask(verb, "id", id, what)
  BY DEF handleHeaders
<1>2. /\ cur \in [group : BOOLEAN, num : -1 .. Len(IdOf), id : Ids \cup {NoId}]
      /\ ar \in [hasId : BOOLEAN, hasNum : BOOLEAN, group : BOOLEAN, id : Ids \cup {NoId},
                 num : Int64, last : Int64]
      /\ ~ ar.group
  BY <1>1 DEF ListShape, PoolClean
<1>3. cur.num \in Int64 /\ cur.num \in Int /\ 0 \in Int64
  BY <1>2, SmallNumbers
<1>4. \A n \in Int64 : n \in Int
  BY NumbersAssumption DEF Int64, MaxInt
<1>5. NoId \notin Ids /\ DOMAIN IdOf = 1 .. Len(IdOf) /\ Len(IdOf) \in Nat
  BY ListingsAssumption
<1>6. CASE AskCurrent /\ asked' = Ask(verb, "none", NoArg, what)
  <2>1. /\ cur.group /\ cur.id # NoId
        /\ ar' = [hasId |-> TRUE, hasNum |-> TRUE, group |-> TRUE,
                  id |-> cur.id, num |-> cur.num, last |-> cur.num]
    BY <1>6 DEF AskCurrent
  <2>2. cur.num \in DOMAIN IdOf /\ cur.id = IdOf[cur.num]
    BY <2>1 DEF CurrentNamed
  <2>3. /\ ar' \in [hasId : BOOLEAN, hasNum : BOOLEAN, group : BOOLEAN, id : Ids \cup {NoId},
                     num : Int64, last : Int64]
        /\ ar'.hasNum /\ ar'.hasId /\ ar'.group /\ ar'.num = cur.num /\ ar'.last = cur.num /\ ar'.id = cur.id
    BY <1>2, <1>3, <2>1
  <2>4. asked'.verb = verb /\ asked'.what = what /\ asked'.form = "none"
    BY <1>6 DEF Ask
  <2>5. SpanAsked'
    BY <2>4 DEF SpanAsked
  <2> QED BY <1>1, <1>3, <2>2, <2>3, <2>4, <2>5 DEF AskedOfBackend
<1>7. ASSUME NEW range \in Ranges, AskRange(range), asked' = Ask(verb, "range", range, what)
      PROVE  /\ ar' \in [hasId : BOOLEAN, hasNum : BOOLEAN, group : BOOLEAN, id : Ids \cup {NoId},
                         num : Int64, last : Int64]
             /\ AskedOfBackend'
             /\ asked'.verb = verb /\ asked'.what = what /\ asked'.form = "range" /\ asked'.arg \in Ranges
  <2> DEFINE ran == ParseRange(TextOf(range))
             end == LastOf(ran)
  <2>1. /\ cur.group
        /\ ar' = [hasId |-> ran[1] = cur.num /\ ran[1] = end, hasNum |-> TRUE,
                  group |-> TRUE, id |-> cur.id, num |-> ran[1], last |-> end]
    BY <1>7 DEF AskRange
  <2>2. /\ ran \in Int64 \X Int64 /\ end \in Int64 /\ ran[1] <= end
        /\ range.from <= MaxInt /\ range.to < MaxInt =>
             /\ ran[1] = range.from
             /\ end = IF range.kind = "both" /\ range.to > range.from THEN range.to ELSE range.from
    BY RangeAsked
  <2> HIDE DEF ran, end
  <2>3. ran[1] \in Int64
    BY <2>2
  <2>4. /\ ar' \in [hasId : BOOLEAN, hasNum : BOOLEAN, group : BOOLEAN, id : Ids \cup {NoId},
                     num : Int64, last : Int64]
        /\ ar'.hasNum /\ ar'.group /\ ar'.num = ran[1] /\ ar'.last = end /\ ar'.id = cur.id
        /\ ar'.hasId => ran[1] = cur.num /\ ran[1] = end
    BY <1>2, <2>1, <2>2, <2>3
  <2>5. asked'.verb = verb /\ asked'.what = what /\ asked'.form = "range" /\ asked'.arg = range
    BY <1>7 DEF Ask
  <2>6. ASSUME ar'.hasId, ar'.num >= 0
        PROVE  ar'.num = ar'.last /\ ar'.id = IdOf[ar'.num]
    <3>1. cur.num >= 0 /\ ~ (cur.num = -1)
      BY <1>3, <2>4, <2>6
    <3>2. cur.id = IdOf[cur.num]
      BY <2>1, <3>1 DEF CurrentNamed
    <3> QED BY <2>4, <2>6, <3>2
  <2>7. Fits(asked'.arg) =>
          /\ ar'.num = asked'.arg.from
          /\ ar'.last = IF asked'.arg.kind = "both" /\ asked'.arg.to > ar'.num THEN asked'.arg.to ELSE ar'.num
    BY <2>2, <2>4, <2>5 DEF Fits
  <2>8. SpanAsked'
    BY <2>5 DEF SpanAsked
  <2> QED BY <1>1, <2>2, <2>4, <2>5, <2>6, <2>7, <2>8 DEF AskedOfBackend
<1>8. ASSUME NEW id \in Ids, AskId(id), asked' = Ask(verb, "id", id, what)
      PROVE  /\ ar' \in [hasId : BOOLEAN, hasNum : BOOLEAN, group : BOOLEAN, id : Ids \cup {NoId},
                         num : Int64, last : Int64]
             /\ AskedOfBackend'
             /\ asked'.verb = verb /\ asked'.what = what /\ asked'.form = "id" /\ asked'.arg \in Ids
  <2>1. ar' = [ar EXCEPT !.hasNum = FALSE, !.hasId = TRUE, !.num = 0, !.id = id]
    BY <1>8 DEF AskId
  <2>2. /\ ar' \in [hasId : BOOLEAN, hasNum : BOOLEAN, group : BOOLEAN, id : Ids \cup {NoId},
                     num : Int64, last : Int64]
        /\ ~ ar'.hasNum /\ ar'.hasId /\ ar'.id = id /\ ~ ar'.group
    BY <1>2, <1>3, <2>1
  <2>3. asked'.verb = verb /\ asked'.what = what /\ asked'.form = "id" /\ asked'.arg = id
    BY <1>8 DEF Ask
  <2>4. SpanAsked'
    BY <2>3 DEF SpanAsked
  <2> QED BY <1>1, <2>2, <2>3, <2>4 DEF AskedOfBackend
<1> QED BY <1>1, <1>6, <1>7, <1>8 DEF Ask

\* The first state, and what each step keeps.
LEMMA ListBegins == ListInit => ListInv
<1> SUFFICES ASSUME ListInit
             PROVE  ListInv
  OBVIOUS
<1> USE DEF ListInit
<1>1. PICK b \in BOOLEAN, n \in {0, MaxInt} :
        ar = [hasId |-> b, hasNum |-> b, group |-> FALSE, id |-> NoId, num |-> n, last |-> n]
  OBVIOUS
<1>2. n \in Int64 /\ 0 \in Int64
  BY SmallNumbers
<1>3. cur \in [group : BOOLEAN, num : -1 .. Len(IdOf), id : Ids \cup {NoId}]
  <2>1. 0 \in -1 .. Len(IdOf)
    BY ListingsAssumption
  <2> QED BY <2>1
<1>4. ar \in [hasId : BOOLEAN, hasNum : BOOLEAN, group : BOOLEAN, id : Ids \cup {NoId}, num : Int64, last : Int64]
  BY <1>1, <1>2
<1>5. ila.mode \in Modes /\ ila.wm = NoWild
  OBVIOUS
<1>6. NoWild \in Seq(RuleSet) /\ entries \in Seq(Overviews \cup Names) /\ Sequence(block) /\ Len(entries) = 0 /\ Len(block) = 0
  BY EmptySequence DEF NoWild
<1>7. ListShape
  BY <1>2, <1>3, <1>4, <1>5, <1>6, ListingsAssumption DEF ListShape
<1>8. CurrentNamed
  BY DEF CurrentNamed
<1>9. PoolClean
  BY <1>1, <1>5 DEF PoolClean
<1>10. AskedOfBackend
  BY DEF AskedOfBackend, SpanAsked, NoCommand, Ask
<1> QED BY <1>7, <1>8, <1>9, <1>10 DEF ListInv, CommandOfStage, LinesOfEntries, LinesOfGroups

LEMMA StepMove ==
  ASSUME ListInv, Move
  PROVE  ListInv'
<1>1. /\ stage = "command"
      /\ cur' \in [group : {TRUE}, num : {-1}, id : {NoId}]
                  \cup {[group |-> TRUE, num |-> n, id |-> IdOf[n]] : n \in DOMAIN IdOf}
      /\ UNCHANGED <<stage, asked, ar, span, ov, ila, entries, block>>
  BY DEF Move
<1>2. IdOf \in Seq(Ids) /\ DOMAIN IdOf = 1 .. Len(IdOf) /\ Len(IdOf) \in Nat
  BY ListingsAssumption
<1>3. cur' \in [group : BOOLEAN, num : -1 .. Len(IdOf), id : Ids \cup {NoId}] /\ CurrentNamed'
  <2>1. CASE cur' \in [group : {TRUE}, num : {-1}, id : {NoId}]
    <3>1. cur'.group /\ cur'.num = -1 /\ cur'.id = NoId /\ cur' = [group |-> TRUE, num |-> -1, id |-> NoId]
      BY <2>1
    <3>2. -1 \in -1 .. Len(IdOf)
      BY <1>2
    <3> QED BY <3>1, <3>2 DEF CurrentNamed
  <2>2. ASSUME NEW n \in DOMAIN IdOf, cur' = [group |-> TRUE, num |-> n, id |-> IdOf[n]]
        PROVE  cur' \in [group : BOOLEAN, num : -1 .. Len(IdOf), id : Ids \cup {NoId}] /\ CurrentNamed'
    <3>1. IdOf[n] \in Ids /\ n \in -1 .. Len(IdOf)
      BY <1>2
    <3> QED BY <2>2, <3>1 DEF CurrentNamed
  <2> QED BY <1>1, <2>1, <2>2
<1>4. ListShape'
  BY <1>1, <1>3 DEF ListInv, ListShape
<1>5. CommandOfStage' /\ PoolClean'
  BY <1>1 DEF ListInv, CommandOfStage, PoolClean
<1>6. AskedOfBackend'
  <2>1. asked' = NoCommand
    BY <1>1 DEF ListInv, CommandOfStage
  <2> QED BY <1>1, <2>1 DEF AskedOfBackend, SpanAsked, NoCommand, Ask
<1>7. LinesOfEntries' /\ LinesOfGroups'
  BY <1>1 DEF LinesOfEntries, LinesOfGroups
<1> QED BY <1>3, <1>4, <1>5, <1>6, <1>7 DEF ListInv

LEMMA StepHeaders ==
  ASSUME ListInv, NEW verb \in {"over", "hdr"}, NEW what, verb = "hdr" => what \in Headers,
         handleHeaders(verb, what)
  PROVE  ListInv'
<1>1. stage = "command" /\ stage' = "asked" /\ UNCHANGED <<cur, span, ov, ila, entries, block>>
  BY DEF handleHeaders
<1>2. /\ ar' \in [hasId : BOOLEAN, hasNum : BOOLEAN, group : BOOLEAN, id : Ids \cup {NoId},
                  num : Int64, last : Int64]
      /\ AskedOfBackend'
      /\ asked'.verb = verb /\ asked'.what = what /\ asked'.form \in {"none", "range", "id"}
      /\ asked'.form = "range" => asked'.arg \in Ranges
      /\ asked'.form = "id" => asked'.arg \in Ids
  BY ArAsked DEF ListInv
<1>3. ListShape' /\ CurrentNamed'
  BY <1>1, <1>2 DEF ListInv, ListShape, CurrentNamed
<1>4. CommandOfStage'
  BY <1>1, <1>2 DEF CommandOfStage
<1>5. PoolClean'
  BY <1>1 DEF ListInv, PoolClean
<1>6. LinesOfEntries' /\ LinesOfGroups'
  BY <1>1 DEF LinesOfEntries, LinesOfGroups
<1> QED BY <1>2, <1>3, <1>4, <1>5, <1>6 DEF ListInv

\* The end of a command.
LEMMA StepEnd ==
  ASSUME ListInv, NotFound \/ HeadersDone \/ NumbersDone \/ GroupsDone
  PROVE  ListInv'
<1>1. ListShape /\ CurrentNamed /\ PoolClean
  BY DEF ListInv
<1>2. stage' = "command" /\ asked' = NoCommand /\ entries' = <<>> /\ block' = <<>> /\ cur' = cur
  BY DEF NotFound, HeadersDone, NumbersDone, GroupsDone, ListEnd
<1>3. /\ ar' \in [hasId : BOOLEAN, hasNum : BOOLEAN, group : BOOLEAN, id : Ids \cup {NoId},
                  num : Int64, last : Int64]
      /\ ar'.id = NoId /\ ~ ar'.group
  <2>1. ar \in [hasId : BOOLEAN, hasNum : BOOLEAN, group : BOOLEAN, id : Ids \cup {NoId},
                num : Int64, last : Int64]
    BY <1>1 DEF ListShape
  <2>2. CASE NotFound \/ HeadersDone
    BY <2>1, <2>2 DEF NotFound, HeadersDone, pool_ArticleRange_put
  <2>3. CASE NumbersDone \/ GroupsDone
    <3>1. ar' = ar /\ stage \in {"numbers", "groups"}
      BY <2>3 DEF NumbersDone, GroupsDone
    <3> QED BY <1>1, <2>1, <3>1 DEF PoolClean
  <2> QED BY <2>2, <2>3
<1>4. ila'.mode \in Modes /\ ila'.wm = NoWild
  <2>1. CASE NotFound \/ HeadersDone \/ NumbersDone
    <3>1. ila' = ila /\ stage # "groups"
      BY <2>1 DEF NotFound, HeadersDone, NumbersDone
    <3> QED BY <1>1, <3>1 DEF ListShape, PoolClean
  <2>2. CASE GroupsDone
    BY <2>2 DEF GroupsDone, reset, Modes
  <2> QED BY <2>1, <2>2
<1>5. span' \in Int64 \X Int64 /\ ov' \in 0 .. 7
  <2>1. span' \in {span, <<0, 0>>} /\ ov' \in {ov, 0}
    BY DEF NotFound, HeadersDone, NumbersDone, GroupsDone
  <2>2. <<0, 0>> \in Int64 \X Int64
    BY SmallNumbers
  <2> QED BY <1>1, <2>1, <2>2 DEF ListShape
<1>6. NoWild \in Seq(RuleSet) /\ <<>> \in Seq(Overviews \cup Names) /\ Sequence(<<>>) /\ Len(<<>>) = 0
  BY EmptySequence DEF NoWild
<1>7. ListShape' /\ CurrentNamed'
  BY <1>1, <1>2, <1>3, <1>4, <1>5, <1>6, ListingsAssumption DEF ListShape, CurrentNamed
<1>8. CommandOfStage' /\ PoolClean'
  BY <1>2, <1>3, <1>4 DEF CommandOfStage, PoolClean
<1>9. AskedOfBackend'
  BY <1>2 DEF AskedOfBackend, SpanAsked, NoCommand, Ask
<1>10. LinesOfEntries' /\ LinesOfGroups'
  BY <1>2 DEF LinesOfEntries, LinesOfGroups
<1> QED BY <1>7, <1>8, <1>9, <1>10 DEF ListInv

LEMMA StepFound ==
  ASSUME ListInv, Found
  PROVE  ListInv'
<1>1. /\ stage = "asked" /\ stage' = "entries"
      /\ ov' = IF asked.verb = "over" THEN 0 ELSE handleXHdr_hdrs[asked.what]
      /\ UNCHANGED <<cur, asked, ar, span, ila, entries, block>>
  BY DEF Found
<1>2. ListShape /\ CommandOfStage /\ PoolClean
  BY DEF ListInv
<1>3. ov' \in 0 .. 7
  <2>1. asked.verb = "over" \/ asked.what \in Headers
    BY <1>1, <1>2 DEF CommandOfStage
  <2>2. \A field \in Headers : handleXHdr_hdrs[field] \in 1 .. 7
    BY DEF handleXHdr_hdrs, Headers
  <2> QED BY <1>1, <2>1, <2>2
<1>4. ListShape' /\ CurrentNamed'
  BY <1>1, <1>3 DEF ListInv, ListShape, CurrentNamed
<1>5. CommandOfStage' /\ PoolClean' /\ LinesOfGroups'
  BY <1>1 DEF ListInv, CommandOfStage, PoolClean, LinesOfGroups
<1>6. AskedOfBackend'
  BY <1>1 DEF ListInv, AskedOfBackend, SpanAsked
<1>7. LinesOfEntries'
  <2>1. entries' = <<>> /\ block' = <<>>
    BY <1>1, <1>2 DEF PoolClean
  <2>2. <<>> \in Seq(Overviews) /\ Len(<<>>) = 0
    OBVIOUS
  <2> QED BY <1>1, <2>1, <2>2 DEF LinesOfEntries
<1> QED BY <1>4, <1>5, <1>6, <1>7 DEF ListInv

LEMMA StepListgroup ==
  ASSUME ListInv, handleListgroup
  PROVE  ListInv'
<1>1. /\ stage = "command" /\ stage' = "numbers" /\ UNCHANGED <<cur, ar, ov, ila, entries, block>>
      /\ \/ span' = ParseRange(<<>>) /\ asked' = Ask("listgroup", "none", NoArg, NoArg)
         \/ \E range \in Ranges :
              span' = ParseRange(TextOf(range)) /\ asked' = Ask("listgroup", "range", range, NoArg)
  BY DEF handleListgroup
<1>2. CASE span' = ParseRange(<<>>) /\ asked' = Ask("listgroup", "none", NoArg, NoArg)
  <2>1. span' = <<0, MaxInt>> /\ asked'.verb = "listgroup" /\ asked'.form = "none"
    BY <1>2, AllAsked DEF Ask
  <2>2. span' \in Int64 \X Int64
    BY <2>1, SmallNumbers
  <2>3. SpanAsked'
    BY <2>1 DEF SpanAsked
  <2>4. AskedOfBackend'
    BY <1>1, <2>3 DEF AskedOfBackend
  <2>5. ListShape' /\ CurrentNamed'
    BY <1>1, <2>2 DEF ListInv, ListShape, CurrentNamed
  <2>6. CommandOfStage' /\ PoolClean' /\ LinesOfEntries' /\ LinesOfGroups'
    BY <1>1, <2>1 DEF ListInv, CommandOfStage, PoolClean, LinesOfEntries, LinesOfGroups
  <2> QED BY <2>4, <2>5, <2>6 DEF ListInv
<1>3. ASSUME NEW range \in Ranges, span' = ParseRange(TextOf(range)),
             asked' = Ask("listgroup", "range", range, NoArg)
      PROVE  ListInv'
  <2>1. asked'.verb = "listgroup" /\ asked'.form = "range" /\ asked'.arg = range
    BY <1>3 DEF Ask
  <2>2. /\ span' \in Int64 \X Int64
        /\ range.from <= MaxInt /\ range.to < MaxInt =>
             /\ span'[1] = range.from
             /\ range.kind = "both" => span'[2] = range.to
             /\ range.kind = "one"  => span'[2] = MaxInt
             /\ range.kind = "open" => span'[2] = 0
    BY <1>3, RangeAsked
  <2>3. SpanAsked'
    BY <2>1, <2>2 DEF SpanAsked, Fits
  <2>4. AskedOfBackend'
    BY <1>1, <2>3 DEF AskedOfBackend
  <2>5. ListShape' /\ CurrentNamed'
    BY <1>1, <2>2 DEF ListInv, ListShape, CurrentNamed
  <2>6. CommandOfStage' /\ PoolClean' /\ LinesOfEntries' /\ LinesOfGroups'
    BY <1>1, <2>1 DEF ListInv, CommandOfStage, PoolClean, LinesOfEntries, LinesOfGroups
  <2> QED BY <2>4, <2>5, <2>6 DEF ListInv
<1> QED BY <1>1, <1>2, <1>3

LEMMA StepEntry ==
  ASSUME ListInv, NEW e \in Overviews, WriteEntry(e)
  PROVE  ListInv'
<1>1. /\ stage = "entries" /\ Len(entries) < MaxEntries
      /\ entries' = Append(entries, e)
      /\ block' = IF Ended THEN block ELSE Append(block, LineOf(e))
      /\ UNCHANGED <<stage, cur, asked, ar, span, ov, ila>>
  BY DEF WriteEntry, Show
<1>2. /\ ListShape /\ entries \in Seq(Overviews) /\ Sequence(block) /\ Len(block) <= Len(entries)
      /\ ov = IF asked.verb = "over" THEN 0 ELSE handleXHdr_hdrs[asked.what]
      /\ \A n \in 1 .. Len(block) : block[n] = LineOf(entries[n])
      /\ Len(block) = Len(entries) \/ Ended
  BY <1>1 DEF ListInv, ListShape, LinesOfEntries
<1> DEFINE more == Append(entries, e)
           longer == Append(block, LineOf(e))
<1>3. /\ more \in Seq(Overviews) /\ Len(more) = Len(entries) + 1 /\ Len(entries) \in Nat
      /\ more[Len(entries) + 1] = e /\ \A n \in 1 .. Len(entries) : more[n] = entries[n]
  BY <1>2, AppendProperties
<1>4. /\ Len(block) \in Nat /\ DOMAIN block = 1 .. Len(block)
      /\ Sequence(longer) /\ Len(longer) = Len(block) + 1
      /\ longer[Len(block) + 1] = LineOf(e) /\ \A n \in 1 .. Len(block) : longer[n] = block[n]
  BY <1>2, AppendAny
<1> HIDE DEF more, longer
<1>5. entries' = more /\ block' = IF Ended THEN block ELSE longer
  BY <1>1 DEF more, longer
<1>6. /\ Sequence(block') /\ Len(block') <= Len(more)
      /\ \A n \in 1 .. Len(block') : block'[n] = LineOf(more[n])
      /\ Len(block') = Len(more) \/ Ended'
  <2>1. CASE Ended
    <3>1. block' = block
      BY <1>5, <2>1
    <3>2. Ended'
      BY <2>1, <3>1 DEF Ended
    <3>3. \A n \in 1 .. Len(block) : n \in 1 .. Len(entries)
      BY <1>2, <1>3, <1>4
    <3> QED BY <1>2, <1>3, <1>4, <3>1, <3>2, <3>3
  <2>2. CASE ~ Ended
    <3>1. block' = longer /\ Len(block) = Len(entries)
      BY <1>2, <1>5, <2>2
    <3>2. ASSUME NEW n \in 1 .. Len(longer)
          PROVE  longer[n] = LineOf(more[n])
      <4>1. CASE n = Len(block) + 1
        BY <1>3, <1>4, <3>1, <4>1
      <4>2. CASE n \in 1 .. Len(block)
        <5>1. longer[n] = block[n] /\ more[n] = entries[n] /\ block[n] = LineOf(entries[n])
          BY <1>2, <1>3, <1>4, <3>1, <4>2
        <5> QED BY <5>1
      <4> QED BY <1>4, <4>1, <4>2
    <3> QED BY <1>3, <1>4, <3>1, <3>2
  <2> QED BY <2>1, <2>2
<1>7. entries' \in Seq(Overviews \cup Names)
  BY <1>3, <1>5, SeqOfMore
<1>8. Len(entries') <= MaxEntries
  BY <1>1, <1>3, <1>5, ListingsAssumption
<1>9. ListShape' /\ CurrentNamed'
  BY <1>1, <1>5, <1>6, <1>7, <1>8 DEF ListInv, ListShape, CurrentNamed
<1>10. CommandOfStage' /\ PoolClean' /\ LinesOfGroups'
  BY <1>1 DEF ListInv, CommandOfStage, PoolClean, LinesOfGroups
<1>11. AskedOfBackend'
  BY <1>1 DEF ListInv, AskedOfBackend, SpanAsked
<1>12. LinesOfEntries'
  <2>1. \A n \in 1 .. Len(block') : block'[n] = LineOf(entries[n])'
    BY <1>1, <1>5, <1>6 DEF LineOf
  <2>2. entries' \in Seq(Overviews) /\ (Len(block') = Len(entries') \/ Ended')
    BY <1>3, <1>5, <1>6
  <2>3. ov' = IF asked'.verb = "over" THEN 0 ELSE handleXHdr_hdrs[asked'.what]
    BY <1>1, <1>2
  <2> QED BY <2>1, <2>2, <2>3 DEF LinesOfEntries
<1> QED BY <1>9, <1>10, <1>11, <1>12 DEF ListInv

LEMMA StepGroups ==
  ASSUME ListInv, NEW mode \in {"LAM_Active", "LAM_Newsgroups"}, handleListGenericGroups(mode)
  PROVE  ListInv'
<1>1. /\ stage = "command" /\ stage' = "groups" /\ UNCHANGED <<cur, ar, span, ov, entries, block>>
      /\ \/ reset(mode, NoWild) /\ asked' = Ask("list", "none", NoArg, mode)
         \/ \E w \in Wildmats : reset(mode, WildOf(w)) /\ asked' = Ask("list", "wildmat", w, mode)
  BY DEF handleListGenericGroups, WildOf
<1>2. /\ asked'.verb = "list" /\ asked'.what = mode /\ asked'.form \in {"none", "wildmat"}
      /\ asked'.form = "wildmat" => asked'.arg \in Wildmats
      /\ ila'.mode = mode
      /\ ila'.wm = IF asked'.form = "wildmat" THEN WildOf(asked'.arg) ELSE NoWild
  BY <1>1 DEF reset, Ask
<1>3. ila'.mode \in Modes /\ ila'.wm \in Seq(RuleSet)
  <2>1. NoWild \in Seq(RuleSet)
    BY DEF NoWild
  <2> QED BY <1>2, <2>1, WildType DEF Modes
<1>4. ListShape' /\ CurrentNamed'
  BY <1>1, <1>3 DEF ListInv, ListShape, CurrentNamed
<1>5. CommandOfStage' /\ PoolClean' /\ LinesOfEntries'
  BY <1>1, <1>2 DEF ListInv, CommandOfStage, PoolClean, LinesOfEntries
<1>6. AskedOfBackend'
  BY <1>1, <1>2 DEF AskedOfBackend, SpanAsked
<1>7. LinesOfGroups'
  <2>1. entries' = <<>> /\ block' = <<>> /\ <<>> \in Seq(Names) /\ Len(<<>>) = 0
    BY <1>1 DEF ListInv, PoolClean
  <2>2. 1 .. Len(entries') = {} /\ 1 .. Len(block') = {}
    BY <2>1
  <2> QED BY <1>2, <2>1, <2>2 DEF LinesOfGroups
<1> QED BY <1>4, <1>5, <1>6, <1>7 DEF ListInv

LEMMA StepGroup ==
  ASSUME ListInv, NEW name \in Names, WriteGroup(name)
  PROVE  ListInv'
<1> DEFINE line == <<name, ila.mode>>
           more == Append(entries, name)
           longer == Append(block, line)
<1>1. /\ stage = "groups" /\ Len(entries) < MaxEntries
      /\ \A n \in DOMAIN entries : entries[n] # name
      /\ entries' = more
      /\ IF match(name) THEN Show(line) ELSE UNCHANGED block
      /\ UNCHANGED <<stage, cur, asked, ar, span, ov, ila>>
  BY DEF WriteGroup
<1>2. /\ ListShape /\ entries \in Seq(Names) /\ Sequence(block) /\ Len(block) <= Len(entries)
      /\ ila.mode = asked.what
      /\ ila.wm = IF asked.form = "wildmat" THEN WildOf(asked.arg) ELSE NoWild
      /\ \A n \in 1 .. Len(block) : \E k \in 1 .. Len(entries) : block[n] = <<entries[k], asked.what>>
      /\ \A k \in 1 .. Len(entries) : Listed(entries[k]) <=> match(entries[k])
  BY <1>1 DEF ListInv, ListShape, LinesOfGroups
<1>3. /\ more \in Seq(Names) /\ Len(more) = Len(entries) + 1 /\ Len(entries) \in Nat
      /\ more[Len(entries) + 1] = name /\ \A n \in 1 .. Len(entries) : more[n] = entries[n]
      /\ DOMAIN entries = 1 .. Len(entries)
  BY <1>2, AppendProperties
<1>4. /\ Len(block) \in Nat /\ DOMAIN block = 1 .. Len(block)
      /\ Sequence(longer) /\ Len(longer) = Len(block) + 1
      /\ longer[Len(block) + 1] = line /\ \A n \in 1 .. Len(block) : longer[n] = block[n]
      /\ DOMAIN longer = 1 .. Len(longer)
  <2>1. /\ Len(block) \in Nat /\ DOMAIN block = 1 .. Len(block)
        /\ Sequence(longer) /\ Len(longer) = Len(block) + 1
        /\ longer[Len(block) + 1] = line /\ \A n \in 1 .. Len(block) : longer[n] = block[n]
    BY <1>2, AppendAny
  <2> HIDE DEF longer
  <2> QED BY <2>1, AppendAny
<1>5. ~ Ended
  <2>1. \A x, y : <<x, y>> # loneDot
    <3>1. \A x, y : Len(<<x, y>>) = 2
      OBVIOUS
    <3>2. Len(loneDot) = 1
      BY DEF loneDot
    <3> QED BY <3>1, <3>2
  <2> QED BY <1>2, <1>4, <2>1 DEF Ended
<1>6. block' = IF match(name) THEN longer ELSE block
  BY <1>1, <1>5 DEF Show
<1> HIDE DEF more, longer
<1>7. /\ Sequence(block') /\ Len(block') <= Len(more)
      /\ \A n \in 1 .. Len(block') : \E k \in 1 .. Len(more) : block'[n] = <<more[k], asked.what>>
      /\ DOMAIN block' = 1 .. Len(block')
  <2>1. \A n \in 1 .. Len(block) : \E k \in 1 .. Len(more) : block[n] = <<more[k], asked.what>>
    <3> SUFFICES ASSUME NEW n \in 1 .. Len(block)
                 PROVE  \E k \in 1 .. Len(more) : block[n] = <<more[k], asked.what>>
      OBVIOUS
    <3>1. PICK k \in 1 .. Len(entries) : block[n] = <<entries[k], asked.what>>
      BY <1>2
    <3>2. k \in 1 .. Len(more) /\ more[k] = entries[k]
      BY <1>3
    <3> QED BY <3>1, <3>2
  <2>2. CASE match(name)
    <3>1. block' = longer
      BY <1>6, <2>2
    <3>2. ASSUME NEW n \in 1 .. Len(longer)
          PROVE  \E k \in 1 .. Len(more) : longer[n] = <<more[k], asked.what>>
      <4>1. CASE n = Len(block) + 1
        <5>1. Len(more) \in 1 .. Len(more) /\ more[Len(more)] = name
          BY <1>3
        <5>2. longer[n] = <<name, asked.what>>
          BY <1>2, <1>4, <4>1
        <5> QED BY <5>1, <5>2
      <4>2. CASE n \in 1 .. Len(block)
        BY <1>4, <2>1, <4>2
      <4> QED BY <1>4, <4>1, <4>2
    <3>3. Len(longer) <= Len(more)
      BY <1>2, <1>3, <1>4
    <3> QED BY <1>4, <3>1, <3>2, <3>3
  <2>3. CASE ~ match(name)
    <3>1. block' = block
      BY <1>6, <2>3
    <3> QED BY <1>2, <1>3, <1>4, <2>1, <3>1
  <2> QED BY <2>2, <2>3
<1> DEFINE Shown(x) == \E n \in 1 .. Len(block') : block'[n] = <<x, asked.what>>
<1>9. asked' = asked
  BY <1>1
<1>10. \A k \in 1 .. Len(entries) : entries[k] # name
  BY <1>1, <1>3
<1>11. ~ Listed(name)
  <2>1. ASSUME NEW n \in 1 .. Len(block), block[n] = <<name, asked.what>>
        PROVE  FALSE
    <3>1. PICK k \in 1 .. Len(entries) : block[n] = <<entries[k], asked.what>>
      BY <1>2
    <3> QED BY <1>10, <2>1, <3>1
  <2> QED BY <1>4, <2>1 DEF Listed
<1>12. ASSUME NEW x
       PROVE  Shown(x) <=> Listed(x) \/ (x = name /\ match(name))
  <2>1. Listed(x) <=> \E n \in 1 .. Len(block) : block[n] = <<x, asked.what>>
    BY <1>4 DEF Listed
  <2>2. CASE match(name)
    <3>1. block' = longer
      BY <1>6, <2>2
    <3>2. \A n \in 1 .. Len(longer) : n \in 1 .. Len(block) \/ n = Len(block) + 1
      BY <1>4
    <3>3. \A n \in 1 .. Len(block) : n \in 1 .. Len(longer) /\ longer[n] = block[n]
      BY <1>4
    <3>4. Len(block) + 1 \in 1 .. Len(longer) /\ longer[Len(block) + 1] = <<name, asked.what>>
      BY <1>2, <1>4
    <3>5. <<name, asked.what>> = <<x, asked.what>> <=> x = name
      OBVIOUS
    <3> QED BY <2>1, <2>2, <3>1, <3>2, <3>3, <3>4, <3>5
  <2>3. CASE ~ match(name)
    <3>1. block' = block
      BY <1>6, <2>3
    <3> QED BY <2>1, <2>3, <3>1
  <2> QED BY <2>2, <2>3
<1> HIDE DEF Shown
<1>13. ASSUME NEW k \in 1 .. Len(more)
       PROVE  Shown(more[k]) <=> match(more[k])
  <2>1. CASE k \in 1 .. Len(entries)
    <3>1. more[k] = entries[k] /\ entries[k] # name
      BY <1>3, <1>10, <2>1
    <3>2. Listed(entries[k]) <=> match(entries[k])
      BY <1>2, <2>1
    <3> QED BY <1>12, <3>1, <3>2
  <2>2. CASE k = Len(entries) + 1
    <3>1. more[k] = name
      BY <1>3, <2>2
    <3> QED BY <1>11, <1>12, <3>1
  <2>3. k \in 1 .. Len(entries) \/ k = Len(entries) + 1
    BY <1>3
  <2> QED BY <2>1, <2>2, <2>3
<1>14. LinesOfGroups'
  <2>1. \A k \in 1 .. Len(entries') : Listed(entries[k])' <=> match(entries[k])'
    BY <1>1, <1>7, <1>9, <1>13 DEF Listed, match, Shown
  <2> QED BY <1>1, <1>2, <1>3, <1>7, <1>9, <2>1 DEF LinesOfGroups
<1>15. entries' \in Seq(Overviews \cup Names) /\ Len(entries') <= MaxEntries
  BY <1>1, <1>3, SeqOfMore, ListingsAssumption
<1>16. ListShape' /\ CurrentNamed'
  BY <1>1, <1>7, <1>15 DEF ListInv, ListShape, CurrentNamed
<1>17. CommandOfStage' /\ PoolClean' /\ LinesOfEntries'
  BY <1>1 DEF ListInv, CommandOfStage, PoolClean, LinesOfEntries
<1>18. AskedOfBackend'
  BY <1>1 DEF ListInv, AskedOfBackend, SpanAsked
<1> QED BY <1>14, <1>16, <1>17, <1>18 DEF ListInv

\* So every state has it.
LEMMA ListInvariant == ListSpec => []ListInv
<1>1. ListInit => ListInv
  BY ListBegins
<1>2. ListInv /\ [ListNext]_listVars => ListInv'
  <2> SUFFICES ASSUME ListInv, [ListNext]_listVars
               PROVE  ListInv'
    OBVIOUS
  <2>1. CASE Move
    BY <2>1, StepMove
  <2>2. CASE HeadersAsked
    <3>1. PICK verb \in {"over", "hdr"} : \E what : (verb = "hdr" => what \in Headers) /\ handleHeaders(verb, what)
      BY <2>2 DEF HeadersAsked
    <3>2. PICK what : (verb = "hdr" => what \in Headers) /\ handleHeaders(verb, what)
      BY <3>1
    <3> QED BY <3>2, StepHeaders
  <2>3. CASE NotFound \/ HeadersDone \/ NumbersDone \/ GroupsDone
    BY <2>3, StepEnd
  <2>4. CASE Found
    BY <2>4, StepFound
  <2>5. ASSUME NEW e \in Overviews, WriteEntry(e)
        PROVE  ListInv'
    BY <2>5, StepEntry
  <2>6. CASE handleListgroup
    BY <2>6, StepListgroup
  <2>7. ASSUME NEW mode \in {"LAM_Active", "LAM_Newsgroups"}, handleListGenericGroups(mode)
        PROVE  ListInv'
    BY <2>7, StepGroups
  <2>8. ASSUME NEW name \in Names, WriteGroup(name)
        PROVE  ListInv'
    BY <2>8, StepGroup
  <2>9. CASE UNCHANGED listVars
    <3>1. ListShape' /\ CurrentNamed' /\ CommandOfStage' /\ PoolClean'
      BY <2>9 DEF listVars, ListInv, ListShape, CurrentNamed, CommandOfStage, PoolClean
    <3>2. AskedOfBackend'
      BY <2>9 DEF listVars, ListInv, AskedOfBackend, SpanAsked
    <3>3. LinesOfEntries'
      BY <2>9 DEF listVars, ListInv, LinesOfEntries, Ended, LineOf
    <3>4. LinesOfGroups'
      BY <2>9 DEF listVars, ListInv, LinesOfGroups, Listed, match
    <3> QED BY <3>1, <3>2, <3>3, <3>4 DEF ListInv
  <2> QED BY <2>1, <2>2, <2>3, <2>4, <2>5, <2>6, <2>7, <2>8, <2>9, ListSteps
<1> QED BY <1>1, <1>2, PTL DEF ListSpec

-----------------------------------------------------------------------------
\* Every variable of the list commands keeps its range, and between commands the
\* pooled objects are clean (pool_ArticleRange_put, ListActive.reset).
THEOREM ListTypeCorrect == ListSpec => []ListTypeOK
<1>1. ListInv => ListTypeOK
  <2> SUFFICES ASSUME ListInv
               PROVE  ListTypeOK
    OBVIOUS
  <2>1. asked.verb \in {"none", "over", "hdr", "listgroup", "list"}
    BY DEF ListInv, ListShape, CommandOfStage, NoCommand, Ask
  <2>2. stage = "command" => ar.id = NoId /\ ~ ar.group /\ ila.wm = NoWild /\ asked = NoCommand
    BY DEF ListInv, PoolClean, CommandOfStage
  <2> QED BY <2>1, <2>2 DEF ListTypeOK, ListInv, ListShape
<1> QED BY <1>1, ListInvariant, PTL

\* Whatever the numbers of the range, in any arithmetic, and whatever an earlier
\* use has left in the ArticleRange: the backend is asked for the articles that
\* the client named (handleHeaders, nntpdecoder.go:944-978; handleListgroup, 284).
THEOREM BackendIsAsked == ListSpec => []AskedOfBackend
<1>1. ListInv => AskedOfBackend
  BY DEF ListInv
<1> QED BY <1>1, ListInvariant, PTL

\* The line of an entry in HDR.
LEMMA HdrLine ==
  ASSUME NEW field \in Headers, ov = handleXHdr_hdrs[field], NEW e
  PROVE  LineOf(e) = IF field \in Lengths THEN <<AppendUint(e[field])>> ELSE <<e[field]>>
<1> USE DEF handleXHdr_hdrs, LineOf, Lengths
<1>1. CASE field = "subject"
  BY <1>1
<1>2. CASE field = "from"
  BY <1>2
<1>3. CASE field = "date"
  BY <1>3
<1>4. CASE field = "message-id"
  BY <1>4
<1>5. CASE field = "references"
  BY <1>5
<1>6. CASE field = "bytes"
  BY <1>6
<1>7. CASE field = "lines"
  BY <1>7
<1> QED BY <1>1, <1>2, <1>3, <1>4, <1>5, <1>6, <1>7 DEF Headers

\* The numbers of an entry are read as they were.
LEMMA NumbersOfEntries ==
  ASSUME NEW e \in Overviews
  PROVE  /\ ParseUint(AppendUint(e.num)) = e.num
         /\ \A field \in Lengths : e[field] >= 0 => ParseUint(AppendUint(e[field])) = e[field]
<1>1. e.num \in 0 .. MaxInt /\ e.bytes \in Int64 /\ e.lines \in Int64
  BY ListingsAssumption
<1>2. ASSUME NEW n \in Int64, n >= 0
      PROVE  n \in 0 .. MaxInt
  BY <1>2, NumbersAssumption DEF Int64, MaxInt
<1>3. \A field \in Lengths : e[field] \in Int64
  BY <1>1 DEF Lengths
<1>4. \A field \in Lengths : e[field] >= 0 => e[field] \in 0 .. MaxInt
  BY <1>2, <1>3
<1> QED BY <1>1, <1>4, NumbersRead

\* For any list, of any length: the client reads in the lines of OVER and HDR what
\* the backend has written, unless a value of HDR is a lone dot
\* (Overview.WriteEntry, writer.go:113-139; handleXHdr, nntpdecoder.go:1093).
THEOREM EntriesAreShown == ListSpec => []EntriesShown
<1>1. ListInv => EntriesShown
  <2> SUFFICES ASSUME ListInv, asked.verb \in {"over", "hdr"}
               PROVE  EntriesShown
    BY DEF EntriesShown
  <2>1. CASE stage = "asked"
    <3>1. entries = <<>> /\ block = <<>>
      BY <2>1 DEF ListInv, PoolClean
    <3>2. Len(<<>>) = 0 /\ DOMAIN <<>> = {}
      OBVIOUS
    <3> QED BY <3>1, <3>2 DEF EntriesShown
  <2>2. CASE stage = "entries"
    <3>1. /\ entries \in Seq(Overviews) /\ Sequence(block) /\ Len(block) <= Len(entries)
          /\ ov = IF asked.verb = "over" THEN 0 ELSE handleXHdr_hdrs[asked.what]
          /\ \A n \in 1 .. Len(block) : block[n] = LineOf(entries[n])
          /\ Len(block) = Len(entries) \/ Ended
          /\ asked.verb = "hdr" => asked.what \in Headers
      BY <2>2 DEF ListInv, ListShape, LinesOfEntries, CommandOfStage
    <3>2. DOMAIN block = 1 .. Len(block) /\ Len(block) \in Nat /\ Len(entries) \in Nat
      BY <3>1, AppendAny
    <3>3. \A n \in 1 .. Len(block) : entries[n] \in Overviews
      BY <3>1, <3>2
    <3>4. CASE asked.verb = "over"
      <4>1. \A n \in 1 .. Len(block) : block[n] = OverLine(entries[n])
        BY <3>1, <3>4 DEF LineOf
      <4>2. \A e : OverLine(e) # loneDot
        <5>1. \A e : Len(OverLine(e)) = 8
          BY DEF OverLine
        <5>2. Len(loneDot) = 1
          BY DEF loneDot
        <5> QED BY <5>1, <5>2
      <4>3. ~ Ended
        BY <3>2, <4>1, <4>2 DEF Ended
      <4>4. ASSUME NEW n \in 1 .. Len(block)
            PROVE  LET l == block[n] e == entries[n] IN
                     /\ ParseUint(l[1]) = e.num
                     /\ l[2] = e.subject /\ l[3] = e.from /\ l[4] = e.date
                     /\ l[5] = e["message-id"] /\ l[6] = e.references
                     /\ e.bytes >= 0 => ParseUint(l[7]) = e.bytes
                     /\ e.lines >= 0 => ParseUint(l[8]) = e.lines
        <5> DEFINE e == entries[n]
        <5>1. /\ OverLine(e)[1] = AppendUint(e.num) /\ OverLine(e)[2] = e.subject
              /\ OverLine(e)[3] = e.from /\ OverLine(e)[4] = e.date
              /\ OverLine(e)[5] = e["message-id"] /\ OverLine(e)[6] = e.references
              /\ OverLine(e)[7] = AppendUint(e.bytes) /\ OverLine(e)[8] = AppendUint(e.lines)
          BY DEF OverLine
        <5>2. e \in Overviews /\ block[n] = OverLine(e)
          BY <3>3, <4>1
        <5> HIDE DEF e
        <5>3. /\ ParseUint(AppendUint(e.num)) = e.num
              /\ \A field \in Lengths : e[field] >= 0 => ParseUint(AppendUint(e[field])) = e[field]
          BY <5>2, NumbersOfEntries
        <5>4. /\ e.bytes >= 0 => ParseUint(AppendUint(e.bytes)) = e.bytes
              /\ e.lines >= 0 => ParseUint(AppendUint(e.lines)) = e.lines
          BY <5>3 DEF Lengths
        <5> QED BY <5>1, <5>2, <5>3, <5>4 DEF e
      <4> QED BY <3>1, <3>2, <3>4, <4>3, <4>4 DEF EntriesShown
    <3>5. CASE asked.verb = "hdr"
      <4>1. ASSUME NEW n \in 1 .. Len(block)
            PROVE  LET v == entries[n][asked.what] IN
                     /\ asked.what \notin Lengths => block[n] = <<v>>
                     /\ asked.what \in Lengths /\ v >= 0 => ParseUint(block[n][1]) = v
        <5> DEFINE e == entries[n]
                   field == asked.what
        <5>1. e \in Overviews /\ field \in Headers /\ ov = handleXHdr_hdrs[field] /\ block[n] = LineOf(e)
          BY <3>1, <3>3, <3>5
        <5> HIDE DEF e, field
        <5>2. block[n] = IF field \in Lengths THEN <<AppendUint(e[field])>> ELSE <<e[field]>>
          BY <5>1, HdrLine
        <5>3. field \in Lengths /\ e[field] >= 0 => ParseUint(AppendUint(e[field])) = e[field]
          BY <5>1, NumbersOfEntries
        <5> QED BY <5>2, <5>3 DEF e, field
      <4> QED BY <3>1, <3>2, <3>5, <4>1 DEF EntriesShown
    <3> QED BY <3>4, <3>5
  <2>3. stage \in {"asked", "entries"}
    BY DEF ListInv, ListShape, CommandOfStage, NoCommand, Ask
  <2> QED BY <2>1, <2>2, <2>3
<1> QED BY <1>1, ListInvariant, PTL

\* For any wildmat and any list of groups: LIST shows exactly those that the
\* wildmat lets in, and no pooled ListActive brings the wildmat of another command
\* (handleListGenericGroups, nntpdecoder.go:1107-1134).
THEOREM GroupsAreListed == ListSpec => []GroupsListed
<1>1. ListInv => GroupsListed
  <2> SUFFICES ASSUME ListInv, asked.verb = "list"
               PROVE  GroupsListed
    BY DEF GroupsListed
  <2>1. stage = "groups"
    BY DEF ListInv, ListShape, CommandOfStage, NoCommand, Ask
  <2> DEFINE w == asked.arg
             all == asked.form = "none" \/ ~ Compiles(w)
  <2>2. /\ entries \in Seq(Names) /\ Sequence(block) /\ Len(block) <= Len(entries)
        /\ ila.wm = IF asked.form = "wildmat" THEN WildOf(asked.arg) ELSE NoWild
        /\ \A n \in 1 .. Len(block) : \E k \in 1 .. Len(entries) : block[n] = <<entries[k], asked.what>>
        /\ \A k \in 1 .. Len(entries) : Listed(entries[k]) <=> match(entries[k])
        /\ asked.form \in {"none", "wildmat"}
        /\ asked.form = "wildmat" => asked.arg \in Wildmats
    BY <2>1 DEF ListInv, ListShape, LinesOfGroups, CommandOfStage
  <2>3. DOMAIN block = 1 .. Len(block) /\ DOMAIN entries = 1 .. Len(entries)
    BY <2>2, AppendAny
  <2>4. \A name : match(name) <=> all \/ LetIn(w, name)
    <3>1. CASE all
      <4>1. ila.wm = NoWild
        BY <2>2, <3>1, WildType DEF WildOf
      <4> QED BY <3>1, <4>1 DEF match
    <3>2. CASE ~ all
      <4>1. w \in Wildmats /\ Compiles(w) /\ ila.wm = WildOf(w)
        BY <2>2, <3>2
      <4>2. w \in Seq(Elements) /\ WildOf(w) # NoWild /\ WildOf(w) = ParseWildMat(w)
        BY <4>1, WildType DEF WildOf
      <4> HIDE DEF w
      <4>3. \A name : Match(ParseWildMat(w), name) <=> LetIn(w, name)
        BY <4>2, WildMatMatches
      <4> QED BY <3>2, <4>1, <4>2, <4>3 DEF match
    <3> QED BY <3>1, <3>2
  <2>5. ~ all => w \in Seq(Elements)
    BY <2>2, WildType
  <2> HIDE DEF w, all
  <2>6. \A name : ~ all /\ Rightmost(w, name) => LetIn(w, name)
    BY <2>5, RightmostIn
  <2>7. \A name : ~ all /\ (\A m \in DOMAIN w : NextRun(w, m) = {}) /\ LetIn(w, name) => Rightmost(w, name)
    BY <2>5, OnlyRightmostIn
  <2>8. \A k \in 1 .. Len(entries) : Listed(entries[k]) <=> all \/ LetIn(w, entries[k])
    BY <2>2, <2>4
  <2>9. \A k \in 1 .. Len(entries) : ~ all =>
          /\ Rightmost(w, entries[k]) => Listed(entries[k])
          /\ (\A m \in DOMAIN w : NextRun(w, m) = {}) => (Listed(entries[k]) => Rightmost(w, entries[k]))
    BY <2>6, <2>7, <2>8
  <2> QED BY <2>2, <2>3, <2>8, <2>9 DEF GroupsListed, w, all
<1> QED BY <1>1, ListInvariant, PTL
===============================================================================
