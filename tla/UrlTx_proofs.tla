----------------------------- MODULE UrlTx_proofs -----------------------------
(***************************************************************************)
(* Proofs about UrlTx, for any number of concurrent requests, codes, tags, *)
(* lists of tags and connections, and with or without faults.              *)
(***************************************************************************)
EXTENDS UrlTx, SequenceTheorems, TLAPS

-----------------------------------------------------------------------------
(* The invariants. *)

SetTags == {"find links", "delete links", "tag", "link"}
Linking == {"tag", "link", "commit"}

\* The course of a request: which operation it is at a statement, and what a failed
\* statement leaves.
Stage(q) ==
    /\ q.pc \in {"insert", "get existing"} => q.op = "create"
    /\ q.pc \in {"write row", "find"} => q.op = "edit"
    /\ q.pc \in {"lock row", "cascade url"} => q.op = "delete"
    /\ q.pc \in SetTags \cup {"commit"} => q.op \in {"create", "edit"}
    /\ q.pc = "write row" => q.fields
    /\ q.fields => q.op = "edit"
    /\ q.op = "edit" => q.fields \/ q.retag
    /\ q.pc \in SetTags \cup {"find"} => q.retag
    /\ q.tags # <<>> => q.retag
    /\ ~q.aborted => (q.todo # <<>> <=> q.pc \in {"tag", "link"})
    /\ q.aborted => /\ q.op = "create" /\ q.tx = NoTx
                    /\ q.pc \in {"insert", "get existing", "commit"}

\* What a transaction holds, by how far it has come.
Holds(q) ==
    /\ q.tx.newUrl # 0 <=>
          (q.op = "create" /\ ~q.aborted /\ q.pc \in SetTags \cup {"commit"})
    /\ q.tx.newUrl # 0 => q.id = q.tx.newUrl
    /\ q.tx.row # 0 <=>
          (q.fields /\ q.pc \in SetTags \cup {"find", "commit"}) \/ q.pc = "cascade url"
    /\ q.fields /\ (q.pc \in SetTags \/ (q.pc = "commit" /\ q.retag)) => q.id = q.tx.row
    /\ q.pc \notin SetTags \cup {"commit"} => q.id = 0
    /\ q.pc \notin Linking => q.tx.added = {} /\ q.tx.newTags = {}
    /\ q.pc \notin Linking \cup {"rename tag", "cascade tag"} => q.tx.tagLocks = {}
    /\ q.pc \in {"rename tag", "cascade tag"} => q.tid \in q.tx.tagLocks
    /\ \A l \in q.tx.added : l[1] = q.id
    /\ Range(q.todo) \subseteq Range(q.tags)

StageInv == \A r \in Requests : Stage(req[r]) /\ Holds(req[r])

\* A row that is locked is that of the request's code, and no other request's; nobody
\* adds a link to a row that is being deleted.
RowInv ==
    \A r \in Requests : req[r].tx.row # 0 =>
        /\ url[req[r].code] = req[r].tx.row
        /\ \A q \in Requests \ {r} : req[q].tx.row # req[r].tx.row
        /\ req[r].op = "delete" =>
              \A q \in Requests : \A l \in req[q].tx.added : req[r].tx.row # l[1]

\* A row that is inserted is the first of its code, and its id is new.
NewInv ==
    \A r \in Requests : req[r].tx.newUrl # 0 =>
        /\ url[req[r].code] = 0
        /\ req[r].tx.newUrl \notin Range(url)
        /\ \A q \in Requests \ {r} : req[q].tx.newUrl # 0 =>
              req[q].tx.newUrl # req[r].tx.newUrl /\ req[q].code # req[r].code

\* The id a request has is that of a row.
IdInv ==
    \A r \in Requests : req[r].id # 0 /\ ~req[r].aborted /\ req[r].tx.newUrl = 0
                            => req[r].id \in Range(url)

UrlInv == RowInv /\ NewInv /\ IdInv

\* The same of tags: names and ids are unique, a tag that is inserted is the first of its
\* name and its id is new, and a tag that is locked is there and locked by one request.
UniqueInv == \A n, m \in Names : (tag[n] = tag[m] /\ tag[n] # 0) => n = m

NewTagInv ==
    \A r \in Requests : \A t \in req[r].tx.newTags :
        /\ tag[t[1]] = 0 /\ t[2] \notin Range(tag)
        /\ \A q \in Requests : \A s \in req[q].tx.newTags :
              t[1] = s[1] \/ t[2] = s[2] => q = r /\ t = s

TagLockInv ==
    \A r \in Requests :
        /\ req[r].tx.tagLocks \subseteq Range(tag)
        /\ \A q \in Requests \ {r} : req[q].tx.tagLocks \cap req[r].tx.tagLocks = {}
        /\ req[r].pc \in {"rename tag", "cascade tag"} => tag[req[r].old] = req[r].tid

TagInv == UniqueInv /\ NewTagInv /\ TagLockInv

\* The tag n of the transaction of q has the id t, until it ends.
HasTag(q, n, t) == <<n, t>> \in q.tx.newTags \/ (tag[n] = t /\ t \in q.tx.tagLocks)

\* Nobody else sets tags of the same URL.
Sole(q) == q.calm \/ q.tx.newUrl # 0

\* Then no link stays that q does not know of.
CalmOK(q) ==
    q.calm =>
        /\ q.pc = "delete links" => LinksOf(q.id) \subseteq q.want
        /\ q.pc \in Linking /\ ~q.aborted /\ q.retag =>
              LinksOf(q.id) \subseteq q.tx.gone

\* The links that q adds are to tags of its list, and it has added one for each that it
\* is through with.
DoneOK(q) ==
    /\ \A l \in q.tx.added : \E n \in Range(q.tags) : HasTag(q, n, l[2])
    /\ q.pc = "link" => HasTag(q, Head(q.todo), q.tid)
    /\ Sole(q) /\ q.pc \in Linking /\ ~q.aborted =>
         \A n \in Range(q.tags) \ Range(q.todo) :
            \E t \in TagIds : HasTag(q, n, t) /\ <<q.id, t>> \in q.tx.added

LinkInv == \A r \in Requests : CalmOK(req[r]) /\ DoneOK(req[r])

TxInv == TypeOK /\ StageInv /\ UrlInv /\ TagInv /\ LinkInv

-----------------------------------------------------------------------------
(* Sequences, ids and types. *)

LEMMA RangeOfEmpty == Range(<<>>) = {}
BY EmptySeq DEF Range

LEMMA HeadAndTail ==
    ASSUME NEW s \in Seq(Names), s # <<>>
    PROVE  /\ Head(s) \in Names
           /\ Tail(s) \in Seq(Names)
           /\ Range(s) = {Head(s)} \cup Range(Tail(s))
<1>1. /\ Head(s) \in Names /\ Tail(s) \in Seq(Names) /\ Len(Tail(s)) = Len(s) - 1
      /\ \A i \in 1..Len(Tail(s)) : Tail(s)[i] = s[i + 1]
  BY HeadTailProperties
<1>2. Len(s) \in Nat \ {0} /\ Head(s) = s[1] /\ DOMAIN s = 1..Len(s)
  BY LenProperties, EmptySeq
<1>3. DOMAIN Tail(s) = 1..(Len(s) - 1)
  BY <1>1, LenProperties
<1>4. Range(s) \subseteq {Head(s)} \cup Range(Tail(s))
  <2>1. SUFFICES ASSUME NEW i \in 1..Len(s), i # 1
                 PROVE  s[i] \in Range(Tail(s))
    BY <1>2 DEF Range
  <2>2. i - 1 \in 1..(Len(s) - 1) /\ (i - 1) + 1 = i
    BY <1>2, <2>1
  <2>3. Tail(s)[i - 1] = s[i]
    BY <1>1, <2>2
  <2> QED
    BY <1>3, <2>2, <2>3 DEF Range
<1>5. Range(Tail(s)) \subseteq Range(s)
  <2>1. SUFFICES ASSUME NEW i \in 1..(Len(s) - 1)
                 PROVE  s[i + 1] \in Range(s)
    BY <1>1, <1>3 DEF Range
  <2> QED
    BY <1>2, <2>1 DEF Range
<1>6. Head(s) \in Range(s)
  BY <1>2 DEF Range
<1> QED
  BY <1>1, <1>4, <1>5, <1>6

LEMMA Zero == 0 \notin UrlIds /\ 0 \notin TagIds
BY UrlTxAssumption

-----------------------------------------------------------------------------
(* One request. *)

LEMMA NoTxType == NoTx \in TxType
BY DEF NoTx, TxType

LEMMA IdleType ==
    /\ Idle \in RequestType
    /\ Idle.tx = NoTx /\ Idle.op = "none" /\ ~Idle.fields /\ ~Idle.aborted /\ ~Idle.stored
    /\ ~Idle.retag /\ ~Idle.calm /\ Idle.id = 0 /\ Idle.todo = <<>> /\ Idle.pc = "idle"
    /\ Idle.tags = <<>>
<1>1. AnyCode \in Codes /\ AnyName \in Names
  BY UrlTxAssumption DEF AnyCode, AnyName
<1>2. <<>> \in Seq(Names)
  OBVIOUS
<1> QED
  BY <1>1, <1>2, NoTxType DEF Idle, RequestType

\* Where a request holds nothing and remembers nothing of the tables.
Quiet(q) ==
    \/ q.aborted
    \/ q.pc \in {"idle", "acquire", "insert", "get existing", "write row", "lock row",
                 "upsert tag", "lock tag", "reread"}
    \/ q.pc = "find" /\ ~q.fields

LEMMA QuietHoldsNothing ==
    ASSUME NEW q \in RequestType, Stage(q), Holds(q), Quiet(q)
    PROVE  /\ q.tx.newUrl = 0 /\ q.tx.row = 0
           /\ q.tx.added = {} /\ q.tx.newTags = {} /\ q.tx.tagLocks = {}
           /\ q.aborted \/ q.id = 0
           /\ q.pc \notin {"rename tag", "cascade tag"}
           /\ CalmOK(q) /\ DoneOK(q)
<1>1. CASE q.aborted
  <2>1. /\ q.tx.newUrl = 0 /\ q.tx.row = 0
        /\ q.tx.added = {} /\ q.tx.newTags = {} /\ q.tx.tagLocks = {}
    <3>1. q.tx = NoTx
      BY <1>1 DEF Stage
    <3> QED
      BY <3>1 DEF NoTx
  <2>2. q.pc \in {"insert", "get existing", "commit"}
    BY <1>1 DEF Stage
  <2> QED
    BY <1>1, <2>1, <2>2 DEF CalmOK, DoneOK
<1>2. CASE ~q.aborted
  <2>1. /\ q.pc \notin SetTags \cup {"commit", "cascade url", "rename tag", "cascade tag"}
        /\ q.pc = "find" => ~q.fields
        /\ q.pc \notin {"tag", "link", "commit", "delete links"}
    BY <1>2 DEF Quiet, SetTags
  <2>2. /\ q.tx.newUrl = 0 /\ q.tx.row = 0 /\ q.id = 0
        /\ q.tx.added = {} /\ q.tx.newTags = {} /\ q.tx.tagLocks = {}
    BY <2>1 DEF Holds, Linking
  <2> QED
    BY <2>1, <2>2 DEF CalmOK, DoneOK, Linking
<1> QED
  BY <1>1, <1>2

\* Requests that look the same but for what they only remember of the table url_tags, and
\* of the id of a row that may be gone.
Similar(p, q) ==
    /\ p \in RequestType
    /\ p.pc = q.pc /\ p.op = q.op /\ p.code = q.code /\ p.tags = q.tags
    /\ p.fields = q.fields /\ p.retag = q.retag /\ p.aborted = q.aborted /\ p.tx = q.tx
    /\ p.old = q.old /\ p.tid = q.tid /\ p.todo = q.todo
    /\ p.stored = q.stored

LEMMA SimilarRequests ==
    ASSUME NEW q, NEW p, Similar(p, q), p.id = q.id, Stage(q), Holds(q)
    PROVE  Stage(p) /\ Holds(p)
BY ZenonT(60) DEF Similar, Stage, Holds

-----------------------------------------------------------------------------
(* A step of one request that changes no table. *)

LEMMA FreshTagIsNew ==
    ASSUME NEW i \in FreshTag
    PROVE  /\ i \in TagIds /\ i \notin Range(tag)
           /\ \A q \in Requests : \A s \in req[q].tx.newTags : s[2] # i
<1>1. i \in TagIds /\ i \notin Range(tag)
  BY DEF FreshTag, Least
<1>2. ASSUME NEW q \in Requests, NEW s \in req[q].tx.newTags
      PROVE  s[2] # i
  <2>1. s[2] \in {t[2] : t \in req[q].tx.newTags}
    OBVIOUS
  <2>2. s[2] \in UNION {{t[2] : t \in req[p].tx.newTags} : p \in Requests}
    BY <2>1
  <2> QED
    BY <2>2 DEF FreshTag, Least
<1> QED
  BY <1>1, <1>2

\* What r locks in urls as p was free.
UrlMove(r, p) ==
    /\ p.tx.row # 0 =>
          /\ p.tx.row = url[p.code]
          /\ RowLockers(p.tx.row) \subseteq {r}
          /\ p.op = "delete" => Sharers(p.tx.row) \subseteq {r}
    /\ p.tx.newUrl # 0 =>
          \/ p.tx.newUrl = req[r].tx.newUrl /\ p.code = req[r].code
          \/ p.tx.newUrl \in FreshUrl /\ url[p.code] = 0 /\ Inserting(p.code) \subseteq {r}
    /\ p.id # 0 /\ ~p.aborted /\ p.tx.newUrl = 0 => p.id \in Range(url)
    /\ \A l \in p.tx.added : l \in req[r].tx.added \/
          \A d \in RowLockers(l[1]) : req[d].op # "delete"

\* What r locks in tags as p was free.
TagMove(r, p) ==
    /\ \A t \in p.tx.newTags \ req[r].tx.newTags :
          /\ tag[t[1]] = 0 /\ t[2] \in FreshTag /\ Naming(t[1]) = {}
          /\ p.tx.newTags = req[r].tx.newTags \cup {t}
    /\ \A t \in p.tx.tagLocks \ req[r].tx.tagLocks :
          t \in Range(tag) /\ TagLockers(t) \subseteq {r}
    /\ p.pc \in {"rename tag", "cascade tag"} => tag[p.old] = p.tid

Moves(r, p) ==
    /\ p \in RequestType /\ Stage(p) /\ Holds(p)
    /\ UrlMove(r, p) /\ TagMove(r, p) /\ CalmOK(p) /\ DoneOK(p)
    /\ req' = [req EXCEPT ![r] = p]
    /\ UNCHANGED <<url, tag, links>>

LEMMA MoveUrls ==
    ASSUME TxInv, NEW r \in Requests, NEW p, Moves(r, p)
    PROVE  UrlInv'
<1>1. /\ req'[r] = p /\ (\A s \in Requests \ {r} : req'[s] = req[s])
      /\ url' = url /\ p \in RequestType /\ p.tx \in TxType /\ Stage(p) /\ Holds(p)
  BY DEF TxInv, TypeOK, Moves, RequestType
<1>2. \A s \in Requests : /\ req[s] \in RequestType /\ req[s].tx \in TxType
                          /\ Stage(req[s]) /\ Holds(req[s])
  BY DEF TxInv, TypeOK, RequestType, StageInv
<1>3. UrlMove(r, p) /\ UrlInv
  BY DEF Moves, TxInv
<1>4. RowInv'
  <2>1. ASSUME NEW s \in Requests \ {r}, req[s].tx.row # 0
        PROVE  /\ url[req[s].code] = req[s].tx.row
               /\ \A q \in Requests \ {s} : req'[q].tx.row # req[s].tx.row
               /\ req[s].op = "delete" =>
                    \A q \in Requests : \A l \in req'[q].tx.added : req[s].tx.row # l[1]
    <3>1. p.tx.row # req[s].tx.row
      BY <1>1, <1>3, <2>1 DEF UrlMove, RowLockers
    <3>2. req[s].op = "delete" => \A l \in p.tx.added : req[s].tx.row # l[1]
      BY <1>1, <1>3, <2>1 DEF UrlMove, RowLockers, UrlInv, RowInv
    <3> QED
      BY <1>1, <1>3, <2>1, <3>1, <3>2 DEF UrlInv, RowInv
  <2>2. ASSUME p.tx.row # 0
        PROVE  /\ url[p.code] = p.tx.row
               /\ \A q \in Requests \ {r} : req[q].tx.row # p.tx.row
               /\ p.op = "delete" =>
                    \A q \in Requests : \A l \in req'[q].tx.added : p.tx.row # l[1]
    <3>1. \A q \in Requests \ {r} : req[q].tx.row # p.tx.row
      BY <1>3, <2>2 DEF UrlMove, RowLockers
    <3>2. p.op = "delete" => p.tx.added = {}
      BY <1>1 DEF Stage, Holds, Linking, SetTags
    <3>3. p.op = "delete" => \A q \in Requests \ {r} : \A l \in req[q].tx.added : p.tx.row # l[1]
      BY <1>3, <2>2 DEF UrlMove, Sharers
    <3> QED
      BY <1>1, <1>3, <2>2, <3>1, <3>2, <3>3 DEF UrlMove
  <2> QED
    BY <1>1, <2>1, <2>2 DEF RowInv
<1>5. NewInv'
  <2>1. ASSUME p.tx.newUrl # 0
        PROVE  /\ url[p.code] = 0
               /\ p.tx.newUrl \notin Range(url)
               /\ \A q \in Requests \ {r} : req[q].tx.newUrl # 0 =>
                     req[q].tx.newUrl # p.tx.newUrl /\ req[q].code # p.code
    <3>1. CASE p.tx.newUrl = req[r].tx.newUrl /\ p.code = req[r].code
      BY <1>3, <2>1, <3>1 DEF UrlInv, NewInv
    <3>2. CASE p.tx.newUrl \in FreshUrl /\ url[p.code] = 0 /\ Inserting(p.code) \subseteq {r}
      BY <2>1, <3>2 DEF FreshUrl, Least, Inserting
    <3> QED
      BY <1>3, <2>1, <3>1, <3>2 DEF UrlMove
  <2> QED
    BY <1>1, <1>3, <2>1 DEF UrlInv, NewInv
<1>6. IdInv'
  BY <1>1, <1>3 DEF UrlMove, UrlInv, IdInv
<1> QED
  BY <1>4, <1>5, <1>6 DEF UrlInv

LEMMA MoveTags ==
    ASSUME TxInv, NEW r \in Requests, NEW p, Moves(r, p)
    PROVE  TagInv'
<1>1. /\ req'[r] = p /\ (\A s \in Requests \ {r} : req'[s] = req[s])
      /\ tag' = tag
  BY DEF TxInv, TypeOK, Moves
<1>2. TagMove(r, p) /\ TagInv
  BY DEF Moves, TxInv
<1>3. UniqueInv'
  BY <1>1, <1>2 DEF TagInv, UniqueInv
<1>4. NewTagInv'
  <2>1. ASSUME NEW t \in p.tx.newTags
        PROVE  tag[t[1]] = 0 /\ t[2] \notin Range(tag)
    BY <1>2 DEF TagMove, FreshTag, Least, TagInv, NewTagInv
  <2>2. ASSUME NEW t \in p.tx.newTags, NEW q \in Requests \ {r}, NEW s \in req[q].tx.newTags
        PROVE  t[1] # s[1] /\ t[2] # s[2]
    <3>1. CASE t \in req[r].tx.newTags
      BY <1>2, <3>1, <2>2 DEF TagInv, NewTagInv
    <3>2. CASE t \notin req[r].tx.newTags
      BY <1>2, <3>2, <2>2, FreshTagIsNew DEF TagMove, Naming
    <3> QED
      BY <3>1, <3>2
  <2>3. ASSUME NEW t \in p.tx.newTags, NEW s \in p.tx.newTags, t[1] = s[1] \/ t[2] = s[2]
        PROVE  t = s
    <3>1. ASSUME NEW x \in p.tx.newTags, NEW y \in req[r].tx.newTags, x \notin req[r].tx.newTags
          PROVE  x[1] # y[1] /\ x[2] # y[2]
      BY <1>2, <3>1, FreshTagIsNew DEF TagMove, Naming
    <3>2. CASE t \in req[r].tx.newTags /\ s \in req[r].tx.newTags
      BY <1>2, <2>3, <3>2 DEF TagInv, NewTagInv
    <3>3. CASE t \notin req[r].tx.newTags /\ s \notin req[r].tx.newTags
      <4>1. p.tx.newTags = req[r].tx.newTags \cup {t}
        BY <1>2, <2>3, <3>3 DEF TagMove
      <4> QED
        BY <2>3, <3>3, <4>1
    <3> QED
      BY <2>3, <3>1, <3>2, <3>3
  <2> QED
    BY <1>1, <1>2, <2>1, <2>2, <2>3 DEF TagInv, NewTagInv
<1>5. TagLockInv'
  <2>1. p.tx.tagLocks \subseteq Range(tag)
    BY <1>2 DEF TagMove, TagInv, TagLockInv
  <2>2. ASSUME NEW q \in Requests \ {r}, NEW t \in p.tx.tagLocks
        PROVE  t \notin req[q].tx.tagLocks
    <3>1. t # 0
      BY Zero DEF Moves, RequestType, TxType
    <3> QED
      BY <1>2, <3>1 DEF TagMove, TagLockers, TagInv, TagLockInv
  <2>3. p.pc \in {"rename tag", "cascade tag"} => tag[p.old] = p.tid
    BY <1>2 DEF TagMove
  <2> QED
    BY <1>1, <1>2, <2>1, <2>2, <2>3 DEF TagInv, TagLockInv
<1> QED
  BY <1>3, <1>4, <1>5 DEF TagInv

LEMMA MoveStep ==
    ASSUME TxInv, NEW r \in Requests, NEW p, Moves(r, p)
    PROVE  TxInv'
<1>1. /\ req'[r] = p /\ (\A s \in Requests \ {r} : req'[s] = req[s])
      /\ req' \in [Requests -> RequestType]
  BY DEF TxInv, TypeOK, Moves
<1>2. TypeOK'
  BY <1>1 DEF TxInv, TypeOK, Moves
<1>3. StageInv'
  BY <1>1 DEF TxInv, StageInv, Moves
<1>4. LinkInv'
  <2>1. ASSUME NEW q, CalmOK(q), DoneOK(q)
        PROVE  /\ (q.calm =>
                    /\ q.pc = "delete links" => LinksOf(q.id) \subseteq q.want
                    /\ q.pc \in Linking /\ ~q.aborted /\ q.retag =>
                          LinksOf(q.id) \subseteq q.tx.gone)
    BY <2>1 DEF CalmOK
  <2>2. links' = links /\ tag' = tag
    BY DEF Moves
  <2>3. ASSUME NEW s \in Requests
        PROVE  CalmOK(req[s])' /\ DoneOK(req[s])'
    <3>1. CalmOK(req'[s]) /\ DoneOK(req'[s])
      BY <1>1 DEF TxInv, LinkInv, Moves
    <3>2. CalmOK(req[s])'
      BY <2>2, <3>1 DEF CalmOK, LinksOf
    <3>3. DoneOK(req[s])'
      BY <2>2, <3>1 DEF DoneOK, HasTag, Sole
    <3> QED
      BY <3>2, <3>3
  <2> QED
    BY <2>3 DEF LinkInv
<1> QED
  BY <1>2, <1>3, <1>4, MoveUrls, MoveTags DEF TxInv

\* In particular a step after which r holds nothing.
LEMMA QuietStep ==
    ASSUME TxInv, NEW r \in Requests, NEW p \in RequestType, Stage(p), Holds(p), Quiet(p),
           req' = [req EXCEPT ![r] = p], UNCHANGED <<url, tag, links>>
    PROVE  TxInv'
<1>1. UrlMove(r, p) /\ TagMove(r, p) /\ CalmOK(p) /\ DoneOK(p)
  BY QuietHoldsNothing DEF UrlMove, TagMove
<1> QED
  BY <1>1, MoveStep DEF Moves

-----------------------------------------------------------------------------
(* The steps that change no table. *)

\* What is known of a request.
LEMMA Known ==
    ASSUME TxInv, NEW r \in Requests
    PROVE  /\ req[r] \in RequestType /\ req[r].tx \in TxType
           /\ Stage(req[r]) /\ Holds(req[r]) /\ CalmOK(req[r]) /\ DoneOK(req[r])
BY DEF TxInv, TypeOK, RequestType, StageInv, LinkInv

LEMMA Ends ==
    ASSUME TxInv, NEW r \in Requests, NEW stored \in BOOLEAN, End(r, stored),
           UNCHANGED <<url, tag, links>>
    PROVE  TxInv'
<1> DEFINE p == [Idle EXCEPT !.stored = stored]
<1>1. p \in RequestType
  BY ZenonT(60), IdleType DEF RequestType
<1>2. /\ p.tx = NoTx /\ p.op = "none" /\ ~p.fields /\ ~p.aborted
      /\ p.id = 0 /\ p.todo = <<>> /\ p.pc = "idle" /\ p.tags = <<>>
  BY DEF Idle
<1> HIDE DEF p
<1>3. Stage(p) /\ Quiet(p)
  BY <1>2 DEF Stage, Quiet, SetTags
<1>4. Holds(p)
  BY <1>2, RangeOfEmpty DEF Holds, SetTags, Linking, NoTx
<1>5. req' = [req EXCEPT ![r] = p]
  BY DEF End, p
<1> QED
  BY <1>1, <1>3, <1>4, <1>5, QuietStep

LEMMA Starts ==
    ASSUME TxInv, NEW r \in Requests, Post(r)
    PROVE  TxInv'
<1>1. ASSUME NEW q \in RequestType, NEW op, Start(r, op, q),
             q.tx = NoTx, ~q.aborted, q.id = 0, q.todo = <<>>,
             q.fields => op = "edit", op = "edit" => q.fields \/ q.retag,
             q.tags # <<>> => q.retag
      PROVE  TxInv'
  <2> DEFINE p == [q EXCEPT !.pc = "acquire", !.op = op]
  <2>1. /\ p \in RequestType /\ p.tx = NoTx /\ p.aborted = q.aborted /\ p.id = 0
        /\ p.todo = <<>> /\ p.pc = "acquire" /\ p.op = op /\ p.tags = q.tags
        /\ p.fields = q.fields /\ p.retag = q.retag
    BY ZenonT(60), <1>1 DEF RequestType, Start
  <2> HIDE DEF p
  <2>2. Stage(p) /\ Quiet(p)
    BY <1>1, <2>1 DEF Stage, Quiet, SetTags
  <2>3. Holds(p)
    BY <1>1, <2>1, RangeOfEmpty DEF Holds, SetTags, Linking, NoTx
  <2>4. req' = [req EXCEPT ![r] = p] /\ UNCHANGED <<url, tag, links>>
    BY <1>1 DEF Start, p
  <2> QED
    BY <2>1, <2>2, <2>3, <2>4, QuietStep
<1>2. ASSUME NEW s \in BOOLEAN, NEW g \in BOOLEAN, NEW c \in Codes, NEW T \in TagLists,
             T # <<>> => g,
             Start(r, "create", [Idle EXCEPT !.slug = s, !.code = c, !.tags = T, !.retag = g])
      PROVE  TxInv'
  <2> DEFINE q == [Idle EXCEPT !.slug = s, !.code = c, !.tags = T, !.retag = g]
  <2>1. /\ q \in RequestType /\ q.tx = NoTx /\ ~q.aborted /\ q.id = 0 /\ q.todo = <<>>
        /\ ~q.fields /\ q.tags = T /\ q.retag = g
    BY ZenonT(120), IdleType, UrlTxAssumption DEF RequestType
  <2> HIDE DEF q
  <2>2. Start(r, "create", q) /\ (q.tags # <<>> => q.retag)
    BY <1>2, <2>1 DEF q
  <2> QED
    BY <1>1, <2>1, <2>2
<1>3. ASSUME NEW f \in BOOLEAN, NEW g \in BOOLEAN, NEW c \in Codes, NEW T \in TagLists,
             f \/ g, T # <<>> => g,
             Start(r, "edit", [Idle EXCEPT !.code = c, !.tags = T, !.fields = f, !.retag = g])
      PROVE  TxInv'
  <2> DEFINE q == [Idle EXCEPT !.code = c, !.tags = T, !.fields = f, !.retag = g]
  <2>1. /\ q \in RequestType /\ q.tx = NoTx /\ ~q.aborted /\ q.id = 0 /\ q.todo = <<>>
        /\ q.fields = f /\ q.tags = T /\ q.retag = g
    BY ZenonT(120), IdleType, UrlTxAssumption DEF RequestType
  <2> HIDE DEF q
  <2>2. Start(r, "edit", q) /\ (q.fields \/ q.retag) /\ (q.tags # <<>> => q.retag)
    BY <1>3, <2>1 DEF q
  <2> QED
    BY <1>1, <2>1, <2>2
<1>4. ASSUME NEW c \in Codes, NEW n \in Names, NEW m \in Names,
             \/ Start(r, "delete", [Idle EXCEPT !.code = c])
             \/ Start(r, "create tag", [Idle EXCEPT !.new = n])
             \/ Start(r, "rename tag", [Idle EXCEPT !.old = n, !.new = m])
             \/ Start(r, "delete tag", [Idle EXCEPT !.old = n])
      PROVE  TxInv'
  <2>1. ASSUME NEW q \in {[Idle EXCEPT !.code = c], [Idle EXCEPT !.new = n],
                          [Idle EXCEPT !.old = n, !.new = m], [Idle EXCEPT !.old = n]}
        PROVE  /\ q \in RequestType /\ q.tx = NoTx /\ ~q.aborted /\ q.id = 0
               /\ q.todo = <<>> /\ ~q.fields /\ q.tags = <<>>
    <3>1. CASE q = [Idle EXCEPT !.code = c]
      BY ZenonT(60), <3>1, IdleType DEF RequestType
    <3>2. CASE q = [Idle EXCEPT !.new = n]
      BY ZenonT(60), <3>2, IdleType DEF RequestType
    <3>3. CASE q = [Idle EXCEPT !.old = n, !.new = m]
      BY ZenonT(60), <3>3, IdleType DEF RequestType
    <3>4. CASE q = [Idle EXCEPT !.old = n]
      BY ZenonT(60), <3>4, IdleType DEF RequestType
    <3> QED
      BY <2>1, <3>1, <3>2, <3>3, <3>4
  <2>2. ASSUME NEW q \in {[Idle EXCEPT !.code = c], [Idle EXCEPT !.new = n],
                          [Idle EXCEPT !.old = n, !.new = m], [Idle EXCEPT !.old = n]},
               NEW op \in {"delete", "create tag", "rename tag", "delete tag"},
               Start(r, op, q)
        PROVE  TxInv'
    <3>1. op # "edit"
      OBVIOUS
    <3> QED
      BY <1>1, <2>1, <2>2, <3>1
  <2> QED
    BY <1>4, <2>2
<1>5. PICK c \in Codes, n \in Names : TRUE
  BY UrlTxAssumption
<1> QED
  BY <1>2, <1>3, <1>4, <1>5
  DEF Post, PostURL, PatchURL, DeleteURL, PostTag, PatchTag, DeleteTag

LEMMA AcquireStep ==
    ASSUME TxInv, NEW r \in Requests, Acquire(r)
    PROVE  TxInv'
<1> DEFINE q == req[r]
           p == [q EXCEPT !.pc = FirstStatement(q), !.conn = TRUE]
<1>1. q \in RequestType /\ Stage(q) /\ Holds(q) /\ q.pc = "acquire"
  BY Known DEF Acquire
<1>2. /\ q.op = "create" => FirstStatement(q) = "insert"
      /\ q.op = "edit" => FirstStatement(q) = IF q.fields THEN "write row" ELSE "find"
      /\ q.op = "delete" => FirstStatement(q) = "lock row"
      /\ q.op \notin {"create", "edit", "delete"} =>
            FirstStatement(q) \in {"upsert tag", "lock tag"}
  BY DEF FirstStatement
<1>3. FirstStatement(q) \in {"insert", "write row", "find", "lock row", "upsert tag", "lock tag"}
  BY <1>2
<1>4. /\ p \in RequestType /\ p.pc = FirstStatement(q) /\ p.tx = q.tx /\ p.op = q.op
      /\ p.fields = q.fields /\ p.retag = q.retag /\ p.tags = q.tags /\ p.todo = q.todo
      /\ p.aborted = q.aborted /\ p.id = q.id
  BY ZenonT(30), <1>1, <1>3 DEF RequestType
<1>5. req' = [req EXCEPT ![r] = p]
  BY <1>1 DEF Acquire, TxInv, TypeOK
<1>6. UNCHANGED <<url, tag, links>>
  BY DEF Acquire
<1> HIDE DEF p, q
<1>7. ~q.aborted
  BY <1>1 DEF Stage
<1>8. p.pc = "find" => ~p.fields
  BY <1>2, <1>4
<1>9. Stage(p)
  BY <1>1, <1>2, <1>4, <1>7 DEF Stage, SetTags
<1>10. Holds(p)
  BY <1>1, <1>3, <1>4, <1>8 DEF Holds, SetTags, Linking
<1>11. Quiet(p)
  BY <1>3, <1>4, <1>8 DEF Quiet
<1> QED
  BY <1>4, <1>5, <1>6, <1>9, <1>10, <1>11, QuietStep

\* A create whose transaction failed.
LEMMA AbortedCreate ==
    ASSUME NEW q \in RequestType, Stage(q), Holds(q), q.op = "create",
           NEW pc \in {"get existing", "insert", "commit"}, pc = "commit" \/ q.id = 0
    PROVE  LET p == Aborted(q, pc) IN
             p \in RequestType /\ Stage(p) /\ Holds(p) /\ Quiet(p)
<1> DEFINE p == Aborted(q, pc)
<1>1. /\ p \in RequestType /\ p.pc = pc /\ p.aborted /\ p.tx = NoTx
      /\ p.op = "create" /\ p.fields = q.fields /\ p.retag = q.retag
      /\ p.tags = q.tags /\ p.todo = q.todo
      /\ p.id = q.id
  BY NoTxType DEF RequestType, Aborted
<1>2. ~q.fields /\ Range(q.todo) \subseteq Range(q.tags)
  BY DEF Stage, Holds
<1> HIDE DEF p
<1>3. ~p.fields
  BY <1>1, <1>2
<1>4. Stage(p)
  <2>1. p.pc \notin {"write row", "find", "lock row", "cascade url"} \cup SetTags
    BY <1>1 DEF SetTags
  <2> QED
    BY <1>1, <1>3, <2>1 DEF Stage
<1>5. Holds(p)
  <2>1. /\ NoTx.newUrl = 0 /\ NoTx.row = 0 /\ NoTx.added = {} /\ NoTx.newTags = {}
        /\ NoTx.tagLocks = {}
    BY DEF NoTx
  <2>2. p.pc \notin {"cascade url", "rename tag", "cascade tag"} \cup SetTags
    BY <1>1 DEF SetTags
  <2>3. p.pc = "commit" \/ p.id = 0
    BY <1>1
  <2> QED
    BY <1>1, <1>2, <1>3, <2>1, <2>2, <2>3 DEF Holds
<1>6. Quiet(p)
  BY <1>1 DEF Quiet
<1> QED
  BY <1>1, <1>4, <1>5, <1>6 DEF p

LEMMA ErrorStep ==
    ASSUME TxInv, NEW r \in Requests, StatementError(r), UNCHANGED <<url, tag, links>>
    PROVE  TxInv'
<1>1. CASE End(r, FALSE)
  BY <1>1, Ends
<1>2. CASE /\ req[r].op = "create" /\ req[r].pc \in SetTags
           /\ req' = [req EXCEPT ![r] = Aborted(@, "commit")]
  <2>1. req[r] \in RequestType /\ Stage(req[r]) /\ Holds(req[r])
    BY Known
  <2>2. req' = [req EXCEPT ![r] = Aborted(req[r], "commit")]
    BY <1>2 DEF TxInv, TypeOK
  <2> QED
    BY <1>2, <2>1, <2>2, AbortedCreate, QuietStep
<1> QED
  BY <1>1, <1>2 DEF StatementError, SetTags

\* A statement that runs waits for nobody.
LEMMA MayRunAlone ==
    ASSUME NEW r \in Requests, NEW pc, MayRun(r, pc), ~req[r].aborted
    PROVE  req[r].pc = pc /\ Holders(r) \subseteq {r}
BY DEF MayRun, WaitsFor

LEMMA InsertURLStep ==
    ASSUME TxInv, NEW r \in Requests, InsertURL(r)
    PROVE  TxInv'
<1> DEFINE q == req[r]
<1>1. /\ q \in RequestType /\ q.tx \in TxType /\ Stage(q) /\ Holds(q) /\ q.pc = "insert"
      /\ UNCHANGED <<url, tag, links>>
  BY Known DEF InsertURL, MayRun
<1>2. q.op = "create" /\ ~q.fields /\ q.id = 0 /\ q.tx.added = {} /\ q.tx.newTags = {}
      /\ q.tx.tagLocks = {} /\ q.tx.row = 0 /\ Range(q.todo) \subseteq Range(q.tags)
  BY <1>1 DEF Stage, Holds, SetTags, Linking
<1>3. CASE End(r, FALSE)
  BY <1>1, <1>3, Ends
<1>4. ASSUME NEW pc \in {"get existing", "insert"},
             req' = [req EXCEPT ![r] = Aborted(@, pc)]
      PROVE  TxInv'
  <2>1. req' = [req EXCEPT ![r] = Aborted(q, pc)]
    BY <1>4 DEF TxInv, TypeOK
  <2> QED
    BY <1>1, <1>2, <2>1, AbortedCreate, QuietStep
<1>5. ASSUME NEW u \in FreshUrl, ~q.aborted, url[q.code] = 0,
             req' = [req EXCEPT ![r].id = u, ![r].tx.newUrl = u, ![r].slug = FALSE,
                          ![r].pc = IF req[r].retag THEN "find links" ELSE "commit"]
      PROVE  TxInv'
  <2> DEFINE pc == IF q.retag THEN "find links" ELSE "commit"
             x == [q.tx EXCEPT !.newUrl = u]
             p == [q EXCEPT !.id = u, !.tx = x, !.slug = FALSE, !.pc = pc]
  <2>1. u \in UrlIds /\ u # 0
    BY Zero DEF FreshUrl, Least
  <2>2. /\ x \in TxType /\ x.newUrl = u /\ x.row = q.tx.row /\ x.added = q.tx.added
        /\ x.newTags = q.tx.newTags /\ x.tagLocks = q.tx.tagLocks /\ x.gone = q.tx.gone
    BY <1>1, <2>1 DEF TxType
  <2>3. req' = [req EXCEPT ![r] = p]
    BY <1>1, <1>5 DEF TxInv, TypeOK, RequestType
  <2>5. pc \in {"commit", "find links"} /\ (pc = "commit" <=> ~q.retag)
    OBVIOUS
  <2> HIDE DEF x, pc
  <2>4. /\ p \in RequestType /\ p.pc = pc /\ p.aborted = q.aborted /\ p.tx = x
        /\ p.op = q.op /\ p.fields = q.fields /\ p.retag = q.retag
        /\ p.tags = q.tags /\ p.todo = q.todo
        /\ p.id = u /\ p.code = q.code /\ p.calm = q.calm
    BY ZenonT(60), <1>1, <2>1, <2>2, <2>5 DEF RequestType
  <2>6. q.todo = <<>> /\ (q.tags # <<>> => q.retag)
    BY <1>1, <1>5 DEF Stage
  <2> HIDE DEF p, q
  <2>7. Stage(p)
    BY <1>2, <1>5, <2>4, <2>5, <2>6 DEF Stage, SetTags
  <2>8. Holds(p)
    BY <1>2, <1>5, <2>1, <2>2, <2>4, <2>5 DEF Holds, SetTags, Linking
  <2>9. UrlMove(r, p)
    <3>1. Inserting(q.code) \subseteq {r}
      <4>1. Holders(r) = Inserting(q.code)
        BY <1>1 DEF Holders, q
      <4> QED
        BY <1>5, <4>1, MayRunAlone DEF InsertURL, q
    <3> QED
      BY <1>2, <1>5, <2>1, <2>2, <2>4, <3>1 DEF UrlMove, q
  <2>10. TagMove(r, p)
    <3>1. p.tx.newTags = {} /\ p.tx.tagLocks = {} /\ p.pc \notin {"rename tag", "cascade tag"}
      BY <1>2, <2>2, <2>4, <2>5
    <3> QED
      BY <3>1 DEF TagMove
  <2>11. CalmOK(p)
    BY <2>4, <2>5 DEF CalmOK, Linking
  <2>12. DoneOK(p)
    BY <1>2, <2>2, <2>4, <2>5, <2>6, RangeOfEmpty DEF DoneOK, Linking
  <2> QED
    BY <1>1, <2>3, <2>4, <2>7, <2>8, <2>9, <2>10, <2>11, <2>12, MoveStep DEF Moves
<1> QED
  BY <1>3, <1>4, <1>5 DEF InsertURL

\* The UPDATE of urls, and the DELETE.
LEMMA RowStep ==
    ASSUME TxInv, NEW r \in Requests, WriteRow(r) \/ LockRow(r)
    PROVE  TxInv'
<1> DEFINE q == req[r]
           u == url[q.code]
<1>1. /\ q \in RequestType /\ q.tx \in TxType /\ Stage(q) /\ Holds(q)
      /\ q.pc \in {"write row", "lock row"} /\ WaitsFor(r) = {}
      /\ UNCHANGED <<url, tag, links>>
  BY Known DEF WriteRow, LockRow, MayRun
<1>2. /\ ~q.aborted /\ q.id = 0 /\ q.tx.added = {} /\ q.tx.newTags = {} /\ q.tx.newUrl = 0
      /\ q.tx.tagLocks = {} /\ Range(q.todo) \subseteq Range(q.tags) /\ q.todo = <<>>
      /\ q.tags # <<>> => q.retag
      /\ q.pc = "write row" => q.fields /\ q.op = "edit"
      /\ q.pc = "lock row" => ~q.fields /\ q.op = "delete"
  BY <1>1 DEF Stage, Holds, SetTags, Linking
<1>3. CASE End(r, FALSE)
  BY <1>1, <1>3, Ends
<1>4. ASSUME NEW pc, u # 0,
             \/ q.pc = "write row" /\ pc = IF q.retag THEN "find" ELSE "commit"
             \/ q.pc = "lock row" /\ pc = "cascade url",
             req' = [req EXCEPT ![r].tx.row = u, ![r].pc = pc]
      PROVE  TxInv'
  <2> DEFINE x == [q.tx EXCEPT !.row = u]
             p == [q EXCEPT !.tx = x, !.pc = pc]
  <2>1. u \in UrlIds /\ pc \in {"commit", "find", "cascade url"}
    BY <1>1, <1>4 DEF TxInv, TypeOK, RequestType
  <2>2. /\ x \in TxType /\ x.newUrl = 0 /\ x.row = u /\ x.added = {}
        /\ x.newTags = {} /\ x.tagLocks = {}
    BY <1>1, <1>2, <2>1 DEF TxType
  <2>3. req' = [req EXCEPT ![r] = p]
    BY <1>1, <1>4 DEF TxInv, TypeOK, RequestType
  <2> HIDE DEF x
  <2>4. /\ p \in RequestType /\ p.pc = pc /\ p.aborted = q.aborted /\ p.tx = x
        /\ p.op = q.op /\ p.fields = q.fields /\ p.retag = q.retag
        /\ p.tags = q.tags /\ p.todo = q.todo
        /\ p.id = q.id /\ p.code = q.code
    BY ZenonT(60), <1>1, <2>1, <2>2 DEF RequestType
  <2>5. p.pc = "commit" => ~p.retag
    BY <1>4, <2>4
  <2> HIDE DEF p, q, u
  <2>6. Stage(p)
    BY <1>1, <1>2, <1>4, <2>4 DEF Stage, SetTags
  <2>7. Holds(p)
    BY <1>1, <1>2, <1>4, <2>1, <2>2, <2>4, <2>5, Zero DEF Holds, SetTags, Linking
  <2>8. UrlMove(r, p)
    <3>1. Holders(r) \subseteq {r}
      BY <1>1, <1>2 DEF WaitsFor, q
    <3>2. RowLockers(u) \subseteq {r} /\ (p.op = "delete" => Sharers(u) \subseteq {r})
      <4>1. CASE q.pc = "write row"
        <5>1. Holders(r) = RowLockers(u)
          BY <4>1 DEF Holders, q, u
        <5> QED
          BY <1>2, <2>4, <3>1, <4>1, <5>1
      <4>2. CASE q.pc = "lock row"
        <5>1. Holders(r) = RowLockers(u) \cup Sharers(u)
          BY <4>2 DEF Holders, q, u
        <5> QED
          BY <3>1, <5>1
      <4> QED
        BY <1>1, <4>1, <4>2
    <3>3. p.tx.row = url[p.code]
      BY <2>2, <2>4 DEF u
    <3> QED
      BY <1>2, <2>2, <2>4, <3>2, <3>3 DEF UrlMove
  <2>9. TagMove(r, p)
    BY <2>1, <2>2, <2>4 DEF TagMove
  <2>10. CalmOK(p)
    BY <2>1, <2>4, <2>5 DEF CalmOK, Linking
  <2>11. DoneOK(p)
    BY <1>2, <2>1, <2>2, <2>4, <2>5, RangeOfEmpty DEF DoneOK, Linking
  <2> QED
    BY <1>1, <2>3, <2>4, <2>6, <2>7, <2>8, <2>9, <2>10, <2>11, MoveStep DEF Moves
<1>5. CASE WriteRow(r)
  <2>1. q.pc = "write row"
    BY <1>5 DEF WriteRow, MayRun
  <2> DEFINE pc == IF q.retag THEN "find" ELSE "commit"
  <2>2. End(r, FALSE) \/ (u # 0 /\ req' = [req EXCEPT ![r].tx.row = u, ![r].pc = pc])
    BY <1>5 DEF WriteRow
  <2> QED
    BY <1>3, <1>4, <2>1, <2>2
<1>6. CASE LockRow(r)
  <2>1. q.pc = "lock row"
    BY <1>6 DEF LockRow, MayRun
  <2>2. End(r, FALSE)
          \/ (u # 0 /\ req' = [req EXCEPT ![r].tx.row = u, ![r].pc = "cascade url"])
    BY <1>6 DEF LockRow
  <2> QED
    BY <1>3, <1>4, <2>1, <2>2
<1> QED
  BY <1>5, <1>6

\* The row and the tags that a request has are not fresh locks when it keeps them.
LEMMA Keeps ==
    ASSUME TxInv, NEW r \in Requests, NEW p,
           p.tx.row = req[r].tx.row, p.tx.newUrl = req[r].tx.newUrl, p.code = req[r].code,
           p.op = req[r].op,
           p.id # 0 /\ ~p.aborted /\ p.tx.newUrl = 0 => p.id \in Range(url),
           \A l \in p.tx.added : l \in req[r].tx.added \/
              \A d \in RowLockers(l[1]) : req[d].op # "delete"
    PROVE  UrlMove(r, p)
<1>1. p.tx.row # 0 => /\ p.tx.row = url[p.code]
                      /\ RowLockers(p.tx.row) \subseteq {r}
                      /\ p.op = "delete" => Sharers(p.tx.row) \subseteq {r}
  BY DEF TxInv, UrlInv, RowInv, RowLockers, Sharers
<1> QED
  BY <1>1 DEF UrlMove

LEMMA KnownIds ==
    ASSUME TxInv, NEW r \in Requests
    PROVE  /\ req[r].id # 0 /\ ~req[r].aborted /\ req[r].tx.newUrl = 0
                => req[r].id \in Range(url)
           /\ req[r].tx.row # 0 => req[r].tx.row = url[req[r].code]
BY DEF TxInv, UrlInv, IdInv, RowInv

LEMMA FindURLStep ==
    ASSUME TxInv, NEW r \in Requests, FindURL(r)
    PROVE  TxInv'
<1> DEFINE q == req[r]
           u == url[q.code]
           p == [q EXCEPT !.id = u, !.pc = "find links"]
<1>1. /\ q \in RequestType /\ q.tx \in TxType /\ Stage(q) /\ Holds(q) /\ q.pc = "find"
      /\ UNCHANGED <<url, tag, links>>
  BY Known DEF FindURL
<1>2. CASE End(r, FALSE)
  BY <1>1, <1>2, Ends
<1>3. CASE u # 0 /\ req' = [req EXCEPT ![r].id = u, ![r].pc = "find links"]
  <2>1. u \in UrlIds /\ u \in Range(url)
    BY <1>1, <1>3 DEF TxInv, TypeOK, RequestType, Range
  <2>2. req' = [req EXCEPT ![r] = p]
    BY <1>1, <1>3 DEF TxInv, TypeOK, RequestType
  <2>3. /\ p \in RequestType /\ p.pc = "find links" /\ p.aborted = q.aborted /\ p.tx = q.tx
        /\ p.op = q.op /\ p.fields = q.fields /\ p.retag = q.retag
        /\ p.tags = q.tags /\ p.todo = q.todo
        /\ p.id = u /\ p.code = q.code
    BY <1>1, <2>1 DEF RequestType
  <2>4. /\ q.tx.newUrl = 0
        /\ q.tx.row # 0 => u = q.tx.row
        /\ q.tx.row # 0 <=> q.fields
        /\ q.tx.added = {} /\ q.tx.newTags = {} /\ q.tx.tagLocks = {}
        /\ q.retag /\ q.op = "edit" /\ ~q.aborted /\ q.todo = <<>>
        /\ Range(q.todo) \subseteq Range(q.tags)
    BY <1>1, KnownIds DEF Stage, Holds, SetTags, Linking
  <2> HIDE DEF p, u
  <2>5. Stage(p)
    BY <1>1, <2>3, <2>4 DEF Stage, SetTags
  <2>6. Holds(p)
    BY <2>3, <2>4 DEF Holds, SetTags, Linking
  <2>7. UrlMove(r, p)
    BY <2>1, <2>3, <2>4, Keeps
  <2>8. TagMove(r, p)
    BY <2>3, <2>4 DEF TagMove
  <2>9. CalmOK(p) /\ DoneOK(p)
    BY <2>3, <2>4 DEF CalmOK, DoneOK, Linking
  <2> QED
    BY <1>1, <2>2, <2>3, <2>5, <2>6, <2>7, <2>8, <2>9, MoveStep DEF Moves
<1> QED
  BY <1>2, <1>3 DEF FindURL

\* The DELETE of url_tags, in its two steps.
LEMMA FindLinksStep ==
    ASSUME TxInv, NEW r \in Requests, FindLinks(r)
    PROVE  TxInv'
<1> DEFINE q == req[r]
           L == LinksOf(q.id)
           p == [q EXCEPT !.want = L, !.pc = "delete links", !.calm = TRUE]
<1>1. /\ q \in RequestType /\ q.tx \in TxType /\ Stage(q) /\ Holds(q) /\ q.pc = "find links"
      /\ UNCHANGED <<url, tag, links>>
  BY Known DEF FindLinks
<1>2. L \in SUBSET Pairs
  BY DEF LinksOf, TxInv, TypeOK
<1>3. req' = [req EXCEPT ![r] = p]
  BY <1>1 DEF FindLinks, TxInv, TypeOK, RequestType
<1>4. /\ p \in RequestType /\ p.pc = "delete links" /\ p.aborted = q.aborted /\ p.tx = q.tx
      /\ p.op = q.op /\ p.fields = q.fields /\ p.retag = q.retag
      /\ p.tags = q.tags /\ p.todo = q.todo
      /\ p.id = q.id /\ p.code = q.code /\ p.want = L
  BY <1>1, <1>2 DEF RequestType
<1>5. /\ q.tx.added = {} /\ q.tx.newTags = {} /\ q.tx.tagLocks = {}
      /\ q.retag /\ q.op \in {"create", "edit"} /\ ~q.aborted /\ q.todo = <<>>
  BY <1>1 DEF Stage, Holds, SetTags, Linking
<1> HIDE DEF p
<1>6. Stage(p)
  BY <1>1, <1>4, <1>5 DEF Stage, SetTags
<1>7. Holds(p)
  BY <1>1, <1>4, <1>5 DEF Holds, SetTags, Linking
<1>8. UrlMove(r, p)
  BY ZenonT(120), <1>4, <1>5, Keeps, KnownIds
<1>9. TagMove(r, p)
  BY <1>4, <1>5 DEF TagMove
<1>10. CalmOK(p) /\ DoneOK(p)
  BY <1>4, <1>5 DEF CalmOK, DoneOK, Linking
<1> QED
  BY <1>1, <1>3, <1>4, <1>6, <1>7, <1>8, <1>9, <1>10, MoveStep DEF Moves

LEMMA DeleteLinksStep ==
    ASSUME TxInv, NEW r \in Requests, DeleteLinks(r)
    PROVE  TxInv'
<1> DEFINE q == req[r]
           x == [q.tx EXCEPT !.gone = q.want]
           pc == IF q.tags = <<>> THEN "commit" ELSE "tag"
           p == [q EXCEPT !.tx = x, !.want = {}, !.todo = q.tags, !.pc = pc]
<1>1. /\ q \in RequestType /\ q.tx \in TxType /\ Stage(q) /\ Holds(q) /\ CalmOK(q)
      /\ q.pc = "delete links" /\ UNCHANGED <<url, tag, links>>
  BY Known DEF DeleteLinks, MayRun
<1>2. /\ q.tx.added = {} /\ q.tx.newTags = {} /\ q.tx.tagLocks = {}
      /\ q.retag /\ q.op \in {"create", "edit"} /\ ~q.aborted
  BY <1>1 DEF Stage, Holds, SetTags, Linking
<1>3. /\ x \in TxType /\ x.newUrl = q.tx.newUrl /\ x.row = q.tx.row /\ x.added = {}
      /\ x.newTags = {} /\ x.tagLocks = {} /\ x.gone = q.want
  BY <1>1, <1>2 DEF TxType, RequestType
<1>4. req' = [req EXCEPT ![r] = p]
  BY <1>1 DEF DeleteLinks, TxInv, TypeOK, RequestType
<1> HIDE DEF x
<1>12. pc \in {"commit", "tag"} /\ (pc = "tag" <=> q.tags # <<>>)
  OBVIOUS
<1> HIDE DEF pc
<1>5. /\ p \in RequestType /\ p.pc = pc /\ p.aborted = q.aborted /\ p.tx = x
      /\ p.op = q.op /\ p.fields = q.fields /\ p.retag = q.retag
      /\ p.tags = q.tags /\ p.todo = q.tags
      /\ p.id = q.id /\ p.code = q.code /\ p.calm = q.calm
  BY <1>1, <1>3, <1>12 DEF RequestType
<1> HIDE DEF p
<1>6. Stage(p)
  BY <1>1, <1>2, <1>5, <1>12 DEF Stage, SetTags
<1>7. Holds(p)
  BY <1>1, <1>2, <1>3, <1>5, <1>12 DEF Holds, SetTags, Linking
<1>8. UrlMove(r, p)
  BY <1>2, <1>3, <1>5, <1>12, Keeps, KnownIds
<1>9. TagMove(r, p)
  BY <1>2, <1>3, <1>5, <1>12 DEF TagMove
<1>10. CalmOK(p)
  BY <1>1, <1>2, <1>3, <1>5, <1>12 DEF CalmOK, Linking
<1>11. DoneOK(p)
  BY <1>2, <1>3, <1>5, <1>12 DEF DoneOK
<1> QED
  BY <1>1, <1>4, <1>5, <1>6, <1>7, <1>8, <1>9, <1>10, <1>11, MoveStep DEF Moves

\* The tag of the list that is next: whatever r inserts or locks for it, it has an id then
\* and is to be linked.
LEMMA TagReady ==
    ASSUME TxInv, NEW r \in Requests, req[r].pc = "tag", NEW t \in TagIds, NEW x \in TxType,
           x.newUrl = req[r].tx.newUrl, x.row = req[r].tx.row, x.gone = req[r].tx.gone,
           x.added = req[r].tx.added, req[r].tx.newTags \subseteq x.newTags,
           req[r].tx.tagLocks \subseteq x.tagLocks,
           \/ <<Head(req[r].todo), t>> \in x.newTags
           \/ tag[Head(req[r].todo)] = t /\ t \in x.tagLocks,
           \A y \in x.newTags \ req[r].tx.newTags :
              /\ tag[y[1]] = 0 /\ y[2] \in FreshTag /\ Naming(y[1]) = {}
              /\ x.newTags = req[r].tx.newTags \cup {y},
           \A y \in x.tagLocks \ req[r].tx.tagLocks :
              y \in Range(tag) /\ TagLockers(y) \subseteq {r},
           req' = [req EXCEPT ![r] = [req[r] EXCEPT !.tid = t, !.pc = "link", !.tx = x]],
           UNCHANGED <<url, tag, links>>
    PROVE  TxInv'
<1> DEFINE q == req[r]
           n == Head(q.todo)
           p == [q EXCEPT !.tid = t, !.pc = "link", !.tx = x]
<1>1. /\ q \in RequestType /\ q.tx \in TxType /\ Stage(q) /\ Holds(q) /\ CalmOK(q)
      /\ DoneOK(q)
  BY Known
<1>2. q.retag /\ q.op \in {"create", "edit"} /\ ~q.aborted /\ q.todo # <<>>
  BY <1>1 DEF Stage, SetTags
<1>3. /\ p \in RequestType /\ p.pc = "link" /\ p.aborted = q.aborted /\ p.tx = x
      /\ p.op = q.op /\ p.fields = q.fields /\ p.retag = q.retag
      /\ p.tags = q.tags /\ p.todo = q.todo
      /\ p.id = q.id /\ p.code = q.code /\ p.calm = q.calm /\ p.tid = t
  BY <1>1 DEF RequestType
<1> HIDE DEF p
<1>4. Stage(p)
  BY <1>1, <1>2, <1>3 DEF Stage, SetTags
<1>5. Holds(p)
  BY <1>1, <1>2, <1>3 DEF Holds, SetTags, Linking
<1>6. UrlMove(r, p)
  BY <1>2, <1>3, Keeps, KnownIds
<1>7. TagMove(r, p)
  BY <1>3 DEF TagMove
<1>8. CalmOK(p)
  BY <1>1, <1>2, <1>3 DEF CalmOK, Linking
<1>9. ASSUME NEW m, NEW i, HasTag(q, m, i)
      PROVE  HasTag(p, m, i)
  BY <1>3, <1>9 DEF HasTag
<1>10. HasTag(p, n, t)
  BY <1>3 DEF HasTag
<1>11. DoneOK(p)
  <2>1. \A l \in p.tx.added : \E m \in Range(p.tags) : HasTag(p, m, l[2])
    BY <1>1, <1>3, <1>9 DEF DoneOK
  <2>2. HasTag(p, Head(p.todo), p.tid)
    BY <1>3, <1>10
  <2>3. Sole(p) => Sole(q)
    BY <1>3 DEF Sole
  <2>4. Sole(p) => \A m \in Range(p.tags) \ Range(p.todo) :
            \E i \in TagIds : HasTag(p, m, i) /\ <<p.id, i>> \in p.tx.added
    BY <1>1, <1>2, <1>3, <1>9, <2>3 DEF DoneOK, Linking
  <2> QED
    BY <2>1, <2>2, <2>4 DEF DoneOK
<1>12. req' = [req EXCEPT ![r] = p]
  BY DEF p
<1> QED
  BY <1>3, <1>4, <1>5, <1>6, <1>7, <1>8, <1>11, <1>12, MoveStep DEF Moves

LEMMA UpsertTagStep ==
    ASSUME TxInv, NEW r \in Requests, UpsertTag(r)
    PROVE  TxInv'
<1> DEFINE q == req[r]
           n == Head(q.todo)
           own == {t \in q.tx.newTags : t[1] = n}
<1>1. /\ q \in RequestType /\ q.tx \in TxType /\ Stage(q) /\ q.pc = "tag"
      /\ UNCHANGED <<url, tag, links>> /\ req \in [Requests -> RequestType]
  BY Known DEF UpsertTag, MayRun, TxInv, TypeOK
<1>2. ~q.aborted /\ q.todo # <<>>
  BY <1>1 DEF Stage, SetTags
<1>3. n \in Names
  BY <1>1, <1>2, HeadAndTail DEF RequestType
<1>4. Naming(n) \subseteq {r} /\ TagLockers(tag[n]) \subseteq {r}
  <2>1. Holders(r) = Naming(n) \cup TagLockers(tag[n])
    BY <1>1 DEF Holders
  <2> QED
    BY <1>2, <2>1, MayRunAlone DEF UpsertTag
<1>5. CASE /\ tag[n] # 0
           /\ req' = [req EXCEPT ![r].tid = tag[n], ![r].pc = "link",
                                 ![r].tx.tagLocks = @ \cup {tag[n]}]
  <2> DEFINE x == [q.tx EXCEPT !.tagLocks = @ \cup {tag[n]}]
  <2>1. tag[n] \in TagIds /\ tag[n] \in Range(tag)
    BY <1>3, <1>5 DEF TxInv, TypeOK, Range
  <2>2. /\ x \in TxType /\ x.newUrl = q.tx.newUrl /\ x.row = q.tx.row
        /\ x.gone = q.tx.gone /\ x.added = q.tx.added /\ x.newTags = q.tx.newTags
        /\ x.tagLocks = q.tx.tagLocks \cup {tag[n]}
    BY <1>1, <2>1 DEF TxType
  <2>3. req' = [req EXCEPT ![r] = [q EXCEPT !.tid = tag[n], !.pc = "link", !.tx = x]]
    BY <1>1, <1>5 DEF RequestType
  <2> HIDE DEF x
  <2> QED
    BY ZenonT(60), <1>1, <1>4, <2>1, <2>2, <2>3, TagReady
<1>6. ASSUME NEW y \in own,
             req' = [req EXCEPT ![r].tid = y[2], ![r].pc = "link"]
      PROVE  TxInv'
  <2>1. y[2] \in TagIds /\ <<n, y[2]>> \in q.tx.newTags
    <3>1. y \in Names \X TagIds /\ y[1] = n
      BY <1>1, <1>6 DEF TxType
    <3>2. y = <<y[1], y[2]>>
      BY <3>1
    <3> QED
      BY <1>6, <3>1, <3>2
  <2>2. req' = [req EXCEPT ![r] = [q EXCEPT !.tid = y[2], !.pc = "link"]]
    BY <1>1, <1>6 DEF RequestType
  <2>3. [q EXCEPT !.tid = y[2], !.pc = "link"]
          = [q EXCEPT !.tid = y[2], !.pc = "link", !.tx = q.tx]
    BY <1>1 DEF RequestType
  <2> QED
    BY <1>1, <2>1, <2>2, <2>3, TagReady
<1>7. ASSUME NEW t \in FreshTag, tag[n] = 0, own = {},
             req' = [req EXCEPT ![r].tid = t, ![r].pc = "link",
                                ![r].tx.newTags = @ \cup {<<n, t>>}]
      PROVE  TxInv'
  <2> DEFINE x == [q.tx EXCEPT !.newTags = @ \cup {<<n, t>>}]
  <2>1. t \in TagIds
    BY FreshTagIsNew
  <2>2. Naming(n) = {}
    BY <1>4, <1>7 DEF Naming
  <2>3. /\ x \in TxType /\ x.newUrl = q.tx.newUrl /\ x.row = q.tx.row
        /\ x.gone = q.tx.gone /\ x.added = q.tx.added /\ x.tagLocks = q.tx.tagLocks
        /\ x.newTags = q.tx.newTags \cup {<<n, t>>}
    BY <1>1, <1>3, <2>1 DEF TxType
  <2>4. req' = [req EXCEPT ![r] = [q EXCEPT !.tid = t, !.pc = "link", !.tx = x]]
    BY <1>1, <1>7 DEF RequestType
  <2> HIDE DEF x
  <2>5. \A y \in x.newTags \ q.tx.newTags :
          /\ tag[y[1]] = 0 /\ y[2] \in FreshTag /\ Naming(y[1]) = {}
          /\ x.newTags = q.tx.newTags \cup {y}
    BY <1>7, <2>2, <2>3
  <2> QED
    BY <1>1, <2>1, <2>3, <2>4, <2>5, TagReady
<1> QED
  BY <1>5, <1>6, <1>7 DEF UpsertTag

\* The link to it. Nobody else can have linked the URL when r alone sets its tags.
LEMMA LinkTagStep ==
    ASSUME TxInv, NEW r \in Requests, LinkTag(r)
    PROVE  TxInv'
<1> DEFINE q == req[r]
           n == Head(q.todo)
           rest == Tail(q.todo)
           A == IF Linked(r) THEN q.tx.added ELSE q.tx.added \cup {Link(r)}
           x == [q.tx EXCEPT !.added = A]
           pc == IF rest = <<>> THEN "commit" ELSE "tag"
           p == [q EXCEPT !.tx = x, !.todo = rest, !.pc = pc]
<1>1. /\ q \in RequestType /\ q.tx \in TxType /\ Stage(q) /\ Holds(q) /\ CalmOK(q)
      /\ DoneOK(q) /\ q.pc = "link" /\ UNCHANGED <<url, tag, links>>
      /\ req \in [Requests -> RequestType]
  BY Known DEF LinkTag, MayRun, TxInv, TypeOK
<1>2. q.retag /\ q.op \in {"create", "edit"} /\ ~q.aborted /\ q.todo # <<>>
  BY <1>1 DEF Stage, SetTags
<1>3. CASE End(r, FALSE)
  BY <1>1, <1>3, Ends
<1>4. CASE /\ q.id # 0
           /\ req' = [req EXCEPT ![r].tx.added = IF Linked(r) THEN @ ELSE @ \cup {Link(r)},
                                 ![r].todo = rest, ![r].pc = pc]
  <2>1. HasTag(q, n, q.tid) /\ q.tid \in TagIds /\ q.id \in UrlIds
    <3>1. HasTag(q, n, q.tid)
      BY <1>1 DEF DoneOK
    <3> QED
      BY <1>1, <1>4, <3>1 DEF HasTag, TxType, RequestType
  <2>2. /\ n \in Names /\ rest \in Seq(Names)
        /\ Range(q.todo) = {n} \cup Range(rest)
    BY <1>1, <1>2, HeadAndTail DEF RequestType
  <2>3. A \in SUBSET Pairs /\ (A = q.tx.added \/ A = q.tx.added \cup {<<q.id, q.tid>>})
    BY <1>1, <2>1 DEF TxType, Pairs, Link
  <2>4. /\ x \in TxType /\ x.newUrl = q.tx.newUrl /\ x.row = q.tx.row /\ x.gone = q.tx.gone
        /\ x.added = A /\ x.newTags = q.tx.newTags /\ x.tagLocks = q.tx.tagLocks
    BY <1>1, <2>3 DEF TxType
  <2>5. req' = [req EXCEPT ![r] = p]
    BY <1>1, <1>4 DEF RequestType
  <2>6. pc \in {"tag", "commit"} /\ (pc = "tag" <=> rest # <<>>)
    OBVIOUS
  <2>7. Sole(q) => <<q.id, q.tid>> \in A
    <3>1. SUFFICES ASSUME Sole(q), Linked(r)
                   PROVE  FALSE
      BY DEF Link
    <3>2. <<q.id, q.tid>> \in links /\ <<q.id, q.tid>> \notin q.tx.gone
      BY <3>1 DEF Linked, Link
    <3>3. CASE q.calm
      <4>1. LinksOf(q.id) \subseteq q.tx.gone
        BY <1>1, <1>2, <3>3 DEF CalmOK, Linking
      <4> QED
        BY <3>2, <4>1 DEF LinksOf
    <3>4. CASE q.tx.newUrl # 0
      <4>1. q.id \notin Range(url)
        BY <1>1, <3>4 DEF Holds, TxInv, UrlInv, NewInv
      <4> QED
        BY <3>2, <4>1 DEF TxInv, TypeOK
    <3> QED
      BY <3>1, <3>3, <3>4 DEF Sole
  <2>8. \A l \in A : l \in q.tx.added \/ \A d \in RowLockers(l[1]) : req[d].op # "delete"
    <3>1. CASE Linked(r)
      BY <3>1
    <3>2. CASE ~Linked(r)
      <4>1. Holders(r) = {d \in RowLockers(q.id) : req[d].op = "delete"}
        BY <1>1, <3>2 DEF Holders
      <4>2. \A d \in RowLockers(q.id) : req[d].op # "delete"
        BY <1>2, <4>1, MayRunAlone DEF LinkTag
      <4> QED
        BY <4>2, <2>3
    <3> QED
      BY <3>1, <3>2
  <2> HIDE DEF x, A, pc
  <2>9. /\ p \in RequestType /\ p.pc = pc /\ p.aborted = q.aborted /\ p.tx = x
        /\ p.op = q.op /\ p.fields = q.fields /\ p.retag = q.retag
        /\ p.tags = q.tags /\ p.todo = rest
        /\ p.id = q.id /\ p.code = q.code /\ p.calm = q.calm
    BY <1>1, <2>2, <2>4, <2>6 DEF RequestType
  <2> HIDE DEF p, rest, n
  <2>10. Stage(p)
    BY <1>1, <1>2, <2>6, <2>9 DEF Stage, SetTags
  <2>11. Holds(p)
    <3>1. \A l \in p.tx.added : l[1] = p.id
      BY <1>1, <2>3, <2>4, <2>9 DEF Holds
    <3> HIDE DEF q
    <3>2. Range(p.todo) \subseteq Range(p.tags)
      BY <1>1, <2>2, <2>9 DEF Holds
    <3> QED
      BY <1>1, <1>2, <2>4, <2>6, <2>9, <3>1, <3>2 DEF Holds, SetTags, Linking
  <2>12. UrlMove(r, p)
    BY <1>2, <2>4, <2>8, <2>9, Keeps, KnownIds
  <2>13. TagMove(r, p)
    BY <2>4, <2>6, <2>9 DEF TagMove
  <2>14. CalmOK(p)
    BY <1>1, <1>2, <2>4, <2>6, <2>9 DEF CalmOK, Linking
  <2>15. \A m, i : HasTag(p, m, i) <=> HasTag(q, m, i)
    BY <2>4, <2>9 DEF HasTag
  <2>16. DoneOK(p)
    <3>1. \A l \in p.tx.added : \E m \in Range(p.tags) : HasTag(p, m, l[2])
      <4>1. \E m \in Range(q.tags) : HasTag(q, m, q.tid)
        BY <1>1, <2>1, <2>2 DEF Holds
      <4>2. \A l \in q.tx.added : \E m \in Range(q.tags) : HasTag(q, m, l[2])
        BY <1>1 DEF DoneOK
      <4> QED
        BY <2>3, <2>4, <2>9, <2>15, <4>1, <4>2
    <3>2. ASSUME Sole(p), NEW m \in Range(p.tags) \ Range(p.todo)
          PROVE  \E i \in TagIds : HasTag(p, m, i) /\ <<p.id, i>> \in p.tx.added
      <4>1. Sole(q)
        BY <2>4, <2>9, <3>2 DEF Sole
      <4>2. CASE m = n
        BY <2>1, <2>4, <2>7, <2>9, <2>15, <4>1, <4>2
      <4>3. CASE m # n
        <5>1. m \in Range(q.tags) \ Range(q.todo)
          BY <2>2, <2>9, <3>2, <4>3
        <5>2. \E i \in TagIds : HasTag(q, m, i) /\ <<q.id, i>> \in q.tx.added
          BY <1>1, <1>2, <4>1, <5>1 DEF DoneOK, Linking
        <5> QED
          BY <2>3, <2>4, <2>9, <2>15, <5>2
      <4> QED
        BY <4>2, <4>3
    <3> QED
      BY <2>6, <2>9, <3>1, <3>2 DEF DoneOK
  <2> QED
    BY <1>1, <2>5, <2>9, <2>10, <2>11, <2>12, <2>13, <2>14, <2>16, MoveStep DEF Moves
<1> QED
  BY <1>3, <1>4 DEF LinkTag

\* The row of tags that is renamed or deleted.
LEMMA LockTagStep ==
    ASSUME TxInv, NEW r \in Requests, LockTag(r)
    PROVE  TxInv'
<1> DEFINE q == req[r]
           t == tag[q.old]
           x == [q.tx EXCEPT !.tagLocks = {t}]
           pc == IF q.op = "rename tag" THEN "rename tag" ELSE "cascade tag"
           p == [q EXCEPT !.tid = t, !.tx = x, !.pc = pc]
<1>1. /\ q \in RequestType /\ q.tx \in TxType /\ Stage(q) /\ Holds(q)
      /\ q.pc = "lock tag" /\ UNCHANGED <<url, tag, links>>
      /\ req \in [Requests -> RequestType]
  BY Known DEF LockTag, MayRun, TxInv, TypeOK
<1>2. /\ q.tx.newUrl = 0 /\ q.tx.row = 0 /\ q.tx.added = {} /\ q.tx.newTags = {}
      /\ q.id = 0 /\ q.todo = <<>> /\ ~q.aborted
      /\ Range(q.todo) \subseteq Range(q.tags)
  BY <1>1 DEF Stage, Holds, SetTags, Linking
<1>3. CASE End(r, FALSE)
  BY <1>1, <1>3, Ends
<1>4. CASE /\ t # 0
           /\ req' = [req EXCEPT ![r].tid = t, ![r].tx.tagLocks = {t}, ![r].pc = pc]
  <2>1. t \in TagIds /\ t \in Range(tag)
    BY <1>1, <1>4 DEF TxInv, TypeOK, Range, RequestType
  <2>2. /\ x \in TxType /\ x.newUrl = 0 /\ x.row = 0 /\ x.added = {} /\ x.newTags = {}
        /\ x.tagLocks = {t}
    BY <1>1, <1>2, <2>1 DEF TxType
  <2>3. req' = [req EXCEPT ![r] = p]
    BY <1>1, <1>4 DEF RequestType
  <2>4. pc \in {"rename tag", "cascade tag"}
    OBVIOUS
  <2>5. TagLockers(t) \subseteq {r}
    <3>1. Holders(r) = TagLockers(t)
      BY <1>1 DEF Holders
    <3> QED
      BY ZenonT(60), <1>2, <3>1, MayRunAlone DEF LockTag
  <2> HIDE DEF x, pc
  <2>6. /\ p \in RequestType /\ p.pc = pc /\ p.aborted = q.aborted /\ p.tx = x
        /\ p.op = q.op /\ p.fields = q.fields /\ p.retag = q.retag
        /\ p.tags = q.tags /\ p.todo = q.todo
        /\ p.id = q.id /\ p.code = q.code /\ p.tid = t /\ p.old = q.old
    BY <1>1, <2>1, <2>2, <2>4 DEF RequestType
  <2>7. p.tid = tag[p.old]
    BY <2>6
  <2> HIDE DEF p, t
  <2>8. Stage(p)
    BY <1>1, <1>2, <2>4, <2>6 DEF Stage, SetTags
  <2>9. Holds(p)
    BY <1>1, <1>2, <2>2, <2>4, <2>6 DEF Holds, SetTags, Linking
  <2>10. UrlMove(r, p)
    BY <1>2, <2>2, <2>6 DEF UrlMove
  <2>11. TagMove(r, p)
    BY <2>1, <2>2, <2>5, <2>6, <2>7 DEF TagMove
  <2>12. CalmOK(p) /\ DoneOK(p)
    BY <2>2, <2>4, <2>6 DEF CalmOK, DoneOK, Linking
  <2> QED
    BY <1>1, <2>3, <2>6, <2>8, <2>9, <2>10, <2>11, <2>12, MoveStep DEF Moves
<1> QED
  BY <1>3, <1>4 DEF LockTag

-----------------------------------------------------------------------------
(* The steps that change a table, after which the request holds nothing. *)

LEMMA RangeOfList ==
    ASSUME NEW s \in Seq(Names), NEW n \in Range(s)
    PROVE  n \in Names
<1>1. PICK i \in DOMAIN s : n = s[i]
  BY DEF Range
<1> QED
  BY <1>1, ElementOfSeq, LenProperties

\* A request whose tags stay what they are, and its links.
LEMMA OthersDone ==
    ASSUME TxInv, NEW s \in Requests, Similar(req'[s], req[s]), req'[s].id = req[s].id,
           req'[s].calm => req[s].calm,
           \A n \in Names : tag[n] \in req[s].tx.tagLocks => tag'[n] = tag[n]
    PROVE  DoneOK(req[s])'
<1> DEFINE q == req[s]
<1>1. /\ q \in RequestType /\ q.tx \in TxType /\ Stage(q) /\ Holds(q) /\ DoneOK(q)
  BY Known
<1>2. ASSUME NEW n \in Names, NEW t, HasTag(q, n, t)
      PROVE  HasTag(q, n, t)'
  BY <1>2 DEF HasTag, Similar
<1>3. \A n \in Range(q.tags) : n \in Names
  BY <1>1, RangeOfList DEF RequestType
<1>4. (\A l \in q.tx.added : \E n \in Range(q.tags) : HasTag(q, n, l[2]))'
  <2>1. \A l \in q.tx.added : \E n \in Range(q.tags) : HasTag(q, n, l[2])'
    BY <1>1, <1>2, <1>3 DEF DoneOK
  <2> QED
    BY <2>1 DEF Similar, HasTag
<1>5. (q.pc = "link" => HasTag(q, Head(q.todo), q.tid))'
  <2>1. q.pc = "link" => HasTag(q, Head(q.todo), q.tid) /\ Head(q.todo) \in Names
    <3>1. q.pc = "link" => q.todo # <<>>
      BY <1>1 DEF Stage
    <3> QED
      BY <1>1, <3>1, HeadAndTail DEF DoneOK, RequestType
  <2> QED
    BY <1>2, <2>1 DEF Similar, HasTag
<1>6. (Sole(q) /\ q.pc \in Linking /\ ~q.aborted =>
         \A n \in Range(q.tags) \ Range(q.todo) :
            \E t \in TagIds : HasTag(q, n, t) /\ <<q.id, t>> \in q.tx.added)'
  <2>1. SUFFICES ASSUME Sole(q)', q.pc \in Linking, ~q.aborted,
                        NEW n \in Range(q.tags) \ Range(q.todo)
                 PROVE  \E t \in TagIds : HasTag(q, n, t)' /\ <<q.id, t>> \in q.tx.added
    BY DEF Similar, HasTag
  <2>2. Sole(q)
    BY <2>1 DEF Sole, Similar
  <2> QED
    BY <1>1, <1>2, <1>3, <2>1, <2>2 DEF DoneOK
<1> QED
  BY <1>4, <1>5, <1>6 DEF DoneOK

\* A step on tags alone.
LEMMA TagsStep ==
    ASSUME TxInv, NEW r \in Requests, UNCHANGED url, links' \subseteq links,
           links' \subseteq Range(url) \X Range(tag'), tag' \in [Names -> TagIds \cup {0}],
           req' \in [Requests -> RequestType],
           Stage(req'[r]), Holds(req'[r]), Quiet(req'[r]),
           \A s \in Requests \ {r} :
              /\ Similar(req'[s], req[s]) /\ req'[s].id = req[s].id
              /\ req'[s].calm = req[s].calm
              /\ links' \cap req[s].want \subseteq req'[s].want
              /\ \A n \in Names : tag[n] \in req[s].tx.tagLocks => tag'[n] = tag[n]
              /\ \A t \in req[s].tx.newTags : tag'[t[1]] = 0 /\ t[2] \notin Range(tag'),
           UniqueInv'
    PROVE  TxInv'
<1>1. \A s \in Requests : /\ req[s] \in RequestType /\ req[s].tx \in TxType
                          /\ Stage(req[s]) /\ Holds(req[s])
  BY Known
<1>2. /\ req'[r].tx.newUrl = 0 /\ req'[r].tx.row = 0
      /\ req'[r].tx.added = {} /\ req'[r].tx.newTags = {} /\ req'[r].tx.tagLocks = {}
      /\ req'[r].aborted \/ req'[r].id = 0
      /\ req'[r].pc \notin {"rename tag", "cascade tag"}
  BY QuietHoldsNothing
<1>3. TypeOK'
  BY DEF TxInv, TypeOK
<1>4. StageInv'
  <2>1. ASSUME NEW s \in Requests \ {r}
        PROVE  Stage(req'[s]) /\ Holds(req'[s])
    BY <1>1, SimilarRequests
  <2> QED
    BY <2>1 DEF StageInv
<1>9. \A s \in Requests \ {r} :
        /\ req'[s].tx = req[s].tx /\ req'[s].op = req[s].op /\ req'[s].code = req[s].code
        /\ req'[s].id = req[s].id /\ req'[s].aborted = req[s].aborted
        /\ req'[s].pc = req[s].pc /\ req'[s].tid = req[s].tid /\ req'[s].old = req[s].old
        /\ req'[s].tags = req[s].tags /\ req'[s].retag = req[s].retag
        /\ req'[s].calm = req[s].calm
  BY DEF Similar
<1>5. UrlInv'
  <2>1. RowInv'
    <3>1. SUFFICES ASSUME NEW s \in Requests, req'[s].tx.row # 0
                   PROVE  /\ url[req'[s].code] = req'[s].tx.row
                          /\ \A q \in Requests \ {s} : req'[q].tx.row # req'[s].tx.row
                          /\ req'[s].op = "delete" =>
                               \A q \in Requests : \A l \in req'[q].tx.added :
                                  req'[s].tx.row # l[1]
      BY DEF RowInv
    <3>3. s # r /\ req[s].tx.row # 0
      BY <1>2, <1>9, <3>1
    <3>2. /\ url[req[s].code] = req[s].tx.row
          /\ \A q \in Requests \ {s} : req[q].tx.row # req[s].tx.row
          /\ req[s].op = "delete" =>
                 \A q \in Requests : \A l \in req[q].tx.added : req[s].tx.row # l[1]
      BY <3>3 DEF TxInv, UrlInv, RowInv
    <3> QED
      BY ZenonT(60), <1>2, <1>9, <3>3, <3>2
  <2>2. NewInv'
    <3>1. SUFFICES ASSUME NEW s \in Requests, req'[s].tx.newUrl # 0
                   PROVE  /\ url[req'[s].code] = 0
                          /\ req'[s].tx.newUrl \notin Range(url)
                          /\ \A q \in Requests \ {s} : req'[q].tx.newUrl # 0 =>
                                /\ req'[q].tx.newUrl # req'[s].tx.newUrl
                                /\ req'[q].code # req'[s].code
      BY DEF NewInv
    <3>3. s # r /\ req[s].tx.newUrl # 0
      BY <1>2, <1>9, <3>1
    <3>2. /\ url[req[s].code] = 0
          /\ req[s].tx.newUrl \notin Range(url)
          /\ \A q \in Requests \ {s} : req[q].tx.newUrl # 0 =>
                 req[q].tx.newUrl # req[s].tx.newUrl /\ req[q].code # req[s].code
      BY <3>3 DEF TxInv, UrlInv, NewInv
    <3> QED
      BY ZenonT(60), <1>2, <1>9, <3>3, <3>2
  <2>3. IdInv'
    BY <1>2, <1>9 DEF TxInv, UrlInv, IdInv
  <2> QED
    BY <2>1, <2>2, <2>3 DEF UrlInv
<1>6. NewTagInv'
  <2>1. ASSUME NEW s \in Requests \ {r}, NEW t \in req[s].tx.newTags
        PROVE  /\ tag'[t[1]] = 0 /\ t[2] \notin Range(tag')
               /\ \A q \in Requests \ {r} : \A y \in req[q].tx.newTags :
                    t[1] = y[1] \/ t[2] = y[2] => q = s /\ t = y
    BY DEF TxInv, TagInv, NewTagInv
  <2>2. SUFFICES ASSUME NEW s \in Requests, NEW t \in req'[s].tx.newTags
                 PROVE  /\ tag'[t[1]] = 0 /\ t[2] \notin Range(tag')
                        /\ \A q \in Requests : \A y \in req'[q].tx.newTags :
                             t[1] = y[1] \/ t[2] = y[2] => q = s /\ t = y
    BY DEF NewTagInv
  <2>3. s # r /\ t \in req[s].tx.newTags
    BY <1>2, <1>9, <2>2
  <2>4. \A q \in Requests : \A y \in req'[q].tx.newTags : q # r /\ y \in req[q].tx.newTags
    BY <1>2, <1>9
  <2> QED
    BY <2>1, <2>3, <2>4
<1>7. TagLockInv'
  <2>1. ASSUME NEW s \in Requests \ {r}
        PROVE  /\ req[s].tx.tagLocks \subseteq Range(tag')
               /\ req[s].pc \in {"rename tag", "cascade tag"} => tag'[req[s].old] = req[s].tid
    <3>1. req[s].tx.tagLocks \subseteq Range(tag)
      BY DEF TxInv, TagInv, TagLockInv
    <3>2. \A n \in Names : tag[n] \in req[s].tx.tagLocks => tag'[n] = tag[n]
      OBVIOUS
    <3>3. DOMAIN tag = Names /\ DOMAIN tag' = Names
      BY DEF TxInv, TypeOK
    <3>4. req[s].tx.tagLocks \subseteq Range(tag')
      BY <3>1, <3>2, <3>3 DEF Range
    <3>5. req[s].pc \in {"rename tag", "cascade tag"} =>
             tag[req[s].old] = req[s].tid /\ req[s].tid \in req[s].tx.tagLocks
      BY <1>1 DEF TxInv, TagInv, TagLockInv, Holds
    <3> QED
      BY <1>1, <3>2, <3>4, <3>5 DEF RequestType
  <2> QED
    <3>1. ASSUME NEW s \in Requests
          PROVE  /\ req'[s].tx.tagLocks \subseteq Range(tag')
                 /\ req'[s].pc \in {"rename tag", "cascade tag"} =>
                       tag'[req'[s].old] = req'[s].tid
      BY ZenonT(30), <1>2, <1>9, <2>1
    <3>2. ASSUME NEW s \in Requests, NEW q \in Requests \ {s}
          PROVE  req'[q].tx.tagLocks \cap req'[s].tx.tagLocks = {}
      <4>1. req[q].tx.tagLocks \cap req[s].tx.tagLocks = {}
        BY DEF TxInv, TagInv, TagLockInv
      <4> QED
        BY <1>2, <1>9, <4>1
    <3> QED
      BY <3>1, <3>2 DEF TagLockInv
<1>8. LinkInv'
  <2>1. ASSUME NEW s \in Requests \ {r}
        PROVE  CalmOK(req[s])' /\ DoneOK(req[s])'
    <3>1. CalmOK(req[s])
      BY Known
    <3>2. CalmOK(req[s])'
      <4>1. SUFFICES ASSUME req[s].calm
                     PROVE  /\ req[s].pc = "delete links" =>
                                  LinksOf(req[s].id)' \subseteq req'[s].want
                            /\ req[s].pc \in Linking /\ ~req[s].aborted /\ req[s].retag
                                  => LinksOf(req[s].id)' \subseteq req[s].tx.gone
        BY <1>9 DEF CalmOK
      <4>2. LinksOf(req[s].id)' \subseteq LinksOf(req[s].id) \cap links'
        BY <1>9 DEF LinksOf
      <4> QED
        BY <3>1, <4>1, <4>2 DEF CalmOK
    <3> QED
      BY <3>2, OthersDone
  <2>2. CalmOK(req[r])' /\ DoneOK(req[r])'
    <3>1. CalmOK(req'[r]) /\ DoneOK(req'[r])
      BY QuietHoldsNothing
    <3>2. \/ req'[r].aborted /\ req'[r].pc \in {"insert", "get existing", "commit"}
          \/ req'[r].pc \notin Linking \cup {"delete links"}
      BY DEF Quiet, Linking, Stage
    <3>3. CalmOK(req[r])'
      BY <3>2 DEF CalmOK, Linking
    <3>4. DoneOK(req[r])'
      BY <1>2, <3>2 DEF DoneOK, Linking
    <3> QED
      BY <3>3, <3>4
  <2> QED
    BY <2>1, <2>2 DEF LinkInv
<1> QED
  BY <1>3, <1>4, <1>5, <1>6, <1>7, <1>8 DEF TxInv, TagInv

\* The request after its last statement.
LEMMA Ended ==
    ASSUME NEW p \in {Idle, Updated, Answered}
    PROVE  /\ p \in RequestType /\ Stage(p) /\ Holds(p) /\ Quiet(p)
           /\ \A L : [p EXCEPT !.want = @ \ L] = p
           /\ \A u : u # 0 => [p EXCEPT !.id = IF @ = u THEN 0 ELSE @] = p
<1>1. /\ p \in RequestType /\ p.tx = NoTx /\ p.op = "none" /\ ~p.fields /\ ~p.aborted
      /\ p.id = 0 /\ p.todo = <<>> /\ p.pc \in {"idle", "reread"} /\ p.want = {}
      /\ p.tags = <<>>
  <2>1. CASE p = Idle
    BY <2>1, IdleType DEF Idle
  <2>2. CASE p = Updated
    BY <2>2, IdleType DEF Idle, Updated, RequestType
  <2>3. CASE p = Answered
    BY <2>3, IdleType DEF Idle, Answered, RequestType
  <2> QED
    BY <2>1, <2>2, <2>3
<1>2. Stage(p) /\ Quiet(p)
  BY <1>1 DEF Stage, Quiet, SetTags
<1>3. Holds(p)
  <2>1. /\ p.tx.newUrl = 0 /\ p.tx.row = 0 /\ p.tx.added = {} /\ p.tx.newTags = {}
        /\ p.tx.tagLocks = {}
    BY <1>1 DEF NoTx
  <2>2. p.pc \notin Linking \cup SetTags \cup {"find", "commit", "cascade url", "rename tag",
                                               "cascade tag"}
    BY <1>1 DEF Linking, SetTags
  <2> QED
    BY <1>1, <2>1, <2>2, RangeOfEmpty DEF Holds
<1>4. ASSUME NEW L
      PROVE  [p EXCEPT !.want = @ \ L] = p
  BY <1>1 DEF RequestType
<1>5. ASSUME NEW u, u # 0
      PROVE  [p EXCEPT !.id = IF @ = u THEN 0 ELSE @] = p
  BY <1>1, <1>5 DEF RequestType
<1> QED
  BY <1>1, <1>2, <1>3, <1>4, <1>5

LEMMA CreateTagStep ==
    ASSUME TxInv, NEW r \in Requests, CreateTag(r)
    PROVE  TxInv'
<1> DEFINE q == req[r]
           n == q.new
<1>1. /\ q \in RequestType /\ Stage(q) /\ q.pc = "upsert tag" /\ n \in Names
      /\ req' = [req EXCEPT ![r] = Updated] /\ UNCHANGED <<url, links>>
  BY Known DEF CreateTag, MayRun, Updated, RequestType
<1>2. /\ req \in [Requests -> RequestType] /\ tag \in [Names -> TagIds \cup {0}]
      /\ links \subseteq (Range(url) \X Range(tag)) \cap Pairs
  BY DEF TxInv, TypeOK
<1>3. CASE tag[n] # 0 /\ UNCHANGED tag
  <2>1. UNCHANGED <<url, tag, links>>
    BY <1>1, <1>3
  <2>2. Updated \in {Idle, Updated, Answered}
    OBVIOUS
  <2> QED
    BY <1>1, <2>1, <2>2, Ended, QuietStep
<1>4. ASSUME NEW t \in FreshTag, tag[n] = 0, tag' = [tag EXCEPT ![n] = t]
      PROVE  TxInv'
  <2>1. /\ t \in TagIds /\ t # 0 /\ t \notin Range(tag)
        /\ \A s \in Requests : \A y \in req[s].tx.newTags : y[2] # t
    BY FreshTagIsNew, Zero
  <2>2. /\ tag' \in [Names -> TagIds \cup {0}] /\ tag'[n] = t
        /\ \A m \in Names \ {n} : tag'[m] = tag[m]
    BY <1>1, <1>2, <1>4, <2>1
  <2>3. \A i : i # 0 /\ i \in Range(tag) => i \in Range(tag')
    <3>1. SUFFICES ASSUME NEW m \in Names, tag[m] # 0
                   PROVE  tag'[m] = tag[m]
      BY <1>2, <2>2 DEF Range
    <3> QED
      BY <1>4, <2>2, <3>1
  <2>4. links' \subseteq Range(url) \X Range(tag')
    <3>1. SUFFICES ASSUME NEW l \in links
                   PROVE  l \in Range(url) \X Range(tag')
      BY <1>1
    <3>2. l \in Range(url) \X Range(tag) /\ l \in Pairs
      BY <1>2
    <3>3. l[2] # 0 /\ l[2] \in Range(tag)
      BY <3>2, Zero DEF Pairs
    <3> QED
      BY <2>3, <3>2, <3>3
  <2>5. Naming(n) \subseteq {r}
    <3>1. Holders(r) = Naming(n) \cup TagLockers(tag[n])
      BY <1>1 DEF Holders
    <3>2. ~q.aborted
      BY <1>1 DEF Stage
    <3> QED
      BY <3>1, <3>2, MayRunAlone DEF CreateTag
  <2>6. ASSUME NEW s \in Requests \ {r}
        PROVE  /\ req'[s] = req[s] /\ Similar(req[s], req[s])
               /\ \A m \in Names : tag[m] \in req[s].tx.tagLocks => tag'[m] = tag[m]
               /\ \A y \in req[s].tx.newTags : tag'[y[1]] = 0 /\ y[2] \notin Range(tag')
    <3>1. req[s] \in RequestType /\ req[s].tx \in TxType /\ 0 \notin req[s].tx.tagLocks
      BY Known, Zero DEF TxType
    <3>2. \A m \in Names : tag[m] \in req[s].tx.tagLocks => tag'[m] = tag[m]
      BY <1>4, <2>2, <3>1
    <3>3. \A y \in req[s].tx.newTags :
             tag[y[1]] = 0 /\ y[2] \notin Range(tag) /\ y[1] # n /\ y[2] # t /\ y[1] \in Names
      BY <2>1, <2>5, <3>1 DEF TxInv, TagInv, NewTagInv, Naming, TxType
    <3>4. \A i : i \in Range(tag') => i = t \/ i \in Range(tag)
      BY <1>2, <2>2 DEF Range
    <3> QED
      BY <1>1, <1>2, <2>2, <3>1, <3>2, <3>3, <3>4 DEF Similar
  <2>7. UniqueInv'
    <3>1. SUFFICES ASSUME NEW m \in Names, NEW k \in Names, tag'[m] = tag'[k], tag'[m] # 0
                   PROVE  m = k
      BY DEF UniqueInv
    <3>2. \A j \in Names : tag[j] # t
      BY <1>2, <2>1 DEF Range
    <3> QED
      BY <2>2, <3>1, <3>2 DEF TxInv, TagInv, UniqueInv
  <2>8. Updated \in {Idle, Updated, Answered}
    OBVIOUS
  <2>9. /\ req' \in [Requests -> RequestType] /\ req'[r] = Updated
        /\ Stage(Updated) /\ Holds(Updated) /\ Quiet(Updated)
    BY <1>1, <1>2, <2>8, Ended
  <2> QED
    BY <1>1, <2>2, <2>4, <2>6, <2>7, <2>9, TagsStep
<1> QED
  BY <1>1, <1>3, <1>4 DEF CreateTag

\* The tag that r has locked and no other request.
LEMMA OwnTag ==
    ASSUME TxInv, NEW r \in Requests, req[r].pc \in {"rename tag", "cascade tag"}
    PROVE  /\ req[r].old \in Names /\ tag[req[r].old] = req[r].tid
           /\ req[r].tid \in TagIds /\ req[r].tid # 0
           /\ \A s \in Requests \ {r} : req[r].tid \notin req[s].tx.tagLocks
           /\ \A s \in Requests : \A y \in req[s].tx.newTags :
                 /\ y[1] \in Names /\ y[1] # req[r].old
                 /\ tag[y[1]] = 0 /\ y[2] \notin Range(tag) /\ y[2] # 0
           /\ \A m \in Names : tag[m] = req[r].tid => m = req[r].old
<1>1. \A s \in Requests : req[s] \in RequestType /\ req[s].tx \in TxType /\ Holds(req[s])
  BY Known
<1>2. tag[req[r].old] = req[r].tid /\ req[r].tid \in req[r].tx.tagLocks
  BY <1>1 DEF TxInv, TagInv, TagLockInv, Holds
<1>3. req[r].old \in Names /\ req[r].tid \in TagIds /\ req[r].tid # 0
  BY <1>1, <1>2, Zero DEF TxType, RequestType
<1>4. \A s \in Requests \ {r} : req[r].tid \notin req[s].tx.tagLocks
  BY <1>2 DEF TxInv, TagInv, TagLockInv
<1>5. ASSUME NEW s \in Requests, NEW y \in req[s].tx.newTags
      PROVE  /\ y[1] \in Names /\ y[1] # req[r].old
             /\ tag[y[1]] = 0 /\ y[2] \notin Range(tag) /\ y[2] # 0
  <2>1. y \in Names \X TagIds
    BY <1>1 DEF TxType
  <2>2. tag[y[1]] = 0 /\ y[2] \notin Range(tag)
    BY DEF TxInv, TagInv, NewTagInv
  <2> QED
    BY <1>2, <1>3, <2>1, <2>2, Zero
<1>6. \A m \in Names : tag[m] = req[r].tid => m = req[r].old
  BY <1>2, <1>3 DEF TxInv, TagInv, UniqueInv
<1> QED
  BY <1>2, <1>3, <1>4, <1>5, <1>6

LEMMA RenameTagStep ==
    ASSUME TxInv, NEW r \in Requests, RenameTag(r)
    PROVE  TxInv'
<1> DEFINE q == req[r]
           n == q.new
           o == q.old
           t == q.tid
<1>1. /\ q \in RequestType /\ Stage(q) /\ q.pc = "rename tag" /\ n \in Names
      /\ UNCHANGED <<url, links>>
  BY Known DEF RenameTag, MayRun, RequestType
<1>2. /\ req \in [Requests -> RequestType] /\ tag \in [Names -> TagIds \cup {0}]
      /\ links \subseteq (Range(url) \X Range(tag)) \cap Pairs
  BY DEF TxInv, TypeOK
<1>3. CASE End(r, FALSE) /\ UNCHANGED tag
  BY <1>1, <1>3, Ends
<1>4. CASE /\ tag[n] = 0
           /\ tag' = [tag EXCEPT ![o] = 0, ![n] = t]
           /\ req' = [req EXCEPT ![r] = [Idle EXCEPT !.pc = "reread"]]
  <2>1. /\ o \in Names /\ tag[o] = t /\ t \in TagIds /\ t # 0
        /\ \A s \in Requests \ {r} : t \notin req[s].tx.tagLocks
        /\ \A s \in Requests : \A y \in req[s].tx.newTags :
              /\ y[1] \in Names /\ y[1] # o
              /\ tag[y[1]] = 0 /\ y[2] \notin Range(tag) /\ y[2] # 0
        /\ \A m \in Names : tag[m] = t => m = o
    BY <1>1, OwnTag
  <2>2. /\ tag' \in [Names -> TagIds \cup {0}] /\ n # o /\ tag'[n] = t /\ tag'[o] = 0
        /\ \A m \in Names \ {n, o} : tag'[m] = tag[m]
    BY <1>1, <1>2, <1>4, <2>1
  <2>3. \A i : i # 0 /\ i \in Range(tag) => i \in Range(tag')
    <3>1. SUFFICES ASSUME NEW m \in Names, tag[m] # 0
                   PROVE  \E k \in Names : tag'[k] = tag[m]
      BY <1>2, <2>2 DEF Range
    <3> QED
      BY ZenonT(60), <1>1, <1>4, <2>1, <2>2, <3>1
  <2>4. links' \subseteq Range(url) \X Range(tag')
    <3>1. SUFFICES ASSUME NEW l \in links
                   PROVE  l \in Range(url) \X Range(tag')
      BY <1>1
    <3>2. l \in Range(url) \X Range(tag) /\ l \in Pairs
      BY <1>2
    <3>3. l[2] # 0 /\ l[2] \in Range(tag)
      BY <3>2, Zero DEF Pairs
    <3> QED
      BY <2>3, <3>2, <3>3
  <2>5. Naming(n) \subseteq {r}
    <3>1. Holders(r) = Naming(n) \cup TagLockers(tag[n])
      BY <1>1 DEF Holders
    <3>2. ~q.aborted
      BY <1>1 DEF Stage
    <3> QED
      BY <3>1, <3>2, MayRunAlone DEF RenameTag
  <2>6. ASSUME NEW s \in Requests \ {r}
        PROVE  /\ req'[s] = req[s] /\ Similar(req[s], req[s])
               /\ \A m \in Names : tag[m] \in req[s].tx.tagLocks => tag'[m] = tag[m]
               /\ \A y \in req[s].tx.newTags : tag'[y[1]] = 0 /\ y[2] \notin Range(tag')
    <3>1. req[s] \in RequestType /\ req[s].tx \in TxType /\ 0 \notin req[s].tx.tagLocks
      BY Known, Zero DEF TxType
    <3>2. \A m \in Names : tag[m] \in req[s].tx.tagLocks => tag'[m] = tag[m]
      BY <1>4, <2>1, <2>2, <3>1
    <3>3. \A y \in req[s].tx.newTags : y[1] # n
      BY <2>5 DEF Naming
    <3>4. \A i : i \in Range(tag') => i = 0 \/ i \in Range(tag)
      <4>1. \A m \in Names : tag'[m] = 0 \/ \E k \in Names : tag'[m] = tag[k]
        BY <2>1, <2>2
      <4> QED
        BY <1>2, <2>2, <4>1 DEF Range
    <3>5. \A y \in req[s].tx.newTags : tag'[y[1]] = 0 /\ y[2] \notin Range(tag')
      BY <2>1, <2>2, <3>3, <3>4
    <3>6. req'[s] = req[s] /\ Similar(req[s], req[s])
      BY <1>2, <1>4, <3>1 DEF Similar
    <3> QED
      BY <3>2, <3>5, <3>6
  <2>7. UniqueInv'
    <3>1. SUFFICES ASSUME NEW m \in Names, NEW k \in Names, tag'[m] = tag'[k], tag'[m] # 0
                   PROVE  m = k
      BY DEF UniqueInv
    <3> QED
      BY <2>1, <2>2, <3>1 DEF TxInv, TagInv, UniqueInv
  <2>8. Updated \in {Idle, Updated, Answered}
    OBVIOUS
  <2>9. /\ req' \in [Requests -> RequestType] /\ req'[r] = Updated
        /\ Stage(Updated) /\ Holds(Updated) /\ Quiet(Updated)
    <3>1. req' = [req EXCEPT ![r] = Updated]
      BY <1>4 DEF Updated
    <3> QED
      BY <1>2, <2>8, <3>1, Ended
  <2> QED
    BY <1>1, <2>2, <2>4, <2>6, <2>7, <2>9, TagsStep
<1>5. CASE /\ n = o
           /\ tag' = [tag EXCEPT ![o] = 0, ![n] = t]
           /\ req' = [req EXCEPT ![r] = [Idle EXCEPT !.pc = "reread"]]
  <2>1. o \in Names /\ tag[o] = t
    BY <1>1, OwnTag
  <2>2. UNCHANGED <<url, tag, links>>
    BY <1>1, <1>2, <1>5, <2>1
  <2>3. req' = [req EXCEPT ![r] = Updated] /\ Updated \in {Idle, Updated, Answered}
    BY <1>5 DEF Updated
  <2> QED
    BY <1>1, <2>2, <2>3, Ended, QuietStep
<1> QED
  BY <1>1, <1>3, <1>4, <1>5 DEF RenameTag

LEMMA CascadeTagStep ==
    ASSUME TxInv, NEW r \in Requests, CascadeTag(r)
    PROVE  TxInv'
<1> DEFINE q == req[r]
           o == q.old
           t == q.tid
<1>1. /\ q.pc = "cascade tag" /\ url' = url
      /\ tag' = [tag EXCEPT ![o] = 0] /\ links' = links \ LinksTo(t)
      /\ req' = Skip([req EXCEPT ![r] = Idle], LinksTo(t))
  BY DEF CascadeTag, MayRun
<1>2. /\ req \in [Requests -> RequestType] /\ tag \in [Names -> TagIds \cup {0}]
      /\ links \subseteq (Range(url) \X Range(tag)) \cap Pairs
  BY DEF TxInv, TypeOK
<1>3. /\ o \in Names /\ tag[o] = t /\ t # 0
      /\ \A s \in Requests \ {r} : t \notin req[s].tx.tagLocks
      /\ \A s \in Requests : \A y \in req[s].tx.newTags :
            /\ y[1] \in Names /\ y[1] # o
            /\ tag[y[1]] = 0 /\ y[2] \notin Range(tag) /\ y[2] # 0
      /\ \A m \in Names : tag[m] = t => m = o
  BY <1>1, OwnTag
<1>4. /\ tag' \in [Names -> TagIds \cup {0}] /\ tag'[o] = 0
      /\ \A m \in Names \ {o} : tag'[m] = tag[m]
  BY <1>1, <1>2, <1>3
<1>5. links' \subseteq links /\ links' \subseteq Range(url) \X Range(tag')
  <2>1. SUFFICES ASSUME NEW l \in links, l[2] # t
                 PROVE  l \in Range(url) \X Range(tag')
    BY <1>1 DEF LinksTo
  <2>2. l \in Range(url) \X Range(tag)
    BY <1>2
  <2>3. PICK m \in Names : l[2] = tag[m]
    BY <1>2, <2>2 DEF Range
  <2>4. l[2] = tag'[m]
    BY <1>3, <1>4, <2>1, <2>3
  <2>5. l[2] \in Range(tag')
    BY <1>4, <2>4 DEF Range
  <2> QED
    BY <2>2, <2>5
<1>6. ASSUME NEW s \in Requests \ {r}
      PROVE  /\ Similar(req'[s], req[s]) /\ req'[s].id = req[s].id
             /\ req'[s].calm = req[s].calm /\ req'[s] \in RequestType
             /\ links' \cap req[s].want \subseteq req'[s].want
             /\ \A m \in Names : tag[m] \in req[s].tx.tagLocks => tag'[m] = tag[m]
             /\ \A y \in req[s].tx.newTags : tag'[y[1]] = 0 /\ y[2] \notin Range(tag')
  <2>1. req[s] \in RequestType
    BY <1>2
  <2>2. req'[s] = [req[s] EXCEPT !.want = @ \ LinksTo(t)]
    BY <1>1, <1>2 DEF Skip
  <2>3. /\ Similar(req'[s], req[s]) /\ req'[s].id = req[s].id
        /\ req'[s].calm = req[s].calm /\ req'[s] \in RequestType
        /\ req'[s].want = req[s].want \ LinksTo(t)
    BY ZenonT(60), <2>1, <2>2 DEF RequestType, Similar
  <2>4. \A m \in Names : tag[m] \in req[s].tx.tagLocks => tag'[m] = tag[m]
    BY <1>3, <1>4
  <2>5. \A i : i \in Range(tag') => i = 0 \/ i \in Range(tag)
    BY <1>2, <1>4 DEF Range
  <2> QED
    BY <1>1, <1>3, <1>4, <2>3, <2>4, <2>5
<1>7. UniqueInv'
  <2>1. SUFFICES ASSUME NEW m \in Names, NEW k \in Names, tag'[m] = tag'[k], tag'[m] # 0
                 PROVE  m = k
    BY DEF UniqueInv
  <2> QED
    BY <1>4, <2>1 DEF TxInv, TagInv, UniqueInv
<1>8. /\ req' \in [Requests -> RequestType]
      /\ Stage(req'[r]) /\ Holds(req'[r]) /\ Quiet(req'[r])
  <2>1. Idle \in {Idle, Updated, Answered}
    OBVIOUS
  <2>2. req'[r] = [Idle EXCEPT !.want = @ \ LinksTo(t)]
    BY <1>1, <1>2 DEF Skip
  <2>3. req'[r] = Idle
    BY <2>1, <2>2, Ended
  <2>4. \A s \in Requests : req'[s] \in RequestType
    BY <1>6, <2>1, <2>3, Ended
  <2>5. \A s \in Requests :
           [[req EXCEPT ![r] = Idle][s] EXCEPT !.want = @ \ LinksTo(t)] \in RequestType
    BY <1>1, <2>4 DEF Skip
  <2>6. req' \in [Requests -> RequestType]
    BY <1>1, <2>5 DEF Skip
  <2> QED
    BY <2>1, <2>3, <2>6, Ended
<1> QED
  BY <1>1, <1>4, <1>5, <1>6, <1>7, <1>8, TagsStep

\* Or one that has lost the row it had found.
LEMMA LosesRow ==
    ASSUME NEW q, NEW p, Similar(p, q), p.id = 0, Stage(q), Holds(q),
           q.tx.newUrl = 0, q.tx.added = {},
           q.fields => ~(q.pc \in SetTags \/ (q.pc = "commit" /\ q.retag))
    PROVE  Stage(p) /\ Holds(p)
<1>1. Stage(p)
  BY DEF Similar, Stage
<1>2. Holds(p)
  BY DEF Similar, Holds
<1> QED
  BY <1>1, <1>2

\* The row of urls goes, its links with it, and whoever has found it finds nothing.
LEMMA CascadeURLStep ==
    ASSUME TxInv, NEW r \in Requests, CascadeURL(r)
    PROVE  TxInv'
<1> DEFINE q == req[r]
           c == q.code
           u == q.tx.row
           L == LinksOf(u)
           R == [req EXCEPT ![r] = Idle]
<1>1. /\ q.pc = "cascade url" /\ tag' = tag /\ url' = [url EXCEPT ![c] = 0]
      /\ links' = links \ L /\ req' = Lose(Skip(R, L), u)
  BY DEF CascadeURL, MayRun
<1>2. /\ req \in [Requests -> RequestType] /\ url \in [Codes -> UrlIds \cup {0}]
      /\ links \subseteq (Range(url) \X Range(tag)) \cap Pairs
  BY DEF TxInv, TypeOK
<1>3. \A s \in Requests : /\ req[s] \in RequestType /\ req[s].tx \in TxType
                          /\ Stage(req[s]) /\ Holds(req[s])
  BY Known
<1>4. c \in Codes /\ u # 0 /\ url[c] = u /\ q.op = "delete"
  BY <1>1, <1>3 DEF Holds, Stage, RequestType, TxInv, UrlInv, RowInv
<1>5. u \in Range(url)
  BY <1>2, <1>4 DEF Range
<1>6. /\ url' \in [Codes -> UrlIds \cup {0}] /\ url'[c] = 0
      /\ \A d \in Codes \ {c} : url'[d] = url[d]
  BY <1>1, <1>2, <1>4
\* The others.
<1>7. ASSUME NEW s \in Requests \ {r}
      PROVE  /\ req[s].tx.newUrl # u /\ req[s].tx.row # u
             /\ \A l \in req[s].tx.added : l[1] # u
             /\ req[s].tx.row # 0 => req[s].code # c
  <2>1. req[s].tx.newUrl # u
    BY <1>4, <1>5 DEF TxInv, UrlInv, NewInv
  <2>2. req[s].tx.row # u /\ \A l \in req[s].tx.added : l[1] # u
    BY <1>4 DEF TxInv, UrlInv, RowInv
  <2>3. req[s].tx.row # 0 => url[req[s].code] = req[s].tx.row
    BY DEF TxInv, UrlInv, RowInv
  <2> QED
    BY <1>4, <2>1, <2>2, <2>3
<1>8. ASSUME NEW s \in Requests \ {r}
      PROVE  /\ req'[s] \in RequestType /\ Similar(req'[s], req[s])
             /\ req'[s].calm = req[s].calm /\ req'[s].want = req[s].want \ L
             /\ req'[s].id = IF req[s].id = u THEN 0 ELSE req[s].id
  <2>1. req'[s] = [[req[s] EXCEPT !.want = @ \ L] EXCEPT !.id = IF @ = u THEN 0 ELSE @]
    BY <1>1, <1>2 DEF Skip, Lose
  <2> HIDE DEF L, u
  <2>2. req[s] \in RequestType
    BY <1>3
  <2> QED
    BY ZenonT(60), <2>1, <2>2 DEF RequestType, Similar
<1>9. req'[r] = Idle /\ req' \in [Requests -> RequestType]
  <2>1. Idle \in {Idle, Updated, Answered}
    OBVIOUS
  <2>2. req'[r] = [[Idle EXCEPT !.want = @ \ L] EXCEPT !.id = IF @ = u THEN 0 ELSE @]
    BY <1>1, <1>2 DEF Skip, Lose
  <2>3. req'[r] = Idle
    BY <1>4, <2>1, <2>2, Ended
  <2>4. \A s \in Requests : req'[s] \in RequestType
    BY <1>8, <2>1, <2>3, Ended
  <2>5. \A s \in Requests :
           [Skip(R, L)[s] EXCEPT !.id = IF @ = u THEN 0 ELSE @] \in RequestType
    BY <1>1, <2>4 DEF Lose
  <2>6. req' \in [Requests -> RequestType]
    BY <1>1, <2>5 DEF Lose
  <2> QED
    BY <2>3, <2>6
<1>10. /\ Idle.tx.newUrl = 0 /\ Idle.tx.row = 0 /\ Idle.tx.added = {} /\ Idle.tx.newTags = {}
       /\ Idle.tx.tagLocks = {} /\ Idle.id = 0 /\ Idle.pc = "idle" /\ ~Idle.calm
       /\ Stage(Idle) /\ Holds(Idle)
  BY IdleType, Ended DEF NoTx
<1>11. \A s \in Requests \ {r} :
          /\ req'[s].tx = req[s].tx /\ req'[s].op = req[s].op /\ req'[s].code = req[s].code
          /\ req'[s].aborted = req[s].aborted /\ req'[s].fields = req[s].fields
          /\ req'[s].retag = req[s].retag
          /\ req'[s].pc = req[s].pc /\ req'[s].tid = req[s].tid /\ req'[s].old = req[s].old
          /\ req'[s].tags = req[s].tags /\ req'[s].todo = req[s].todo
  BY <1>8 DEF Similar
<1>12. \A i : i # 0 /\ i # u /\ i \in Range(url) => i \in Range(url')
  BY <1>2, <1>4, <1>6 DEF Range
<1>13. \A i : i \in Range(url') => i = 0 \/ i \in Range(url)
  BY <1>2, <1>6 DEF Range
<1> HIDE DEF q, c, L, u, R
<1>14. TypeOK'
  <2>1. ASSUME NEW l \in links'
        PROVE  l \in (Range(url') \X Range(tag)) \cap Pairs
    <3>1. l \in (Range(url) \X Range(tag)) \cap Pairs /\ l[1] # u
      BY <1>1, <1>2, <2>1 DEF L, LinksOf
    <3>2. l[1] # 0
      BY <3>1, Zero DEF Pairs
    <3> QED
      BY <1>12, <3>1, <3>2
  <2> QED
    BY <1>1, <1>6, <1>9, <2>1 DEF TxInv, TypeOK
<1>15. StageInv'
  <2>1. ASSUME NEW s \in Requests \ {r}
        PROVE  Stage(req'[s]) /\ Holds(req'[s])
    <3>1. CASE req[s].id # u
      BY <1>3, <1>8, <3>1, SimilarRequests
    <3>2. CASE req[s].id = u
      <4>2. req[s].tx.newUrl = 0 /\ req[s].tx.added = {}
        BY <1>3, <1>7, <3>2 DEF Holds
      <4>3. req[s].fields => ~ \/ req[s].pc \in SetTags
                               \/ req[s].pc = "commit" /\ req[s].retag
        BY <1>3, <1>7, <3>2 DEF Holds
      <4>4. req'[s].id = 0
        BY <1>8, <3>2
      <4> QED
        BY <1>3, <1>8, <4>2, <4>3, <4>4, LosesRow
    <3> QED
      BY <3>1, <3>2
  <2> QED
    BY <1>9, <1>10, <2>1 DEF StageInv
<1>16. RowInv'
  <2>1. SUFFICES ASSUME NEW s \in Requests \ {r}, req[s].tx.row # 0
                 PROVE  /\ url'[req[s].code] = req[s].tx.row
                        /\ \A p \in Requests \ {s} : req'[p].tx.row # req[s].tx.row
                        /\ req[s].op = "delete" =>
                             \A p \in Requests : \A l \in req'[p].tx.added :
                                req[s].tx.row # l[1]
    BY <1>9, <1>10, <1>11 DEF RowInv
  <2>2. /\ url[req[s].code] = req[s].tx.row
        /\ \A p \in Requests \ {s} : req[p].tx.row # req[s].tx.row
        /\ req[s].op = "delete" =>
               \A p \in Requests : \A l \in req[p].tx.added : req[s].tx.row # l[1]
    BY <2>1 DEF TxInv, UrlInv, RowInv
  <2>3. req[s].code \in Codes
    BY <1>3 DEF RequestType
  <2> QED
    BY <1>6, <1>7, <1>9, <1>10, <1>11, <2>1, <2>2, <2>3
<1>17. NewInv'
  <2>1. SUFFICES ASSUME NEW s \in Requests \ {r}, req[s].tx.newUrl # 0
                 PROVE  /\ url'[req[s].code] = 0
                        /\ req[s].tx.newUrl \notin Range(url')
                        /\ \A p \in Requests \ {s} : req'[p].tx.newUrl # 0 =>
                              /\ req'[p].tx.newUrl # req[s].tx.newUrl
                              /\ req'[p].code # req[s].code
    BY <1>9, <1>10, <1>11 DEF NewInv
  <2>2. /\ url[req[s].code] = 0
        /\ req[s].tx.newUrl \notin Range(url)
        /\ \A p \in Requests \ {s} : req[p].tx.newUrl # 0 =>
               req[p].tx.newUrl # req[s].tx.newUrl /\ req[p].code # req[s].code
    BY <2>1 DEF TxInv, UrlInv, NewInv
  <2>3. req[s].code \in Codes
    BY <1>3 DEF RequestType
  <2> QED
    BY <1>6, <1>9, <1>10, <1>11, <1>13, <2>1, <2>2, <2>3
<1>18. IdInv'
  <2>1. SUFFICES ASSUME NEW s \in Requests \ {r}, req'[s].id # 0, ~req[s].aborted,
                        req[s].tx.newUrl = 0
                 PROVE  req'[s].id \in Range(url')
    BY <1>9, <1>10, <1>11 DEF IdInv
  <2>2. req'[s].id = req[s].id /\ req[s].id # u
    BY <1>8, <2>1
  <2> QED
    BY <1>12, <2>1, <2>2 DEF TxInv, UrlInv, IdInv
<1>19. TagInv'
  <2>1. UniqueInv'
    BY <1>1 DEF TxInv, TagInv, UniqueInv
  <2>2. NewTagInv'
    <3>1. \A p \in Requests : \A t \in req'[p].tx.newTags : t \in req[p].tx.newTags
      BY <1>9, <1>10, <1>11
    <3>2. NewTagInv
      BY DEF TxInv, TagInv
    <3>3. ASSUME NEW s \in Requests, NEW t \in req'[s].tx.newTags
          PROVE  /\ tag'[t[1]] = 0 /\ t[2] \notin Range(tag')
                 /\ \A p \in Requests : \A y \in req'[p].tx.newTags :
                      t[1] = y[1] \/ t[2] = y[2] => p = s /\ t = y
      <4>1. t \in req[s].tx.newTags
        BY <3>1, <3>3
      <4>2. tag[t[1]] = 0 /\ t[2] \notin Range(tag)
        BY <3>2, <4>1 DEF NewTagInv
      <4>3. \A p \in Requests : \A y \in req'[p].tx.newTags :
               t[1] = y[1] \/ t[2] = y[2] => p = s /\ t = y
        BY <3>1, <3>2, <4>1 DEF NewTagInv
      <4> QED
        BY <1>1, <4>2, <4>3
    <3> QED
      BY <3>3 DEF NewTagInv
  <2>3. TagLockInv'
    <3>1. \A p \in Requests : req'[p].tx.tagLocks \subseteq req[p].tx.tagLocks
      BY <1>9, <1>10, <1>11
    <3>2. \A p \in Requests : req'[p].pc \in {"rename tag", "cascade tag"} =>
             tag[req'[p].old] = req'[p].tid
      BY <1>9, <1>10, <1>11 DEF TxInv, TagInv, TagLockInv
    <3> QED
      BY ZenonT(60), <1>1, <3>1, <3>2 DEF TxInv, TagInv, TagLockInv
  <2> QED
    BY <2>1, <2>2, <2>3 DEF TagInv
<1>20. LinkInv'
  <2>1. ASSUME NEW s \in Requests \ {r}
        PROVE  CalmOK(req[s])'
    <3>1. LinksOf(req[s].id)' \subseteq LinksOf(req[s].id) \ L
      <4>1. ASSUME NEW l \in links', l[1] = req'[s].id
            PROVE  l \in LinksOf(req[s].id) /\ l \notin L
        <5>1. l \in links /\ l \notin L /\ l[1] \in UrlIds
          BY <1>1, <1>2, <4>1 DEF Pairs
        <5>2. req'[s].id = req[s].id
          BY <1>8, <4>1, <5>1, Zero
        <5> QED
          BY <4>1, <5>1, <5>2 DEF LinksOf
      <4> QED
        BY <4>1 DEF LinksOf
    <3>2. CalmOK(req[s])
      BY Known
    <3> QED
      BY <1>8, <1>11, <3>1, <3>2 DEF CalmOK
  <2>2. ASSUME NEW s \in Requests \ {r}
        PROVE  DoneOK(req[s])'
    <3>1. CASE req[s].id # u
      BY <1>1, <1>8, <3>1, OthersDone
    <3>2. CASE req[s].id = u
      <4>1. DoneOK(req[s]) /\ req[s].tx.added = {}
        BY <1>3, <1>7, <3>2, Known DEF Holds
      <4>2. req[s].pc = "link" => HasTag(req[s], Head(req[s].todo), req[s].tid)
        BY <4>1 DEF DoneOK
      <4>3. (req[s].pc = "link" => HasTag(req[s], Head(req[s].todo), req[s].tid))'
        BY <1>1, <1>11, <4>2 DEF HasTag
      <4>4. Sole(req[s]) /\ req[s].pc \in Linking /\ ~req[s].aborted =>
               Range(req[s].tags) \ Range(req[s].todo) = {}
        BY <4>1 DEF DoneOK
      <4>5. Sole(req[s])' <=> Sole(req[s])
        BY <1>8, <1>11 DEF Sole
      <4> QED
        BY <1>11, <4>1, <4>3, <4>4, <4>5 DEF DoneOK
    <3> QED
      BY <3>1, <3>2
  <2>3. CalmOK(req[r])' /\ DoneOK(req[r])'
    BY <1>9, <1>10 DEF CalmOK, DoneOK, Linking
  <2> QED
    BY <2>1, <2>2, <2>3 DEF LinkInv
<1> QED
  BY <1>14, <1>15, <1>16, <1>17, <1>18, <1>19, <1>20 DEF TxInv, UrlInv

\* What the commit of r leaves in tags: its new tags, and all the others.
LEMMA PublishedTags ==
    ASSUME TxInv, NEW r \in Requests, NEW done, Publish(r, done)
    PROVE  /\ tag' \in [Names -> TagIds \cup {0}]
           /\ \A n \in Names : tag[n] # 0 => tag'[n] = tag[n]
           /\ \A t \in req[r].tx.newTags : t[1] \in Names /\ tag'[t[1]] = t[2]
           /\ \A n \in Names : \/ tag'[n] = tag[n]
                               \/ \E t \in req[r].tx.newTags : t[1] = n /\ tag'[n] = t[2]
<1> DEFINE N == req[r].tx.newTags
           own(n) == {t \in N : t[1] = n}
<1>1. /\ N \subseteq Names \X TagIds
      /\ tag \in [Names -> TagIds \cup {0}]
      /\ tag' = [n \in Names |-> IF \E t \in N : t[1] = n
                                 THEN (CHOOSE t \in N : t[1] = n)[2] ELSE tag[n]]
  <2>1. N \subseteq Names \X TagIds
    BY Known DEF TxType
  <2> QED
    BY <2>1 DEF Publish, TxInv, TypeOK
<1>2. ASSUME NEW t \in N
      PROVE  /\ tag[t[1]] = 0 /\ t[1] \in Names /\ t[2] \in TagIds
             /\ \A y \in N : y[1] = t[1] => y = t
  BY <1>1 DEF TxInv, TagInv, NewTagInv
<1>3. ASSUME NEW t \in N
      PROVE  t[1] \in Names /\ tag'[t[1]] = t[2]
  <2>1. (CHOOSE y \in N : y[1] = t[1]) = t
    BY <1>2
  <2> HIDE DEF N
  <2> QED
    BY <1>1, <1>2, <2>1
<1>4. \A n \in Names : \/ tag'[n] = tag[n] /\ ~\E t \in N : t[1] = n
                       \/ \E t \in N : t[1] = n /\ tag'[n] = t[2]
  <2> HIDE DEF N
  <2> QED
    BY <1>1, <1>3
<1>5. tag' \in [Names -> TagIds \cup {0}]
  <2>1. \A n \in Names : tag'[n] \in TagIds \cup {0}
    BY <1>1, <1>2, <1>4
  <2> HIDE DEF N
  <2>2. tag' = [n \in Names |-> tag'[n]]
    BY <1>1
  <2> QED
    BY <2>1, <2>2
<1>6. \A n \in Names : tag[n] # 0 => tag'[n] = tag[n]
  BY <1>2, <1>4
<1> QED
  BY <1>3, <1>4, <1>5, <1>6

\* What it leaves in urls.
LEMMA PublishedUrls ==
    ASSUME TxInv, NEW r \in Requests, NEW done, Publish(r, done)
    PROVE  /\ url' \in [Codes -> UrlIds \cup {0}]
           /\ \A c \in Codes : url[c] # 0 => url'[c] = url[c]
           /\ req[r].tx.newUrl # 0 => url'[req[r].code] = req[r].tx.newUrl
           /\ \A c \in Codes : \/ url'[c] = url[c]
                               \/ req[r].tx.newUrl # 0 /\ c = req[r].code
           /\ \A i : i # 0 /\ i \in Range(url) => i \in Range(url')
           /\ \A i : i \in Range(url') => i \in Range(url) \/ i = req[r].tx.newUrl
<1> DEFINE q == req[r]
<1>1. /\ q.code \in Codes /\ q.tx.newUrl \in UrlIds \cup {0}
      /\ url \in [Codes -> UrlIds \cup {0}]
      /\ url' = [url EXCEPT ![q.code] = IF q.tx.newUrl # 0 THEN q.tx.newUrl ELSE @]
  BY Known DEF RequestType, TxType, Publish, TxInv, TypeOK
<1>2. q.tx.newUrl # 0 => url[q.code] = 0
  BY DEF TxInv, UrlInv, NewInv
<1> HIDE DEF q
<1>3. /\ url' \in [Codes -> UrlIds \cup {0}]
      /\ q.tx.newUrl # 0 => url'[q.code] = q.tx.newUrl
      /\ \A c \in Codes : url'[c] = url[c] \/ (q.tx.newUrl # 0 /\ c = q.code)
  BY <1>1
<1>4. \A c \in Codes : url[c] # 0 => url'[c] = url[c]
  BY <1>2, <1>3
<1>5. \A i : i # 0 /\ i \in Range(url) => i \in Range(url')
  BY <1>1, <1>3, <1>4 DEF Range
<1>6. \A i : i \in Range(url') => i \in Range(url) \/ i = q.tx.newUrl
  BY <1>1, <1>3 DEF Range
<1> QED
  BY <1>3, <1>4, <1>5, <1>6 DEF q

\* What r has added is to rows and tags that are there then.
LEMMA PublishedLinks ==
    ASSUME TxInv, NEW r \in Requests, ~req[r].aborted, NEW done, Publish(r, done)
    PROVE  links' \subseteq (Range(url') \X Range(tag')) \cap Pairs
<1> DEFINE q == req[r]
<1>1. /\ q \in RequestType /\ q.tx \in TxType /\ Holds(q) /\ DoneOK(q)
  BY Known
<1>2. \A n \in Names : tag[n] # 0 => tag'[n] = tag[n]
  BY PublishedTags
<1>3. DOMAIN tag = Names /\ DOMAIN tag' = Names
  BY PublishedTags DEF TxInv, TypeOK
<1>4. ASSUME NEW l \in links
      PROVE  l \in (Range(url') \X Range(tag')) \cap Pairs
  <2>1. l \in (Range(url) \X Range(tag)) \cap Pairs
    BY DEF TxInv, TypeOK
  <2>2. l[1] # 0 /\ l[2] # 0
    BY <2>1, Zero DEF Pairs
  <2>3. l[1] \in Range(url')
    BY <2>1, <2>2, PublishedUrls
  <2>4. l[2] \in Range(tag')
    BY <1>2, <1>3, <2>1, <2>2 DEF Range
  <2> QED
    BY <2>1, <2>3, <2>4
<1>5. ASSUME NEW l \in q.tx.added
      PROVE  l \in (Range(url') \X Range(tag')) \cap Pairs
  <2>1. l \in Pairs /\ l[1] = q.id
    BY <1>1 DEF TxType, Holds
  <2>2. l[1] # 0 /\ l[2] # 0
    BY <2>1, Zero DEF Pairs
  <2>3. l[1] \in Range(url')
    <3>1. CASE q.tx.newUrl = 0
      <4>1. q.id \in Range(url)
        BY <2>1, <2>2, <3>1, KnownIds
      <4> QED
        BY <2>1, <2>2, <4>1, PublishedUrls
    <3>2. CASE q.tx.newUrl # 0
      <4>1. url'[q.code] = q.id /\ q.code \in Codes
        BY <1>1, <3>2, PublishedUrls DEF Holds, RequestType
      <4>2. DOMAIN url' = Codes
        BY PublishedUrls
      <4> QED
        BY <2>1, <4>1, <4>2 DEF Range
    <3> QED
      BY <3>1, <3>2
  <2>4. l[2] \in Range(tag')
    <3>1. PICK n \in Range(q.tags) : HasTag(q, n, l[2])
      BY <1>1 DEF DoneOK
    <3>2. n \in Names
      BY <1>1, RangeOfList DEF RequestType
    <3>3. tag'[n] = l[2]
      <4>1. CASE <<n, l[2]>> \in q.tx.newTags
        BY <4>1, PublishedTags
      <4>2. CASE tag[n] = l[2]
        BY <1>2, <2>2, <3>2, <4>2
      <4> QED
        BY <3>1, <4>1, <4>2 DEF HasTag
    <3> QED
      BY <1>3, <3>2, <3>3 DEF Range
  <2>5. l = <<l[1], l[2]>>
    BY <2>1 DEF Pairs
  <2> QED
    BY <2>1, <2>3, <2>4, <2>5
<1>6. links' = (links \ q.tx.gone) \cup q.tx.added
  BY DEF Publish
<1> QED
  BY <1>4, <1>5, <1>6

\* And the requests.
LEMMA PublishedRequests ==
    ASSUME TxInv, NEW r \in Requests, NEW done \in {Idle, Updated, Answered},
           Publish(r, done)
    PROVE  /\ req' \in [Requests -> RequestType] /\ req'[r] = done
           /\ \A s \in Requests \ {r} :
                 /\ Similar(req'[s], req[s]) /\ req'[s].id = req[s].id
                 /\ req'[s].want = req[s].want \ req[r].tx.gone
                 /\ req'[s].calm =>
                       /\ req[s].calm
                       /\ req[s].id = req[r].id /\ req[r].id # 0 =>
                             req[r].fields /\ req[s].fields
<1> DEFINE q == req[r]
           calm(s) == req[s].calm /\ ~(req[s].id = q.id /\ q.id # 0 /\ ~(q.fields /\ req[s].fields))
           R == [s \in Requests |-> IF s = r THEN done ELSE [req[s] EXCEPT !.calm = calm(s)]]
<1>1. req' = Skip(R, q.tx.gone)
  <2>1. \A s \in Requests : [req[s] EXCEPT !.calm = @ /\ ~(req[s].id = q.id /\ q.id # 0
                                               /\ ~(q.fields /\ req[s].fields))]
                              = [req[s] EXCEPT !.calm = calm(s)]
    BY DEF TxInv, TypeOK, RequestType
  <2> QED
    BY <2>1 DEF Publish
<1>2. ASSUME NEW s \in Requests \ {r}
      PROVE  /\ req'[s] \in RequestType
             /\ Similar(req'[s], req[s]) /\ req'[s].id = req[s].id
             /\ req'[s].want = req[s].want \ q.tx.gone
             /\ req'[s].calm = calm(s)
  <2>1. req'[s] = [[req[s] EXCEPT !.calm = calm(s)] EXCEPT !.want = @ \ q.tx.gone]
    BY <1>1 DEF Skip
  <2>2. req[s] \in RequestType
    BY Known
  <2>3. calm(s) \in BOOLEAN
    BY <2>2 DEF RequestType
  <2> HIDE DEF calm, q
  <2> QED
    BY ZenonT(60), <2>1, <2>2, <2>3 DEF RequestType, Similar
<1>3. req'[r] = done
  <2>1. req'[r] = [done EXCEPT !.want = @ \ q.tx.gone]
    BY <1>1 DEF Skip
  <2> QED
    BY <2>1, Ended
<1>4. req' \in [Requests -> RequestType]
  <2>1. \A s \in Requests : req'[s] \in RequestType
    BY <1>2, <1>3, Ended
  <2> HIDE DEF R
  <2>2. \A s \in Requests : [R[s] EXCEPT !.want = @ \ q.tx.gone] \in RequestType
    BY <1>1, <2>1 DEF Skip
  <2> QED
    BY <1>1, <2>2 DEF Skip
<1> QED
  BY <1>2, <1>3, <1>4

LEMMA PublishStep ==
    ASSUME TxInv, NEW r \in Requests, req[r].pc = "commit", ~req[r].aborted,
           NEW done \in {Idle, Updated, Answered}, Publish(r, done)
    PROVE  TxInv'
<1> DEFINE q == req[r]
<1>1. \A s \in Requests : /\ req[s] \in RequestType /\ req[s].tx \in TxType
                          /\ Stage(req[s]) /\ Holds(req[s])
  BY Known
<1>2. /\ req' \in [Requests -> RequestType] /\ req'[r] = done
      /\ \A s \in Requests \ {r} :
            /\ Similar(req'[s], req[s]) /\ req'[s].id = req[s].id
            /\ req'[s].want = req[s].want \ q.tx.gone
            /\ req'[s].calm =>
                  /\ req[s].calm
                  /\ req[s].id = q.id /\ q.id # 0 => q.fields /\ req[s].fields
  BY PublishedRequests
<1>3. \A s \in Requests \ {r} :
         /\ req'[s].tx = req[s].tx /\ req'[s].op = req[s].op /\ req'[s].code = req[s].code
         /\ req'[s].aborted = req[s].aborted /\ req'[s].fields = req[s].fields
         /\ req'[s].retag = req[s].retag
         /\ req'[s].pc = req[s].pc /\ req'[s].tid = req[s].tid /\ req'[s].old = req[s].old
         /\ req'[s].tags = req[s].tags /\ req'[s].todo = req[s].todo
  BY <1>2 DEF Similar
<1>4. /\ Stage(done) /\ Holds(done) /\ Quiet(done) /\ done \in RequestType
      /\ done.tx.newUrl = 0 /\ done.tx.row = 0
      /\ done.tx.added = {} /\ done.tx.newTags = {} /\ done.tx.tagLocks = {}
      /\ done.aborted \/ done.id = 0
      /\ done.pc \notin {"rename tag", "cascade tag"}
      /\ done.pc \in {"idle", "reread"}
  <2>1. Stage(done) /\ Holds(done) /\ Quiet(done) /\ done \in RequestType
    BY Ended
  <2>2. done.pc \in {"idle", "reread"}
    BY DEF Idle, Updated, Answered
  <2> QED
    BY <2>1, <2>2, QuietHoldsNothing
<1>5. links' = (links \ q.tx.gone) \cup q.tx.added
  BY DEF Publish
<1>6. /\ \A c \in Codes : url[c] # 0 => url'[c] = url[c]
      /\ \A c \in Codes : url'[c] = url[c] \/ (q.tx.newUrl # 0 /\ c = q.code)
      /\ \A i : i # 0 /\ i \in Range(url) => i \in Range(url')
      /\ \A i : i \in Range(url') => i \in Range(url) \/ i = q.tx.newUrl
  BY PublishedUrls
<1>7. /\ tag' \in [Names -> TagIds \cup {0}]
      /\ \A n \in Names : tag[n] # 0 => tag'[n] = tag[n]
      /\ \A n \in Names : \/ tag'[n] = tag[n]
                          \/ \E t \in q.tx.newTags : t[1] = n /\ tag'[n] = t[2]
  BY PublishedTags
<1>8. TypeOK'
  BY <1>2, PublishedTags, PublishedUrls, PublishedLinks DEF TypeOK
<1> HIDE DEF q
<1>9. StageInv'
  <2>1. \A s \in Requests \ {r} : Stage(req'[s]) /\ Holds(req'[s])
    BY <1>1, <1>2, SimilarRequests
  <2> QED
    BY <1>2, <1>4, <2>1 DEF StageInv
<1>10. RowInv'
  <2>1. SUFFICES ASSUME NEW s \in Requests, req'[s].tx.row # 0
                 PROVE  /\ url'[req'[s].code] = req'[s].tx.row
                        /\ \A p \in Requests \ {s} : req'[p].tx.row # req'[s].tx.row
                        /\ req'[s].op = "delete" =>
                             \A p \in Requests : \A l \in req'[p].tx.added :
                                req'[s].tx.row # l[1]
    BY DEF RowInv
  <2>2. s # r /\ req[s].tx.row # 0 /\ req[s].code \in Codes
    BY <1>1, <1>2, <1>3, <1>4, <2>1 DEF RequestType
  <2>3. /\ url[req[s].code] = req[s].tx.row
        /\ \A p \in Requests \ {s} : req[p].tx.row # req[s].tx.row
        /\ req[s].op = "delete" =>
               \A p \in Requests : \A l \in req[p].tx.added : req[s].tx.row # l[1]
    BY <2>2 DEF TxInv, UrlInv, RowInv
  <2>4. /\ req'[s].tx = req[s].tx /\ req'[s].code = req[s].code /\ req'[s].op = req[s].op
        /\ \A p \in Requests : req'[p].tx.row \in {0, req[p].tx.row}
        /\ \A p \in Requests : \A l \in req'[p].tx.added : l \in req[p].tx.added
    BY <1>2, <1>3, <1>4, <2>2
  <2>5. url'[req[s].code] = req[s].tx.row
    BY <1>6, <2>2, <2>3
  <2> QED
    BY <2>2, <2>3, <2>4, <2>5
<1>11. NewInv'
  <2>1. SUFFICES ASSUME NEW s \in Requests, req'[s].tx.newUrl # 0
                 PROVE  /\ url'[req'[s].code] = 0
                        /\ req'[s].tx.newUrl \notin Range(url')
                        /\ \A p \in Requests \ {s} : req'[p].tx.newUrl # 0 =>
                              /\ req'[p].tx.newUrl # req'[s].tx.newUrl
                              /\ req'[p].code # req'[s].code
    BY DEF NewInv
  <2>2. s # r /\ req[s].tx.newUrl # 0 /\ req[s].code \in Codes
    BY ZenonT(30), <1>1, <1>2, <1>3, <1>4, <2>1 DEF RequestType
  <2>3. /\ url[req[s].code] = 0
        /\ req[s].tx.newUrl \notin Range(url)
        /\ \A p \in Requests \ {s} : req[p].tx.newUrl # 0 =>
               req[p].tx.newUrl # req[s].tx.newUrl /\ req[p].code # req[s].code
    BY <2>2 DEF TxInv, UrlInv, NewInv
  <2>4. q.tx.newUrl # 0 => q.tx.newUrl # req[s].tx.newUrl /\ q.code # req[s].code
    BY <2>2, <2>3 DEF q
  <2>5. /\ req'[s].tx = req[s].tx /\ req'[s].code = req[s].code
        /\ \A p \in Requests \ {s} : req'[p].tx.newUrl # 0 =>
              req'[p].tx.newUrl = req[p].tx.newUrl /\ req'[p].code = req[p].code
    BY <1>2, <1>3, <1>4, <2>2
  <2>6. url'[req[s].code] = 0 /\ req[s].tx.newUrl \notin Range(url')
    BY <1>6, <2>2, <2>3, <2>4
  <2> QED
    BY <2>3, <2>5, <2>6
<1>12. IdInv'
  <2>1. SUFFICES ASSUME NEW s \in Requests, req'[s].id # 0, ~req'[s].aborted,
                        req'[s].tx.newUrl = 0
                 PROVE  req'[s].id \in Range(url')
    BY DEF IdInv
  <2>2. s # r
    BY <1>2, <1>4, <2>1
  <2>3. req[s].id \in Range(url)
    BY <1>2, <1>3, <2>1, <2>2, KnownIds
  <2> QED
    BY <1>2, <1>6, <2>1, <2>2, <2>3
\* A new tag of r has another name and another id than the tags of the others.
<1>13. ASSUME NEW t \in q.tx.newTags
       PROVE  /\ t[1] \in Names /\ tag[t[1]] = 0 /\ t[2] \notin Range(tag)
              /\ \A p \in Requests : \A y \in req[p].tx.newTags :
                   t[1] = y[1] \/ t[2] = y[2] => p = r /\ t = y
  BY <1>1 DEF TxInv, TagInv, NewTagInv, TxType, q
<1>14. DOMAIN tag = Names /\ DOMAIN tag' = Names
  BY <1>7 DEF TxInv, TypeOK
<1>15. UniqueInv'
  <2>1. SUFFICES ASSUME NEW n \in Names, NEW m \in Names, tag'[n] = tag'[m], tag'[n] # 0
                 PROVE  n = m
    BY DEF UniqueInv
  <2>2. CASE tag'[n] = tag[n] /\ tag'[m] = tag[m]
    BY <2>1, <2>2 DEF TxInv, TagInv, UniqueInv
  <2>3. ASSUME NEW t \in q.tx.newTags, NEW i \in Names, NEW j \in Names,
               t[1] = i, tag'[i] = t[2], tag'[i] = tag'[j]
        PROVE  i = j
    <3>1. tag'[j] # tag[j]
      <4>1. t[2] \notin Range(tag)
        BY <1>13
      <4>2. tag[j] \in Range(tag)
        BY <1>14 DEF Range
      <4> QED
        BY <2>3, <4>1, <4>2
    <3>2. PICK y \in q.tx.newTags : y[1] = j /\ tag'[j] = y[2]
      BY <1>7, <3>1
    <3>3. t = y
      <4>1. t[2] = y[2]
        BY <2>3, <3>2
      <4>2. y \in req[r].tx.newTags
        BY DEF q
      <4> QED
        BY <1>13, <4>1, <4>2
    <3> QED
      BY <2>3, <3>2, <3>3
  <2> QED
    BY <1>7, <2>1, <2>2, <2>3
<1>16. NewTagInv'
  <2>1. \A p \in Requests : \A y \in req'[p].tx.newTags : p # r /\ y \in req[p].tx.newTags
    BY <1>2, <1>3, <1>4
  <2>2. ASSUME NEW s \in Requests, NEW t \in req'[s].tx.newTags
        PROVE  /\ tag'[t[1]] = 0 /\ t[2] \notin Range(tag')
               /\ \A p \in Requests : \A y \in req'[p].tx.newTags :
                    t[1] = y[1] \/ t[2] = y[2] => p = s /\ t = y
    <3>1. s # r /\ t \in req[s].tx.newTags /\ t[1] \in Names
      BY <1>1, <2>1, <2>2 DEF TxType
    <3>2. /\ tag[t[1]] = 0 /\ t[2] \notin Range(tag)
          /\ \A p \in Requests : \A y \in req[p].tx.newTags :
               t[1] = y[1] \/ t[2] = y[2] => p = s /\ t = y
      BY <3>1 DEF TxInv, TagInv, NewTagInv
    <3>3. \A y \in q.tx.newTags : y[1] # t[1] /\ y[2] # t[2]
      BY <3>1, <3>2 DEF q
    <3>4. tag'[t[1]] = 0
      BY <1>7, <3>1, <3>2, <3>3
    <3>5. t[2] \notin Range(tag')
      <4>1. ASSUME NEW n \in Names
            PROVE  tag'[n] # t[2]
        BY <1>7, <1>14, <3>2, <3>3 DEF Range
      <4> QED
        BY <1>14, <4>1 DEF Range
    <3> QED
      BY <2>1, <3>2, <3>4, <3>5
  <2> QED
    BY <2>2 DEF NewTagInv
<1>17. TagLockInv'
  <2>1. ASSUME NEW s \in Requests \ {r}
        PROVE  /\ req[s].tx.tagLocks \subseteq Range(tag')
               /\ req[s].pc \in {"rename tag", "cascade tag"} => tag'[req[s].old] = req[s].tid
    <3>1. req[s].tx.tagLocks \subseteq Range(tag) /\ 0 \notin req[s].tx.tagLocks
      BY <1>1, Zero DEF TxInv, TagInv, TagLockInv, TxType
    <3>2. req[s].tx.tagLocks \subseteq Range(tag')
      BY <1>7, <1>14, <3>1 DEF Range
    <3>3. req[s].pc \in {"rename tag", "cascade tag"} =>
             /\ req[s].old \in Names /\ tag[req[s].old] = req[s].tid /\ req[s].tid # 0
      BY OwnTag
    <3> QED
      BY <1>7, <3>2, <3>3
  <2>2. ASSUME NEW s \in Requests, NEW p \in Requests \ {s}
        PROVE  req'[p].tx.tagLocks \cap req'[s].tx.tagLocks = {}
    <3>1. req[p].tx.tagLocks \cap req[s].tx.tagLocks = {}
      BY DEF TxInv, TagInv, TagLockInv
    <3> QED
      BY <1>2, <1>3, <1>4, <3>1
  <2>3. ASSUME NEW s \in Requests
        PROVE  /\ req'[s].tx.tagLocks \subseteq Range(tag')
               /\ req'[s].pc \in {"rename tag", "cascade tag"} =>
                    tag'[req'[s].old] = req'[s].tid
    <3>1. CASE s = r
      BY <1>2, <1>4, <3>1
    <3>2. CASE s # r
      <4>1. /\ req'[s].tx = req[s].tx /\ req'[s].pc = req[s].pc
            /\ req'[s].old = req[s].old /\ req'[s].tid = req[s].tid
        BY <1>3, <3>2
      <4> QED
        BY <2>1, <3>2, <4>1
    <3> QED
      BY <3>1, <3>2
  <2> QED
    BY <2>2, <2>3 DEF TagLockInv
<1>18. LinkInv'
  <2>1. ASSUME NEW s \in Requests \ {r}
        PROVE  DoneOK(req[s])'
    <3>1. 0 \notin req[s].tx.tagLocks
      BY <1>1, Zero DEF TxType
    <3> QED
      BY <1>2, <1>7, <3>1, OthersDone
  \* r has added links to the URL of s only if an edit is calm no more.
  <2>2. ASSUME NEW s \in Requests \ {r}, req'[s].calm, req[s].retag,
               \/ req[s].pc = "delete links"
               \/ req[s].pc \in Linking
        PROVE  \A l \in q.tx.added : l[1] # req[s].id
    <3>1. SUFFICES ASSUME NEW l \in q.tx.added, l[1] = req[s].id
                   PROVE  FALSE
      OBVIOUS
    <3>2. l[1] = q.id /\ q.id # 0
      <4>1. /\ req[r].tx.added \subseteq Pairs
            /\ \A k \in req[r].tx.added : k[1] = req[r].id
        BY <1>1 DEF Holds, TxType
      <4>2. l \in Pairs /\ l[1] = q.id
        BY <3>1, <4>1 DEF q
      <4> QED
        BY <4>2, Zero DEF Pairs
    <3>3. q.fields /\ req[s].fields
      BY <1>2, <2>2, <3>1, <3>2
    <3>4. req[s].id = req[s].tx.row
      BY <1>1, <2>2, <3>3 DEF Holds, Linking, SetTags
    <3>5. q.retag
      BY <3>1, RangeOfEmpty, Known DEF DoneOK, Stage, q
    <3>6. q.id = q.tx.row
      BY <1>1, <3>3, <3>5 DEF Holds, q
    <3> QED
      BY <3>1, <3>2, <3>4, <3>6 DEF TxInv, UrlInv, RowInv, q
  <2>3. ASSUME NEW s \in Requests \ {r}
        PROVE  CalmOK(req[s])'
    <3>1. SUFFICES ASSUME req'[s].calm
                   PROVE  /\ req[s].pc = "delete links" =>
                                LinksOf(req[s].id)' \subseteq req'[s].want
                          /\ req[s].pc \in Linking /\ ~req[s].aborted /\ req[s].retag
                                => LinksOf(req[s].id)' \subseteq req[s].tx.gone
      BY <1>3 DEF CalmOK
    <3>2. CalmOK(req[s]) /\ req[s].calm
      BY <1>2, <3>1, Known
    <3>3. req[s].pc = "delete links" => req[s].retag
      BY <1>1 DEF Stage, SetTags
    <3>4. req[s].retag /\ (req[s].pc = "delete links" \/ req[s].pc \in Linking) =>
             LinksOf(req[s].id)' \subseteq LinksOf(req[s].id) \ q.tx.gone
      <4>1. SUFFICES ASSUME req[s].retag,
                            req[s].pc = "delete links" \/ req[s].pc \in Linking,
                            NEW l \in links', l[1] = req[s].id
                     PROVE  l \in links /\ l \notin q.tx.gone
        BY <1>2 DEF LinksOf
      <4>2. \A k \in q.tx.added : k[1] # req[s].id
        BY <2>2, <3>1, <4>1
      <4> QED
        BY <1>5, <4>1, <4>2
    <3> QED
      BY <1>2, <3>2, <3>3, <3>4 DEF CalmOK
  <2>4. CalmOK(req[r])' /\ DoneOK(req[r])'
    BY <1>2, <1>4 DEF CalmOK, DoneOK, Linking
  <2> QED
    BY <2>1, <2>3, <2>4 DEF LinkInv
<1> QED
  BY <1>8, <1>9, <1>10, <1>11, <1>12, <1>15, <1>16, <1>17, <1>18 DEF TxInv, UrlInv, TagInv

-----------------------------------------------------------------------------
(* Every step. *)

LEMMA CommitStep ==
    ASSUME TxInv, NEW r \in Requests, Commit(r)
    PROVE  TxInv'
<1>1. CASE End(r, FALSE) /\ UNCHANGED <<url, tag, links>>
  BY <1>1, Ends
<1>2. CASE ~req[r].aborted /\ Publish(r, IF req[r].op = "edit" THEN Updated ELSE Answered)
  <2>1. (IF req[r].op = "edit" THEN Updated ELSE Answered) \in {Idle, Updated, Answered}
    OBVIOUS
  <2> QED
    BY <1>2, <2>1, PublishStep DEF Commit
<1> QED
  BY <1>1, <1>2 DEF Commit

\* When all requests are idle, as at the start and after a panic.
LEMMA PanicStep ==
    ASSUME TxInv, Panic
    PROVE  TxInv'
<1>1. req' = [r \in Requests |-> Idle] /\ UNCHANGED <<url, tag, links>>
  BY DEF Panic
<1>2. /\ Idle.tx.newUrl = 0 /\ Idle.tx.row = 0 /\ Idle.tx.added = {} /\ Idle.tx.newTags = {}
      /\ Idle.tx.tagLocks = {} /\ Idle.id = 0 /\ Idle.pc = "idle" /\ ~Idle.calm
      /\ Stage(Idle) /\ Holds(Idle) /\ Idle \in RequestType
  BY IdleType, Ended DEF NoTx
<1>3. TypeOK' /\ StageInv'
  BY <1>1, <1>2 DEF TxInv, TypeOK, StageInv
<1>4. UrlInv'
  BY <1>1, <1>2 DEF UrlInv, RowInv, NewInv, IdInv
<1>5. TagInv'
  BY <1>1, <1>2 DEF TxInv, TagInv, UniqueInv, NewTagInv, TagLockInv
<1>6. LinkInv'
  BY <1>1, <1>2 DEF LinkInv, CalmOK, DoneOK, Linking
<1> QED
  BY <1>3, <1>4, <1>5, <1>6 DEF TxInv

LEMMA InitInv == Init => TxInv
<1> SUFFICES ASSUME Init
             PROVE  TxInv
  OBVIOUS
<1>1. /\ req = [r \in Requests |-> Idle] /\ links = {}
      /\ tag = [n \in Names |-> 0] /\ url = [c \in Codes |-> 0]
  BY DEF Init
<1>2. /\ Idle.tx.newUrl = 0 /\ Idle.tx.row = 0 /\ Idle.tx.added = {} /\ Idle.tx.newTags = {}
      /\ Idle.tx.tagLocks = {} /\ Idle.id = 0 /\ Idle.pc = "idle" /\ ~Idle.calm
      /\ Stage(Idle) /\ Holds(Idle) /\ Idle \in RequestType
  BY IdleType, Ended DEF NoTx
<1>3. TypeOK /\ StageInv
  BY <1>1, <1>2 DEF TypeOK, StageInv
<1>4. UrlInv
  BY <1>1, <1>2 DEF UrlInv, RowInv, NewInv, IdInv
<1>5. TagInv
  BY <1>1, <1>2 DEF TagInv, UniqueInv, NewTagInv, TagLockInv
<1>6. LinkInv
  BY <1>1, <1>2 DEF LinkInv, CalmOK, DoneOK, Linking
<1> QED
  BY <1>3, <1>4, <1>5, <1>6 DEF TxInv

LEMMA NextKeeps == TxInv /\ [Next]_vars => TxInv'
<1> SUFFICES ASSUME TxInv, [Next]_vars
             PROVE  TxInv'
  OBVIOUS
<1>1. ASSUME NEW r \in Requests, Post(r)
      PROVE  TxInv'
  BY <1>1, Starts
<1>2. ASSUME NEW r \in Requests, Step(r)
      PROVE  TxInv'
  <2>1. CASE Acquire(r)
    BY <2>1, AcquireStep
  <2>2. CASE InsertURL(r)
    BY <2>2, InsertURLStep
  <2>3. CASE GetExisting(r) \/ Reread(r)
    <3>1. End(r, FALSE) /\ UNCHANGED <<url, tag, links>>
      BY <2>3 DEF GetExisting, Reread
    <3> QED
      BY <3>1, Ends
  <2>4. CASE WriteRow(r) \/ LockRow(r)
    BY <2>4, RowStep
  <2>5. CASE FindURL(r)
    BY <2>5, FindURLStep
  <2>6. CASE FindLinks(r)
    BY <2>6, FindLinksStep
  <2>7. CASE DeleteLinks(r)
    BY <2>7, DeleteLinksStep
  <2>8. CASE UpsertTag(r)
    BY <2>8, UpsertTagStep
  <2>9. CASE LinkTag(r)
    BY <2>9, LinkTagStep
  <2>10. CASE Commit(r)
    BY <2>10, CommitStep
  <2>11. CASE CascadeURL(r)
    BY <2>11, CascadeURLStep
  <2>12. CASE CreateTag(r)
    BY <2>12, CreateTagStep
  <2>13. CASE LockTag(r)
    BY <2>13, LockTagStep
  <2>14. CASE RenameTag(r)
    BY <2>14, RenameTagStep
  <2>15. CASE CascadeTag(r)
    BY <2>15, CascadeTagStep
  <2>16. CASE BreakDeadlock(r)
    BY <2>16, ErrorStep DEF BreakDeadlock
  <2> QED
    BY <1>2, <2>1, <2>2, <2>3, <2>4, <2>5, <2>6, <2>7, <2>8, <2>9, <2>10, <2>11, <2>12,
       <2>13, <2>14, <2>15, <2>16 DEF Step
<1>3. ASSUME NEW r \in Requests, Fail(r)
      PROVE  TxInv'
  BY <1>3, ErrorStep DEF Fail
<1>4. CASE Panic
  BY <1>4, PanicStep
<1>5. CASE UNCHANGED vars
  <2>1. url' = url /\ tag' = tag /\ links' = links /\ req' = req
    BY <1>5 DEF vars
  <2>2. TypeOK' /\ StageInv'
    BY <2>1 DEF TxInv, TypeOK, StageInv
  <2>3. UrlInv'
    <3>1. RowInv'
      BY <2>1 DEF TxInv, UrlInv, RowInv
    <3>2. NewInv'
      BY <2>1 DEF TxInv, UrlInv, NewInv
    <3>3. IdInv'
      BY <2>1 DEF TxInv, UrlInv, IdInv
    <3> QED
      BY <3>1, <3>2, <3>3 DEF UrlInv
  <2>4. TagInv'
    <3>1. UniqueInv'
      BY <2>1 DEF TxInv, TagInv, UniqueInv
    <3>2. NewTagInv'
      BY <2>1 DEF TxInv, TagInv, NewTagInv
    <3>3. TagLockInv'
      BY <2>1 DEF TxInv, TagInv, TagLockInv
    <3> QED
      BY <3>1, <3>2, <3>3 DEF TagInv
  <2>5. LinkInv'
    <3>1. ASSUME NEW r \in Requests
          PROVE  CalmOK(req[r])' /\ DoneOK(req[r])'
      <4>1. CalmOK(req[r]) /\ DoneOK(req[r])
        BY Known
      <4>2. CalmOK(req[r])'
        BY <2>1, <4>1 DEF CalmOK, LinksOf
      <4>3. DoneOK(req[r])'
        BY <2>1, <4>1 DEF DoneOK, HasTag, Sole
      <4> QED
        BY <4>2, <4>3
    <3> QED
      BY <3>1 DEF LinkInv
  <2> QED
    BY <2>2, <2>3, <2>4, <2>5 DEF TxInv
<1> QED
  BY <1>1, <1>2, <1>3, <1>4, <1>5 DEF Next

\* Every variable keeps its type, and every link in url_tags is one of a row of urls and a
\* row of tags, whatever inserts, renames, deletions and rollbacks are under way.
THEOREM TypeCorrect == Spec => []TypeOK
<1>1. TxInv => TypeOK
  BY DEF TxInv
<1> QED
  BY <1>1, InitInv, NextKeeps, PTL DEF Spec

-----------------------------------------------------------------------------
(* What requests answer. *)

\* A step of p leaves where the others are, and what they have answered.
LEMMA OthersStay ==
    ASSUME TxInv, NEW p \in Requests, Post(p) \/ Step(p) \/ Fail(p),
           NEW r \in Requests \ {p}
    PROVE  req'[r].pc = req[r].pc /\ req'[r].stored = req[r].stored
<1>1. req \in [Requests -> RequestType] /\ req[r] \in RequestType
  BY DEF TxInv, TypeOK
<1>2. CASE Post(p)
  BY <1>1, <1>2 DEF Post, PostURL, PatchURL, DeleteURL, PostTag, PatchTag, DeleteTag, Start
<1>3. CASE \/ Acquire(p) \/ InsertURL(p) \/ GetExisting(p) \/ Reread(p) \/ WriteRow(p)
           \/ LockRow(p) \/ FindURL(p)
  BY <1>1, <1>3 DEF Acquire, InsertURL, GetExisting, Reread, WriteRow, LockRow, FindURL, End
<1>4. CASE FindLinks(p) \/ DeleteLinks(p) \/ UpsertTag(p) \/ LinkTag(p)
  BY <1>1, <1>4 DEF FindLinks, DeleteLinks, UpsertTag, LinkTag, End
<1>5. CASE CreateTag(p) \/ LockTag(p) \/ RenameTag(p)
  BY <1>1, <1>5 DEF CreateTag, LockTag, RenameTag, End
<1>6. CASE BreakDeadlock(p) \/ Fail(p)
  BY <1>1, <1>6 DEF BreakDeadlock, Fail, StatementError, End
<1>7. CASE Commit(p)
  <2>1. CASE End(p, FALSE)
    BY <1>1, <2>1 DEF End
  <2>2. CASE Publish(p, IF req[p].op = "edit" THEN Updated ELSE Answered)
    <3>1. (IF req[p].op = "edit" THEN Updated ELSE Answered) \in {Idle, Updated, Answered}
      OBVIOUS
    <3>2. Similar(req'[r], req[r])
      BY <2>2, <3>1, PublishedRequests
    <3> QED
      BY <3>2 DEF Similar
  <2> QED
    BY <1>7, <2>1, <2>2 DEF Commit
<1>8. CASE CascadeTag(p) \/ CascadeURL(p)
  <2>1. \E L : \/ req'[r] = [req[r] EXCEPT !.want = @ \ L]
               \/ \E u : req'[r] = [[req[r] EXCEPT !.want = @ \ L]
                                        EXCEPT !.id = IF @ = u THEN 0 ELSE @]
    BY <1>1, <1>8 DEF CascadeTag, CascadeURL, Skip, Lose
  <2> QED
    BY <1>1, <2>1 DEF RequestType
<1> QED
  BY <1>2, <1>3, <1>4, <1>5, <1>6, <1>7, <1>8 DEF Step

\* A request answers with a record, or goes on after an edit, by a commit of its writes.
LEMMA AnswersCommit ==
    ASSUME TxInv, Next, NEW r \in Requests,
           \/ ~req[r].stored /\ req'[r].stored
           \/ req[r].pc = "commit" /\ req'[r].pc = "reread"
    PROVE  /\ req[r].pc = "commit" /\ ~req[r].aborted
           /\ Publish(r, IF req[r].op = "edit" THEN Updated ELSE Answered)
<1>1. req \in [Requests -> RequestType] /\ req[r] \in RequestType
  BY DEF TxInv, TypeOK
<1>2. ~Idle.stored /\ Idle.pc = "idle"
  BY IdleType
<1>3. ~Panic
  <2>1. Panic => req'[r] = Idle
    BY DEF Panic
  <2> QED
    BY <1>2, <2>1
<1>4. PICK s \in Requests : Post(s) \/ Step(s) \/ Fail(s)
  BY <1>3 DEF Next
<1>5. s = r
  BY <1>4, OthersStay
<1>6. ~Post(r)
  <2>1. ASSUME NEW op, NEW q, Start(r, op, q)
        PROVE  req[r].pc = "idle" /\ req'[r] = [q EXCEPT !.pc = "acquire", !.op = op]
    BY <1>1, <2>1 DEF Start, Busy
  <2>2. ASSUME NEW f \in BOOLEAN, NEW g \in BOOLEAN, NEW c \in Codes, NEW T \in TagLists,
               Start(r, "create", [Idle EXCEPT !.slug = f, !.code = c, !.tags = T, !.retag = g])
        PROVE  FALSE
    <3> DEFINE q == [Idle EXCEPT !.slug = f, !.code = c, !.tags = T, !.retag = g]
    <3>1. [q EXCEPT !.pc = "acquire", !.op = "create"].stored = FALSE
      BY DEF Idle
    <3> HIDE DEF q
    <3>2. Start(r, "create", q)
      BY <2>2 DEF q
    <3> QED
      BY <2>1, <3>1, <3>2
  <2>3. ASSUME NEW f \in BOOLEAN, NEW g \in BOOLEAN, NEW c \in Codes, NEW T \in TagLists,
               Start(r, "edit", [Idle EXCEPT !.code = c, !.tags = T, !.fields = f, !.retag = g])
        PROVE  FALSE
    <3> DEFINE q == [Idle EXCEPT !.code = c, !.tags = T, !.fields = f, !.retag = g]
    <3>1. [q EXCEPT !.pc = "acquire", !.op = "edit"].stored = FALSE
      BY DEF Idle
    <3> HIDE DEF q
    <3>2. Start(r, "edit", q)
      BY <2>3 DEF q
    <3> QED
      BY <2>1, <3>1, <3>2
  <2>4. ASSUME NEW c \in Codes, NEW n \in Names, NEW m \in Names,
               NEW op \in {"delete", "create tag", "rename tag", "delete tag"},
               NEW q \in {[Idle EXCEPT !.code = c], [Idle EXCEPT !.new = n],
                          [Idle EXCEPT !.old = n, !.new = m], [Idle EXCEPT !.old = n]},
               Start(r, op, q)
        PROVE  FALSE
    <3>1. [q EXCEPT !.pc = "acquire", !.op = op].stored = FALSE
      <4>1. CASE q = [Idle EXCEPT !.code = c]
        BY <4>1 DEF Idle
      <4>2. CASE q = [Idle EXCEPT !.new = n]
        BY <4>2 DEF Idle
      <4>3. CASE q = [Idle EXCEPT !.old = n, !.new = m]
        BY <4>3 DEF Idle
      <4>4. CASE q = [Idle EXCEPT !.old = n]
        BY <4>4 DEF Idle
      <4> QED
        BY <2>4, <4>1, <4>2, <4>3, <4>4
    <3> QED
      BY <2>1, <2>4, <3>1
  <2>5. PICK c \in Codes, n \in Names : TRUE
    BY UrlTxAssumption
  <2> QED
    BY <2>2, <2>3, <2>4, <2>5
    DEF Post, PostURL, PatchURL, DeleteURL, PostTag, PatchTag, DeleteTag
<1>7. ~End(r, FALSE)
  <2>1. End(r, FALSE) => req'[r] = [Idle EXCEPT !.stored = FALSE]
    BY <1>1 DEF End
  <2>2. /\ [Idle EXCEPT !.stored = FALSE].stored = FALSE
        /\ [Idle EXCEPT !.stored = FALSE].pc = "idle"
    BY DEF Idle
  <2> QED
    BY <2>1, <2>2
<1>8. ASSUME NEW pc, pc # "reread"
      PROVE  req' # [req EXCEPT ![r] = Aborted(@, pc)]
  <2>1. Aborted(req[r], pc).stored = req[r].stored /\ Aborted(req[r], pc).pc = pc
    BY <1>1 DEF Aborted, RequestType
  <2>2. req' = [req EXCEPT ![r] = Aborted(@, pc)] => req'[r] = Aborted(req[r], pc)
    BY <1>1
  <2> QED
    BY <1>8, <2>1, <2>2
<1>9. ~Fail(r) /\ ~BreakDeadlock(r)
  <2>1. ~StatementError(r)
    BY <1>7, <1>8 DEF StatementError
  <2> QED
    BY <2>1 DEF Fail, BreakDeadlock
\* Other statements keep what was answered.
<1>10. ~Acquire(r) /\ ~FindURL(r) /\ ~FindLinks(r) /\ ~DeleteLinks(r)
  <2>1. ~Acquire(r)
    <3>1. Acquire(r) => req[r].pc = "acquire" /\ (req'[r].stored = req[r].stored)
      BY ZenonT(60), <1>1 DEF Acquire, RequestType
    <3> QED
      BY <1>7, <3>1
  <2>2. ~FindURL(r)
    BY ZenonT(60), <1>1, <1>7 DEF FindURL, RequestType
  <2>3. ~FindLinks(r)
    <3>1. FindLinks(r) =>
             /\ req[r].pc = "find links"
             /\ req'[r] = [req[r] EXCEPT !.want = LinksOf(req[r].id), !.pc = "delete links",
                                         !.calm = TRUE]
      BY <1>1 DEF FindLinks, RequestType
    <3>2. \A L : [req[r] EXCEPT !.want = L, !.pc = "delete links", !.calm = TRUE].stored
                   = req[r].stored
      BY <1>1 DEF RequestType
    <3> QED
      BY <3>1, <3>2
  <2>4. ~DeleteLinks(r)
    <3> DEFINE p == [req[r] EXCEPT !.tx = [@ EXCEPT !.gone = req[r].want], !.want = {},
                                 !.todo = req[r].tags,
                                 !.pc = IF req[r].tags = <<>> THEN "commit" ELSE "tag"]
    <3>1. DeleteLinks(r) => req[r].pc = "delete links" /\ (req'[r] = p)
      BY <1>1 DEF DeleteLinks, MayRun, RequestType
    <3>2. p.stored = req[r].stored
      BY <1>1 DEF RequestType
    <3> HIDE DEF p
    <3> QED
      BY <3>1, <3>2
  <2> QED
    BY <2>1, <2>2, <2>3, <2>4
<1>11. ~InsertURL(r) /\ ~GetExisting(r) /\ ~Reread(r) /\ ~WriteRow(r) /\ ~LockRow(r)
  <2>1. ~InsertURL(r)
    <3>1. SUFFICES ASSUME InsertURL(r)
                   PROVE  FALSE
      OBVIOUS
    <3>2. ~(req' = [req EXCEPT ![r] = Aborted(@, IF @.slug THEN "get existing" ELSE "insert")])
      <4>1. (IF req[r].slug THEN "get existing" ELSE "insert") # "reread"
        OBVIOUS
      <4>2. [req EXCEPT ![r] = Aborted(@, IF @.slug THEN "get existing" ELSE "insert")]
              = [req EXCEPT ![r] = Aborted(@, IF req[r].slug THEN "get existing" ELSE "insert")]
        BY <1>1
      <4> QED
        BY <1>8, <4>1, <4>2
    <3>3. PICK u \in FreshUrl : req' = [req EXCEPT ![r].id = u, ![r].tx.newUrl = u,
                ![r].slug = FALSE,
                ![r].pc = IF req[r].retag THEN "find links" ELSE "commit"]
      BY <1>7, <3>1, <3>2 DEF InsertURL
    <3>4. req'[r].stored = req[r].stored
      BY <1>1, <3>3 DEF RequestType
    <3>5. req[r].pc = "insert"
      BY <3>1 DEF InsertURL, MayRun
    <3> QED
      BY <3>4, <3>5
  <2>2. ~GetExisting(r) /\ ~Reread(r)
    BY <1>7 DEF GetExisting, Reread
  <2>3. ~WriteRow(r)
    BY ZenonT(60), <1>1, <1>7 DEF WriteRow, MayRun, RequestType
  <2>4. ~LockRow(r)
    BY ZenonT(60), <1>1, <1>7 DEF LockRow, MayRun, RequestType
  <2> QED
    BY <2>1, <2>2, <2>3, <2>4
<1>12. ~UpsertTag(r) /\ ~LinkTag(r) /\ ~LockTag(r)
  <2>1. ~UpsertTag(r)
    <3>1. SUFFICES ASSUME UpsertTag(r)
                   PROVE  FALSE
      OBVIOUS
    <3> DEFINE n == Head(req[r].todo)
               p1 == [req[r] EXCEPT !.tid = tag[n], !.pc = "link",
                                    !.tx = [req[r].tx EXCEPT !.tagLocks = @ \cup {tag[n]}]]
               p2(t) == [req[r] EXCEPT !.tid = t[2], !.pc = "link"]
               p3(t) == [req[r] EXCEPT !.tid = t, !.pc = "link",
                                       !.tx = [@ EXCEPT !.newTags = @ \cup {<<n, t>>}]]
    <3>2. \/ req'[r] = p1
          \/ \E t : req'[r] = p2(t)
          \/ \E t : req'[r] = p3(t)
      <4>1. ASSUME req' = [req EXCEPT ![r].tid = tag[n], ![r].pc = "link",
                                      ![r].tx.tagLocks = @ \cup {tag[n]}]
            PROVE  req' = [req EXCEPT ![r] = p1]
        BY <1>1, <4>1 DEF RequestType
      <4>2. ASSUME NEW t, req' = [req EXCEPT ![r].tid = t[2], ![r].pc = "link"]
            PROVE  req' = [req EXCEPT ![r] = p2(t)]
        BY <1>1, <4>2 DEF RequestType
      <4>3. ASSUME NEW t, req' = [req EXCEPT ![r].tid = t, ![r].pc = "link",
                                             ![r].tx.newTags = @ \cup {<<n, t>>}]
            PROVE  req' = [req EXCEPT ![r] = p3(t)]
        BY <1>1, <4>3 DEF RequestType
      <4>4. \/ req' = [req EXCEPT ![r].tid = tag[n], ![r].pc = "link",
                                  ![r].tx.tagLocks = @ \cup {tag[n]}]
            \/ \E t : req' = [req EXCEPT ![r].tid = t[2], ![r].pc = "link"]
            \/ \E t : req' = [req EXCEPT ![r].tid = t, ![r].pc = "link",
                                          ![r].tx.newTags = @ \cup {<<n, t>>}]
        <5> HIDE DEF p1, p2, p3
        <5> QED
          BY <3>1 DEF UpsertTag
      <4> HIDE DEF p1, p2, p3
      <4>5. CASE \E t : req' = [req EXCEPT ![r].tid = t[2], ![r].pc = "link"]
        <5>1. PICK t : req' = [req EXCEPT ![r].tid = t[2], ![r].pc = "link"]
          BY <4>5
        <5>2. req' = [req EXCEPT ![r] = p2(t)]
          BY <4>2, <5>1
        <5> QED
          BY <1>1, <5>2
      <4>6. CASE \E t : req' = [req EXCEPT ![r].tid = t, ![r].pc = "link",
                                          ![r].tx.newTags = @ \cup {<<n, t>>}]
        <5>1. PICK t : req' = [req EXCEPT ![r].tid = t, ![r].pc = "link",
                                          ![r].tx.newTags = @ \cup {<<n, t>>}]
          BY <4>6
        <5>2. req' = [req EXCEPT ![r] = p3(t)]
          BY <4>3, <5>1
        <5> QED
          BY <1>1, <5>2
      <4> QED
        BY <1>1, <4>1, <4>4, <4>5, <4>6
    <3>3. p1.stored = req[r].stored
      BY <1>1 DEF RequestType
    <3>4. ASSUME NEW t
          PROVE  p2(t).stored = req[r].stored /\ p3(t).stored = req[r].stored
      BY <1>1 DEF RequestType
    <3>5. req[r].pc = "tag"
      BY <3>1 DEF UpsertTag, MayRun
    <3> HIDE DEF p1, p2, p3
    <3> QED
      BY <3>2, <3>3, <3>4, <3>5
  <2>2. ~LinkTag(r)
    <3> DEFINE A == IF Linked(r) THEN req[r].tx.added ELSE req[r].tx.added \cup {Link(r)}
               p == [req[r] EXCEPT
                        !.tx = [req[r].tx EXCEPT !.added = A],
                        !.todo = Tail(req[r].todo),
                        !.pc = IF Tail(req[r].todo) = <<>> THEN "commit" ELSE "tag"]
    <3>1. LinkTag(r) => req[r].pc = "link" /\ (req'[r] = p \/ End(r, FALSE))
      <4>1. ASSUME req' = [req EXCEPT
                      ![r].tx.added = IF Linked(r) THEN @ ELSE @ \cup {Link(r)},
                      ![r].todo = Tail(req[r].todo),
                      ![r].pc = IF Tail(req[r].todo) = <<>> THEN "commit" ELSE "tag"]
            PROVE  req' = [req EXCEPT ![r] = p]
        BY <1>1, <4>1 DEF RequestType
      <4> HIDE DEF p
      <4> QED
        BY <1>1, <4>1 DEF LinkTag, MayRun
    <3>2. p.stored = req[r].stored
      BY <1>1 DEF RequestType
    <3> HIDE DEF p
    <3> QED
      BY <1>7, <3>1, <3>2
  <2>3. ~LockTag(r)
    <3> DEFINE p == [req[r] EXCEPT
                        !.tid = tag[req[r].old], !.tx = [@ EXCEPT !.tagLocks = {tag[req[r].old]}],
                        !.pc = IF req[r].op = "rename tag" THEN "rename tag" ELSE "cascade tag"]
    <3>1. LockTag(r) => req[r].pc = "lock tag" /\ (req'[r] = p \/ End(r, FALSE))
      BY <1>1 DEF LockTag, MayRun, RequestType
    <3>2. p.stored = req[r].stored
      BY <1>1 DEF RequestType
    <3> HIDE DEF p
    <3> QED
      BY <1>7, <3>1, <3>2
  <2> QED
    BY <2>1, <2>2, <2>3
<1>13. ~CreateTag(r) /\ ~RenameTag(r)
  <2>1. [Idle EXCEPT !.pc = "reread"].stored = FALSE
    BY DEF Idle
  <2> QED
    BY <1>1, <1>7, <2>1 DEF CreateTag, RenameTag, MayRun
<1>14. ~CascadeURL(r) /\ ~CascadeTag(r)
  <2> DEFINE p1 == [Idle EXCEPT !.want = @ \ LinksTo(req[r].tid)]
             p2 == [[Idle EXCEPT !.want = @ \ LinksOf(req[r].tx.row)]
                       EXCEPT !.id = IF @ = req[r].tx.row THEN 0 ELSE @]
  <2>1. CascadeTag(r) => req[r].pc = "cascade tag" /\ req'[r] = p1
    BY <1>1 DEF CascadeTag, Skip, MayRun
  <2>2. CascadeURL(r) => req[r].pc = "cascade url" /\ req'[r] = p2
    BY ZenonT(60), <1>1 DEF CascadeURL, Skip, Lose, MayRun
  <2>3. ~p1.stored /\ ~p2.stored
    BY DEF Idle
  <2> HIDE DEF p1, p2
  <2> QED
    BY <2>1, <2>2, <2>3
<1> QED
  BY <1>4, <1>5, <1>6, <1>7, <1>9, <1>10, <1>11, <1>12, <1>13, <1>14 DEF Step, Commit

\* The row of urls r has written then has exactly the tags of the list, if nobody else
\* set its tags.
LEMMA PublishedNames ==
    ASSUME TxInv, UniqueInv', NEW r \in Requests, req[r].pc = "commit", ~req[r].aborted,
           NEW done, Publish(r, done),
           req[r].tx.newUrl # 0 \/ (req[r].calm /\ req[r].retag)
    PROVE  NamesOf(req[r].id, tag', links') = Range(req[r].tags)
<1> DEFINE q == req[r]
<1>1. /\ q \in RequestType /\ q.tx \in TxType /\ Stage(q) /\ Holds(q) /\ CalmOK(q)
      /\ DoneOK(q)
  BY Known
<1>2. ASSUME NEW n \in Names, NEW t \in TagIds, HasTag(q, n, t)
      PROVE  tag'[n] = t
  <2>1. CASE <<n, t>> \in q.tx.newTags
    BY <2>1, PublishedTags
  <2>2. CASE tag[n] = t
    BY <2>2, Zero, PublishedTags
  <2> QED
    BY <1>2, <2>1, <2>2 DEF HasTag
<1>3. \A n \in Range(q.tags) : n \in Names
  BY <1>1, RangeOfList DEF RequestType
<1>4. links' = (links \ q.tx.gone) \cup q.tx.added
  BY DEF Publish
<1>5. ASSUME NEW n \in Range(q.tags)
      PROVE  n \in NamesOf(q.id, tag', links')
  <2>1. Range(q.todo) = {}
    <3>1. q.todo = <<>>
      BY <1>1 DEF Stage
    <3> QED
      BY <3>1, RangeOfEmpty
  <2>2. PICK t \in TagIds : HasTag(q, n, t) /\ <<q.id, t>> \in q.tx.added
    BY <1>1, <2>1 DEF DoneOK, Linking, Sole
  <2> QED
    BY <1>2, <1>3, <1>4, <2>2, Zero DEF NamesOf
<1>6. ASSUME NEW n \in NamesOf(q.id, tag', links')
      PROVE  n \in Range(q.tags)
  <2>1. n \in Names /\ tag'[n] # 0 /\ <<q.id, tag'[n]>> \in links'
    BY <1>6 DEF NamesOf
  <2>2. <<q.id, tag'[n]>> \notin links \ q.tx.gone
    <3>1. CASE q.tx.newUrl # 0
      <4>1. q.id \notin Range(url)
        BY <1>1, <3>1 DEF Holds, TxInv, UrlInv, NewInv
      <4> QED
        BY <4>1 DEF TxInv, TypeOK
    <3>2. CASE q.calm /\ q.retag
      <4>1. LinksOf(q.id) \subseteq q.tx.gone
        BY <1>1, <3>2 DEF CalmOK, Linking
      <4> QED
        BY <4>1 DEF LinksOf
    <3> QED
      BY <3>1, <3>2
  <2>3. <<q.id, tag'[n]>> \in q.tx.added
    BY <1>4, <2>1, <2>2
  <2>4. PICK m \in Range(q.tags) : HasTag(q, m, tag'[n])
    BY <1>1, <2>3 DEF DoneOK
  <2>5. tag'[n] \in TagIds
    BY <1>1, <2>3 DEF TxType, Pairs
  <2>6. tag'[m] = tag'[n] /\ m \in Names
    BY <1>2, <1>3, <2>4, <2>5
  <2>7. m = n
    BY <2>1, <2>6 DEF UniqueInv
  <2> QED
    BY <2>7
<1> QED
  BY <1>5, <1>6

\* A create that answers with a record has stored its row and has it linked to exactly its
\* tags: an error of setTags, which is only logged, leaves an aborted transaction, whose
\* commit is an error, and no rename, deletion or other create of the tags comes between.
THEOREM AnswersAreStored == Spec => AnsweredIsStored
<1> DEFINE A == \A r \in Requests : ~req[r].stored /\ req'[r].stored =>
                  /\ req[r].id # 0
                  /\ url'[req[r].code] = req[r].id
                  /\ NamesOf(req[r].id, tag', links') = Range(req[r].tags)
<1>1. TxInv /\ TxInv' /\ [Next]_vars => [A]_vars
  <2> SUFFICES ASSUME TxInv, TxInv', Next, NEW r \in Requests, ~req[r].stored, req'[r].stored
               PROVE  /\ req[r].id # 0
                      /\ url'[req[r].code] = req[r].id
                      /\ NamesOf(req[r].id, tag', links') = Range(req[r].tags)
    OBVIOUS
  <2> DEFINE done == IF req[r].op = "edit" THEN Updated ELSE Answered
  <2>1. req[r].pc = "commit" /\ ~req[r].aborted /\ Publish(r, done)
    BY AnswersCommit
  <2>2. done \in {Idle, Updated, Answered}
    OBVIOUS
  <2>3. req'[r] = done
    BY <2>1, <2>2, PublishedRequests
  <2>4. req[r].op = "create"
    <3>1. ~Updated.stored
      BY DEF Updated, Idle
    <3>2. req[r].op \in {"create", "edit"}
      BY <2>1, Known DEF Stage
    <3> QED
      BY <2>3, <3>1, <3>2
  <2>5. req[r].tx.newUrl # 0 /\ req[r].id = req[r].tx.newUrl
    BY <2>1, <2>4, Known DEF Holds
  <2> HIDE DEF done
  <2>6. url'[req[r].code] = req[r].id
    BY <2>1, <2>5, PublishedUrls
  <2>7. NamesOf(req[r].id, tag', links') = Range(req[r].tags)
    BY <2>1, <2>5, PublishedNames DEF TxInv, TagInv
  <2> QED
    BY <2>5, <2>6, <2>7
<1> QED
  BY <1>1, InitInv, NextKeeps, PTL DEF Spec, AnsweredIsStored

\* An edit that commits leaves its URL with exactly the tags it asks for, unless the commit
\* of another edit of which one did not lock the row came between.
THEOREM EditsSetTheirTags == Spec => TagsAsRequested
<1> DEFINE A == \A r \in Requests :
         req[r].pc = "commit" /\ req[r].retag /\ req[r].calm /\ req'[r].pc = "reread"
             => NamesOf(req[r].id, tag', links') = Range(req[r].tags)
<1>1. TxInv /\ TxInv' /\ [Next]_vars => [A]_vars
  <2> SUFFICES ASSUME TxInv, TxInv', Next, NEW r \in Requests, req[r].pc = "commit",
                      req[r].retag, req[r].calm, req'[r].pc = "reread"
               PROVE  NamesOf(req[r].id, tag', links') = Range(req[r].tags)
    OBVIOUS
  <2> DEFINE done == IF req[r].op = "edit" THEN Updated ELSE Answered
  <2>1. ~req[r].aborted /\ Publish(r, done)
    BY AnswersCommit
  <2> HIDE DEF done
  <2> QED
    BY <2>1, PublishedNames DEF TxInv, TagInv
<1> QED
  BY <1>1, InitInv, NextKeeps, PTL DEF Spec, TagsAsRequested

=============================================================================
